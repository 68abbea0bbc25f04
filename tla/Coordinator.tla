---------------------------- MODULE Coordinator ----------------------------
(* The transition queue of application/controller.py: requests, the kick     *)
(* that prepares the server's rule once per generation, the drain timer and  *)
(* the end of a transition.                                                  *)
EXTENDS Decision

(* _kick_transition for generation g, called with no transition in flight;   *)
(* w is the bypass wait left by the caller, which has already set desired'   *)
(* and the selection.                                                        *)
Kick(g, w) ==
  IF desired' /\ prepared # g
  THEN /\ prepared' = g /\ scheduled' = FALSE
       /\ Prepare(g, TargetAfter)
  ELSE /\ prepared' = prepared /\ run' = NoRun /\ wait' = w
       /\ scheduled' = (scheduled \/ w.gen = 0 \/ w.gen # g)

(* _request_transition: a new generation; a transition in flight sees that   *)
(* it is stale at its next check and the queue goes on after it.             *)
Request(keepBlocked) ==
  /\ blocked' = IF keepBlocked THEN blocked ELSE None
  /\ pending' = TRUE
  /\ gen' = gen + 1
  /\ IF Active THEN wait' = NoWait /\ UNCHANGED <<prepared, scheduled, run>>
               ELSE Kick(gen + 1, NoWait)

(* Mutant of ScheduleDrain: called before the wait is cleared.               *)
ScheduleEarly(w) == scheduled' = (scheduled \/ (~Active /\ ~WaitingFor(gen)))

(* _schedule_transition_drain, with the wait w the caller leaves.            *)
ScheduleDrain(w) == scheduled' = (scheduled \/ (~Active /\ (w.gen = 0 \/ w.gen # gen)))

-----------------------------------------------------------------------------
(* _resolve_idle_pending_selection: nothing to run for a pending target.     *)
ResolveIdle ==
  IF target # None /\ connected /\ session # None /\ session.sig = Sig(target)
  THEN Commit(target) ELSE Settle(connected)

StartRun(act) == run' = NewRun(act, gen, None)

(* _drain_transition_queue: the drain timer fires.                           *)
Drain ==
  /\ scheduled /\ GuiFree
  /\ scheduled' = FALSE
  /\ UNCHANGED <<desired, settingVars, gen, prepared, blocked, sessionVars,
                 processVars, hotVars, bypassVars, boundVars>>
  /\ \/ /\ Active \/ WaitingFor(gen)
        /\ UNCHANGED <<pending, cleanup, run, selectionVars>>
     \/ /\ ~Active /\ ~WaitingFor(gen) /\ (cleanup \/ Residual)
        /\ cleanup' = FALSE /\ StartRun("cleanup")
        /\ UNCHANGED <<pending, selectionVars>>
     \/ /\ ~Active /\ ~WaitingFor(gen) /\ ~cleanup /\ ~Residual
        /\ pending' = FALSE
        /\ UNCHANGED cleanup
        /\ IF Action = "none" THEN ResolveIdle /\ UNCHANGED run
                              ELSE StartRun(Action) /\ UNCHANGED selectionVars

-----------------------------------------------------------------------------
(* Mutant of Superseded: only a withdrawn intent supersedes.                 *)
SupersededOff == run.gen # gen /\ ~desired

Superseded == run.gen # gen

(* After a transition: the queue goes on, or the rule of a session nobody    *)
(* wants any more is released.                                               *)
GoOn ==
  IF \/ pending \/ cleanup'
     \/ NeedsWith(desired', blocked', connected, session', TargetAfter)
  THEN Kick(gen, wait) /\ UNCHANGED zap
  ELSE /\ zap' = IF ~connected /\ ~desired' THEN Released(zap) ELSE zap
       /\ run' = NoRun /\ UNCHANGED <<prepared, scheduled, wait>>

OutcomeRetried == blocked' = None /\ UNCHANGED desired

(* A failure gives the connection up, and the configuration is not tried     *)
(* again, unless a newer request came meanwhile.                             *)
Outcome ==
  IF run.act = "cleanup" \/ Superseded THEN UNCHANGED <<blocked, desired>>
  ELSE IF run.ok THEN blocked' = None /\ UNCHANGED desired
  ELSE blocked' = Sig(Target) /\ desired' = connected

Finished == run.pc = "finish" /\ run.act \notin Prestops

(* _on_transition_runner_finished with _reconcile_cancelled_transition.      *)
FinishTransition ==
  /\ Finished
  /\ Outcome
  /\ session' = IF Superseded /\ ~connected THEN None ELSE session
  /\ cleanup' = (cleanup \/ Residual)
  /\ IF Superseded THEN UNCHANGED selectionVars ELSE Settle(connected)
  /\ GoOn
  /\ UNCHANGED <<settingVars, gen, pending, connected, plan, processVars, hotVars,
                 boundVars>>

(* _on_prestop_finished: the tunnel is down, the preparation continues with  *)
(* the lookup or with the new rule, unless a newer request came meanwhile.   *)
FinishPrestop ==
  /\ run.pc = "finish" /\ run.act \in Prestops
  /\ UNCHANGED <<settingVars, selectionVars, gen, pending, cleanup, blocked, sessionVars,
                 processVars, hotVars, boundVars>>
  /\ IF Superseded
     THEN UNCHANGED <<desired, zap>> /\ Kick(gen, wait)
     ELSE /\ desired' = TRUE
          /\ run' = NoRun
          /\ UNCHANGED prepared
          /\ IF run.act = "prestop_dns"
             THEN /\ wait' = [gen |-> gen, on |-> "dns", node |-> run.node]
                  /\ UNCHANGED <<zap, scheduled>>
             ELSE /\ zap' = IF run.drop THEN [rule |-> run.node, st |-> "starting"]
                                        ELSE Applied(zap, run.node)
                  /\ wait' = IF zap'.st = "on" THEN NoWait
                             ELSE [gen |-> gen, on |-> "apply", node |-> run.node]
                  /\ scheduled' = (scheduled \/ zap'.st = "on")

-----------------------------------------------------------------------------
(* The answers ServerBypass waits for, and the ones nobody waits for: the    *)
(* endpoint lookup and the outcomes of the winws2 process.                   *)

(* _answers_wait: is the transition waiting for the outcome of winws2?       *)
AnswersWait == wait.on = "apply" /\ wait.gen = gen

Protects(n) == n \in Bypassed     \* required(): the VPN must not run without the rule

(* _on_zapret_stopped: fail closed.  A session that needs winws2 is stopped. *)
ZapStopped ==
  IF connected /\ Protects(committed)
  THEN desired' = FALSE /\ Request(TRUE)
  ELSE UNCHANGED <<desired, blocked, pending, gen, prepared, scheduled, wait, run>>

(* _cancel_target_transition.                                                *)
CancelTarget ==
  /\ Settle(connected)
  /\ desired' = connected
  /\ blocked' = Sig(TargetAfter)
  /\ pending' = FALSE
  /\ wait' = NoWait
  /\ UNCHANGED <<gen, prepared, scheduled, run>>

(* _fail: winws2 did not confirm the rule the transition waits for.          *)
FailWait ==
  /\ desired' = FALSE
  /\ IF connected \/ Residual
     THEN /\ blocked' = Sig(Target) /\ pending' = TRUE /\ gen' = gen + 1
          /\ IF Active THEN wait' = NoWait /\ UNCHANGED <<prepared, scheduled, run>>
                       ELSE Kick(gen + 1, NoWait)
     ELSE /\ blocked' = Sig(Target) /\ pending' = FALSE /\ wait' = NoWait
          /\ UNCHANGED <<gen, prepared, scheduled, run>>

-----------------------------------------------------------------------------
LookupAnswers == wait.on = "dns" /\ wait.gen = gen /\ GuiFree

(* _on_resolved, the answer nobody can use: the connection is no longer      *)
(* wanted or another server is the target by now.                            *)
LookupObsolete ==
  /\ LookupAnswers
  /\ ~desired \/ Target # wait.node
  /\ wait' = NoWait
  /\ UNCHANGED <<desired, settingVars, selectionVars, queueVars, run, sessionVars,
                 processVars, hotVars, zap, boundVars>>

(* _on_resolved with an error: only a rule that matters cancels the attempt. *)
LookupFailed ==
  /\ LookupAnswers /\ desired /\ Target = wait.node
  /\ Fails("dns")
  /\ IF Protects(wait.node) \/ zap.st # "off"
     THEN CancelTarget
     ELSE /\ wait' = NoWait /\ ScheduleDrain(NoWait)
          /\ UNCHANGED <<desired, selectionVars, blocked, pending, gen, prepared, run>>
  /\ UNCHANGED <<settingVars, cleanup, sessionVars, processVars, hotVars, zap, clicks, wish>>

(* _on_resolved for a server without a rule of its own: the old rule is      *)
(* dropped and the queue goes on.                                            *)
LookupUnprotected ==
  /\ LookupAnswers /\ desired /\ Target = wait.node
  /\ ~HasRule(zap, wait.node)
  /\ zap' = RuleDropped(zap)
  /\ UNCHANGED <<settingVars, selectionVars, cleanup, sessionVars, processVars,
                 hotVars, boundVars>>
  /\ IF zap.st # "off" /\ zap' = ZapOff /\ connected /\ Protects(committed)
     THEN desired' = FALSE /\ Request(TRUE)
     ELSE /\ wait' = NoWait /\ ScheduleDrain(NoWait)
          /\ UNCHANGED <<desired, blocked, pending, gen, prepared, run>>

(* _apply: winws2 gets a new rule, the tunnel being stopped first; `moved`   *)
(* makes it restart on a rule of the same name.                              *)
NewRule(moved) == IF moved THEN [rule |-> wait.node, st |-> "starting"]
                           ELSE Applied(zap, wait.node)

(* Mutant of Renew: the tunnel is left up.                                   *)
RenewAtOnce(moved) ==
  /\ zap' = NewRule(moved) /\ wait' = [wait EXCEPT !.on = "apply"]
  /\ UNCHANGED run

Renew(moved) ==
  \/ /\ connected
     /\ run' = [NewRun("prestop_apply", gen, wait.node) EXCEPT !.drop = moved]
     /\ wait' = [wait EXCEPT !.on = "stop"]
     /\ UNCHANGED zap
  \/ /\ ~connected
     /\ zap' = NewRule(moved) /\ wait' = [wait EXCEPT !.on = "apply"]
     /\ UNCHANGED run

(* _on_resolved for a server with a rule: the running rule already covers    *)
(* it, or it is renewed.  `moved`: the lookup returned an address outside    *)
(* the running rule.                                                         *)
LookupProtected(moved) ==
  /\ LookupAnswers /\ desired /\ Target = wait.node
  /\ HasRule(zap, wait.node)
  /\ UNCHANGED <<desired, settingVars, selectionVars, gen, prepared, pending, cleanup,
                 blocked, sessionVars, processVars, hotVars, clicks, wish>>
  /\ LET covered == zap.st = "on" /\ Covers(zap.rule, wait.node)
     IN  \/ /\ covered /\ ~moved
            /\ wait' = NoWait /\ ScheduleDrain(NoWait)
            /\ UNCHANGED <<run, zap, faults>>
         \/ /\ covered /\ moved /\ Fails("dns")
            /\ Renew(moved) /\ UNCHANGED scheduled
         \/ /\ ~covered /\ ~moved
            /\ Renew(moved) /\ UNCHANGED <<scheduled, faults>>

-----------------------------------------------------------------------------
(* _on_plan_applied: the process of the pending plan is up.                  *)
ZapStarted ==
  /\ zap.st = "starting" /\ GuiFree
  /\ zap' = [zap EXCEPT !.st = "on"]
  /\ UNCHANGED <<settingVars, selectionVars, cleanup, sessionVars, processVars,
                 hotVars, boundVars>>
  /\ \/ /\ ~AnswersWait
        /\ UNCHANGED <<desired, blocked, pending, gen, prepared, scheduled, wait, run>>
     \/ /\ AnswersWait /\ ~desired
        /\ wait' = NoWait
        /\ UNCHANGED <<desired, blocked, pending, gen, prepared, scheduled, run>>
     \/ /\ AnswersWait /\ desired /\ ReadyWith(zap', Target)
        /\ wait' = NoWait /\ ScheduleDrain(NoWait)
        /\ UNCHANGED <<desired, blocked, pending, gen, prepared, run>>
     \/ /\ AnswersWait /\ desired /\ ~ReadyWith(zap', Target)
        /\ FailWait

(* _fail of the manager: the start failed, or the running process died.      *)
ZapGone ==
  /\ zap.st \in {"starting", "on"} /\ GuiFree
  /\ Fails("zapret")
  /\ zap' = ZapOff
  /\ UNCHANGED <<settingVars, selectionVars, cleanup, sessionVars, processVars,
                 hotVars, clicks, wish>>
  /\ IF zap.st = "starting" /\ AnswersWait THEN FailWait ELSE ZapStopped

(* _on_apply_timeout: no process after the time limit; the plan stays.       *)
ZapTimeout ==
  /\ zap.st = "starting" /\ GuiFree
  /\ Fails("zapret")
  /\ zap' = [zap EXCEPT !.st = "stale"]
  /\ UNCHANGED <<settingVars, selectionVars, cleanup, sessionVars, processVars,
                 hotVars, clicks, wish>>
  /\ IF AnswersWait THEN FailWait ELSE ZapStopped

(* _on_started of a plan given up by the timeout: it simply runs.            *)
ZapLate ==
  /\ zap.st = "stale" /\ GuiFree
  /\ zap' = [zap EXCEPT !.st = "on"]
  /\ UNCHANGED <<desired, settingVars, selectionVars, queueVars, run, sessionVars,
                 processVars, hotVars, wait, boundVars>>

LookupStep == LookupObsolete \/ LookupUnprotected \/ LookupProtected(FALSE)
=============================================================================
