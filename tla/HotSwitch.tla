----------------------------- MODULE HotSwitch -----------------------------
(* Switching servers inside the pool of the running core: no process is      *)
(* restarted, a control-plane call re-points the outbound.  A second runner, *)
(* beside the transition queue; at most one call is in flight.               *)
EXTENDS Coordinator

(* _hot_switch_precheck, against the session the handler leaves.             *)
Precheck(s, n) ==
  /\ ~Active /\ s # None /\ connected
  /\ SamePool(s.node, n)
  /\ Kind[n] = "native" => ~s.tun
  /\ ReadyFor(n)

(* A control-plane call: it either takes effect in the core (a native core   *)
(* selects in the front, a hybrid one in the Xray sidecar) or is refused.    *)
CoreSelects(n) == IF Kind[n] = "hybrid"
                  THEN side' = [side EXCEPT !["hybrid"] = n] /\ UNCHANGED front
                  ELSE front' = n /\ UNCHANGED side

CallCore(h) ==
  \/ hot' = [h EXCEPT !.pc = "core", !.ok = TRUE] /\ CoreSelects(h.node) /\ UNCHANGED faults
  \/ hot' = [h EXCEPT !.pc = "core", !.ok = FALSE] /\ Fails("switch") /\ UNCHANGED <<front, side>>

(* verify_switch_target_steps: the rule of another pool member has to be     *)
(* checked against a fresh lookup.                                           *)
NeedsVerify(n) == HasRule(zap, n) /\ zap.rule # n

(* _start_hot_switch_runner: the first step starts in the same handler.      *)
StartHot(s, n) ==
  LET begun == [node |-> n, hgen |-> hotGen', tgen |-> gen, pc |-> "verify",
                prev |-> s.node, tun |-> s.tun, ok |-> FALSE]
  IN IF NeedsVerify(n) THEN hot' = begun /\ UNCHANGED <<front, side, faults>>
                       ELSE CallCore(begun)

(* _try_hot_switch_selected_node, once the precheck has passed.              *)
TryHot(n) ==
  /\ hotGen' = hotGen + 1
  /\ IF hot # NoHot THEN hotPending' = TRUE /\ UNCHANGED <<hot, front, side, faults>>
                    ELSE UNCHANGED hotPending /\ StartHot(session, n)

-----------------------------------------------------------------------------
(* is_current: checked before every resume of the runner.                    *)
HotCurrent == hot.hgen = hotGen /\ hot.tgen = gen /\ connected

queueUntouched == UNCHANGED <<blocked, pending, gen, prepared, scheduled, wait, run>>

(* _dispatch_hot_switch_request: the switch that waited for this one.  s is  *)
(* the session this runner leaves.                                           *)
Dispatch(s) ==
  LET n == TargetAfter
  IN  IF ~connected \/ ~desired \/ (s # None /\ s.node = n)
      THEN hot' = NoHot /\ UNCHANGED <<hotGen, front, side, faults>> /\ queueUntouched
      ELSE IF Precheck(s, n)
      THEN hotGen' = hotGen + 1 /\ StartHot(s, n) /\ queueUntouched
      ELSE hot' = NoHot /\ UNCHANGED <<hotGen, front, side, faults>> /\ Request(FALSE)

EndHot(s) ==
  /\ hotPending' = FALSE
  /\ IF hotPending THEN Dispatch(s)
     ELSE hot' = NoHot /\ UNCHANGED <<hotGen, front, side, faults>> /\ queueUntouched

hotFrame == UNCHANGED <<desired, settingVars, cleanup, connected, plan, sysproxy, zap, clicks, wish>>

(* The runner is stale: its generator is closed and the result dropped.      *)
HotStale ==
  /\ hotFrame
  /\ hot # NoHot /\ GuiFree /\ ~HotCurrent
  /\ UNCHANGED <<session, selectionVars>> /\ EndHot(session)

(* The lookup proves that the running rule covers the target, or sends the   *)
(* switch to the queue.                                                      *)
HotVerified ==
  /\ hotFrame
  /\ hot.pc = "verify" /\ GuiFree /\ HotCurrent
  /\ UNCHANGED <<session, selectionVars>>
  /\ \/ /\ zap.st = "on" /\ Covers(zap.rule, hot.node)
        /\ CallCore(hot)
        /\ UNCHANGED <<hotGen, hotPending>> /\ queueUntouched
     \/ /\ IF zap.st = "on" /\ Covers(zap.rule, hot.node) THEN Fails("dns")
                                                          ELSE UNCHANGED faults
        /\ hot' = NoHot /\ hotPending' = FALSE /\ Request(FALSE)
        /\ UNCHANGED <<hotGen, front, side>>

(* The switch failed: the hybrid core is pointed back, then the full         *)
(* transition takes over.                                                    *)
HotFailed ==
  /\ hotFrame
  /\ GuiFree /\ HotCurrent
  /\ \/ hot.pc = "core" /\ ~hot.ok
     \/ hot.pc = "restore"
  /\ UNCHANGED <<session, selectionVars, hotGen, front, side, faults>>
  /\ hot' = NoHot /\ hotPending' = FALSE /\ Request(FALSE)

(* The Xray core has switched; the front is cut over to the other relay so   *)
(* that connections of the old server end.                                   *)
HotRelay ==
  /\ hotFrame
  /\ hot.pc = "core" /\ hot.ok /\ Kind[hot.node] = "hybrid" /\ GuiFree /\ HotCurrent
  /\ \/ hot' = [hot EXCEPT !.pc = "relay"] /\ UNCHANGED faults
     \/ hot' = [hot EXCEPT !.pc = "relay", !.ok = FALSE] /\ Fails("switch")
  /\ UNCHANGED <<session, selectionVars, hotGen, hotPending, front, side>> /\ queueUntouched

HotRestore ==
  /\ hotFrame
  /\ hot.pc = "relay" /\ ~hot.ok /\ GuiFree /\ HotCurrent
  /\ hot' = [hot EXCEPT !.pc = "restore"]
  /\ CoreSelects(hot.prev)
  /\ UNCHANGED <<session, selectionVars, hotGen, hotPending, faults>> /\ queueUntouched

(* _capture_hot_switched_session: the core has accepted; session, selection  *)
(* and status follow.  The refusal of commit() is not looked at.             *)
HotDone ==
  /\ hotFrame
  /\ GuiFree /\ HotCurrent /\ hot.ok
  /\ hot.pc = IF Kind[hot.node] = "hybrid" THEN "relay" ELSE "core"
  /\ session' = Capture(hot.node, hot.tun)
  /\ IF Mismatch(hot.node) THEN UNCHANGED selectionVars ELSE Commit(hot.node)
  /\ EndHot(session')

HotStep == \/ HotStale \/ HotVerified \/ HotFailed \/ HotRelay \/ HotRestore \/ HotDone
=============================================================================
