---------------------------- MODULE RuntimeSteps ----------------------------
(* The transitions themselves: the generators of connection_service.py,      *)
(* engines/singbox/operations.py and the controller, one action per segment  *)
(* between two yields.  A segment that ends inside the same handler goes to  *)
(* an Inline program point.                                                  *)
EXTENDS HotSwitch

(* What a step of a transition leaves alone.                                 *)
stepFrame == UNCHANGED <<settingVars, queueVars, hotVars, bypassVars, clicks, wish>>

At(pc)        == run.pc = pc
Enter(pc, nothing) == run' = [run EXCEPT !.pc = pc, !.now = nothing]
Goto(pc)      == Enter(pc, FALSE)
ExitTo        == CASE run.act \in Swaps      -> "swap_exit"
                   [] run.act = "reconnect"  -> "reconnect_exit"
                   [] OTHER                  -> "finish"

(* A reconnect that failed waits for the system proxy to be given back.      *)
NothingToGive(ok) == run.act = "reconnect" /\ (ok \/ ~proxySetting)
Exit(ok)      == run' = [run EXCEPT !.pc = ExitTo, !.ok = ok, !.now = NothingToGive(ok)]

Cancelled     == gen # run.plan \/ ~desired       \* request_cancelled()

(* Mutant of Stale: the newest request is not compared.                      *)
Unwanted      == ~desired
Stale         == gen # run.base \/ ~desired       \* a newer request, or a stop

(* Mutant of ProxyOff: the setting is read the wrong way round.              *)
ProxyOffWrongly == sysproxy' = (sysproxy /\ proxySetting)

ProxyOff      == sysproxy' = (sysproxy /\ ~proxySetting)  \* disable, when the setting is on

(* Is there nothing to wait for in a stop of the sidecars that also gives    *)
(* the system proxy back, or in a stop of everything?                        *)
NoSidesToStop(sd, drop) == sd = NoSides /\ ~(drop /\ proxySetting)
NoFrontToSwap == front = None /\ side["hybrid"] = None
NothingToStop == front = None /\ NoSidesToStop(side, ~Reconnecting)

(* handle_unexpected_disconnect: everything is stopped, nothing is wanted.   *)
DisconnectAll ==
  /\ front' = None /\ side' = NoSides /\ connected' = FALSE
  /\ session' = None /\ plan' = None
  /\ desired' = (desired /\ Reconnecting)
  /\ IF Reconnecting THEN UNCHANGED sysproxy ELSE ProxyOff

(* on_core_state_changed after the front or a sidecar went down: f and sd    *)
(* are the processes left.  Losing a connection outside a switch or a        *)
(* disconnect stops the rest.                                                *)
CoreDown(f, sd) ==
  LET up == ConnectedWith(f, sd, session)
  IN  IF connected /\ ~up /\ ~Switching /\ ~Disconnecting
      THEN DisconnectAll
      ELSE /\ front' = f /\ side' = sd /\ connected' = up
           /\ IF ~up /\ ~Switching THEN ProxyOff ELSE UNCHANGED sysproxy
           /\ UNCHANGED <<session, plan, desired>>

(* The front process ends (a step of the transition waited for it); sd are   *)
(* the sidecars left.                                                        *)
FrontEnds(sd) == IF front # None THEN CoreDown(None, sd)
                 ELSE side' = sd /\ UNCHANGED <<front, sysproxy, sessionVars, desired>>

-----------------------------------------------------------------------------
(* The first segment of a transition, in the handler that starts it.         *)
BeginStop ==
  /\ At("begin") /\ run.act \in Prestops \cup {"disconnect", "reconnect", "cleanup"}
  /\ plan' = IF run.act = "cleanup" THEN plan ELSE None
  /\ run' = [run EXCEPT !.pc = "stop", !.now = front = None,
                        !.drop = IF run.act \in Prestops THEN run.drop
                                 ELSE run.act = "disconnect"
                                      \/ (run.act = "cleanup" /\ ~desired)]
  /\ UNCHANGED <<desired, selectionVars, connected, session, processVars, faults>>
  /\ stepFrame

BeginConnect ==
  /\ At("begin") /\ run.act = "connect"
  /\ Goto("connect")
  /\ UNCHANGED <<desired, selectionVars, sessionVars, processVars, faults>>
  /\ stepFrame

BeginProxyUpdate ==
  /\ At("begin") /\ run.act = "proxy_update"
  /\ sysproxy' = proxySetting
  /\ Goto("proxy")
  /\ UNCHANGED <<desired, selectionVars, sessionVars, front, side, faults>>
  /\ stepFrame

(* _replace_runtime_steps up to its first yield.  A native or hybrid         *)
(* replacement goes on to stop the front, a one-server sidecar is brought up *)
(* beside the running connection first.                                      *)
BeginSwap ==
  /\ At("begin") /\ run.act \in Swaps
  /\ \/ /\ run' = [run EXCEPT !.base = gen, !.node = Target, !.old = plan,
                              !.tun = run.act = "tun_hot_swap",
                              !.pc = IF Pooled(Target) THEN "swap_stop" ELSE "candidate",
                              !.now = Pooled(Target) /\ NoFrontToSwap]
        /\ UNCHANGED faults
     \/ /\ Fails("plan")
        /\ run' = [run EXCEPT !.base = gen, !.node = Target, !.ok = FALSE, !.pc = "swap_exit"]
  /\ UNCHANGED <<desired, selectionVars, sessionVars, processVars>>
  /\ stepFrame

Begin == BeginStop \/ BeginConnect \/ BeginProxyUpdate \/ BeginSwap

-----------------------------------------------------------------------------
(* stop_active_connection_processes_steps.                                   *)
StopFront ==
  /\ At("stop")
  /\ FrontEnds(side)
  /\ Enter("stop_sides", NoSidesToStop(side', run.drop /\ run.act \notin Prestops))
  /\ UNCHANGED <<selectionVars, faults>>
  /\ stepFrame

(* The sidecars end, the system proxy is given back, and the operation that  *)
(* asked for the stop goes on.                                               *)
StopSides ==
  /\ At("stop_sides")
  /\ side' = NoSides
  /\ connected' = ConnectedWith(front, NoSides, session)
  /\ IF run.drop /\ run.act \notin Prestops THEN ProxyOff ELSE UNCHANGED sysproxy
  /\ \/ /\ run.act \in Prestops \cup {"disconnect"}
        /\ session' = None /\ Exit(TRUE)
     \/ /\ run.act = "cleanup"
        /\ session' = IF connected' THEN session ELSE None
        /\ Exit(TRUE)
     \/ /\ run.act = "reconnect" /\ run.base = 0
        /\ session' = None /\ Goto("connect")
     \/ /\ run.act = "connect" \/ (run.act = "reconnect" /\ run.base # 0)
        /\ UNCHANGED session /\ Exit(FALSE)
  /\ UNCHANGED <<desired, selectionVars, plan, front, faults>>
  /\ stepFrame

-----------------------------------------------------------------------------
(* connect_selected_steps.  In TUN mode our system proxy is released first.  *)
Connect ==
  /\ At("connect")
  /\ run' = [run EXCEPT !.base = gen, !.node = Target, !.tun = tunSetting, !.tries = 1,
                        !.pc = IF tunSetting THEN "release" ELSE "plan"]
  /\ sysproxy' = (sysproxy /\ ~tunSetting)
  /\ UNCHANGED <<desired, selectionVars, sessionVars, front, side, faults>>
  /\ stepFrame

ProxyReleased ==
  /\ At("release")
  /\ Goto("plan")
  /\ UNCHANGED <<desired, selectionVars, sessionVars, processVars, faults>>
  /\ stepFrame

PlanFails ==
  /\ At("plan") /\ run.act \notin Swaps
  /\ Fails("plan")
  /\ Exit(FALSE)
  /\ UNCHANGED <<desired, selectionVars, sessionVars, processVars>>
  /\ stepFrame

(* _start_singbox_runtime_plan_steps: the fence, then the sidecar unless the *)
(* swap has brought one.                                                     *)
StartPlan ==
  /\ At("plan")
  /\ run' = IF ~desired \/ ~ReadyFor(Target)
            THEN [run EXCEPT !.pc = "started", !.ok = FALSE]
            ELSE [run EXCEPT !.plan = gen, !.tries = 1,
                             !.pc = IF run.cand # None THEN "front" ELSE "sidecar"]
  /\ UNCHANGED <<desired, selectionVars, sessionVars, processVars, faults>>
  /\ stepFrame

Started(ok) == [run EXCEPT !.pc = "started", !.ok = ok, !.now = FALSE]

(* The sidecar came up (or, for a native server, the pool file is written).  *)
(* A request meanwhile or a refused fence takes it down again.               *)
SidecarUp ==
  /\ At("sidecar")
  /\ IF Cancelled \/ ~ReadyFor(Target)
     THEN run' = Started(FALSE) /\ UNCHANGED side
     ELSE /\ Goto("front")
          /\ side' = IF Relayed(run.node) THEN [side EXCEPT ![Kind[run.node]] = run.node]
                                          ELSE side
  /\ UNCHANGED <<desired, selectionVars, sessionVars, front, sysproxy, faults>>
  /\ stepFrame

SidecarFails ==
  /\ At("sidecar") /\ Relayed(run.node)
  /\ Fails("sidecar")
  /\ run' = Started(FALSE)
  /\ UNCHANGED <<desired, selectionVars, sessionVars, processVars>>
  /\ stepFrame

(* A failed start takes the sidecar of the plan down, prepared or not.       *)
UndoneSides == IF Relayed(run.node) /\ run.cand = None
               THEN [side EXCEPT ![Kind[run.node]] = None] ELSE side
Undone      == [Started(FALSE) EXCEPT !.cand = None]

(* The front answers.  It is marked running even when the request is stale   *)
(* by now, and is stopped then.                                              *)
FrontUp ==
  /\ At("front")
  /\ front' = run.node
  /\ connected' = ConnectedWith(run.node, side, session)
  /\ IF Cancelled THEN Goto("front_abort") /\ UNCHANGED plan
     ELSE IF Pooled(run.node) THEN Goto("pin") /\ UNCHANGED plan
     ELSE run' = Started(TRUE) /\ plan' = run.node
  /\ UNCHANGED <<desired, selectionVars, session, side, sysproxy, faults>>
  /\ stepFrame

(* should_continue() stopped the start before the front was up.              *)
FrontGivenUp ==
  /\ At("front") /\ Cancelled
  /\ run' = Undone /\ side' = UndoneSides
  /\ UNCHANGED <<desired, selectionVars, sessionVars, front, sysproxy, faults>>
  /\ stepFrame

(* The front did not come up: one more attempt when the failure allows it.   *)
FrontFails ==
  /\ At("front") /\ ~Cancelled
  /\ Fails("front")
  /\ \/ run.tries = 1 /\ run' = [run EXCEPT !.tries = 2] /\ UNCHANGED side
     \/ run' = Undone /\ side' = UndoneSides
  /\ UNCHANGED <<desired, selectionVars, sessionVars, front, sysproxy>>
  /\ stepFrame

(* The selector is pinned to the server of the plan: the runtime is ready.   *)
Pinned ==
  /\ At("pin")
  /\ IF Cancelled THEN Enter("front_abort", front = None) /\ UNCHANGED plan
                  ELSE run' = Started(TRUE) /\ plan' = run.node
  /\ UNCHANGED <<desired, selectionVars, connected, session, processVars, faults>>
  /\ stepFrame

(* The call is refused, or the process it was sent to has died.             *)
PinFails ==
  /\ At("pin")
  /\ IF front = None THEN UNCHANGED faults ELSE Fails("pin")
  /\ Enter("front_abort", front = None)
  /\ UNCHANGED <<desired, selectionVars, sessionVars, processVars>>
  /\ stepFrame

(* The front is stopped again; the self-heal restarts it once unless the     *)
(* connection is not wanted any more, which the stop itself may decide.      *)
FrontAborted ==
  /\ At("front_abort")
  /\ LET retry == /\ run.tries = 1 /\ ~Cancelled
                  /\ ~(front # None /\ connected /\ ~Switching)
     IN  /\ FrontEnds(IF retry THEN side ELSE UndoneSides)
         /\ run' = IF retry THEN [run EXCEPT !.pc = "front", !.tries = 2, !.now = FALSE] ELSE Undone
  /\ UNCHANGED <<selectionVars, faults>>
  /\ stepFrame

-----------------------------------------------------------------------------
(* The plan is started (or not): what the operation does next.               *)

(* A replacement that is stale or did not start is discarded: the old front  *)
(* comes back if its sidecar still runs (sd), else nothing is left.          *)
CanRollBack(sd) == desired /\ run.old # None /\ (Relayed(run.old) => sd[Kind[run.old]] # None)

(* Mutant of FallBack: the replacement is not stopped before the old front   *)
(* starts.                                                                   *)
FallBackOver(sd, cand) ==
  /\ run' = [run EXCEPT !.ok = FALSE, !.cand = cand, !.pc = "rollback"]
  /\ UNCHANGED <<front, connected, plan>>

FallBack(sd, cand) ==
  IF CanRollBack(sd)
  THEN /\ run' = [run EXCEPT !.ok = FALSE, !.cand = cand, !.pc = "rollback"]
       /\ front' = None /\ connected' = FALSE /\ UNCHANGED plan
  ELSE /\ run' = [run EXCEPT !.ok = FALSE, !.cand = cand, !.pc = "unexpected", !.now = NothingToStop]
       /\ plan' = None /\ UNCHANGED <<front, connected>>

AfterStartConnect ==
  /\ At("started") /\ run.act \notin Swaps
  /\ IF ~run.ok THEN Exit(FALSE) /\ UNCHANGED sysproxy
     ELSE IF run.tun THEN Goto("ready") /\ UNCHANGED sysproxy
     ELSE Goto("proxy") /\ sysproxy' = proxySetting
  /\ UNCHANGED <<desired, selectionVars, sessionVars, front, side, faults>>
  /\ stepFrame

(* A prepared Hysteria sidecar that will not be used is stopped; an AWG one  *)
(* is closed when the operation exits.                                       *)
KeptCandidate == IF run.cand # None /\ Kind[run.cand] = "hysteria" THEN None ELSE run.cand

AfterStartSwapBack ==
  /\ At("started") /\ run.act \in Swaps
  /\ Stale \/ ~run.ok
  /\ FallBack(side, IF Stale THEN KeptCandidate ELSE run.cand)
  /\ UNCHANGED <<desired, selectionVars, session, side, sysproxy, faults>>
  /\ stepFrame

(* _commit_hysteria_replacement_steps, or the stop of an old Hysteria core.  *)
AfterStartSwap ==
  /\ At("started") /\ run.act \in Swaps /\ ~Stale /\ run.ok
  /\ IF Kind[run.node] = "hysteria"
     THEN side' = [side EXCEPT !["hysteria"] = run.node]
     ELSE UNCHANGED side
  /\ run' = [run EXCEPT !.cand = IF Kind[run.node] = "hysteria" THEN None ELSE run.cand,
                        !.pc = "swap_old", !.now = side["hysteria"] = None]
  /\ UNCHANGED <<desired, selectionVars, sessionVars, front, sysproxy, faults>>
  /\ stepFrame

(* The old Hysteria core has ended; proxy mode points Windows at the new     *)
(* front.                                                                    *)
SwapOld ==
  /\ At("swap_old")
  /\ side' = IF Kind[run.node] = "hysteria" THEN side ELSE [side EXCEPT !["hysteria"] = None]
  /\ connected' = IF run.now THEN connected ELSE ConnectedWith(front, side', session)
  /\ IF run.tun THEN Goto("capture") /\ UNCHANGED sysproxy
                ELSE Goto("proxy") /\ sysproxy' = proxySetting
  /\ UNCHANGED <<desired, selectionVars, session, plan, front, faults>>
  /\ stepFrame

(* The system proxy call has returned.                                       *)
ProxyDone ==
  /\ At("proxy")
  /\ CASE run.act \in Swaps         -> Goto("capture") /\ UNCHANGED session
       [] run.act = "proxy_update"  -> /\ Exit(TRUE)
                                       /\ session' = IF connected THEN Capture(committed, FALSE) ELSE session
       [] OTHER                     -> Goto("ready") /\ UNCHANGED session
  /\ UNCHANGED <<desired, selectionVars, connected, plan, processVars, faults>>
  /\ stepFrame

(* Windows refuses it.  A transition takes care of a proxy that cannot be    *)
(* switched on; an update of a live one, of either call.                     *)
ProxyFails ==
  /\ At("proxy") /\ (sysproxy \/ run.act = "proxy_update")
  /\ Fails("proxy")
  /\ sysproxy' = FALSE
  /\ CASE run.act \in Swaps         -> Enter("unexpected", NothingToStop) /\ plan' = None
       [] run.act = "proxy_update"  -> Exit(FALSE) /\ UNCHANGED plan
       [] OTHER                     -> run' = [run EXCEPT !.pc = "stop", !.drop = FALSE, !.now = front = None] /\ UNCHANGED plan
  /\ UNCHANGED <<desired, selectionVars, connected, session, front, side>>
  /\ stepFrame

-----------------------------------------------------------------------------
(* The connected runtime becomes the session (connect_selected_steps 91-135).*)
Ready ==
  /\ At("ready")
  /\ IF Stale
     THEN /\ run' = [run EXCEPT !.pc = "stop", !.drop = ~desired, !.now = front = None]
          /\ UNCHANGED <<session, selectionVars, plan>>
     ELSE /\ session' = Capture(run.node, run.tun)
          /\ IF Mismatch(run.node)
             THEN Enter("unexpected", NothingToStop) /\ plan' = None /\ UNCHANGED selectionVars
             ELSE Exit(TRUE) /\ Commit(run.node) /\ UNCHANGED plan
  /\ UNCHANGED <<desired, connected, processVars, faults>>
  /\ stepFrame

(* Mutant of SwapCapture: the sidecar that was prepared is not taken over.   *)
SwapCaptureAlone ==
  /\ At("capture") /\ ~Stale
  /\ session' = Capture(run.node, run.tun)
  /\ run' = [run EXCEPT !.cand = None, !.pc = "swap_amnezia", !.now = side["amnezia"] = None]
  /\ UNCHANGED <<desired, selectionVars, connected, plan, processVars, faults>>
  /\ stepFrame

(* The last check of a replacement and the capture of its session.           *)
SwapCapture ==
  /\ At("capture")
  /\ IF Stale
     THEN /\ side' = IF Kind[run.node] = "hysteria" THEN [side EXCEPT !["hysteria"] = None] ELSE side
          /\ FallBack(side', run.cand)
          /\ UNCHANGED session
     ELSE /\ session' = Capture(run.node, run.tun)
          /\ IF Kind[run.node] = "amnezia"
             THEN side' = [side EXCEPT !["amnezia"] = run.node]
             ELSE UNCHANGED side
          /\ run' = [run EXCEPT !.cand = None, !.pc = "swap_amnezia", !.now = side["amnezia"] = None]
          /\ UNCHANGED <<plan, front, connected>>
  /\ UNCHANGED <<desired, selectionVars, sysproxy, faults>>
  /\ stepFrame

(* Mutant of SwapAmnezia: the old core is left running.                      *)
SwapAmneziaKept ==
  /\ At("swap_amnezia")
  /\ Goto("commit")
  /\ UNCHANGED <<desired, selectionVars, sessionVars, processVars, faults>>
  /\ stepFrame

(* The old AWG core has ended.                                               *)
SwapAmnezia ==
  /\ At("swap_amnezia")
  /\ side' = IF Kind[run.node] = "amnezia" THEN side ELSE [side EXCEPT !["amnezia"] = None]
  /\ Goto("commit")
  /\ UNCHANGED <<desired, selectionVars, sessionVars, front, sysproxy, faults>>
  /\ stepFrame

SwapCommit ==
  /\ At("commit")
  /\ IF Mismatch(run.node)
     THEN Enter("unexpected", NothingToStop) /\ plan' = None /\ UNCHANGED selectionVars
     ELSE Exit(TRUE) /\ Commit(run.node) /\ UNCHANGED plan
  /\ UNCHANGED <<desired, connected, session, processVars, faults>>
  /\ stepFrame

-----------------------------------------------------------------------------
(* _prepare_*_replacement_steps and the stale check after it.                *)
CandidateUp ==
  /\ At("candidate")
  /\ IF Stale THEN Exit(FALSE)
              ELSE run' = [run EXCEPT !.cand = run.node, !.pc = "swap_stop", !.now = NoFrontToSwap]
  /\ UNCHANGED <<desired, selectionVars, sessionVars, processVars, faults>>
  /\ stepFrame

CandidateFails ==
  /\ At("candidate") /\ Fails("sidecar")
  /\ Exit(FALSE)
  /\ UNCHANGED <<desired, selectionVars, sessionVars, processVars>>
  /\ stepFrame

(* The old front and the old Xray sidecar have ended.                        *)
SwapStop ==
  /\ At("swap_stop")
  /\ front' = None /\ connected' = FALSE
  /\ side' = [side EXCEPT !["hybrid"] = None]
  /\ Goto("swap_stopped")
  /\ UNCHANGED <<desired, selectionVars, session, plan, sysproxy, faults>>
  /\ stepFrame

SwapStopped ==
  /\ At("swap_stopped")
  /\ IF Stale THEN FallBack(side, KeptCandidate)
              ELSE Goto("plan") /\ UNCHANGED <<front, connected, plan>>
  /\ UNCHANGED <<desired, selectionVars, session, side, sysproxy, faults>>
  /\ stepFrame

(* _rollback_singbox_front_steps: the front of the old plan is started and   *)
(* pinned again; there is no request check on the way.                       *)
RolledBack ==
  /\ At("rollback")
  /\ front' = run.old /\ plan' = run.old
  /\ connected' = ConnectedWith(run.old, side, session)
  /\ Exit(FALSE)
  /\ UNCHANGED <<desired, selectionVars, session, side, sysproxy, faults>>
  /\ stepFrame

(* It does not start, or the failure of an AWG core killed it starting.      *)
RollbackFails ==
  /\ At("rollback")
  /\ IF session = None THEN UNCHANGED faults ELSE Fails("front")
  /\ Enter("unexpected", NothingToStop) /\ plan' = None
  /\ UNCHANGED <<desired, selectionVars, connected, session, processVars>>
  /\ stepFrame

(* handle_unexpected_disconnect_steps: the processes have ended.             *)
Unexpected ==
  /\ At("unexpected")
  /\ DisconnectAll
  /\ Exit(FALSE)
  /\ UNCHANGED <<selectionVars, faults>>
  /\ stepFrame

-----------------------------------------------------------------------------
(* The `finally` of _replace_runtime_steps.                                  *)
SwapExit ==
  /\ At("swap_exit")
  /\ run' = [run EXCEPT !.cand = None, !.pc = "finish"]
  /\ IF gen = run.base /\ target = run.node THEN Settle(connected) ELSE UNCHANGED selectionVars
  /\ connected' = ConnectedWith(front, side, session)
  /\ UNCHANGED <<desired, session, plan, processVars, faults>>
  /\ stepFrame

(* The end of reconnect_steps: the proxy of a failed one has been given back.*)
ReconnectExit ==
  /\ At("reconnect_exit")
  /\ Goto("finish")
  /\ sysproxy' = (sysproxy /\ run.now)
  /\ connected' = ConnectedWith(front, side, session)
  /\ UNCHANGED <<desired, selectionVars, session, plan, front, side, faults>>
  /\ stepFrame

InlineStep ==
  \/ Begin \/ Connect \/ PlanFails \/ StartPlan
  \/ AfterStartConnect \/ AfterStartSwapBack \/ AfterStartSwap
  \/ Ready \/ SwapStopped \/ SwapCapture \/ SwapCommit \/ SwapExit
  \/ FinishTransition \/ FinishPrestop

WaitStep ==
  \/ StopFront \/ StopSides \/ ProxyReleased
  \/ SidecarUp \/ SidecarFails \/ FrontUp \/ FrontGivenUp \/ FrontFails
  \/ Pinned \/ PinFails \/ FrontAborted
  \/ ProxyDone \/ ProxyFails
  \/ CandidateUp \/ CandidateFails \/ SwapStop \/ SwapOld \/ SwapAmnezia
  \/ RolledBack \/ RollbackFails \/ Unexpected \/ ReconnectExit
=============================================================================
