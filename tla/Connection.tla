----------------------------- MODULE Connection -----------------------------
(* The VPN connection of Zapret KVN: the user's actions, the failures, and   *)
(* everything the program does about them.                                   *)
EXTENDS RuntimeSteps

serverVars == <<front, side, faults, hot, hotGen, hotPending>>

Clicked(c) == c \in Click /\ GuiFree /\ clicks < MaxClicks /\ clicks' = clicks + 1

userFrame == UNCHANGED <<cleanup, sessionVars, sysproxy, zap>>

(* toggle_connection: the opposite of what is wanted, or, when nothing is    *)
(* under way, of what is.                                                    *)
Toggle ==
  /\ Clicked("toggle")
  /\ desired' = ~(IF Active \/ pending THEN desired ELSE connected)
  /\ IF desired' THEN UNCHANGED selectionVars ELSE Drop
  /\ wish' = [on |-> desired', node |-> TargetAfter]
  /\ Request(FALSE)
  /\ UNCHANGED <<settingVars, serverVars>>
  /\ userFrame

(* set_selected_node: a server is chosen.                                    *)
Serving == connected /\ session # None

SelectServing(n) ==
  /\ Clicked("select") /\ ~Unchanged(n) /\ Serving
  /\ RequestServing(n)
  /\ desired' = TRUE
  /\ wish' = [on |-> TRUE, node |-> n]
  /\ IF n # committed /\ Precheck(session, n)
     THEN TryHot(n) /\ UNCHANGED <<blocked, pending, gen, prepared, scheduled, wait, run>>
     ELSE Request(FALSE) /\ UNCHANGED serverVars
  /\ UNCHANGED settingVars
  /\ userFrame

SelectIdle(n) ==
  /\ Clicked("select") /\ ~Unchanged(n) /\ ~Serving
  /\ RequestIdle(n)
  /\ wish' = [wish EXCEPT !.node = n]
  /\ UNCHANGED desired
  /\ IF desired THEN Request(FALSE)
                ELSE UNCHANGED <<blocked, pending, gen, prepared, scheduled, wait, run>>
  /\ UNCHANGED <<settingVars, serverVars>>
  /\ userFrame

(* update_settings: a changed setting is applied to a live connection, or to *)
(* one that is wanted.                                                       *)
ApplySettings ==
  /\ UNCHANGED <<selectionVars, serverVars>>
  /\ IF connected \/ desired THEN Request(FALSE)
     ELSE UNCHANGED <<blocked, pending, gen, prepared, scheduled, wait, run>>
  /\ userFrame

(* The switch of the system proxy is dead in TUN mode.                       *)
ChangeProxy ==
  /\ Clicked("proxy") /\ ~tunSetting
  /\ proxySetting' = ~proxySetting
  /\ UNCHANGED <<desired, tunSetting, proxyBefore, wish>>
  /\ ApplySettings

(* set_tun_mode: TUN switches the system proxy off and remembers the choice. *)
ChangeTun ==
  /\ Clicked("tun")
  /\ tunSetting' = ~tunSetting
  /\ proxySetting' = IF tunSetting THEN proxyBefore ELSE FALSE
  /\ proxyBefore' = IF tunSetting THEN proxyBefore ELSE proxySetting
  /\ desired' = (desired \/ connected)
  /\ wish' = [wish EXCEPT !.on = wish.on \/ desired']
  /\ ApplySettings

User == Toggle \/ ChangeProxy \/ ChangeTun
        \/ \E n \in Node : SelectServing(n) \/ SelectIdle(n)

-----------------------------------------------------------------------------
crashFrame == UNCHANGED <<settingVars, selectionVars, queueVars, hotVars, bypassVars,
                          run, clicks, wish>>

(* sing-box dies.                                                            *)
FrontCrash ==
  /\ GuiFree /\ front # None
  /\ Fails("crash")
  /\ CoreDown(None, side)
  /\ crashFrame

(* The Xray sidecar of a hybrid server dies.                                 *)
XrayCrash ==
  /\ GuiFree /\ side["hybrid"] # None
  /\ Fails("crash")
  /\ CoreDown(front, [side EXCEPT !["hybrid"] = None])
  /\ crashFrame

(* The AWG sidecar dies: _on_amnezia_failure closes the session it serves.   *)
AmneziaCrash ==
  /\ GuiFree /\ side["amnezia"] # None
  /\ session # None /\ Kind[session.node] = "amnezia"
  /\ Fails("crash")
  /\ front' = None /\ side' = NoSides /\ connected' = FALSE
  /\ session' = None /\ plan' = None /\ desired' = FALSE
  /\ IF Reconnecting THEN UNCHANGED sysproxy ELSE ProxyOff
  /\ crashFrame

Crash == FrontCrash \/ XrayCrash \/ AmneziaCrash

-----------------------------------------------------------------------------
Bypass == \/ LookupStep \/ LookupFailed \/ LookupProtected(TRUE)
          \/ ZapStarted \/ ZapGone \/ ZapTimeout \/ ZapLate

(* The application may rest once nothing is scheduled or in flight.          *)
Quiet == ~Active /\ ~scheduled /\ ~(wait.on = "dns") /\ hot = NoHot /\ zap.st # "starting"

Next == User \/ Crash \/ Drain \/ InlineStep \/ WaitStep \/ HotStep \/ Bypass

Spec == Init /\ [][Next]_vars

(* Timers fire, processes and workers answer: every wait of the program has  *)
(* a deadline.  Users and failures owe nothing.                              *)
Fairness ==
  /\ WF_vars(Drain) /\ WF_vars(InlineStep) /\ WF_vars(WaitStep)
  /\ WF_vars(LookupStep) /\ WF_vars(ZapStarted) /\ WF_vars(HotStep)

FairSpec == Spec /\ Fairness

(* --- What must hold ----------------------------------------------------- *)
(* What the connection coordinator promises, over Connection.                *)

Serves  == connected /\ session # None
AtRest  == Quiet /\ ~pending

-----------------------------------------------------------------------------
(* The selection.                                                            *)

(* While a session serves, the committed selection moves only to the server  *)
(* of the session (ServerSelection.commit, server_selection.py 13-16): never *)
(* by a click, by a failed transition or by the end of a stale one.          *)
CommitOnlyServing ==
  [][Serves /\ committed' # committed => session' # None /\ committed' = session'.node]_vars

(* At rest the selection saved and shown is the server of the session.       *)
SelectionServes == Quiet /\ Serves => committed = session.node

(* At rest no choice is left hanging: it was committed, or dropped (settle). *)
NoHangingChoice == AtRest => target = None

-----------------------------------------------------------------------------
(* The transition queue.                                                     *)

(* A runtime becomes the session only for the server asked for last, and     *)
(* only while the user wants to be connected: every check between the start  *)
(* of a transition and its capture lets no superseded one through.           *)
SessionIsLatestWish ==
  [][session' # session /\ session' # None /\ run.act # "proxy_update"
       => wish.on /\ session'.node = wish.node]_vars

(* At rest a wanted connection is up, with the server and the settings       *)
(* wanted last; only a configuration that failed may be left undone.         *)
WantedIsServed ==
  AtRest /\ desired =>
    /\ connected /\ session # None
    /\ \/ blocked = Sig(Target)
       \/ session.sig = Sig(Target) /\ session.node = Target /\ session.tun = tunSetting

(* The last click is carried out: on, with the server chosen last, or off.   *)
LatestIntent ==
  AtRest => /\ desired = wish.on
            /\ wish.on => connected /\ session # None /\ session.node = wish.node

(* Where a session serves, it is the one of the server chosen last.          *)
ChosenServer == AtRest /\ Serves => session.node = wish.node

(* At rest no core is left running without a connection, and no sidecar but  *)
(* the one the session relies on.                                            *)
NoLeftovers ==
  AtRest => /\ ~connected => front = None /\ side = NoSides
            /\ Serves => \A k \in SideKinds : side[k] # None => k = Kind[session.node]

(* The program never comes to rest with work left: whatever was asked for    *)
(* has an event under way that will take it up.                              *)
NothingForgotten == Quiet => ~Needs

(* At rest traffic leaves through the server the session names.              *)
TrafficIsSession == Quiet /\ Serves => ServedNode = session.node

(* A core or a sidecar is never started over a live one: the old process has *)
(* ended before the new one is up.  A hot switch re-points a live one.       *)
OneProcess ==
  [][ /\ front # None /\ front' # None /\ front' # front => hot' # hot
      /\ \A k \in SideKinds : side[k] # None /\ side'[k] # None /\ side'[k] # side[k]
                                => hot' # hot \/ run.cand = side'[k] ]_vars

-----------------------------------------------------------------------------
(* The system proxy.                                                         *)

(* At rest a wanted session is in the mode of the settings, and Windows is   *)
(* pointed at it exactly when the proxy setting says so; only a              *)
(* configuration that failed may be left undone.                             *)
SettingsApplied ==
  AtRest /\ desired /\ Serves =>
    \/ blocked = Sig(Target)
    \/ session.tun = tunSetting /\ sysproxy = (~tunSetting /\ proxySetting)

(* At rest without a connection Windows is not left with a dead proxy.       *)
ProxyGivenBack == AtRest /\ ~connected => ~sysproxy

-----------------------------------------------------------------------------
(* The Zapret rule of the server.                                            *)

(* A tunnel to a bypassed server that is wanted is covered by a live rule:   *)
(* it is stopped before its rule is changed (prepare, _on_resolved).         *)
Protected == connected /\ desired /\ ServedNode \in Bypassed => ReadyFor(ServedNode)

-----------------------------------------------------------------------------
(* Progress.                                                                 *)

(* Every transition ends.                                                    *)
TransitionEnds == Active ~> ~Active

(* Every preparation of a server is answered: applied, or cancelled.         *)
WaitAnswered == wait.on # "none" ~> wait.on = "none"

(* The program comes to rest again and again: no cycle of retries.           *)
Settles == []<>Quiet

(* A wanted connection comes up, or is given up with its reason: the program *)
(* never stays on "connecting".                                              *)
IntentAnswered == desired ~> (connected \/ ~desired)

(* At rest what was chosen, what is saved and what serves are one server.    *)
ServedAsChosen == ChosenServer /\ SelectionServes /\ WantedIsServed

(* A session begins with the latest wish and the selection moves only with   *)
(* it.                                                                       *)
SessionMoves == SessionIsLatestWish /\ CommitOnlyServing

(* The session names the server, the mode and the proxy that are in effect.  *)
SessionIsReal == TrafficIsSession /\ SettingsApplied

(* A failure leaves neither a choice that was never served nor a dead proxy. *)
FailureUndone == NoHangingChoice /\ ProxyGivenBack

(* Transitions, preparations and wishes are answered.                        *)
Answered == TransitionEnds /\ WaitAnswered /\ IntentAnswered
=============================================================================
