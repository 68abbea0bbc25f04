-------------------------- MODULE ConnectionState --------------------------
(* The state of the connection coordinator of Zapret KVN: what AppController *)
(* keeps about the VPN connection, the processes it owns and the work in     *)
(* flight.  Everything runs on the one GUI thread, so a handler is atomic; a *)
(* transition is a generator that lets the event loop run at each `yield`.   *)
(* The modules above this one add the operations, one module per source file.*)
EXTENDS Naturals, FiniteSets

CONSTANTS
  Node,        \* the servers in the list
  None,        \* "no server", "no session", "no signature"
  Kind,        \* [Node -> {"native","hybrid","hysteria","amnezia"}]: what the planner makes of a server
  Bypassed,    \* servers whose kind has the Zapret bypass on
  SitesOn,     \* winws2 also runs a preset for sites (started by the user)
  InitTun,     \* setting tun_mode when the application starts
  Click,       \* which user actions happen in the instance
  Fault,       \* which failures happen in the instance
  MaxClicks,   \* bound: user actions in a behaviour
  MaxFaults    \* bound: failures in a behaviour

Kinds      == {"native", "hybrid", "hysteria", "amnezia"}
SideKinds  == {"hybrid", "hysteria", "amnezia"}
Clicks     == {"toggle", "select", "proxy", "tun"}
Faults     == {"plan", "sidecar", "front", "pin", "proxy", "switch",
               "dns", "zapret", "crash"}

ASSUME ConnectionAssumption ==
  /\ None \notin Node
  /\ Kind \in [Node -> Kinds]
  /\ Bypassed \subseteq Node
  /\ SitesOn \in BOOLEAN
  /\ InitTun \in BOOLEAN
  /\ Click \subseteq Clicks
  /\ Fault \subseteq Faults
  /\ MaxClicks \in Nat
  /\ MaxFaults \in Nat

VARIABLES
  desired,       \* _desired_connected
  tunSetting,    \* settings.tun_mode
  proxySetting,  \* settings.enable_system_proxy
  proxyBefore,   \* settings.system_proxy_before_tun
  committed,     \* state.selected_node_id
  target,        \* ServerSelection._pending_id
  gen,           \* _transition_generation
  prepared,      \* _protection_prepared_generation
  pending,       \* _transition_pending
  scheduled,     \* the drain timer is running
  cleanup,       \* _cleanup_pending
  blocked,       \* _blocked_transition_signature
  run,           \* the transition in flight (NoRun: _transition_active is False)
  connected,     \* controller.connected
  session,       \* _active_session
  plan,          \* _active_singbox_plan: the server it was built for
  front,         \* sing-box: the server its outbound leads to, None when it is down
  side,          \* the sidecar processes: the server each one serves
  sysproxy,      \* the Windows system proxy points at this application
  hot,           \* the hot switch in flight
  hotGen,        \* _hot_switch_generation
  hotPending,    \* _hot_switch_pending
  wait,          \* ServerBypass: the generation waiting for DNS or winws2
  zap,           \* ZapretManager: the rule requested and how far its process is
  clicks,        \* user actions so far
  faults,        \* failures so far
  wish           \* history: the last thing the user asked for

settingVars   == <<tunSetting, proxySetting, proxyBefore>>
selectionVars == <<committed, target>>
queueVars     == <<gen, prepared, pending, scheduled, cleanup, blocked>>
sessionVars   == <<connected, session, plan>>
processVars   == <<front, side, sysproxy>>
hotVars       == <<hot, hotGen, hotPending>>
bypassVars    == <<wait, zap>>
boundVars     == <<clicks, faults, wish>>

vars == <<desired, settingVars, selectionVars, queueVars, run, sessionVars,
          processVars, hotVars, bypassVars, boundVars>>

-----------------------------------------------------------------------------
(* The transition in flight.                                                 *)

Swaps    == {"proxy_hot_swap", "tun_hot_swap"}
Prestops == {"prestop_dns", "prestop_apply"}
Acts     == {"none", "connect", "disconnect", "reconnect", "proxy_update",
             "cleanup"} \cup Swaps \cup Prestops

(* Program points.  At an Inline point the generator (or its runner) is still *)
(* inside the handler that resumed it: nothing else gets the GUI thread.  A   *)
(* step that stops what is down already does not suspend either (run.now).    *)
Inline  == {"begin", "connect", "plan", "started", "ready", "capture",
            "commit", "swap_stopped", "swap_exit", "finish"}
Waiting == {"idle", "release", "sidecar", "front", "front_abort", "pin",
            "proxy", "stop", "stop_sides", "unexpected", "candidate",
            "swap_stop", "rollback", "swap_old", "swap_amnezia",
            "reconnect_exit"}

NoRun == [act |-> "none", pc |-> "idle", gen |-> 0, base |-> 0, plan |-> 0,
          node |-> None, tun |-> FALSE, old |-> None, cand |-> None,
          tries |-> 1, drop |-> FALSE, ok |-> FALSE, now |-> FALSE]

NewRun(act, g, n) == [NoRun EXCEPT !.act = act, !.pc = "begin", !.gen = g, !.node = n]

Active   == run.act # "none"                 \* _transition_active
GuiFree  == run.pc \notin Inline /\ ~run.now
Switching     == run.act \in Swaps \cup {"reconnect"}       \* _switching
Disconnecting == run.act \in Prestops \cup {"disconnect"}   \* _disconnecting
Reconnecting  == run.act = "reconnect"                      \* _reconnecting

-----------------------------------------------------------------------------
(* Facts derived from the state.                                             *)

NoSides == [k \in SideKinds |-> None]

Relayed(n) == Kind[n] \in SideKinds      \* the server is reached through a sidecar

Pooled(n)  == Kind[n] \in {"native", "hybrid"}  \* one core holds the whole pool

SamePool(m, n) == Pooled(m) /\ Kind[m] = Kind[n]

(* _compute_connected_state: the front runs, and so does the sidecar the     *)
(* session relies on.                                                        *)
ConnectedWith(f, sd, s) ==
  /\ f # None
  /\ s # None /\ Relayed(s.node) => sd[Kind[s.node]] # None

(* Processes alive without a connected session.                              *)
ResidualWith(c, f, sd) == ~c /\ (f # None \/ \E k \in SideKinds : sd[k] # None)
Residual == ResidualWith(connected, front, side)

(* The server traffic really leaves through.                                 *)
ServedNode == IF front = None THEN None
              ELSE IF Relayed(front) THEN side[Kind[front]] ELSE front

(* _transition_signature under the current settings; system proxy settings   *)
(* are part of it outside TUN mode only.                                     *)
SigOf(n, tun, proxy) == [node |-> n, tun |-> tun, proxy |-> ~tun /\ proxy]
Sig(n) == SigOf(n, tunSetting, proxySetting)

(* _capture_active_session: the mode is the runtime's, the signature and the *)
(* proxy flag are those of the settings at the moment of the capture.        *)
Capture(n, tun) == [node |-> n, tun |-> tun, proxy |-> proxySetting, sig |-> Sig(n)]

NoWait == [gen |-> 0, on |-> "none", node |-> None]
NoHot  == [node |-> None, hgen |-> 0, tgen |-> 0, pc |-> "idle", prev |-> None,
           tun |-> FALSE, ok |-> FALSE]
ZapOff == [rule |-> None, st |-> "off"]

-----------------------------------------------------------------------------
Signature == [node : Node, tun : BOOLEAN, proxy : BOOLEAN]
Session   == [node : Node, tun : BOOLEAN, proxy : BOOLEAN, sig : Signature]
MaybeNode == Node \cup {None}

(* None is a value of its own.                                              *)
ASSUME NoneAssumption == None \notin Session \cup Signature

RunRecord  == [act : Acts, pc : Inline \cup Waiting, gen : Nat, base : Nat, plan : Nat,
               node : MaybeNode, tun : BOOLEAN, old : MaybeNode, cand : MaybeNode,
               tries : {1, 2}, drop : BOOLEAN, ok : BOOLEAN, now : BOOLEAN]
HotRecord  == [node : MaybeNode, hgen : Nat, tgen : Nat, prev : MaybeNode,
               pc : {"idle", "verify", "core", "relay", "restore"}, tun : BOOLEAN, ok : BOOLEAN]
WaitRecord == [gen : Nat, on : {"none", "stop", "dns", "apply"}, node : MaybeNode]
ZapRecord  == [rule : MaybeNode, st : {"off", "starting", "on", "stale"}]

(* The type of every variable.                                               *)
TypeOK ==
  /\ desired \in BOOLEAN
  /\ tunSetting \in BOOLEAN /\ proxySetting \in BOOLEAN /\ proxyBefore \in BOOLEAN
  /\ committed \in Node /\ target \in MaybeNode
  /\ gen \in Nat /\ prepared \in Nat /\ prepared <= gen
  /\ pending \in BOOLEAN /\ scheduled \in BOOLEAN /\ cleanup \in BOOLEAN
  /\ blocked \in Signature \cup {None}
  /\ run \in RunRecord
  /\ connected \in BOOLEAN /\ session \in Session \cup {None} /\ plan \in MaybeNode
  /\ front \in MaybeNode /\ side \in [SideKinds -> MaybeNode] /\ sysproxy \in BOOLEAN
  /\ hot \in HotRecord /\ hotGen \in Nat /\ hotPending \in BOOLEAN
  /\ wait \in WaitRecord /\ zap \in ZapRecord
  /\ clicks \in 0..MaxClicks /\ faults \in 0..MaxFaults
  /\ wish \in [on : BOOLEAN, node : Node]

(* Start of the application: nothing runs, a saved selection, winws2 already *)
(* up on the preset when the user keeps it on for sites.                     *)
Init ==
  /\ desired = FALSE
  /\ tunSetting = InitTun /\ proxySetting = ~InitTun /\ proxyBefore = TRUE
  /\ committed \in Node /\ target = None
  /\ gen = 0 /\ prepared = 0 /\ pending = FALSE /\ scheduled = FALSE
  /\ cleanup = FALSE /\ blocked = None
  /\ run = NoRun
  /\ connected = FALSE /\ session = None /\ plan = None
  /\ front = None /\ side = NoSides /\ sysproxy = FALSE
  /\ hot = NoHot /\ hotGen = 0 /\ hotPending = FALSE
  /\ wait = NoWait
  /\ zap = IF SitesOn THEN [rule |-> None, st |-> "on"] ELSE ZapOff
  /\ clicks = 0 /\ faults = 0
  /\ wish = [on |-> FALSE, node |-> committed]

(* One more failure of the given sort, within the bound.                     *)
Fails(f) == f \in Fault /\ faults < MaxFaults /\ faults' = faults + 1
=============================================================================
