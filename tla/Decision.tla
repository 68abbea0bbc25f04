------------------------------ MODULE Decision ------------------------------
(* What a transition is decided from, before anything of it runs: the server *)
(* asked for, the work there is to do, the rule Zapret needs for the server. *)
EXTENDS ConnectionState

(* --- The chosen server -------------------------------------------------- *)
(* application/server_selection.py: the selected server and the server asked *)
(* for.  `committed` is state.selected_node_id, `target` the pending id.     *)

(* target(): the server the next runtime must serve (target_id).             *)
TargetOf(c, t) == IF t # None THEN t ELSE c
Target      == TargetOf(committed, target)
TargetAfter == TargetOf(committed', target')

(* request(): is a choice of n new?                                          *)
Unchanged(n) == n = Target

(* request() while a session serves: the choice is only a target; choosing   *)
(* the serving server again drops the target.                                *)
RequestServing(n) ==
  /\ target' = IF n = committed THEN None ELSE n
  /\ UNCHANGED committed

(* request() with nothing serving: the choice is the selection at once.      *)
RequestIdle(n) == committed' = n /\ target' = None

(* commit(): refused when another server is the target by now.               *)
Mismatch(n) == target # None /\ target # n

CommitTarget(n)    == committed' = target /\ target' = None

Commit(n)   == committed' = n /\ target' = None

Drop == target' = None /\ UNCHANGED committed

(* settle(): an uncommitted target is dropped; with nothing serving it       *)
(* becomes the selection.                                                    *)
Settle(serving) ==
  /\ target' = None
  /\ committed' = IF target # None /\ ~serving THEN target ELSE committed

(* --- Is there work, and which ------------------------------------------- *)
(* application/transition_engine.py and the controller methods that feed it: *)
(* is there work to do, and which transition does it.                        *)

(* needs_transition, over the state a handler is about to leave behind.      *)
NeedsWith(d, b, c, s, n) ==
  IF d THEN /\ Sig(n) # b
            /\ ~c \/ s = None \/ s.sig # Sig(n)
       ELSE c

Needs == NeedsWith(desired, blocked, connected, session, Target)

(* can_apply_proxy_runtime_change: same server and mode, other proxy setting.*)
CanUpdateProxy(s) ==
  /\ ~s.tun /\ ~tunSetting
  /\ s.sig.node = Target /\ ~s.sig.tun
  /\ s.proxy # proxySetting

CanTunSwap(s)   == s.tun /\ tunSetting

CanProxySwap(s) == ~s.tun /\ ~tunSetting /\ (s.sig.node # Target \/ s.sig.tun)

(* compute_transition_action.                                                *)
Action ==
  CASE ~desired                             -> IF connected THEN "disconnect" ELSE "none"
    [] desired /\ Sig(Target) = blocked     -> "none"
    [] desired /\ Sig(Target) # blocked /\ (~connected \/ session = None) -> "connect"
    [] OTHER ->
         IF session.sig = Sig(Target)       THEN "none"
         ELSE IF CanUpdateProxy(session)    THEN "proxy_update"
         ELSE IF CanTunSwap(session)        THEN "tun_hot_swap"
         ELSE IF CanProxySwap(session)      THEN "proxy_hot_swap"
         ELSE "reconnect"

(* --- Zapret for the server ---------------------------------------------- *)
(* application/server_bypass.py: the Zapret (winws2) rule of the selected    *)
(* server.  A bypassed server needs a rule of its own; a UDP server without  *)
(* bypass gets a "pass" rule while winws2 runs at all, so that the preset    *)
(* spares its packets; a TCP server without bypass is left to the preset.    *)
(* `zap` is the ZapretManager: the rule of its last plan and the state of    *)
(* the process that carries it:                                              *)
(*   off       no plan           starting  pending: the process is not up    *)
(*   on        applied           stale     a plan whose start timed out      *)

Udp(n) == Kind[n] \in {"hysteria", "amnezia"}

(* server_strategy: does the server have a rule when winws2 is in state z?   *)
HasRule(z, n) == n \in Bypassed \/ (Udp(n) /\ z.st # "off")

(* A plan's rules name its server and the other members of the pool the core *)
(* can switch to, when they have a strategy (covers_endpoint).               *)
Covers(r, n) == r # None /\ (n \in Bypassed \/ Udp(n)) /\ (r = n \/ SamePool(r, n))

(* ready_for(): winws2 is in the state this server needs.                    *)
ReadyWith(z, n) ==
  /\ z.st # "starting"
  /\ HasRule(z, n) => z.st = "on" /\ Covers(z.rule, n)
ReadyFor(n) == ReadyWith(zap, n)

(* waiting_for(): the queue is shut until the preparation of g is answered.  *)
WaitingFor(g) == wait.gen # 0 /\ wait.gen = g

(* prepare(): stop a connected tunnel first when its rule must change, then  *)
(* look the server up again.  Always answered later, so the caller waits.    *)
Prepare(g, n) ==
  LET stopFirst == connected /\ ~ReadyFor(n)
  IN  /\ wait' = [gen |-> g, on |-> IF stopFirst THEN "stop" ELSE "dns", node |-> n]
      /\ run' = IF stopFirst THEN NewRun("prestop_dns", g, n) ELSE NoRun

(* Mutant of Applied: any live process passes for the plan.                  *)
AppliedOnce(z, n) == IF z.st \in {"starting", "on"} THEN z
                     ELSE [rule |-> n, st |-> "starting"]

(* ZapretManager.apply(): a plan already running or starting is not repeated.*)
(* A start that timed out left a plan that is neither.                       *)
Applied(z, n) == IF z.rule = n /\ z.st \in {"starting", "on"} THEN z
                 ELSE [rule |-> n, st |-> "starting"]

(* _drop_rule(): winws2 loses a server rule nobody needs; one that carries   *)
(* only the rule is stopped.                                                 *)
RuleDropped(z) == IF z.rule = None THEN z
                  ELSE IF SitesOn THEN Applied(z, None) ELSE ZapOff

(* release(): no session and none wanted.                                    *)
Released(z) == IF wait.gen = 0 /\ z.st # "off" /\ ~SitesOn THEN ZapOff ELSE z
=============================================================================
