------------------------------ MODULE XrayPool ------------------------------
(* The Xray sidecar and its pool (engines/xray/manager.py and the sidecar    *)
(* part of _start_singbox_runtime_plan_steps in application/controller.py):  *)
(* one core is started with every server it can carry, so one server it will *)
(* not take would stop them all.  It is cut out and the start tried again.   *)
EXTENDS Naturals, FiniteSets

CONSTANTS
  Member,       \* servers of the Xray core
  Nobody,       \* no server
  Retries,      \* MAX_POOL_PRUNE_RETRIES
  MaxVersions,  \* bound: outbounds of a server
  MaxLaunches,  \* bound: starts and hot switches
  MaxMishaps    \* bound: failures

ASSUME PoolAssumption ==
  /\ IsFiniteSet(Member) /\ Nobody \notin Member
  /\ {Retries, MaxLaunches, MaxMishaps} \subseteq Nat /\ MaxVersions \in Nat \ {0}

VARIABLES
  made,      \* node.outbound of each server: which one and whether the core takes it
  banned,    \* _xray_pool_quarantine: the outbound that was refused, 0 for none
  refused,   \* rejected_outbound_tags: what the core stopped at in the last start
  alone,     \* _xray_single_node_pool
  xproc,     \* the process is alive
  xmgr,      \* the manager's flags: running, a start failure was noted, an end was told
  launch,    \* the start under way
  served,   \* the server in use, the pool of its session, what the balancer is pinned to
  errors,    \* errors shown since the start began
  fruitless, \* history: starts the core refused for servers other than the chosen one
  launches, mishaps

poolVars == <<made, banned, refused, alone, xproc, xmgr, launch, served, errors, fruitless,
              launches, mishaps>>

Steps  == {"idle", "stop", "ports", "spawn", "wait", "listens", "over", "up", "select", "clear", "drop"}
Closed == [at |-> Nobody, pool |-> {}, pin |-> Nobody]
NoLaunch   == [pc |-> "idle", chosen |-> Nobody, conf |-> {}, tags |-> {}, tries |-> 0,
           held |-> FALSE, single |-> FALSE, stuck |-> FALSE, ok |-> TRUE]

PoolInit ==
  /\ made \in [Member -> [id : {1}, takes : BOOLEAN]]
  /\ banned = [m \in Member |-> 0] /\ refused = {} /\ alone = FALSE
  /\ xproc = FALSE /\ xmgr = [running |-> FALSE, noted |-> FALSE, told |-> FALSE]
  /\ launch = NoLaunch /\ served = Closed
  /\ errors = 0 /\ fruitless = 0 /\ launches = 0 /\ mishaps = 0

Mishap == mishaps < MaxMishaps /\ mishaps' = mishaps + 1
Well   == UNCHANGED mishaps
LaunchCore == launches < MaxLaunches /\ launches' = launches + 1

-----------------------------------------------------------------------------
(* _xray_pool_quarantine_reasons: a server whose outbound was replaced is    *)
(* given another chance.                                                     *)
Reasons == {m \in Member : banned[m] = made[m].id}
Looked  == [m \in Member |-> IF m \in Reasons THEN banned[m] ELSE 0]

(* _pool_candidate_nodes: without the refused ones, but always with the one  *)
(* chosen, so that a refusal of it is told.                                  *)
Pool(c) == IF alone THEN {c} ELSE (Member \ Reasons) \cup {c}

Banned == [m \in Member |-> IF m \in refused \cap launch.tags THEN made[m].id ELSE banned[m]]

(* A subscription replaces the outbound of a server.                         *)
Replaced(m, takes) ==
  /\ launch.pc = "idle" /\ made[m].id < MaxVersions
  /\ made' = [made EXCEPT ![m] = [id |-> @.id + 1, takes |-> takes]]
  /\ fruitless' = 0
  /\ UNCHANGED <<banned, refused, alone, xproc, xmgr, launch, served, errors, launches, mishaps>>

-----------------------------------------------------------------------------
(* A transition to the server c: the plan is made, then start_steps.         *)
Planned(c) == [NoLaunch EXCEPT !.pc = "stop", !.chosen = c, !.conf = Pool(c), !.tags = Pool(c)]

Connects(c) ==
  /\ launch.pc = "idle" /\ LaunchCore
  /\ banned' = Looked /\ launch' = Planned(c)
  /\ served' = Closed /\ errors' = 0
  /\ UNCHANGED <<made, refused, alone, xproc, xmgr, fruitless, mishaps>>

(* stop_steps: the end of the process is awaited, so that the handler of its *)
(* end has run; or the process stays, and that is told.                      *)
Stops(then, otherwise) ==
  \/ /\ xproc' = FALSE /\ xmgr' = [xmgr EXCEPT !.running = FALSE]
     /\ launch' = then /\ UNCHANGED errors /\ Well
  \/ /\ xproc /\ Mishap /\ launch' = [otherwise EXCEPT !.stuck = TRUE]
     /\ errors' = errors + 1 /\ UNCHANGED <<xproc, xmgr>>

StopsOld ==
  /\ launch.pc = "stop"
  /\ Stops([launch EXCEPT !.pc = "ports"], [launch EXCEPT !.pc = "over"])
  /\ UNCHANGED <<made, banned, refused, alone, served, fruitless, launches>>

(* _ensure_ports_available_steps: a left-over xray.exe is killed, another    *)
(* owner of a port ends the start.                                           *)
ChecksPorts ==
  /\ launch.pc = "ports"
  /\ \/ /\ launch' = [launch EXCEPT !.pc = "spawn", !.tries = 0]
        /\ refused' = {} /\ UNCHANGED errors /\ Well
     \/ /\ launch' = [launch EXCEPT !.pc = "over"]
        /\ errors' = errors + 1 /\ Mishap /\ UNCHANGED refused
  /\ UNCHANGED <<made, banned, alone, xproc, xmgr, served, fruitless, launches>>

(* _report_startup_failure: held while the failure may still be made good.   *)
Holds(g, l) == /\ xmgr' = [g EXCEPT !.noted = TRUE]
               /\ launch' = IF g.noted THEN l ELSE [l EXCEPT !.held = TRUE]

(* Mutant of Unnoted: the failure of the try before is not forgotten.        *)
UnnotedNot == [xmgr EXCEPT !.told = FALSE]

Unnoted == [xmgr EXCEPT !.noted = FALSE, !.told = FALSE]

Spawns ==
  /\ launch.pc = "spawn"
  /\ \/ /\ xproc' = TRUE /\ xmgr' = Unnoted
        /\ launch' = [launch EXCEPT !.pc = "wait"] /\ Well
     \/ /\ Mishap /\ UNCHANGED xproc
        /\ Holds(Unnoted, [launch EXCEPT !.pc = "over"])
  /\ UNCHANGED <<made, banned, refused, alone, served, errors, fruitless, launches>>

Refusable == {m \in launch.conf : ~made[m].takes}

(* The core reads its configuration: it stops at a server it cannot build,   *)
(* else opens its ports.  It may also end by itself or never listen.         *)
CoreQuits ==
  /\ launch.pc \in {"wait", "listens"} /\ xproc
  /\ IF Refusable # {} THEN Well ELSE Mishap
  /\ xproc' = FALSE
  /\ Holds([xmgr EXCEPT !.running = FALSE], launch)
  /\ UNCHANGED <<made, banned, refused, alone, served, errors, fruitless, launches>>

Listens ==
  /\ launch.pc = "wait" /\ xproc /\ Refusable = {}
  /\ launch' = [launch EXCEPT !.pc = "listens"]
  /\ UNCHANGED <<made, banned, refused, alone, xproc, xmgr, served, errors, fruitless, launches>> /\ Well

TriesLeft == launch.tries < Retries
Pruned(m) == [launch EXCEPT !.pc = "spawn", !.conf = @ \ {m}, !.tries = @ + 1, !.held = FALSE]

(* The failed wait, and what is made of the last lines of the core: the      *)
(* server it stopped at is cut out while tries are left.                     *)
NoticesEnd ==
  /\ launch.pc = "wait" /\ ~xproc
  /\ IF Refusable = {}
       THEN launch' = [launch EXCEPT !.pc = "over"] /\ UNCHANGED refused
       ELSE \E m \in Refusable :
              /\ refused' = refused \cup {m}
              /\ launch' = IF TriesLeft THEN Pruned(m) ELSE [launch EXCEPT !.pc = "over"]
  /\ UNCHANGED <<made, banned, alone, xproc, xmgr, served, errors, fruitless, launches>> /\ Well

(* Five seconds without the ports: the core is stopped, or cannot be.        *)
NeverListens ==
  /\ launch.pc = "wait" /\ xproc /\ Refusable = {} /\ Mishap
  /\ xproc' = FALSE
  /\ Holds([xmgr EXCEPT !.running = FALSE], [launch EXCEPT !.pc = "over"])
  /\ UNCHANGED <<made, banned, refused, alone, served, errors, fruitless, launches>>

(* _mark_running: the ports answered. The process may have ended since.      *)
MarksRunning ==
  /\ launch.pc = "listens"
  /\ xmgr' = [xmgr EXCEPT !.running = TRUE]
  /\ launch' = [launch EXCEPT !.pc = "up", !.held = FALSE]
  /\ UNCHANGED <<made, banned, refused, alone, xproc, served, errors, fruitless, launches>> /\ Well

(* _startup_failed: the held error is shown, and the caller bans what was    *)
(* refused, except after the fallback.                                       *)
OutOfTries == refused \cap launch.conf # {} /\ launch.chosen \notin refused

SwapOver ==
  /\ launch.pc = "over"
  /\ errors' = errors + (IF launch.held THEN 1 ELSE 0)
  /\ IF launch.single
       THEN /\ launch' = [launch EXCEPT !.pc = "drop", !.held = FALSE]
            /\ UNCHANGED <<banned, fruitless>>
       ELSE /\ launch' = [launch EXCEPT !.pc = "idle", !.ok = FALSE, !.held = FALSE]
            /\ banned' = Banned
            /\ fruitless' = IF launch.tries = Retries /\ OutOfTries THEN fruitless + 1 ELSE fruitless
  /\ UNCHANGED <<made, refused, alone, xproc, xmgr, served, launches>> /\ Well

TagsLeft == launch.tags \ refused

Up ==
  /\ launch.pc = "up"
  /\ IF launch.single
       THEN /\ launch' = [launch EXCEPT !.pc = "select"]
            /\ UNCHANGED <<banned, errors>>
       ELSE /\ banned' = Banned
            /\ launch' = [launch EXCEPT !.pc = IF launch.chosen \in refused THEN "drop" ELSE "select",
                                        !.tags = TagsLeft]
            /\ errors' = errors + (IF launch.chosen \in refused THEN 1 ELSE 0)
  /\ UNCHANGED <<made, refused, alone, xproc, xmgr, served, fruitless, launches>> /\ Well

Pin == IF alone \/ launch.single THEN Nobody ELSE launch.chosen

(* _apply_core_outbound_tag_steps; when the control port does not answer the *)
(* core is started again with the chosen server alone, and from then on no   *)
(* start asks the control port.                                              *)
Selects ==
  /\ launch.pc = "select"
  /\ \/ /\ alone \/ launch.single \/ xproc
        /\ served' = [at |-> launch.chosen, pool |-> launch.tags, pin |-> Pin]
        /\ alone' = (alone \/ launch.single)
        /\ launch' = [launch EXCEPT !.pc = "idle"]
        /\ Well
     \/ /\ ~alone /\ ~launch.single
        /\ IF xproc THEN Mishap ELSE Well
        /\ launch' = [launch EXCEPT !.pc = "clear", !.conf = {launch.chosen}, !.single = TRUE]
        /\ UNCHANGED <<served, alone>>
  /\ UNCHANGED <<made, banned, refused, xproc, xmgr, errors, fruitless, launches>>

(* The stop before the fallback, which then makes its own.                   *)
Clears ==
  /\ launch.pc = "clear"
  /\ Stops([launch EXCEPT !.pc = "stop"], [launch EXCEPT !.pc = "stop"])
  /\ UNCHANGED <<made, banned, refused, alone, served, fruitless, launches>>

Drops ==
  /\ launch.pc = "drop"
  /\ LET end == [launch EXCEPT !.pc = "idle", !.ok = FALSE] IN Stops(end, end)
  /\ UNCHANGED <<made, banned, refused, alone, served, fruitless, launches>>

-----------------------------------------------------------------------------
(* _hot_switch_precheck and one call of the control port; refused, the whole *)
(* transition is made instead.                                               *)
HotSwitches(m) ==
  /\ launch.pc = "idle" /\ served.at # Nobody /\ ~alone /\ m \in served.pool \ {served.at}
  /\ xmgr.running /\ LaunchCore
  /\ \/ /\ xproc /\ Well
        /\ served' = [served EXCEPT !.at = m, !.pin = m]
        /\ UNCHANGED <<launch, banned, errors>>
     \/ /\ IF xproc THEN Mishap ELSE Well
        /\ banned' = Looked /\ errors' = 0
        /\ launch' = Planned(m) /\ served' = Closed
  /\ UNCHANGED <<made, refused, alone, xproc, xmgr, fruitless>>

(* The core ends by itself between transitions: the connection is over.      *)
Dies ==
  /\ launch.pc = "idle" /\ xproc /\ Mishap
  /\ xproc' = FALSE /\ xmgr' = [xmgr EXCEPT !.running = FALSE, !.told = TRUE]
  /\ served' = Closed
  /\ errors' = errors + (IF xmgr.told THEN 0 ELSE 1)
  /\ UNCHANGED <<made, banned, refused, alone, launch, fruitless, launches>>

PoolNext ==
  \/ \E m \in Member, takes \in BOOLEAN : Replaced(m, takes)
  \/ \E m \in Member : Connects(m) \/ HotSwitches(m)
  \/ StopsOld \/ ChecksPorts \/ Spawns \/ CoreQuits \/ Listens \/ NoticesEnd \/ NeverListens
  \/ MarksRunning \/ SwapOver \/ Up \/ Selects \/ Clears \/ Drops \/ Dies

PoolSpec == PoolInit /\ [][PoolNext]_poolVars

-----------------------------------------------------------------------------
(* The type of every variable.                                               *)
PoolTypeOK ==
  /\ made \in [Member -> [id : 1..MaxVersions, takes : BOOLEAN]]
  /\ banned \in [Member -> 0..MaxVersions] /\ alone \in BOOLEAN /\ xproc \in BOOLEAN
  /\ xmgr \in [running : BOOLEAN, noted : BOOLEAN, told : BOOLEAN]
  /\ launch.pc \in Steps /\ launch.tries \in 0..Retries
  /\ launch.conf \cup launch.tags \cup refused \subseteq Member
  /\ served \in [at : Member \cup {Nobody}, pool : SUBSET Member, pin : Member \cup {Nobody}]

(* Whatever the core refused and however it had to be started, the traffic   *)
(* goes to the server that was chosen: the balancer is pinned to it, or the  *)
(* core knows no other.                                                      *)
ServesChosen ==
  served.at # Nobody =>
    served.at \in launch.conf /\ (served.pin = served.at \/ launch.conf = {served.at})

(* No hot switch leads to a server the running core does not have.           *)
PoolLoaded == served.at # Nobody /\ ~alone => served.pool \subseteq launch.conf

(* A start that fails says so; one that was made good by cutting servers out *)
(* shows none of the errors on its way.                                      *)
StoryTold ==
  launch.pc = "idle" => /\ ~launch.ok => errors > 0
                        /\ served.at # Nobody /\ ~launch.stuck => errors = 0

(* controller.py:1450: what the core refused does not come back, the starts  *)
(* converge: a start that ran out of tries took its share of servers out.    *)
Converges == fruitless * (Retries + 1) <= Cardinality({m \in Member : banned[m] # 0})

(* controller.py:3424: a server is kept out because the core refused the     *)
(* outbound it has now.                                                      *)
OutForCause == \A m \in Reasons : ~made[m].takes

(* Whatever was cut out of the pool, the chosen server serves, the user      *)
(* hears the truth, and starts converge.                                     *)
PoolSafe == PoolTypeOK /\ ServesChosen /\ PoolLoaded /\ StoryTold /\ Converges
=============================================================================
