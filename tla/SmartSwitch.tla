---------------------------- MODULE SmartSwitch ----------------------------
(* Changes of the server the application makes by itself                     *)
(* (application/smart_switch_service.py, auto_switch_service.py): away from  *)
(* a slow server after two measurements, away from a dead one at once.  The  *)
(* transition that carries a choice out is reduced to its outcomes; module   *)
(* Connection has it in full.                                                *)
EXTENDS Naturals, Sequences, FiniteSets, FiniteSetsExt, TLC

CONSTANTS
  Node,         \* servers
  NoNode,       \* "no server"
  PoolNode,     \* servers of the running core's pool: a choice of one is a hot switch
  Rank,         \* [Node -> Nat]: the speed remembered from the last test
  Speed,        \* [Node -> [0..MaxClock -> Nat]]: what a measurement gives at a time
  Threshold,    \* SMART_SWITCH_THRESHOLD_BPS
  Factor,       \* SMART_SWITCH_BETTER_FACTOR
  Hold, SlowMark, ManualHold, Hour,  \* the pauses, in ticks of ten minutes
  Backoff,      \* SMART_SWITCH_FALSE_ALARM_BACKOFF_SEC, in ticks
  MaxPerHour,   \* SMART_SWITCH_MAX_PER_HOUR
  MaxClock,     \* bound: ticks of ten minutes
  MaxAsked,     \* bound: what the user does
  MaxFlying,    \* bound: workers alive at once
  MaxDrops      \* bound: failed transitions and ends of the core

ASSUME SmartAssumption ==
  /\ IsFiniteSet(Node) /\ Cardinality(Node) > 1 /\ NoNode \notin Node
  /\ PoolNode \subseteq Node
  /\ Rank \in [Node -> Nat]
  /\ MaxClock \in Nat /\ Speed \in [Node -> [0..MaxClock -> Nat]]
  /\ {Threshold, Factor, Hold, SlowMark, ManualHold, Hour, MaxPerHour,
      MaxAsked, MaxFlying, MaxDrops} \subseteq Nat
  /\ Hold > 0
  /\ Backoff \in Seq(Nat) /\ Backoff # <<>>

VARIABLES
  line,    \* the connection: served, chosen, aimed, wanted and the transition
  auto,    \* the dead-link switch: `_auto_switch_*`
  smart,   \* SmartSwitchState
  flying,  \* workers that have not reported yet
  inWork,    \* a speed test or a batch of pings runs
  on,      \* settings.auto_switch_enabled
  clock,   \* ticks of ten minutes
  asked,   \* what the user did
  drops,   \* failures so far
  moved    \* history: the smart switches made

smartVars == <<line, auto, smart, flying, inWork, on, clock, asked, drops, moved>>

Acts == {"none", "hot", "connect", "reconnect", "disconnect"}

SmartInit ==
  /\ line = [served |-> NoNode, chosen |-> CHOOSE n \in Node : TRUE, aimed |-> NoNode,
             wanted |-> FALSE, queued |-> FALSE, act |-> "none"]
  /\ auto = [down |-> FALSE, attempts |-> 0, exhausted |-> FALSE, moving |-> FALSE,
             held |-> FALSE, warm |-> FALSE, tried |-> {}, count |-> 0]
  /\ smart = [phase |-> "idle", low |-> FALSE, of |-> NoNode, worker |-> 0,
              bps |-> 0, cand |-> NoNode,
              cool |-> 0, hold |-> 0, manual |-> 0, slow |-> [n \in Node |-> 0],
              times |-> {}, alarms |-> [n \in Node |-> 0]]
  /\ flying = {} /\ inWork = FALSE /\ on = TRUE
  /\ clock = 0 /\ asked = 0 /\ drops = 0 /\ moved = <<>>

Connected == line.served # NoNode
Aim(l)    == IF l.aimed # NoNode THEN l.aimed ELSE l.chosen

(* _transition_in_progress                                                   *)
Moving == auto.moving \/ line.act # "none" \/ line.queued

Best(S) == CHOOSE n \in S : \A m \in S : Rank[n] >= Rank[m]

-----------------------------------------------------------------------------
(* set_selected_node: the line after a choice of n.                          *)
Pick(n) ==
  IF n = Aim(line) THEN line
  ELSE IF ~Connected
  THEN [line EXCEPT !.chosen = n, !.aimed = NoNode, !.queued = @ \/ line.wanted]
  ELSE IF n = line.chosen
  THEN [line EXCEPT !.aimed = NoNode, !.wanted = TRUE, !.queued = TRUE]
  ELSE IF n \in PoolNode /\ line.served \in PoolNode /\ line.act \in {"none", "hot"}
  THEN [line EXCEPT !.aimed = n, !.wanted = TRUE, !.act = "hot"]
  ELSE [line EXCEPT !.aimed = n, !.wanted = TRUE, !.queued = TRUE]

(* _reset_auto_switch_state                                                  *)
ResetIf(a, cycle) ==
  [a EXCEPT !.down = FALSE, !.attempts = IF cycle THEN 0 ELSE @,
            !.exhausted = @ /\ ~cycle, !.tried = IF cycle THEN {} ELSE @]

(* The reset a stop or a start of the connection makes: the cycle of         *)
(* attempts survives the transitions that belong to it.                      *)
ResetCycle(a) == [ResetIf(a, ~a.moving) EXCEPT !.warm = FALSE]

(* Nothing of a check is read once it has ended.                             *)
Forgotten(s) == [s EXCEPT !.low = FALSE, !.phase = "idle", !.worker = 0, !.of = NoNode,
                          !.bps = 0, !.cand = NoNode]

(* cancel_smart_check: the worker is forgotten, not waited for.              *)
Cancelled(s) == Forgotten(s)

(* _finish *)
MoveEnded(s, pause) == [Forgotten(s) EXCEPT !.cool = IF pause > 0 THEN clock + pause ELSE @]

Within(S) == {t \in S : clock < t + Hour}

-----------------------------------------------------------------------------
(* gate_reason: why nothing may be measured or changed now.                  *)
Gated ==
  \/ ~on \/ ~Connected \/ Moving
  \/ clock < smart.manual
  \/ auto.warm \/ inWork

(* _abort_reason: the world a check began in is gone.                        *)
Aborted == Gated \/ line.chosen # smart.of

NewWorker == 1 + Max({0} \cup {w.id : w \in flying})

(* _start_current_probe: measure the server through the tunnel itself.       *)
BeginCheck ==
  /\ Cardinality(flying) < MaxFlying
  /\ smart' = [smart EXCEPT !.low = FALSE, !.phase = "current", !.worker = NewWorker,
                            !.of = line.chosen]
  /\ flying' = flying \cup {[id |-> NewWorker, kind |-> "current", node |-> line.served]}

(* A check two minutes old is given up.                                      *)
Overdue == [Cancelled(smart) EXCEPT !.cool = clock + Backoff[1]]

(* check_smart_switch with what observe() made of the sample: a demand held  *)
(* below the threshold for twenty seconds is a suspicion.                    *)
CheckSmart(o, late) ==
  IF smart.phase # "idle"
  THEN /\ smart' = IF late THEN Overdue ELSE smart
       /\ UNCHANGED flying
  ELSE IF Gated \/ clock < smart.cool \/ clock < smart.hold
          \/ Cardinality(Within(smart.times)) >= MaxPerHour \/ o = "idle"
  THEN smart' = [smart EXCEPT !.low = FALSE] /\ UNCHANGED flying
  ELSE IF ~smart.low
  THEN smart' = [smart EXCEPT !.low = TRUE] /\ UNCHANGED flying
  ELSE BeginCheck

(* _execute_auto_switch, when the server has been dead for fifteen seconds.  *)
Attempts == Max({1, Cardinality(Node) - 1})

SwitchDead ==
  IF auto.attempts >= Attempts
  THEN auto' = [auto EXCEPT !.down = FALSE, !.exhausted = TRUE] /\ UNCHANGED line
  ELSE LET n == Best(Node \ {line.chosen}) IN
       /\ line' = Pick(n)
       /\ auto' = [auto EXCEPT !.down = FALSE, !.attempts = @ + 1, !.moving = TRUE,
                               !.tried = @ \cup {line.chosen, n}, !.count = @ + 1]

(* check_auto_switch *)
WatchesLink ==
  /\ on /\ Connected /\ ~Moving /\ ~auto.held /\ ~auto.exhausted /\ ~auto.warm

(* on_live_metrics: both switches look at the sample, the dead link first.   *)
(* The gate of the second sees the switch the first has begun.               *)
Metrics(dead, o, late) ==
  /\ Connected
  /\ UNCHANGED <<inWork, on, clock, asked, drops, moved>>
  /\ IF WatchesLink /\ dead /\ auto.down
     THEN /\ SwitchDead
          /\ IF smart.phase = "idle" /\ auto'.moving
             THEN smart' = [smart EXCEPT !.low = FALSE] /\ UNCHANGED flying
             ELSE CheckSmart("idle", late)
     ELSE /\ auto' = IF WatchesLink THEN [auto EXCEPT !.down = dead] ELSE auto
          /\ UNCHANGED line
          /\ CheckSmart(o, late)

-----------------------------------------------------------------------------
Candidates == {n \in Node \ {smart.of} : clock >= smart.slow[n]}

(* Mutant of Measured: a worker already forgotten is heard.                  *)
MeasuredAny(w) == w.kind = "current" /\ smart.phase = "current"

Measured(w) == w.kind = "current" /\ smart.phase = "current" /\ w.id = smart.worker

Paused(n) == Backoff[Min({smart.alarms[n] + 1, Len(Backoff)})]

(* on_current_probe_measured: `bps` is 0 when not a byte came.               *)
Probed(w, bps, ok) ==
  IF ~Measured(w) THEN UNCHANGED smart /\ flying' = flying \ {w}
  ELSE IF Aborted THEN smart' = MoveEnded(smart, 0) /\ flying' = flying \ {w}
  ELSE IF bps = 0 THEN smart' = MoveEnded(smart, Backoff[1]) /\ flying' = flying \ {w}
  ELSE IF bps >= Threshold
  THEN /\ smart' = [MoveEnded(smart, Paused(smart.of))
                      EXCEPT !.alarms[smart.of] = Min({@ + 1, Len(Backoff)})]
       /\ flying' = flying \ {w}
  ELSE IF Candidates = {} \/ ~ok
  THEN /\ smart' = [MoveEnded(smart, Backoff[1]) EXCEPT !.alarms[smart.of] = 0]
       /\ flying' = flying \ {w}
  ELSE LET n == Best(Candidates) IN
       /\ smart' = [smart EXCEPT !.phase = "candidates", !.bps = bps, !.cand = n,
                                 !.worker = NewWorker, !.alarms[smart.of] = 0]
       /\ flying' = (flying \ {w}) \cup {[id |-> NewWorker, kind |-> "candidate", node |-> n]}

(* The worker's download ends: what the server gives now, or nothing.        *)
ProbeMeasured ==
  \E w \in flying, ok \in BOOLEAN :
    /\ w.kind = "current"
    /\ \E bps \in {0, Speed[w.node][clock]} : Probed(w, bps, ok)
    /\ UNCHANGED <<line, auto, inWork, on, clock, asked, drops, moved>>

(* decide(): good enough, and enough better than what is left for it.        *)
Worth(bps, old) == bps >= Threshold /\ bps >= Factor * old

(* What a smart switch records before it chooses the new server.             *)
LeavePass(s) == [MoveEnded(s, 0) EXCEPT !.slow[s.of] = clock + SlowMark, !.hold = clock + Hold,
                  !.times = Within(@) \cup {clock}, !.alarms = [m \in Node |-> 0]]

SwitchSlow(bps) ==
  /\ smart' = LeavePass(smart)
  /\ line' = Pick(smart.cand)
  /\ auto' = [auto EXCEPT !.count = 0]
  /\ moved' = Append(moved, [from |-> line.served, to |-> smart.cand, at |-> clock])

(* on_candidate_result and on_candidates_done.                               *)
CandidateMeasured ==
  \E w \in flying : \E bps \in {0, Speed[w.node][clock]} :
    /\ w.kind = "candidate"
    /\ flying' = flying \ {w}
    /\ UNCHANGED <<inWork, on, clock, asked, drops>>
    /\ \/ /\ ~(smart.phase = "candidates" /\ w.id = smart.worker)
          /\ UNCHANGED <<line, auto, smart, moved>>
       \/ /\ smart.phase = "candidates" /\ w.id = smart.worker
          /\ \/ /\ Aborted
                /\ smart' = MoveEnded(smart, 0) /\ UNCHANGED <<line, auto, moved>>
             \/ /\ ~Aborted
                /\ \/ ~Worth(bps, smart.bps)
                   \/ Cardinality(Within(smart.times)) >= MaxPerHour
                /\ smart' = MoveEnded(smart, Backoff[1]) /\ UNCHANGED <<line, auto, moved>>
             \/ /\ ~Aborted /\ Worth(bps, smart.bps)
                /\ Cardinality(Within(smart.times)) < MaxPerHour
                /\ SwitchSlow(bps)

-----------------------------------------------------------------------------
(* The transition, by its outcomes.                                          *)

(* The queue is drained: what the last request wants is begun, and a running *)
(* connection is cleaned up first, which ends a check.                       *)
Drained == [line EXCEPT !.queued = FALSE]

BeginMove ==
  /\ line.queued /\ line.act \in {"none", "hot"}
  /\ UNCHANGED <<flying, inWork, on, clock, asked, drops, moved>>
  /\ \/ /\ IF line.wanted THEN line.served = Aim(line) ELSE ~Connected
        /\ line' = [Drained EXCEPT !.act = "none"]
        /\ UNCHANGED <<auto, smart>>
     \/ /\ line.wanted /\ ~Connected
        /\ line' = [Drained EXCEPT !.act = "connect"]
        /\ auto' = ResetCycle(auto)
        /\ UNCHANGED smart
     \/ /\ Connected /\ (line.wanted => line.served # Aim(line))
        /\ line' = [Drained EXCEPT !.act = IF line.wanted THEN "reconnect" ELSE "disconnect"]
        /\ auto' = ResetCycle(auto)
        /\ smart' = Cancelled(smart)

(* begin_auto_switch_warmup and the commit of the choice.                    *)
Serves == [line EXCEPT !.served = Aim(line), !.chosen = Aim(line), !.aimed = NoNode, !.act = "none"]
Lost   == [line EXCEPT !.served = NoNode, !.chosen = Aim(line), !.aimed = NoNode,
                       !.act = "none", !.wanted = FALSE]

(* The end of reconnect_steps and of _hot_swap_node_steps clears the flag,   *)
(* whatever the outcome; a plain connection leaves it as it is.              *)
Cleared(a) == [a EXCEPT !.moving = FALSE]

ConnectEnds ==
  /\ line.act \in {"connect", "reconnect"}
  /\ UNCHANGED <<smart, flying, inWork, on, clock, asked, moved>>
  /\ LET a == IF line.act = "reconnect" THEN Cleared(auto) ELSE auto IN
     \/ /\ ~line.queued
        /\ line' = Serves /\ auto' = [a EXCEPT !.warm = TRUE] /\ UNCHANGED drops
     \/ /\ ~line.queued /\ drops < MaxDrops
        /\ line' = Lost /\ auto' = a /\ drops' = drops + 1
     \/ /\ line.queued       \* superseded: nothing serves, the queue goes on
        /\ line' = [line EXCEPT !.served = NoNode, !.act = "none"]
        /\ auto' = a /\ UNCHANGED drops

Disconnected ==
  /\ line.act = "disconnect"
  /\ line' = [line EXCEPT !.served = NoNode, !.act = "none"]
  /\ UNCHANGED <<auto, smart, flying, inWork, on, clock, asked, drops, moved>>

(* The hot switch commits and clears the flag, or leaves the choice to a     *)
(* full transition.                                                          *)
HotEnds ==
  /\ line.act = "hot" /\ ~line.queued
  /\ UNCHANGED <<smart, flying, inWork, on, clock, asked, moved>>
  /\ \/ /\ line' = Serves
        /\ auto' = [Cleared(auto) EXCEPT !.down = FALSE, !.warm = TRUE]
        /\ UNCHANGED drops
     \/ /\ drops < MaxDrops /\ drops' = drops + 1
        /\ line' = [line EXCEPT !.act = "none", !.queued = TRUE]
        /\ UNCHANGED auto

(* handle_unexpected_disconnect: the core ends by itself.                    *)
CoreEnds ==
  /\ Connected /\ line.act \in {"none", "hot"} /\ ~line.queued
  /\ drops < MaxDrops /\ drops' = drops + 1
  /\ line' = Lost
  /\ auto' = Cleared(ResetCycle(auto))
  /\ smart' = Cancelled(smart)
  /\ UNCHANGED <<flying, inWork, on, clock, asked, moved>>

-----------------------------------------------------------------------------
(* The user.                                                                 *)
Asks == asked < MaxAsked /\ asked' = asked + 1

(* toggle_connection *)
Toggles ==
  LET target == IF line.queued \/ line.act \notin {"none", "hot"} THEN line.wanted ELSE Connected IN
  /\ Asks
  /\ line' = [line EXCEPT !.wanted = ~target, !.queued = TRUE,
                          !.aimed = IF target THEN NoNode ELSE @]
  /\ auto' = [auto EXCEPT !.count = 0]
  /\ UNCHANGED <<smart, flying, inWork, on, clock, drops, moved>>

(* A manual choice stops both switches: the dead link until the setting is   *)
(* turned on again, the slow server for half an hour.                        *)
Chooses(n) ==
  /\ Asks /\ n # Aim(line)
  /\ line' = Pick(n)
  /\ auto' = [ResetIf(auto, TRUE) EXCEPT !.held = TRUE, !.count = 0]
  /\ smart' = [smart EXCEPT !.manual = clock + ManualHold]
  /\ UNCHANGED <<flying, inWork, on, clock, drops, moved>>

(* rotate_now, a timer the user has set: not a manual choice.                *)
Rotates(n) ==
  /\ Asks /\ Connected /\ n \in PoolNode \ {line.chosen}
  /\ line' = Pick(n)
  /\ auto' = [auto EXCEPT !.count = 0]
  /\ UNCHANGED <<smart, flying, inWork, on, clock, drops, moved>>

(* _handle_auto_switch_setting_change                                        *)
SwitchesSetting ==
  /\ Asks /\ on' = ~on
  /\ auto' = IF on THEN [ResetIf(auto, TRUE) EXCEPT !.count = 0]
             ELSE [ResetIf(auto, TRUE) EXCEPT !.held = FALSE, !.count = 0,
                                              !.warm = @ \/ Connected]
  /\ smart' = IF on THEN Cancelled(smart) ELSE [smart EXCEPT !.manual = 0]
  /\ UNCHANGED <<line, flying, inWork, clock, drops, moved>>

(* speed_test_nodes ends a check; a batch of pings does not.                 *)
TestsServers ==
  /\ Asks /\ ~inWork /\ inWork' = TRUE
  /\ \/ smart' = Cancelled(smart)
     \/ UNCHANGED smart
  /\ UNCHANGED <<line, auto, flying, on, clock, drops, moved>>

TestEnds == inWork /\ inWork' = FALSE /\ UNCHANGED <<line, auto, smart, flying, on, clock, asked, drops, moved>>

(* Ten minutes: a check never lasts that long, nor does a warm-up.           *)
Tick ==
  /\ clock < MaxClock /\ smart.phase = "idle" /\ line.act = "none" /\ ~line.queued
  /\ clock' = clock + 1
  /\ auto' = [auto EXCEPT !.warm = FALSE]
  /\ UNCHANGED <<line, smart, flying, inWork, on, asked, drops, moved>>

SmartNext ==
  \/ \E dead, late \in BOOLEAN, o \in {"slow", "idle"} : Metrics(dead, o, late)
  \/ ProbeMeasured \/ CandidateMeasured
  \/ BeginMove \/ ConnectEnds \/ Disconnected \/ HotEnds \/ CoreEnds
  \/ Toggles \/ SwitchesSetting \/ TestsServers \/ TestEnds
  \/ \E n \in Node : Chooses(n) \/ Rotates(n)
  \/ Tick

(* Samples come every second while the connection stands, and transitions    *)
(* run by themselves.  Nothing is asked of the workers: they may hang.       *)
SmartFairness ==
  /\ WF_smartVars(BeginMove) /\ WF_smartVars(ConnectEnds) /\ WF_smartVars(Disconnected)
  /\ WF_smartVars(HotEnds)
  /\ WF_smartVars(smart.phase # "idle" /\ \E dead \in BOOLEAN : Metrics(dead, "idle", TRUE))

SmartSpec == SmartInit /\ [][SmartNext]_smartVars /\ SmartFairness

-----------------------------------------------------------------------------
(* The type of every variable.                                               *)
Servers == Node \cup {NoNode}

SmartTypeOK ==
  /\ line \in [served : Servers, chosen : Node, aimed : Servers, wanted : BOOLEAN,
               queued : BOOLEAN, act : Acts]
  /\ auto \in [down : BOOLEAN, attempts : Nat, exhausted : BOOLEAN, moving : BOOLEAN,
               held : BOOLEAN, warm : BOOLEAN, tried : SUBSET Node, count : Nat]
  /\ smart.phase \in {"idle", "current", "candidates"}
  /\ smart.phase = "idle" <=> smart.worker = 0
  /\ smart.phase # "idle" => Connected /\ smart.of \in Node
  /\ \A w \in flying : w.kind \in {"current", "candidate"} /\ w.node \in Node
  /\ {inWork, on} \subseteq BOOLEAN /\ clock \in 0..MaxClock

(* A smart switch goes from a server that is slow to one that carries        *)
(* enough and enough more, whatever late answers of forgotten checks arrive. *)
WorthIt ==
  \A i \in 1..Len(moved) :
    LET m == moved[i] IN Worth(Speed[m.to][m.at], Speed[m.from][m.at])

(* Smart switches do not chase one another: the pause after one, the hourly  *)
(* limit, and half an hour before a server left as slow is taken again.      *)
Unhurried ==
  \A i \in 1..Len(moved) :
    /\ \A j \in 1..(i - 1) : moved[i].at >= moved[j].at + Hold
    /\ Cardinality({j \in 1..i : moved[i].at < moved[j].at + Hour}) <= MaxPerHour
    /\ \A j \in 1..(i - 1) : moved[j].from = moved[i].to => moved[i].at >= moved[j].at + SlowMark

(* A dead link never makes the application run round its servers for ever:   *)
(* between two choices of the user, a rotation or the switch away from a     *)
(* slow server, at most one pass over the list.                              *)
OnePass == auto.count <= Attempts

(* A smart switch happens only while nothing else moves: no transition, no   *)
(* test, no manual choice of the last half hour, the setting on.             *)
OnlyAtRest ==
  [][moved' # moved => /\ ~line.queued /\ line.act = "none" /\ ~auto.moving
                       /\ ~inWork /\ on /\ clock >= smart.manual]_smartVars

(* A check ends, even when its worker never answers.                         *)
CheckEnds == smart.phase # "idle" ~> smart.phase = "idle"

(* controller.py:3801: the flag of a transition in progress does not outlive *)
(* the transition; while it stands neither switch works.                     *)
FlagTrue == auto.moving => line.act # "none" \/ line.queued

(* auto_switch_service.py:149: when the application says it has stopped      *)
(* because every server has been tried, every server has been tried.         *)
AllTried == auto.exhausted => auto.tried = Node

(* The program changes the server for a reason, seldom, and only at rest.    *)
SmartSafe == [](SmartTypeOK /\ WorthIt /\ Unhurried /\ OnePass) /\ OnlyAtRest
=============================================================================
