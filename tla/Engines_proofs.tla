--------------------------- MODULE Engines_proofs ---------------------------
(* What is proved of the engines' processes and of what is made of their     *)
(* failures.                                                                 *)
EXTENDS HysteriaRecovery, HysteriaProcess, AmneziaProcess, AmneziaRelay, SingboxProcess,
        FiniteSetTheorems, TLAPS

-----------------------------------------------------------------------------
(* The recovery of a Hysteria session.  While a return is due nothing is     *)
(* wanted, so no failure calls for a second one; a rescue is always followed *)
(* by a transition, which ends it.                                           *)
RescueInv ==
  /\ RecoveryTypeOK
  /\ due # 0 => ~wants /\ returned = 0
  /\ rescuing => /\ blamed # "nothing" /\ (queued \/ Moving)
                 /\ returned = 0 /\ episode > 0
  /\ word = "off" => ~wants /\ ~rescuing /\ due = 0
  /\ refused => ~wants /\ ~rescuing /\ due = 0
  /\ returned <= 1

LEMMA RescueAtStart == ASSUME RecoveryInit PROVE RescueInv
<1>1. /\ queued \in BOOLEAN /\ wants \in BOOLEAN /\ rescuing \in BOOLEAN
      /\ killed \in BOOLEAN /\ refused \in BOOLEAN
      /\ ~wants /\ ~rescuing /\ ~refused
  BY Zenon DEF RecoveryInit
<1>2. move \in [act : {"none", "stop", "serve"}, to : Server \cup {Nobody}]
  BY DEF RecoveryInit, Still
<1>3. /\ blamed \in {"nothing", "network", "security"} /\ word \in {"on", "off"}
      /\ picked \in Server /\ {aim, online} \subseteq Server \cup {Nobody}
      /\ cooling \subseteq Server /\ timers = {}
  BY DEF RecoveryInit
<1>4. episode = 0 /\ due = 0 /\ returned = 0 /\ trouble = 0 /\ asks = 0
  BY Zenon DEF RecoveryInit
<1> QED BY <1>1, <1>2, <1>3, <1>4, RecoveryAssumption DEF RescueInv, RecoveryTypeOK

LEMMA ScheduledTypes ==
  ASSUME RecoveryTypeOK, NEW e \in 1..episode, ScheduleReturn(e), episode' = episode
  PROVE  due' = e /\ due' # 0 /\ due' \in 0..episode'
         /\ timers' \subseteq [episode : 1..episode', attempt : 0..MaxRetries]
BY RecoveryAssumption DEF RecoveryTypeOK, ScheduleReturn

LEMMA SecurityFailureSafe == ASSUME RescueInv, SecurityFailure PROVE RescueInv'
<1>1. trouble' \in 0..MaxTrouble /\ asks' \in 0..MaxAsks
  BY RecoveryAssumption DEF SecurityFailure, Trouble, RescueInv, RecoveryTypeOK
<1>2. CASE rescuing
  <2>1. episode \in 1..episode BY <1>2 DEF RescueInv, RecoveryTypeOK
  <2>2. ScheduleReturn(episode) /\ Cool(aim) /\ UNCHANGED refused /\ episode' = episode
    BY <1>2 DEF SecurityFailure
  <2>3. cooling' \subseteq Server BY <2>2 DEF Cool, RescueInv, RecoveryTypeOK
  <2> QED BY <1>1, <1>2, <2>1, <2>2, <2>3, ScheduledTypes
    DEF SecurityFailure, RescueInv, RecoveryTypeOK, Moving
<1>3. CASE ~rescuing
  BY <1>1, <1>3 DEF SecurityFailure, RescueInv, RecoveryTypeOK
<1> QED BY <1>2, <1>3

LEMMA NetworkFailureSafe == ASSUME RescueInv, NetworkFailure PROVE RescueInv'
<1>1. trouble' \in 0..MaxTrouble /\ asks' \in 0..MaxAsks
  BY RecoveryAssumption DEF NetworkFailure, Trouble, RescueInv, RecoveryTypeOK
<1>2. ~rescuing BY DEF NetworkFailure, RescueInv
<1>3. CASE ~wants
  BY <1>1, <1>2, <1>3 DEF NetworkFailure, RescueInv, RecoveryTypeOK
<1>4. CASE wants
  <2>1. due = 0 /\ word = "on" /\ ~refused /\ episode \in Nat
    BY <1>4 DEF RescueInv, RecoveryTypeOK
  <2>2. cooling' \subseteq Server /\ episode' = episode + 1
    BY <1>2, <1>4 DEF NetworkFailure, RescueInv, RecoveryTypeOK
  <2>3. timers \subseteq [episode : 1..episode', attempt : 0..MaxRetries]
    BY <2>1, <2>2 DEF RescueInv, RecoveryTypeOK
  <2>4. CASE rescuing'
    <3>1. /\ queued' = TRUE /\ aim' \in Server /\ blamed' = "network" /\ returned' = 0
          /\ UNCHANGED <<wants, due, timers, picked, online, move, word, refused>>
          /\ rescuing' = TRUE /\ killed' = TRUE /\ online \in Sidecar
      BY <1>2, <1>4, <2>2, <2>4 DEF NetworkFailure, Candidates
    <3>2. queued' \in BOOLEAN /\ rescuing' \in BOOLEAN /\ killed' \in BOOLEAN
      BY <3>1, Zenon
    <3> QED BY <1>1, <1>2, <1>4, <2>1, <2>2, <2>3, <2>4, <3>1, <3>2, RecoveryAssumption
      DEF RescueInv, RecoveryTypeOK
  <2>5. CASE ~rescuing'
    <3>1. ScheduleReturn(episode') /\ wants' = FALSE /\ UNCHANGED <<aim, queued, rescuing>>
      BY <1>2, <1>4, <2>2, <2>5 DEF NetworkFailure
    <3>2. due' = episode' /\ timers' \subseteq [episode : 1..episode', attempt : 0..MaxRetries]
      BY <2>1, <2>2, <2>3, <3>1, RecoveryAssumption DEF ScheduleReturn
    <3>3. /\ blamed' = "network" /\ returned' = 0 /\ killed' = TRUE
          /\ UNCHANGED <<picked, online, move, word, refused>>
      BY <1>2, <1>4 DEF NetworkFailure
    <3>4. killed' \in BOOLEAN /\ wants' \in BOOLEAN BY <3>1, <3>3, Zenon
    <3> QED BY <1>1, <1>2, <2>1, <2>2, <3>1, <3>2, <3>3, <3>4 DEF RescueInv, RecoveryTypeOK
  <2> QED BY <2>4, <2>5
<1> QED BY <1>3, <1>4

LEMMA TransitionSafe ==
  ASSUME RescueInv, BeginMove \/ MoveStops \/ MoveServes \/ MoveFails \/ MoveDropped
  PROVE  RescueInv'
<1>1. CASE BeginMove
  <2>1. move' \in [act : {"none", "stop", "serve"}, to : Server \cup {Nobody}] /\ move' # Still
    BY <1>1 DEF BeginMove, Goal, Still, RescueInv, RecoveryTypeOK
  <2> QED BY <1>1, <2>1 DEF BeginMove, RescueInv, RecoveryTypeOK, Moving
<1>2. CASE MoveStops BY <1>2 DEF MoveStops, RescueInv, RecoveryTypeOK, Still
<1>3. CASE MoveServes
  <2>1. move.to \in Server
    BY <1>3 DEF MoveServes, Superseded, Goal, RescueInv, RecoveryTypeOK
  <2> QED BY <1>3, <2>1 DEF MoveServes, RescueInv, RecoveryTypeOK, Still
<1>4. CASE MoveFails
  <2>1. trouble' \in 0..MaxTrouble /\ asks' \in 0..MaxAsks
    BY <1>4, RecoveryAssumption DEF MoveFails, Trouble, RescueInv, RecoveryTypeOK
  <2>2. online' \in Server \cup {Nobody} /\ picked' \in Server /\ aim' \in Server \cup {Nobody}
    BY <1>4 DEF MoveFails, RescueInv, RecoveryTypeOK
  <2>3. wants' \in BOOLEAN /\ (wants' => wants)
    BY <1>4 DEF MoveFails, Superseded, RescueInv, RecoveryTypeOK
  <2> QED BY <1>4, <2>1, <2>2, <2>3 DEF MoveFails, RescueInv, RecoveryTypeOK, Still
<1>5. CASE MoveDropped BY <1>5 DEF MoveDropped, RescueInv, RecoveryTypeOK, Still
<1> QED BY <1>1, <1>2, <1>3, <1>4, <1>5

LEMMA ReturnTimerSafe == ASSUME RescueInv, ReturnTimer PROVE RescueInv'
<1>1. PICK t \in timers :
       \/ /\ due # t.episode
          /\ timers' = timers \ {t} /\ UNCHANGED <<due, wants, queued, returned>>
       \/ /\ due = t.episode /\ (Moving \/ queued)
          /\ timers' = (timers \ {t}) \cup
               (IF t.attempt < MaxRetries THEN {[t EXCEPT !.attempt = @ + 1]} ELSE {})
          /\ UNCHANGED <<due, wants, queued, returned>>
       \/ /\ due = t.episode /\ ~Moving /\ ~queued
          /\ timers' = timers \ {t} /\ due' = 0
          /\ IF online # Nobody \/ wants THEN UNCHANGED <<wants, queued, returned>>
             ELSE wants' = TRUE /\ queued' = TRUE /\ returned' = returned + 1
  BY DEF ReturnTimer
<1>2. t \in [episode : 1..episode, attempt : 0..MaxRetries] BY DEF RescueInv, RecoveryTypeOK
<1>3. UNCHANGED <<picked, aim, online, move, rescuing, cooling, episode, blamed, killed, word,
                  refused, trouble, asks>>
  BY DEF ReturnTimer
<1>4. timers' \subseteq [episode : 1..episode, attempt : 0..MaxRetries]
  <2>1. t.attempt < MaxRetries =>
          [t EXCEPT !.attempt = @ + 1] \in [episode : 1..episode, attempt : 0..MaxRetries]
    BY <1>2, RecoveryAssumption
  <2> QED BY <1>1, <2>1 DEF RescueInv, RecoveryTypeOK
<1>5. CASE UNCHANGED <<due, wants, queued, returned>>
  BY <1>3, <1>4, <1>5 DEF RescueInv, RecoveryTypeOK, Moving
<1>6. ASSUME due = t.episode, ~Moving, ~queued, due' = 0,
             IF online # Nobody \/ wants THEN UNCHANGED <<wants, queued, returned>>
             ELSE wants' = TRUE /\ queued' = TRUE /\ returned' = returned + 1
      PROVE  RescueInv'
  <2>1. due # 0 /\ returned = 0 /\ ~rescuing BY <1>2, <1>6 DEF RescueInv, RecoveryTypeOK
  <2>2. CASE UNCHANGED <<wants, queued, returned>>
    BY <1>3, <1>4, <1>6, <2>1, <2>2 DEF RescueInv, RecoveryTypeOK
  <2>3. CASE wants' = TRUE /\ queued' = TRUE /\ returned' = returned + 1
    <3>1. wants' \in BOOLEAN /\ queued' \in BOOLEAN /\ returned' = 1
      BY <2>1, <2>3
    <3> QED BY <1>3, <1>4, <1>6, <2>1, <2>3, <3>1 DEF RescueInv, RecoveryTypeOK
  <2> QED BY <1>6, <2>2, <2>3, Zenon
<1> QED BY <1>1, <1>5, <1>6, Zenon

LEMMA UserSafe == ASSUME RescueInv, Toggle \/ Choose PROVE RescueInv'
<1>1. asks' \in 0..MaxAsks /\ trouble' \in 0..MaxTrouble
  BY RecoveryAssumption DEF Toggle, Choose, Asks, RescueInv, RecoveryTypeOK
<1>2. CASE Toggle
  <2>1. /\ wants' \in BOOLEAN /\ queued' \in BOOLEAN /\ refused' \in BOOLEAN
        /\ queued' = TRUE /\ refused' = FALSE
    BY <1>2, Zenon DEF Toggle
  <2>2. /\ due' = 0 /\ word' = IF wants' THEN "on" ELSE "off"
        /\ UNCHANGED <<picked, online, move, cooling, episode, timers, blamed, killed, returned>>
        /\ \/ wants' /\ UNCHANGED <<aim, rescuing>>
           \/ ~wants' /\ aim' = Nobody /\ rescuing' = FALSE
    BY <1>2 DEF Toggle
  <2>3. aim' \in Server \cup {Nobody} /\ (rescuing' => rescuing)
    BY <2>2 DEF RescueInv, RecoveryTypeOK
  <2>4. rescuing' \in BOOLEAN
    <3>1. rescuing \in BOOLEAN BY DEF RescueInv, RecoveryTypeOK
    <3> QED BY <2>2, <3>1, Zenon
  <2> QED BY <1>1, <2>1, <2>2, <2>3, <2>4 DEF RescueInv, RecoveryTypeOK
<1>3. CASE Choose BY <1>1, <1>3 DEF Choose, RescueInv, RecoveryTypeOK, Moving, Goal
<1> QED BY <1>2, <1>3

LEMMA RescueKept == ASSUME RescueInv, [RecoveryNext]_rescueVars PROVE RescueInv'
<1>1. CASE CoreStopped BY <1>1 DEF CoreStopped, RescueInv, RecoveryTypeOK, Moving
<1>2. CASE CooldownEnds BY <1>2 DEF CooldownEnds, RescueInv, RecoveryTypeOK, Moving
<1>3. CASE UNCHANGED rescueVars BY <1>3 DEF rescueVars, RescueInv, RecoveryTypeOK, Moving
<1> QED BY <1>1, <1>2, <1>3, SecurityFailureSafe, NetworkFailureSafe, TransitionSafe,
          ReturnTimerSafe, UserSafe DEF RecoveryNext

(* For any list of servers, however many fail and whatever the user does     *)
(* meanwhile: off means off, one failure leads to one return at most, and a  *)
(* server that refuses the client is left alone.                             *)
THEOREM RecoveryIsSafe == RecoverySpec => []RecoverySafe
<1>1. RescueInv => RecoverySafe
  BY DEF RescueInv, RecoverySafe, OffMeansOff, OneReturn, RefusedStaysOff
<1> QED BY RescueAtStart, RescueKept, <1>1, PTL DEF RecoverySpec

-----------------------------------------------------------------------------
(* The Hysteria client.  An actor drives its start unless a newer generation *)
(* has begun, of which only the restart takes notice.                        *)
Drives(a) == flow[a].pc # "idle" /\ (a = "retry" => flow[a].current)
Begun(a)  == Drives(a) /\ flow[a].pc \in {"spawn", "relay", "connect", "remote"}
Stale     == flow["retry"].pc # "idle" /\ ~flow["retry"].current
OwnerIdle == flow["owner"].pc = "idle"
RetryIdle == flow["retry"].pc = "idle"

ClientFacts ==
  /\ process = "none" => ~serves
  /\ stopping => process = "dying"
  /\ wave > 0 => serves
  /\ quiet <=> ~RetryIdle

(* One actor drives at a time.                                               *)
OneDrives ==
  /\ ~OwnerIdle => ~Drives("retry")
  /\ timer => OwnerIdle /\ RetryIdle /\ compat.pending
  /\ Stale => process # "alive" \/ cut
  /\ ~OwnerIdle /\ ~flow["owner"].current => process # "alive" /\ ~compat.config

Attempted ==
  \A a \in Actor :
    /\ Drives(a) /\ flow[a].pc = "prepare" => process = "none" /\ ~alert
    /\ Begun(a) => /\ ~serves
                   /\ process = "dying" => stopping
                   /\ alert => report.made /\ report.code = "security"

(* The restart that is due is the first.                                     *)
FirstRestart ==
  /\ compat.pending => compat.config /\ compat.used
  /\ compat.pending \/ (compat.config /\ ~compat.used) => retries = 0
  /\ Drives("retry") => ~compat.pending /\ (~compat.config \/ compat.used)

FileKept == configFile => /\ process = "alive" /\ ~serves
                          /\ cut \/ \E a \in Actor : Begun(a)

(* What the owner has heard, while no stop of its own is due.                *)
Heard ==
  /\ ~OwnerIdle => ~told
  /\ ~cut =>
       /\ Drives("retry") \/ timer => told
       /\ process = "alive" /\ serves => told
       /\ process = "alive" /\ OwnerIdle /\ RetryIdle => serves
       /\ process = "dying" /\ OwnerIdle /\ ~Drives("retry") => ~compat.config
       /\ told /\ ~serves /\ ~unheard => timer \/ ~RetryIdle
       /\ compat.pending /\ ~timer => ~OwnerIdle \/ process = "none"

HyInv ==
  /\ HysteriaTypeOK /\ OneRetry
  /\ ClientFacts /\ OneDrives /\ Attempted /\ FirstRestart /\ FileKept /\ Heard

Pcs   == {"idle", "stop", "prepare", "spawn", "relay", "connect", "remote"}
Nexts == {"none", "begin", "abandon", "fail"}
Flows == [Actor -> Flow]

LEMMA HappensTypes ==
  ASSUME HysteriaTypeOK, NEW f \in HyFaults, Happens(f)
  PROVE  hyFaults' \in [HyFaults -> Nat] /\ hyStarts' = hyStarts
<1>1. hyFaults' = [hyFaults EXCEPT ![f] = hyFaults[f] + 1] /\ hyStarts' = hyStarts
  BY DEF Happens
<1>2. hyFaults \in [HyFaults -> Nat] BY DEF HysteriaTypeOK
<1> QED BY <1>1, <1>2

(* What each way of moving the generators changes.                           *)
LEMMA FlowAt ==
  ASSUME NEW f \in Flows, NEW a \in Actor, NEW pc \in Pcs
  PROVE  /\ At(f, a, pc) \in Flows
         /\ At(f, a, pc)[a].pc = pc /\ At(f, a, pc)[a].current = f[a].current
         /\ At(f, a, pc)[a].next = f[a].next /\ At(f, a, pc)[a].again = f[a].again
         /\ \A b \in Actor : b # a => At(f, a, pc)[b] = f[b]
BY DEF At, Flow, Flows, Pcs

LEMMA FlowHalt ==
  ASSUME NEW f \in Flows, NEW a \in Actor, NEW next \in Nexts
  PROVE  /\ Halt(f, a, next) \in Flows
         /\ Halt(f, a, next)[a].pc = "stop" /\ Halt(f, a, next)[a].next = next
         /\ Halt(f, a, next)[a].current = f[a].current
         /\ \A b \in Actor : b # a => Halt(f, a, next)[b] = f[b]
<1>1. Halt(f, a, next) = [f EXCEPT ![a] = [f[a] EXCEPT !.pc = "stop", !.next = next]]
  BY DEF Halt, Flows
<1>2. [f[a] EXCEPT !.pc = "stop", !.next = next] \in Flow BY DEF Flow, Flows, Nexts
<1>3. Halt(f, a, next)[a] = [f[a] EXCEPT !.pc = "stop", !.next = next] BY <1>1 DEF Flows
<1> QED BY <1>1, <1>2, <1>3 DEF Flows, Flow

LEMMA FlowEnter ==
  ASSUME NEW f \in Flows, NEW a \in Actor
  PROVE  /\ Enter(f, a) \in Flows
         /\ Enter(f, a)[a].current /\ ~Enter(f, a)[a].again
         /\ \A b \in Actor : b # a => Enter(f, a)[b] = f[b]
BY DEF Enter, NoFlow, Flow, Flows

LEMMA FlowLeave ==
  ASSUME NEW f \in Flows, NEW a \in Actor
  PROVE  /\ Leave(f, a) \in Flows
         /\ Leave(f, a)[a].pc = "idle"
         /\ \A b \in Actor : b # a => Leave(f, a)[b] = f[b]
BY DEF Leave, NoFlow, Flow, Flows

LEMMA FlowOutdated ==
  ASSUME NEW f \in Flows
  PROVE  /\ Outdated(f) \in Flows
         /\ \A a \in Actor : /\ Outdated(f)[a].pc = f[a].pc /\ ~Outdated(f)[a].current
                             /\ Outdated(f)[a].next = f[a].next /\ Outdated(f)[a].again = f[a].again
BY DEF Outdated, Flow, Flows

LEMMA FlowAgain ==
  ASSUME NEW f \in Flows
  PROVE  /\ Again(f) \in Flows /\ Again(f)["retry"] = f["retry"]
         /\ Again(f)["owner"].pc = f["owner"].pc /\ Again(f)["owner"].current = f["owner"].current
         /\ Again(f)["owner"].next = f["owner"].next
<1>1. Again(f) = [f EXCEPT !["owner"] = [f["owner"] EXCEPT !.again = TRUE]]
  BY DEF Again, Flows, Actor
<1>2. [f["owner"] EXCEPT !.again = TRUE] \in Flow BY DEF Flow, Flows, Actor
<1> QED BY <1>1, <1>2 DEF Flow, Flows, Actor

LEMMA FlowRemote ==
  ASSUME flow \in Flows, NEW a \in Actor, flow' = [flow EXCEPT ![a].pc = "remote", ![a].current = TRUE]
  PROVE  /\ flow' \in Flows /\ flow'[a].pc = "remote" /\ flow'[a].current
         /\ \A b \in Actor : b # a => flow'[b] = flow[b]
<1>1. flow' = [flow EXCEPT ![a] = [flow[a] EXCEPT !.pc = "remote", !.current = TRUE]]
  BY DEF Flows
<1>2. [flow[a] EXCEPT !.pc = "remote", !.current = TRUE] \in Flow BY DEF Flow, Flows
<1>3. flow'[a] = [flow[a] EXCEPT !.pc = "remote", !.current = TRUE] BY <1>1 DEF Flows
<1> QED BY <1>1, <1>2, <1>3 DEF Flows, Flow

LEMMA FlowBegins ==
  ASSUME flow \in Flows, NEW a \in Actor,
         flow' = [flow EXCEPT ![a] = [@ EXCEPT !.pc = "prepare", !.next = "none", !.current = TRUE]]
  PROVE  /\ flow' \in Flows /\ flow'[a].pc = "prepare" /\ flow'[a].current
         /\ \A b \in Actor : b # a => flow'[b] = flow[b]
<1>1. [flow[a] EXCEPT !.pc = "prepare", !.next = "none", !.current = TRUE] \in Flow
  BY DEF Flow, Flows
<1>2. flow'[a] = [flow[a] EXCEPT !.pc = "prepare", !.next = "none", !.current = TRUE] BY DEF Flows
<1> QED BY <1>1, <1>2 DEF Flows, Flow

LEMMA NoCompatFacts ==
  NoCompat \in Compat /\ ~NoCompat.config /\ ~NoCompat.pending /\ ~NoCompat.used
BY DEF NoCompat, Compat

LEMMA ReportedType ==
  ASSUME NEW r \in [made : BOOLEAN, code : Code], NEW c \in Code
  PROVE  /\ Reported(r, c) \in [made : BOOLEAN, code : Code] /\ Reported(r, c).made
         /\ r.made /\ r.code = "security" => Reported(r, c) = r
         /\ c = "security" => Reported(r, c).code = "security"
BY DEF Reported, Code

USE DEF Actor, Pcs, Nexts, Drives, Begun, Stale, OwnerIdle, RetryIdle, proc, past, bounds

LEMMA RestartSafe == ASSUME HyInv, 
         flow["owner"].pc \in {"relay", "connect", "remote"}, RestartCompatible, Restart,
         UNCHANGED <<quiet, needed, told, unheard, cut, hyStarts>>, hyFaults' \in [HyFaults -> Nat] PROVE HyInv'
<1>1. HysteriaTypeOK /\ flow \in Flows BY DEF HyInv, HysteriaTypeOK, Flows
<1>2. {serves, starting, stopping, configFile, authed, timer, quiet, needed, told, unheard, alert, cut}' \subseteq BOOLEAN
  BY Zenon, <1>1 DEF RestartCompatible, Restart, Replace, HysteriaTypeOK
<1>3. flow' \in Flows
  BY <1>1, FlowAt, FlowHalt, FlowAgain DEF RestartCompatible, Restart, Replace
<1>4a. compat' \in Compat /\ ~compat'.pending /\ compat'.config = compat.config /\ compat'.used = compat.used
  BY <1>1 DEF RestartCompatible, HysteriaTypeOK, Compat
<1>4. report' \in [made : BOOLEAN, code : Code]
  BY <1>1, ReportedType DEF RestartCompatible, Restart, Replace, HysteriaTypeOK, Code
<1>5. /\ process' \in {"none", "alive", "dying"} /\ wave' \in 0..2 /\ retries' \in Nat
      /\ hyStarts' \in 0..MaxHyStarts /\ hyFaults' \in [HyFaults -> Nat]
  BY <1>1, HappensTypes, HysteriaAssumption
  DEF RestartCompatible, Restart, Replace, HysteriaTypeOK, HyFaults
<1>6. ClientFacts'
  BY <1>1, FlowAt, FlowHalt, FlowAgain
  DEF RestartCompatible, Restart, Replace, HyInv, HysteriaTypeOK, ClientFacts, Attempted
<1>7. OneDrives'
  BY <1>1, FlowAt, FlowHalt, FlowAgain
  DEF RestartCompatible, Restart, Replace, HyInv, HysteriaTypeOK, OneDrives, FirstRestart, Compat
<1>8. Attempted'
  BY <1>1, ReportedType, FlowAt, FlowHalt, FlowAgain
  DEF RestartCompatible, Restart, Replace, HyInv, HysteriaTypeOK, ClientFacts, OneDrives,
      Attempted, Code
<1>9. OneRetry' /\ FirstRestart'
  <2>1. compat.pending /\ retries' = retries + 1 /\ retries = 0 /\ compat.used
    BY DEF RestartCompatible, Restart, HyInv, FirstRestart
  <2> QED BY <1>4a, <2>1 DEF OneRetry, FirstRestart
<1>10. FileKept'
  <2>1. CASE process = "none" BY <2>1 DEF RestartCompatible, Replace, HyInv, FileKept
  <2>2. CASE process # "none"
    <3>1. ~configFile' BY Zenon, <2>2 DEF RestartCompatible, Replace
    <3> QED BY <3>1 DEF FileKept
  <2> QED BY <2>1, <2>2
<1>11. Heard'
  BY <1>1, FlowAt, FlowHalt, FlowAgain
  DEF RestartCompatible, Restart, Replace, HyInv, HysteriaTypeOK, ClientFacts, OneDrives,
      Attempted, FirstRestart, Heard, Compat
<1>12. HysteriaTypeOK' BY <1>2, <1>3, <1>4, <1>4a, <1>5, <1>6 DEF HysteriaTypeOK, ClientFacts, Flows
<1> QED BY <1>6, <1>7, <1>8, <1>9, <1>10, <1>11, <1>12 DEF HyInv

LEMMA ClientGivesUpSafe == ASSUME HyInv, 
         NEW a \in Actor, NEW pc \in {"relay", "connect", "remote"}, Runs(a, pc), ~(a = "owner" /\ Restart),
         GivesUp(a), UNCHANGED <<needed, told, cut, hyStarts>>, hyFaults' \in [HyFaults -> Nat] PROVE HyInv'
<1>1. HysteriaTypeOK /\ flow \in Flows BY DEF HyInv, HysteriaTypeOK, Flows
<1>2. {serves, starting, stopping, configFile, authed, timer, quiet, needed, told, unheard, alert, cut}' \subseteq BOOLEAN
  BY Zenon, <1>1
  DEF Runs, Wanted, Restart, GivesUp, StopsAtOnce, KillAndWait, Fails, Clear, NewGeneration, Or,
      HysteriaTypeOK
<1>3. flow' \in Flows
  BY <1>1, NoCompatFacts, FlowHalt, FlowLeave, FlowOutdated
  DEF Runs, Wanted, Restart, GivesUp, StopsAtOnce, KillAndWait, Fails, Clear, NewGeneration, Or
<1>4a. compat' \in Compat
  <2>1. compat' = compat \/ compat' = NoCompat
    BY Zenon DEF GivesUp, KillAndWait, Fails, Clear
  <2> QED BY <1>1, <2>1, NoCompatFacts DEF HysteriaTypeOK
<1>4. report' \in [made : BOOLEAN, code : Code]
  BY <1>1, ReportedType
  DEF Runs, Wanted, Restart, GivesUp, StopsAtOnce, KillAndWait, Fails, Clear, NewGeneration, Or,
      HysteriaTypeOK, Code
<1>5. /\ process' \in {"none", "alive", "dying"} /\ wave' \in 0..2 /\ retries' \in Nat
      /\ hyStarts' \in 0..MaxHyStarts /\ hyFaults' \in [HyFaults -> Nat]
  BY <1>1, HappensTypes, HysteriaAssumption
  DEF Runs, Wanted, Restart, GivesUp, StopsAtOnce, KillAndWait, Fails, Clear, NewGeneration, Or,
      HysteriaTypeOK, HyFaults
<1>6. ClientFacts'
  BY <1>1, NoCompatFacts, FlowHalt, FlowLeave, FlowOutdated
  DEF Runs, Wanted, Restart, GivesUp, StopsAtOnce, KillAndWait, Fails, Clear, NewGeneration, Or,
      HyInv, HysteriaTypeOK, ClientFacts, Attempted
<1>7. OneDrives'
  BY <1>1, NoCompatFacts, FlowHalt, FlowLeave, FlowOutdated
  DEF Runs, Wanted, Restart, GivesUp, StopsAtOnce, KillAndWait, Fails, Clear, NewGeneration, Or,
      HyInv, HysteriaTypeOK, OneDrives, FirstRestart, Compat
<1>8. Attempted'
  BY <1>1, ReportedType, NoCompatFacts, FlowHalt, FlowLeave, FlowOutdated
  DEF Runs, Wanted, Restart, GivesUp, StopsAtOnce, KillAndWait, Fails, Clear, NewGeneration, Or,
      HyInv, HysteriaTypeOK, ClientFacts, OneDrives, Attempted, Code
<1>9. OneRetry' /\ FirstRestart'
  BY <1>1, NoCompatFacts, FlowHalt, FlowLeave, FlowOutdated
  DEF Runs, Wanted, Restart, GivesUp, StopsAtOnce, KillAndWait, Fails, Clear, NewGeneration, Or,
      HyInv, HysteriaTypeOK, OneDrives, FirstRestart, OneRetry, Compat
<1>10. FileKept'
  <2>1. configFile' => configFile /\ (process = "none" \/ (flow[a].pc = "remote" /\ ~flow[a].current))
    BY Zenon DEF GivesUp, StopsAtOnce, KillAndWait
  <2>2. ~configFile'
    BY <2>1 DEF HyInv, FileKept, OneDrives, Runs
  <2> QED BY <2>2 DEF FileKept
<1>11. Heard'
  BY <1>1, NoCompatFacts, FlowHalt, FlowLeave, FlowOutdated
  DEF Runs, Wanted, Restart, GivesUp, StopsAtOnce, KillAndWait, Fails, Clear, NewGeneration, Or,
      HyInv, HysteriaTypeOK, ClientFacts, OneDrives, Attempted, FirstRestart, Heard, Compat
<1>12. HysteriaTypeOK' BY <1>2, <1>3, <1>4, <1>4a, <1>5, <1>6 DEF HysteriaTypeOK, ClientFacts, Flows
<1> QED BY <1>6, <1>7, <1>8, <1>9, <1>10, <1>11, <1>12 DEF HyInv

LEMMA RelayDownSafe == ASSUME HyInv, NEW a \in Actor, RelayDown(a) PROVE HyInv'
<1>1. HysteriaTypeOK BY DEF HyInv
<1>2. \E pc \in {"relay", "connect", "remote"} : Runs(a, pc) BY DEF RelayDown
<1>3. hyStarts' = hyStarts /\ hyFaults' \in [HyFaults -> Nat]
  BY <1>1, HappensTypes DEF RelayDown, HyFaults, HysteriaTypeOK
<1>4. CASE a = "owner" /\ Restart
  <2>1. flow["owner"].pc \in {"relay", "connect", "remote"} BY <1>2, <1>4 DEF Runs
  <2>2. RestartCompatible /\ UNCHANGED <<quiet, needed, told, unheard, cut>> BY <1>4 DEF RelayDown
  <2> QED BY <1>3, <1>4, <2>1, <2>2, RestartSafe
<1>5. CASE ~(a = "owner" /\ Restart)
  <2>1. GivesUp(a) /\ UNCHANGED <<needed, told, cut>> BY <1>5 DEF RelayDown
  <2> QED BY <1>2, <1>3, <1>5, <2>1, ClientGivesUpSafe
<1> QED BY <1>4, <1>5

LEMMA RemoteDownSafe == ASSUME HyInv, NEW a \in Actor, RemoteDown(a) PROVE HyInv'
<1>1. HysteriaTypeOK BY DEF HyInv
<1>2. Runs(a, "remote") BY DEF RemoteDown
<1>3. hyStarts' = hyStarts /\ hyFaults' \in [HyFaults -> Nat]
  BY <1>1, HappensTypes DEF RemoteDown, HyFaults, HysteriaTypeOK
<1>4. CASE a = "owner" /\ Restart
  <2>1. flow["owner"].pc \in {"relay", "connect", "remote"} BY <1>2, <1>4 DEF Runs
  <2>2. RestartCompatible /\ UNCHANGED <<quiet, needed, told, unheard, cut>> BY <1>4 DEF RemoteDown
  <2> QED BY <1>3, <1>4, <2>1, <2>2, RestartSafe
<1>5. CASE ~(a = "owner" /\ Restart)
  <2>1. GivesUp(a) /\ UNCHANGED <<needed, told, cut>> BY <1>5 DEF RemoteDown
  <2> QED BY <1>2, <1>3, <1>5, <2>1, ClientGivesUpSafe
<1> QED BY <1>4, <1>5

LEMMA RelayUpSafe == ASSUME HyInv, NEW a \in Actor, RelayUp(a) PROVE HyInv'
<1>1. HysteriaTypeOK /\ flow \in Flows BY DEF HyInv, HysteriaTypeOK, Flows
<1>2. Runs(a, "connect") BY DEF RelayUp
<1>3. UNCHANGED <<quiet, needed, told, unheard, cut, hyStarts, hyFaults>> BY DEF RelayUp
<1>4. CASE a = "owner" /\ Restart
  <2>1. flow["owner"].pc \in {"relay", "connect", "remote"} BY <1>2, <1>4 DEF Runs
  <2>2. RestartCompatible BY <1>4 DEF RelayUp
  <2>3. hyFaults' \in [HyFaults -> Nat] BY <1>1, <1>3 DEF HysteriaTypeOK
  <2> QED BY <1>3, <1>4, <2>1, <2>2, <2>3, RestartSafe
<1>5. CASE ~(a = "owner" /\ Restart)
  <2>1. /\ UNCHANGED <<process, serves, starting, stopping, configFile, authed, report, compat, timer, wave, alert, retries>>
        /\ flow' = [flow EXCEPT ![a].pc = "remote", ![a].current = TRUE]
    BY <1>5 DEF RelayUp
  <2>2. /\ flow' \in Flows /\ flow'[a].pc = "remote" /\ flow'[a].current
        /\ \A b \in Actor : b # a => flow'[b] = flow[b]
    BY <1>1, <2>1, FlowRemote
  <2>3. flow[a].pc = "connect" /\ (a = "retry" => flow[a].current) BY <1>2 DEF Runs
  <2>4. ClientFacts' BY <1>3, <2>1, <2>2, <2>3 DEF HyInv, ClientFacts
  <2>5. OneDrives' BY <1>3, <2>1, <2>2, <2>3 DEF HyInv, OneDrives
  <2>6. Attempted' BY <1>3, <2>1, <2>2, <2>3 DEF HyInv, Attempted
  <2>7. OneRetry' /\ FirstRestart' BY <1>3, <2>1, <2>2, <2>3 DEF HyInv, OneRetry, FirstRestart
  <2>8. FileKept' BY <1>3, <2>1, <2>2, <2>3 DEF HyInv, FileKept
  <2>9. Heard' BY <1>3, <2>1, <2>2, <2>3 DEF HyInv, Heard
  <2>10. HysteriaTypeOK' BY <1>1, <1>3, <2>1, <2>2, <2>4 DEF HysteriaTypeOK, ClientFacts, Flows
  <2> QED BY <2>4, <2>5, <2>6, <2>7, <2>8, <2>9, <2>10 DEF HyInv
<1> QED BY <1>4, <1>5

LEMMA RemoteUpSafe == ASSUME HyInv, NEW a \in Actor, RemoteUp(a) PROVE HyInv'
<1>1. HysteriaTypeOK /\ flow \in Flows BY DEF HyInv, HysteriaTypeOK, Flows
<1>2. Runs(a, "remote") BY DEF RemoteUp
<1>3. UNCHANGED <<needed, unheard, cut, hyStarts, hyFaults>> BY DEF RemoteUp
<1>4. CASE a = "owner" /\ Restart
  <2>1. flow["owner"].pc \in {"relay", "connect", "remote"} BY <1>2, <1>4 DEF Runs
  <2>2. RestartCompatible /\ UNCHANGED <<quiet, told>> BY <1>4 DEF RemoteUp
  <2>3. hyFaults' \in [HyFaults -> Nat] BY <1>1, <1>3 DEF HysteriaTypeOK
  <2> QED BY <1>3, <1>4, <2>1, <2>2, <2>3, RestartSafe
<1>5. CASE ~(a = "owner" /\ Restart)
  <2>1. /\ UNCHANGED <<process, stopping, authed, wave, alert, retries>>
        /\ report' = [made |-> FALSE, code |-> "none"]
        /\ flow' = Leave(flow, a) \/ flow' = Outdated(Leave(flow, a))
    BY <1>5 DEF RemoteUp, Clear, NewGeneration
  <2>2. /\ starting' = FALSE /\ serves' = TRUE /\ ~configFile' /\ configFile' \in BOOLEAN
        /\ told' = (told \/ a = "owner" \/ ~quiet)
        /\ (a = "retry" => quiet' = FALSE /\ UNCHANGED timer)
        /\ (a = "owner" => UNCHANGED quiet /\ (UNCHANGED timer \/ timer' = FALSE))
    BY Zenon, <1>5 DEF RemoteUp, Clear, NewGeneration
  <2>2a. {serves, starting, stopping, configFile, authed, timer, quiet, needed, told, unheard, alert, cut}' \subseteq BOOLEAN
    BY Zenon, <1>1, <1>3, <2>1, <2>2 DEF HysteriaTypeOK
  <2>2b. serves' /\ (a = "retry" => ~quiet') BY Zenon, <2>2
  <2>3. /\ flow' \in Flows /\ flow'[a].pc = "idle"
        /\ \A b \in Actor : b # a => flow'[b].pc = flow[b].pc /\ (flow'[b].current => flow[b].current)
    BY <1>1, <2>1, FlowLeave, FlowOutdated DEF Flows, Flow
  <2>4. process = "alive" /\ ~compat.pending
    <3>1. process # "none" /\ ~stopping BY DEF RemoteUp, Abandoned
    <3>2. Begun(a) BY <1>2 DEF Runs
    <3>3. process = "alive" BY <1>1, <3>1, <3>2 DEF HyInv, Attempted, HysteriaTypeOK
    <3>4. a = "retry" => flow[a].current BY <1>2 DEF Runs
    <3>5. compat.pending => a = "owner" /\ flow[a].current
      BY <1>2, <3>4 DEF Runs, RemoteUp, Abandoned, HyInv, FirstRestart
    <3> QED BY <1>5, <3>3, <3>5 DEF Restart
  <2>5. compat' \in Compat /\ (compat'.config => compat.config /\ (compat'.used <=> compat.used)) /\ ~compat'.pending
    BY <1>1, <1>5, <2>4, NoCompatFacts DEF RemoteUp, Clear, HysteriaTypeOK, Compat
  <2>6. flow[a].pc = "remote" /\ (a = "retry" => flow[a].current) BY <1>2 DEF Runs
  <2>7. ClientFacts'
    BY <1>1, <2>1, <2>2, <2>2a, <2>2b, <2>3, <2>4, <2>6
    DEF HyInv, ClientFacts, OneDrives, HysteriaTypeOK
  <2>8. OneDrives' BY <1>1, <1>3, <2>1, <2>2, <2>2a, <2>3, <2>4, <2>5, <2>6 DEF HyInv, OneDrives
  <2>9. Attempted' BY <1>1, <1>3, <2>1, <2>2, <2>3, <2>4, <2>6 DEF HyInv, Attempted, OneDrives
  <2>10. OneRetry' /\ FirstRestart'
    BY <1>1, <1>3, <2>1, <2>3, <2>5, <2>6 DEF HyInv, OneRetry, FirstRestart, OneDrives
  <2>11. FileKept' BY <2>2 DEF FileKept
  <2>12. Heard'
    BY <1>1, <1>3, <2>1, <2>2, <2>2a, <2>2b, <2>3, <2>4, <2>5, <2>6
    DEF HyInv, Heard, OneDrives, ClientFacts
  <2>13. HysteriaTypeOK'
    BY <1>1, <1>3, <2>1, <2>2a, <2>3, <2>5, <2>7 DEF HysteriaTypeOK, ClientFacts, Flows, Code
  <2> QED BY <2>7, <2>8, <2>9, <2>10, <2>11, <2>12, <2>13 DEF HyInv
<1> QED BY <1>4, <1>5

LEMMA TimerFiresSafe == ASSUME HyInv, TimerFires PROVE HyInv'
<1>1. HysteriaTypeOK /\ flow \in Flows BY DEF HyInv, HysteriaTypeOK, Flows
<1>2. /\ OwnerIdle /\ RetryIdle /\ compat.pending /\ compat.config /\ compat.used /\ retries = 0
      /\ (~cut => told)
  BY DEF TimerFires, HyInv, OneDrives, FirstRestart, Heard
<1>3. /\ compat' \in Compat /\ ~compat'.pending
      /\ compat'.config = compat.config /\ compat'.used = compat.used
  BY <1>1 DEF TimerFires, HysteriaTypeOK, Compat
<1>4. /\ UNCHANGED <<needed, told, unheard, cut, hyStarts, hyFaults>>
  BY DEF TimerFires
<1>5. timer' = FALSE BY Zenon DEF TimerFires
<1>6. CASE stopping
  <2>1. UNCHANGED <<process, serves, starting, stopping, configFile, report, authed, wave, flow, quiet, alert, retries>>
    BY <1>6 DEF TimerFires
  <2>2. {serves, starting, stopping, configFile, authed, timer, quiet, needed, told, unheard, alert, cut}' \subseteq BOOLEAN
    BY Zenon, <1>1, <1>4, <1>5, <2>1 DEF HysteriaTypeOK
  <2>20. ClientFacts' BY <1>1, <1>2, <1>3, <1>4, <1>5, <1>6, <2>1 DEF HyInv, ClientFacts
  <2>21. OneDrives' BY <1>1, <1>2, <1>3, <1>4, <1>5, <1>6, <2>1 DEF HyInv, OneDrives, FirstRestart
  <2>22. Attempted'
    BY <1>1, <1>2, <1>3, <1>4, <1>5, <1>6, <2>1 DEF HyInv, ClientFacts, OneDrives, Attempted
  <2>23. OneRetry' /\ FirstRestart'
    BY <1>1, <1>2, <1>3, <1>4, <1>5, <1>6, <2>1 DEF HyInv, OneRetry, OneDrives, FirstRestart
  <2>24. FileKept'
    BY <1>1, <1>2, <1>3, <1>4, <1>5, <1>6, <2>1
    DEF HyInv, ClientFacts, Attempted, OneDrives, FileKept
  <2>25. Heard'
    BY <1>1, <1>2, <1>3, <1>4, <1>5, <1>6, <2>1
    DEF HyInv, ClientFacts, OneDrives, Attempted, FirstRestart, Heard
  <2>26. HysteriaTypeOK'
    BY <1>1, <1>3, <1>4, <2>1, <2>2, <2>20 DEF HysteriaTypeOK, ClientFacts, Flows
  <2> QED BY <2>20, <2>21, <2>22, <2>23, <2>24, <2>25, <2>26 DEF HyInv
<1>7. CASE ~stopping
  <2>1. Replace("retry", Enter(flow, "retry"), report.code) BY <1>7 DEF TimerFires
  <2>2. retries' = retries + 1 BY <1>7 DEF TimerFires
  <2>3. quiet' = TRUE BY Zenon, <1>7 DEF TimerFires
  <2>4. report' \in [made : BOOLEAN, code : Code]
    <3>1. report' = [made |-> FALSE, code |-> report.code] BY <2>1 DEF Replace
    <3> QED BY <1>1, <3>1 DEF HysteriaTypeOK
  <2>5. /\ flow' \in Flows /\ flow'["owner"] = flow["owner"] /\ flow'["retry"].current
        /\ flow'["retry"].pc = IF process = "none" THEN "prepare" ELSE "stop"
    BY <1>1, <2>1, FlowEnter, FlowAt, FlowHalt DEF Replace
  <2>6. /\ wave' = 0 /\ serves' = serves /\ starting' = starting
        /\ process = "none" => UNCHANGED <<process, stopping, configFile>> /\ alert' = FALSE /\ authed' = FALSE
        /\ process # "none" => /\ process' = "dying" /\ stopping' = TRUE /\ configFile' = FALSE
                               /\ UNCHANGED <<authed, alert>>
    BY Zenon, <2>1 DEF Replace, proc
  <2>7. {serves, starting, stopping, configFile, authed, timer, quiet, needed, told, unheard, alert, cut}' \subseteq BOOLEAN
    BY Zenon, <1>1, <1>4, <1>5, <2>3, <2>6 DEF HysteriaTypeOK
  <2>20. ClientFacts'
    BY <1>1, <1>2, <1>3, <1>4, <1>5, <1>7, <2>2, <2>3, <2>5, <2>6, <2>7 DEF HyInv, ClientFacts
  <2>21. OneDrives'
    BY <1>1, <1>2, <1>3, <1>4, <1>5, <1>7, <2>2, <2>3, <2>5, <2>6, <2>7
    DEF HyInv, OneDrives, FirstRestart
  <2>22. Attempted'
    BY <1>1, <1>2, <1>3, <1>4, <1>5, <1>7, <2>2, <2>3, <2>5, <2>6, <2>7
    DEF HyInv, ClientFacts, OneDrives, Attempted
  <2>23. OneRetry' /\ FirstRestart'
    BY <1>1, <1>2, <1>3, <1>4, <1>5, <1>7, <2>2, <2>3, <2>5, <2>6, <2>7
    DEF HyInv, OneRetry, OneDrives, FirstRestart
  <2>24. FileKept'
    BY <1>1, <1>2, <1>3, <1>4, <1>5, <1>7, <2>2, <2>3, <2>5, <2>6, <2>7
    DEF HyInv, ClientFacts, Attempted, OneDrives, FileKept
  <2>25. Heard'
    BY <1>1, <1>2, <1>3, <1>4, <1>5, <1>7, <2>2, <2>3, <2>5, <2>6, <2>7
    DEF HyInv, ClientFacts, OneDrives, Attempted, FirstRestart, Heard
  <2>26. HysteriaTypeOK'
    BY <1>1, <1>3, <1>4, <2>2, <2>4, <2>5, <2>6, <2>7, <2>20 DEF HysteriaTypeOK, ClientFacts, Flows
  <2> QED BY <2>20, <2>21, <2>22, <2>23, <2>24, <2>25, <2>26 DEF HyInv
<1> QED BY <1>6, <1>7

LEMMA ParrotLineSafe == ASSUME HyInv, ParrotLine PROVE HyInv'
<1>1. HysteriaTypeOK /\ flow \in Flows BY DEF HyInv, HysteriaTypeOK, Flows
<1>2. /\ UNCHANGED <<process, serves, starting, stopping, configFile, authed, quiet, wave, flow>>
      /\ UNCHANGED <<needed, told, unheard, retries, cut>>
  BY DEF ParrotLine
<1>3. process # "none" /\ hyFaults' \in [HyFaults -> Nat] /\ hyStarts' = hyStarts
  BY <1>1, HappensTypes DEF ParrotLine, Says, HyFaults
<1>4. CASE compat.plain \/ (compat.used /\ ~compat.pending /\ ~compat.busy)
  <2>1. report' = Reported(report, "security") /\ UNCHANGED <<compat, timer>> BY <1>4 DEF ParrotLine
  <2>2. alert' = TRUE BY Zenon, <1>4 DEF ParrotLine
  <2>3. /\ report' \in [made : BOOLEAN, code : Code] /\ report'.made /\ report'.code = "security"
    BY <1>1, <2>1, ReportedType DEF HysteriaTypeOK, Code
  <2>4. {serves, starting, stopping, configFile, authed, timer, quiet, needed, told, unheard, alert, cut}' \subseteq BOOLEAN
    BY Zenon, <1>1, <1>2, <2>1, <2>2 DEF HysteriaTypeOK
  <2>20. ClientFacts' BY <1>1, <1>2, <1>3, <2>1, <2>2, <2>3, <2>4 DEF HyInv, ClientFacts
  <2>21. OneDrives' BY <1>1, <1>2, <1>3, <2>1, <2>2, <2>3, <2>4 DEF HyInv, OneDrives, FirstRestart
  <2>22. Attempted'
    BY <1>1, <1>2, <1>3, <2>1, <2>2, <2>3, <2>4 DEF HyInv, ClientFacts, OneDrives, Attempted
  <2>23. OneRetry' /\ FirstRestart'
    BY <1>1, <1>2, <1>3, <2>1, <2>2, <2>3, <2>4 DEF HyInv, OneRetry, OneDrives, FirstRestart
  <2>24. FileKept'
    BY <1>1, <1>2, <1>3, <2>1, <2>2, <2>3, <2>4
    DEF HyInv, ClientFacts, Attempted, OneDrives, FileKept
  <2>25. Heard'
    BY <1>1, <1>2, <1>3, <2>1, <2>2, <2>3, <2>4
    DEF HyInv, ClientFacts, OneDrives, Attempted, FirstRestart, Heard
  <2>26. HysteriaTypeOK'
    BY <1>1, <1>2, <1>3, <2>1, <2>3, <2>4, <2>20 DEF HysteriaTypeOK, ClientFacts, Flows
  <2> QED BY <2>20, <2>21, <2>22, <2>23, <2>24, <2>25, <2>26 DEF HyInv
<1>5. CASE ~(compat.plain \/ (compat.used /\ ~compat.pending /\ ~compat.busy))
  <2>1. UNCHANGED <<report, alert>> BY <1>5 DEF ParrotLine
  <2>2. CASE compat.config /\ ~compat.used /\ ~compat.pending
    <3>1. compat' = [compat EXCEPT !.pending = TRUE, !.used = TRUE] BY <1>5, <2>2 DEF ParrotLine
    <3>2. /\ compat' \in Compat /\ compat'.pending /\ compat'.used /\ compat'.config
      BY <1>1, <2>2, <3>1 DEF HysteriaTypeOK, Compat
    <3>3. timer' = (\A a \in Actor : flow[a].pc = "idle") BY <1>5, <2>2 DEF ParrotLine
    <3>4. (timer' = TRUE /\ OwnerIdle /\ RetryIdle) \/ (timer' = FALSE /\ ~(OwnerIdle /\ RetryIdle))
      BY Zenon, <3>3
    <3>5. {serves, starting, stopping, configFile, authed, timer, quiet, needed, told, unheard, alert, cut}' \subseteq BOOLEAN
      BY Zenon, <1>1, <1>2, <2>1, <3>4 DEF HysteriaTypeOK
    <3>20. ClientFacts' BY <1>1, <1>2, <1>3, <2>1, <2>2, <3>2, <3>4, <3>5 DEF HyInv, ClientFacts
    <3>21. OneDrives'
      BY <1>1, <1>2, <1>3, <2>1, <2>2, <3>2, <3>4, <3>5 DEF HyInv, OneDrives, FirstRestart
    <3>22. Attempted'
      BY <1>1, <1>2, <1>3, <2>1, <2>2, <3>2, <3>4, <3>5 DEF HyInv, ClientFacts, OneDrives, Attempted
    <3>23. OneRetry' /\ FirstRestart'
      BY <1>1, <1>2, <1>3, <2>1, <2>2, <3>2, <3>4, <3>5 DEF HyInv, OneRetry, OneDrives, FirstRestart
    <3>24. FileKept' BY <1>2 DEF HyInv, FileKept
    <3>25. Heard'
      <4>1. ~Drives("retry") /\ (~cut /\ process = "alive" /\ OwnerIdle /\ RetryIdle => told)
        BY <2>2 DEF HyInv, FirstRestart, Heard
      <4>2. ~cut /\ process = "dying" => ~OwnerIdle
        BY <2>2, <4>1 DEF HyInv, Heard
      <4>3. ~cut /\ OwnerIdle => RetryIdle
        BY <1>1, <1>3, <4>1, <4>2 DEF HyInv, OneDrives, HysteriaTypeOK
      <4>4. process \in {"alive", "dying"} BY <1>1, <1>3 DEF HysteriaTypeOK
      <4> QED BY <1>2, <2>2, <3>2, <3>4, <4>1, <4>2, <4>3, <4>4 DEF HyInv, Heard
    <3>26. HysteriaTypeOK'
      BY <1>1, <1>2, <1>3, <2>1, <3>2, <3>5, <3>20 DEF HysteriaTypeOK, ClientFacts, Flows
    <3> QED BY <3>20, <3>21, <3>22, <3>23, <3>24, <3>25, <3>26 DEF HyInv
  <2>3. CASE ~(compat.config /\ ~compat.used /\ ~compat.pending)
    <3>1. UNCHANGED <<compat, timer>> BY <1>5, <2>3 DEF ParrotLine
    <3>20. ClientFacts' BY <1>1, <1>2, <1>3, <2>1, <3>1 DEF HyInv, ClientFacts
    <3>21. OneDrives' BY <1>1, <1>2, <1>3, <2>1, <3>1 DEF HyInv, OneDrives, FirstRestart
    <3>22. Attempted' BY <1>1, <1>2, <1>3, <2>1, <3>1 DEF HyInv, ClientFacts, OneDrives, Attempted
    <3>23. OneRetry' /\ FirstRestart'
      BY <1>1, <1>2, <1>3, <2>1, <3>1 DEF HyInv, OneRetry, OneDrives, FirstRestart
    <3>24. FileKept'
      BY <1>1, <1>2, <1>3, <2>1, <3>1 DEF HyInv, ClientFacts, Attempted, OneDrives, FileKept
    <3>25. Heard'
      BY <1>1, <1>2, <1>3, <2>1, <3>1
      DEF HyInv, ClientFacts, OneDrives, Attempted, FirstRestart, Heard
    <3>26. HysteriaTypeOK'
      BY <1>1, <1>2, <1>3, <2>1, <3>1, <3>20 DEF HysteriaTypeOK, ClientFacts, Flows
    <3> QED BY <3>20, <3>21, <3>22, <3>23, <3>24, <3>25, <3>26 DEF HyInv
  <2> QED BY <2>2, <2>3
<1> QED BY <1>4, <1>5

LEMMA StoppedSafe == ASSUME HyInv, NEW a \in Actor, Stopped(a) PROVE HyInv'
<1>1. HysteriaTypeOK /\ flow \in Flows BY DEF HyInv, HysteriaTypeOK, Flows
<1>2. /\ process = "none" /\ UNCHANGED <<process, serves, stopping, configFile, needed, told, retries, cut>>
      /\ UNCHANGED <<hyStarts, hyFaults>>
  BY DEF Stopped
<1>3. starting' = FALSE BY Zenon DEF Stopped
<1>4. flow[a].pc = "stop" /\ (a = "retry" => flow[a].current) BY DEF Stopped, Runs
<1>5. CASE flow[a].next = "begin"
  <2>1. Begin(a) /\ UNCHANGED <<compat, timer, quiet, unheard>> BY <1>5 DEF Stopped
  <2>2. /\ flow' \in Flows /\ flow'[a].pc = "prepare" /\ flow'[a].current
        /\ \A b \in Actor : b # a => flow'[b] = flow[b]
    BY <1>1, <2>1, FlowBegins DEF Begin
  <2>3. report' \in [made : BOOLEAN, code : Code]
    BY <1>1, <2>1 DEF Begin, HysteriaTypeOK
  <2>4. authed' = FALSE /\ wave' = 0 /\ alert' = FALSE BY Zenon, <2>1 DEF Begin
  <2>5. {serves, starting, stopping, configFile, authed, timer, quiet, needed, told, unheard, alert, cut}' \subseteq BOOLEAN
    BY Zenon, <1>1, <1>2, <1>3, <2>1, <2>4 DEF HysteriaTypeOK
  <2>20. ClientFacts' BY <1>1, <1>2, <1>3, <1>4, <2>1, <2>2, <2>4, <2>5 DEF HyInv, ClientFacts
  <2>21. OneDrives'
    BY <1>1, <1>2, <1>3, <1>4, <2>1, <2>2, <2>4, <2>5 DEF HyInv, OneDrives, FirstRestart
  <2>22. Attempted'
    BY <1>1, <1>2, <1>3, <1>4, <2>1, <2>2, <2>4, <2>5 DEF HyInv, ClientFacts, OneDrives, Attempted
  <2>23. OneRetry' /\ FirstRestart'
    BY <1>1, <1>2, <1>3, <1>4, <2>1, <2>2, <2>4, <2>5 DEF HyInv, OneRetry, OneDrives, FirstRestart
  <2>24. FileKept'
    BY <1>1, <1>2, <1>3, <1>4, <2>1, <2>2, <2>4, <2>5
    DEF HyInv, ClientFacts, Attempted, OneDrives, FileKept
  <2>25. Heard'
    BY <1>1, <1>2, <1>3, <1>4, <2>1, <2>2, <2>4, <2>5
    DEF HyInv, ClientFacts, OneDrives, Attempted, FirstRestart, Heard
  <2>26. HysteriaTypeOK'
    BY <1>1, <1>2, <2>1, <2>2, <2>3, <2>4, <2>5, <2>20 DEF HysteriaTypeOK, ClientFacts, Flows
  <2> QED BY <2>20, <2>21, <2>22, <2>23, <2>24, <2>25, <2>26 DEF HyInv
<1>6. CASE flow[a].next # "begin"
  <2>1. UNCHANGED <<authed, wave, alert>> BY <1>6 DEF Stopped
  <2>2. \/ Fails(a, report, FALSE)
        \/ Fails(a, Reported(report, Or(report.code, "network")), FALSE)
    BY <1>6 DEF Stopped
  <2>3. Or(report.code, "network") \in Code BY <1>1 DEF Or, Code, HysteriaTypeOK
  <2>4. PICK r \in [made : BOOLEAN, code : Code] : Fails(a, r, FALSE)
    BY <1>1, <2>2, <2>3, ReportedType DEF HysteriaTypeOK
  <2>5. report' \in [made : BOOLEAN, code : Code]
    <3>1. report' = r \/ report' = Reported(r, "other") BY Zenon, <2>4 DEF Fails
    <3> QED BY <3>1, ReportedType DEF Code
  <2>6. /\ flow' = Leave(flow, a) \/ flow' = Outdated(Leave(flow, a))
        /\ (compat' = compat /\ timer' = timer) \/ (compat' = NoCompat /\ timer' = FALSE)
        /\ a = "retry" => quiet' = FALSE /\ unheard' = (told /\ ~serves)
        /\ a # "retry" => UNCHANGED <<quiet, unheard>>
    BY Zenon, <2>4 DEF Fails, Clear, NewGeneration
  <2>7. /\ flow' \in Flows /\ flow'[a].pc = "idle"
        /\ \A b \in Actor : b # a => flow'[b].pc = flow[b].pc /\ (flow'[b].current => flow[b].current)
    BY <1>1, <2>6, FlowLeave, FlowOutdated DEF Flows, Flow
  <2>8. compat' \in Compat /\ (compat' = compat \/ (~compat'.config /\ ~compat'.pending /\ ~compat'.used))
    BY <1>1, <2>6, NoCompatFacts DEF HysteriaTypeOK
  <2>9. {serves, starting, stopping, configFile, authed, timer, quiet, needed, told, unheard, alert, cut}' \subseteq BOOLEAN
    <3>1. unheard' \in BOOLEAN BY Zenon, <1>1, <2>6 DEF HysteriaTypeOK
    <3> QED BY Zenon, <1>1, <1>2, <1>3, <2>1, <2>6, <3>1 DEF HysteriaTypeOK
  <2>20. ClientFacts' BY <1>1, <1>2, <1>3, <1>4, <2>1, <2>6, <2>7, <2>8, <2>9 DEF HyInv, ClientFacts
  <2>21. OneDrives'
    BY <1>1, <1>2, <1>3, <1>4, <2>1, <2>6, <2>7, <2>8, <2>9 DEF HyInv, OneDrives, FirstRestart
  <2>22. Attempted'
    BY <1>1, <1>2, <1>3, <1>4, <2>1, <2>6, <2>7, <2>8, <2>9
    DEF HyInv, ClientFacts, OneDrives, Attempted
  <2>23. OneRetry' /\ FirstRestart'
    BY <1>1, <1>2, <1>3, <1>4, <2>1, <2>6, <2>7, <2>8, <2>9
    DEF HyInv, OneRetry, OneDrives, FirstRestart
  <2>24. FileKept'
    BY <1>1, <1>2, <1>3, <1>4, <2>1, <2>6, <2>7, <2>8, <2>9
    DEF HyInv, ClientFacts, Attempted, OneDrives, FileKept
  <2>25. Heard'
    BY <1>1, <1>2, <1>3, <1>4, <2>1, <2>6, <2>7, <2>8, <2>9
    DEF HyInv, ClientFacts, OneDrives, Attempted, FirstRestart, Heard
  <2>26. HysteriaTypeOK'
    BY <1>1, <1>2, <2>1, <2>5, <2>7, <2>8, <2>9, <2>20 DEF HysteriaTypeOK, ClientFacts, Flows
  <2> QED BY <2>20, <2>21, <2>22, <2>23, <2>24, <2>25, <2>26 DEF HyInv
<1> QED BY <1>5, <1>6

LEMMA StartClientSafe == ASSUME HyInv, StartClient PROVE HyInv'
<1>1. HysteriaTypeOK /\ flow \in Flows BY DEF HyInv, HysteriaTypeOK, Flows
<1>2. {serves, starting, stopping, configFile, authed, timer, quiet, needed, told, unheard, alert, cut}' \subseteq BOOLEAN
  BY Zenon, <1>1 DEF StartClient, Replace, Fresh, HysteriaTypeOK
<1>3. flow' \in Flows
  BY <1>1, FlowAt, FlowHalt, FlowEnter, FlowOutdated DEF StartClient, Replace, Fresh
<1>4a. compat' \in Compat BY <1>1 DEF StartClient, Fresh, HysteriaTypeOK, Compat
<1>4. report' \in [made : BOOLEAN, code : Code]
  BY <1>1, ReportedType DEF StartClient, Replace, Fresh, HysteriaTypeOK, Code
<1>5. /\ process' \in {"none", "alive", "dying"} /\ wave' \in 0..2 /\ retries' \in Nat
      /\ hyStarts' \in 0..MaxHyStarts /\ hyFaults' \in [HyFaults -> Nat]
  BY <1>1, HappensTypes, HysteriaAssumption
  DEF StartClient, Replace, Fresh, HysteriaTypeOK, HyFaults
<1>6. ClientFacts'
  BY <1>1, FlowAt, FlowHalt, FlowEnter, FlowOutdated
  DEF StartClient, Replace, Fresh, HyInv, HysteriaTypeOK, ClientFacts, Attempted
<1>7. OneDrives'
  BY <1>1, FlowAt, FlowHalt, FlowEnter, FlowOutdated
  DEF StartClient, Replace, Fresh, HyInv, HysteriaTypeOK, OneDrives, FirstRestart, Compat
<1>8. Attempted'
  BY <1>1, ReportedType, FlowAt, FlowHalt, FlowEnter, FlowOutdated
  DEF StartClient, Replace, Fresh, HyInv, HysteriaTypeOK, ClientFacts, OneDrives, Attempted, Code
<1>9. OneRetry' /\ FirstRestart'
  BY <1>1, FlowAt, FlowHalt, FlowEnter, FlowOutdated
  DEF StartClient, Replace, Fresh, HyInv, HysteriaTypeOK, OneDrives, FirstRestart, OneRetry, Compat
<1>10. FileKept'
  BY <1>1, FlowAt, FlowHalt, FlowEnter, FlowOutdated
  DEF StartClient, Replace, Fresh, HyInv, HysteriaTypeOK, ClientFacts, OneDrives, Attempted,
      FileKept
<1>11. Heard'
  BY <1>1, FlowAt, FlowHalt, FlowEnter, FlowOutdated
  DEF StartClient, Replace, Fresh, HyInv, HysteriaTypeOK, ClientFacts, OneDrives, Attempted,
      FirstRestart, Heard, Compat
<1>12. HysteriaTypeOK' BY <1>2, <1>3, <1>4, <1>4a, <1>5, <1>6 DEF HysteriaTypeOK, ClientFacts, Flows
<1> QED BY <1>6, <1>7, <1>8, <1>9, <1>10, <1>11, <1>12 DEF HyInv

LEMMA StartRefusedSafe == ASSUME HyInv, StartRefused PROVE HyInv'
<1>1. HysteriaTypeOK /\ flow \in Flows BY DEF HyInv, HysteriaTypeOK, Flows
<1>2. {serves, starting, stopping, configFile, authed, timer, quiet, needed, told, unheard, alert, cut}' \subseteq BOOLEAN
  BY Zenon, <1>1 DEF StartRefused, Clear, NewGeneration, HysteriaTypeOK
<1>3. flow' \in Flows
  BY <1>1, NoCompatFacts, FlowOutdated DEF StartRefused, Clear, NewGeneration
<1>4a. compat' \in Compat
  <2>1. compat' = compat \/ compat' = NoCompat
    BY Zenon DEF StartRefused, Clear, NewGeneration
  <2> QED BY <1>1, <2>1, NoCompatFacts DEF HysteriaTypeOK
<1>4. report' \in [made : BOOLEAN, code : Code]
  BY <1>1, ReportedType DEF StartRefused, Clear, NewGeneration, HysteriaTypeOK, Code
<1>5. /\ process' \in {"none", "alive", "dying"} /\ wave' \in 0..2 /\ retries' \in Nat
      /\ hyStarts' \in 0..MaxHyStarts /\ hyFaults' \in [HyFaults -> Nat]
  BY <1>1, HappensTypes, HysteriaAssumption
  DEF StartRefused, Clear, NewGeneration, HysteriaTypeOK, HyFaults
<1>6. ClientFacts'
  BY <1>1, NoCompatFacts, FlowOutdated
  DEF StartRefused, Clear, NewGeneration, HyInv, HysteriaTypeOK, ClientFacts, Attempted
<1>7. OneDrives'
  BY <1>1, NoCompatFacts, FlowOutdated
  DEF StartRefused, Clear, NewGeneration, HyInv, HysteriaTypeOK, OneDrives, FirstRestart, Compat
<1>8. Attempted'
  BY <1>1, ReportedType, NoCompatFacts, FlowOutdated
  DEF StartRefused, Clear, NewGeneration, HyInv, HysteriaTypeOK, ClientFacts, OneDrives, Attempted,
      Code
<1>9. OneRetry' /\ FirstRestart'
  BY <1>1, NoCompatFacts, FlowOutdated
  DEF StartRefused, Clear, NewGeneration, HyInv, HysteriaTypeOK, OneDrives, FirstRestart, OneRetry,
      Compat
<1>10. FileKept'
  BY <1>1, NoCompatFacts, FlowOutdated
  DEF StartRefused, Clear, NewGeneration, HyInv, HysteriaTypeOK, ClientFacts, OneDrives, Attempted,
      FileKept
<1>11. Heard'
  BY <1>1, NoCompatFacts, FlowOutdated
  DEF StartRefused, Clear, NewGeneration, HyInv, HysteriaTypeOK, ClientFacts, OneDrives, Attempted,
      FirstRestart, Heard, Compat
<1>12. HysteriaTypeOK' BY <1>2, <1>3, <1>4, <1>4a, <1>5, <1>6 DEF HysteriaTypeOK, ClientFacts, Flows
<1> QED BY <1>6, <1>7, <1>8, <1>9, <1>10, <1>11, <1>12 DEF HyInv

LEMMA StopClientSafe == ASSUME HyInv, StopClient PROVE HyInv'
<1>1. HysteriaTypeOK /\ flow \in Flows BY DEF HyInv, HysteriaTypeOK, Flows
<1>2. {serves, starting, stopping, configFile, authed, timer, quiet, needed, told, unheard, alert, cut}' \subseteq BOOLEAN
  BY Zenon, <1>1 DEF StopClient, Clear, NewGeneration, StopsAtOnce, HysteriaTypeOK
<1>3. flow' \in Flows
  BY <1>1, NoCompatFacts, FlowHalt, FlowOutdated DEF StopClient, Clear, NewGeneration, StopsAtOnce
<1>4a. compat' \in Compat
  <2>1. compat' = compat \/ compat' = NoCompat
    BY Zenon DEF StopClient, Clear, NewGeneration, StopsAtOnce
  <2> QED BY <1>1, <2>1, NoCompatFacts DEF HysteriaTypeOK
<1>4. report' \in [made : BOOLEAN, code : Code]
  BY <1>1, ReportedType DEF StopClient, Clear, NewGeneration, StopsAtOnce, HysteriaTypeOK, Code
<1>5. /\ process' \in {"none", "alive", "dying"} /\ wave' \in 0..2 /\ retries' \in Nat
      /\ hyStarts' \in 0..MaxHyStarts /\ hyFaults' \in [HyFaults -> Nat]
  BY <1>1, HappensTypes, HysteriaAssumption
  DEF StopClient, Clear, NewGeneration, StopsAtOnce, HysteriaTypeOK, HyFaults
<1>6. ClientFacts'
  BY <1>1, NoCompatFacts, FlowHalt, FlowOutdated
  DEF StopClient, Clear, NewGeneration, StopsAtOnce, HyInv, HysteriaTypeOK, ClientFacts, Attempted
<1>7. OneDrives'
  BY <1>1, NoCompatFacts, FlowHalt, FlowOutdated
  DEF StopClient, Clear, NewGeneration, StopsAtOnce, HyInv, HysteriaTypeOK, OneDrives,
      FirstRestart, Compat
<1>8. Attempted'
  BY <1>1, ReportedType, NoCompatFacts, FlowHalt, FlowOutdated
  DEF StopClient, Clear, NewGeneration, StopsAtOnce, HyInv, HysteriaTypeOK, ClientFacts, OneDrives,
      Attempted, Code
<1>9. OneRetry' /\ FirstRestart'
  BY <1>1, NoCompatFacts, FlowHalt, FlowOutdated
  DEF StopClient, Clear, NewGeneration, StopsAtOnce, HyInv, HysteriaTypeOK, OneDrives,
      FirstRestart, OneRetry, Compat
<1>10. FileKept'
  BY <1>1, NoCompatFacts, FlowHalt, FlowOutdated
  DEF StopClient, Clear, NewGeneration, StopsAtOnce, HyInv, HysteriaTypeOK, ClientFacts, OneDrives,
      Attempted, FileKept
<1>11. Heard'
  BY <1>1, NoCompatFacts, FlowHalt, FlowOutdated
  DEF StopClient, Clear, NewGeneration, StopsAtOnce, HyInv, HysteriaTypeOK, ClientFacts, OneDrives,
      Attempted, FirstRestart, Heard, Compat
<1>12. HysteriaTypeOK' BY <1>2, <1>3, <1>4, <1>4a, <1>5, <1>6 DEF HysteriaTypeOK, ClientFacts, Flows
<1> QED BY <1>6, <1>7, <1>8, <1>9, <1>10, <1>11, <1>12 DEF HyInv

LEMMA RequestStopSafe == ASSUME HyInv, RequestStop PROVE HyInv'
<1>1. HysteriaTypeOK /\ flow \in Flows BY DEF HyInv, HysteriaTypeOK, Flows
<1>2. {serves, starting, stopping, configFile, authed, timer, quiet, needed, told, unheard, alert, cut}' \subseteq BOOLEAN
  BY Zenon, <1>1 DEF RequestStop, Clear, NewGeneration, HysteriaTypeOK
<1>3. flow' \in Flows
  BY <1>1, NoCompatFacts, FlowOutdated DEF RequestStop, Clear, NewGeneration
<1>4a. compat' \in Compat
  <2>1. compat' = compat \/ compat' = NoCompat
    BY Zenon DEF RequestStop, Clear, NewGeneration
  <2> QED BY <1>1, <2>1, NoCompatFacts DEF HysteriaTypeOK
<1>4. report' \in [made : BOOLEAN, code : Code]
  BY <1>1, ReportedType DEF RequestStop, Clear, NewGeneration, HysteriaTypeOK, Code
<1>5. /\ process' \in {"none", "alive", "dying"} /\ wave' \in 0..2 /\ retries' \in Nat
      /\ hyStarts' \in 0..MaxHyStarts /\ hyFaults' \in [HyFaults -> Nat]
  BY <1>1, HappensTypes, HysteriaAssumption
  DEF RequestStop, Clear, NewGeneration, HysteriaTypeOK, HyFaults
<1>6. ClientFacts'
  BY <1>1, NoCompatFacts, FlowOutdated
  DEF RequestStop, Clear, NewGeneration, HyInv, HysteriaTypeOK, ClientFacts, Attempted
<1>7. OneDrives'
  BY <1>1, NoCompatFacts, FlowOutdated
  DEF RequestStop, Clear, NewGeneration, HyInv, HysteriaTypeOK, OneDrives, FirstRestart, Compat
<1>8. Attempted'
  BY <1>1, ReportedType, NoCompatFacts, FlowOutdated
  DEF RequestStop, Clear, NewGeneration, HyInv, HysteriaTypeOK, ClientFacts, OneDrives, Attempted,
      Code
<1>9. OneRetry' /\ FirstRestart'
  BY <1>1, NoCompatFacts, FlowOutdated
  DEF RequestStop, Clear, NewGeneration, HyInv, HysteriaTypeOK, OneDrives, FirstRestart, OneRetry,
      Compat
<1>10. FileKept'
  BY <1>1, NoCompatFacts, FlowOutdated
  DEF RequestStop, Clear, NewGeneration, HyInv, HysteriaTypeOK, ClientFacts, OneDrives, Attempted,
      FileKept
<1>11. Heard'
  BY <1>1, NoCompatFacts, FlowOutdated
  DEF RequestStop, Clear, NewGeneration, HyInv, HysteriaTypeOK, ClientFacts, OneDrives, Attempted,
      FirstRestart, Heard, Compat
<1>12. HysteriaTypeOK' BY <1>2, <1>3, <1>4, <1>4a, <1>5, <1>6 DEF HysteriaTypeOK, ClientFacts, Flows
<1> QED BY <1>6, <1>7, <1>8, <1>9, <1>10, <1>11, <1>12 DEF HyInv

LEMMA UnwantedSafe == ASSUME HyInv, Unwanted PROVE HyInv'
<1>1. HysteriaTypeOK /\ flow \in Flows BY DEF HyInv, HysteriaTypeOK, Flows
<1>2. {serves, starting, stopping, configFile, authed, timer, quiet, needed, told, unheard, alert, cut}' \subseteq BOOLEAN
  BY Zenon, <1>1 DEF Unwanted, HysteriaTypeOK
<1>3. flow' \in Flows
  BY <1>1 DEF Unwanted
<1>4a. compat' \in Compat
  <2>1. compat' = compat \/ compat' = NoCompat
    BY Zenon DEF Unwanted
  <2> QED BY <1>1, <2>1, NoCompatFacts DEF HysteriaTypeOK
<1>4. report' \in [made : BOOLEAN, code : Code]
  BY <1>1, ReportedType DEF Unwanted, HysteriaTypeOK, Code
<1>5. /\ process' \in {"none", "alive", "dying"} /\ wave' \in 0..2 /\ retries' \in Nat
      /\ hyStarts' \in 0..MaxHyStarts /\ hyFaults' \in [HyFaults -> Nat]
  BY <1>1, HappensTypes, HysteriaAssumption DEF Unwanted, HysteriaTypeOK, HyFaults
<1>6. ClientFacts'
  BY <1>1 DEF Unwanted, HyInv, HysteriaTypeOK, ClientFacts, Attempted
<1>7. OneDrives'
  BY <1>1 DEF Unwanted, HyInv, HysteriaTypeOK, OneDrives, FirstRestart, Compat
<1>8. Attempted'
  BY <1>1, ReportedType DEF Unwanted, HyInv, HysteriaTypeOK, ClientFacts, OneDrives, Attempted, Code
<1>9. OneRetry' /\ FirstRestart'
  BY <1>1 DEF Unwanted, HyInv, HysteriaTypeOK, OneDrives, FirstRestart, OneRetry, Compat
<1>10. FileKept'
  BY <1>1 DEF Unwanted, HyInv, HysteriaTypeOK, ClientFacts, OneDrives, Attempted, FileKept
<1>11. Heard'
  BY <1>1
  DEF Unwanted, HyInv, HysteriaTypeOK, ClientFacts, OneDrives, Attempted, FirstRestart, Heard,
      Compat
<1>12. HysteriaTypeOK' BY <1>2, <1>3, <1>4, <1>4a, <1>5, <1>6 DEF HysteriaTypeOK, ClientFacts, Flows
<1> QED BY <1>6, <1>7, <1>8, <1>9, <1>10, <1>11, <1>12 DEF HyInv

LEMMA CutOffSafe == ASSUME HyInv, CutOff PROVE HyInv'
<1>1. HysteriaTypeOK /\ flow \in Flows BY DEF HyInv, HysteriaTypeOK, Flows
<1>2. {serves, starting, stopping, configFile, authed, timer, quiet, needed, told, unheard, alert, cut}' \subseteq BOOLEAN
  BY Zenon, <1>1 DEF CutOff, HysteriaTypeOK
<1>3. flow' \in Flows
  BY <1>1, FlowLeave DEF CutOff
<1>4a. compat' \in Compat BY <1>1 DEF CutOff, HysteriaTypeOK, Compat
<1>4. report' \in [made : BOOLEAN, code : Code]
  BY <1>1, ReportedType DEF CutOff, HysteriaTypeOK, Code
<1>5. /\ process' \in {"none", "alive", "dying"} /\ wave' \in 0..2 /\ retries' \in Nat
      /\ hyStarts' \in 0..MaxHyStarts /\ hyFaults' \in [HyFaults -> Nat]
  BY <1>1, HappensTypes, HysteriaAssumption DEF CutOff, HysteriaTypeOK, HyFaults
<1>6. ClientFacts'
  BY <1>1, FlowLeave DEF CutOff, HyInv, HysteriaTypeOK, ClientFacts, Attempted
<1>7. OneDrives'
  BY <1>1, FlowLeave DEF CutOff, HyInv, HysteriaTypeOK, OneDrives, FirstRestart, Compat
<1>8. Attempted'
  BY <1>1, ReportedType, FlowLeave
  DEF CutOff, HyInv, HysteriaTypeOK, ClientFacts, OneDrives, Attempted, Code
<1>9. OneRetry' /\ FirstRestart'
  BY <1>1, FlowLeave DEF CutOff, HyInv, HysteriaTypeOK, OneDrives, FirstRestart, OneRetry, Compat
<1>10. FileKept'
  BY <1>1, FlowLeave DEF CutOff, HyInv, HysteriaTypeOK, ClientFacts, OneDrives, Attempted, FileKept
<1>11. Heard'
  BY <1>1, FlowLeave
  DEF CutOff, HyInv, HysteriaTypeOK, ClientFacts, OneDrives, Attempted, FirstRestart, Heard, Compat
<1>12. HysteriaTypeOK' BY <1>2, <1>3, <1>4, <1>4a, <1>5, <1>6 DEF HysteriaTypeOK, ClientFacts, Flows
<1> QED BY <1>6, <1>7, <1>8, <1>9, <1>10, <1>11, <1>12 DEF HyInv

LEMMA StopTimesOutSafe == ASSUME HyInv, NEW a \in Actor, StopTimesOut(a) PROVE HyInv'
<1>1. HysteriaTypeOK /\ flow \in Flows BY DEF HyInv, HysteriaTypeOK, Flows
<1>2. {serves, starting, stopping, configFile, authed, timer, quiet, needed, told, unheard, alert, cut}' \subseteq BOOLEAN
  BY Zenon, <1>1 DEF StopTimesOut, Fails, Clear, NewGeneration, Or, Runs, Wanted, HysteriaTypeOK
<1>3. flow' \in Flows
  BY <1>1, NoCompatFacts, FlowLeave, FlowOutdated
  DEF StopTimesOut, Fails, Clear, NewGeneration, Or, Runs, Wanted
<1>4a. compat' \in Compat
  <2>1. compat' = compat \/ compat' = NoCompat
    BY Zenon DEF StopTimesOut, Fails, Clear, NewGeneration, Or, Runs, Wanted
  <2> QED BY <1>1, <2>1, NoCompatFacts DEF HysteriaTypeOK
<1>4. report' \in [made : BOOLEAN, code : Code]
  BY <1>1, ReportedType
  DEF StopTimesOut, Fails, Clear, NewGeneration, Or, Runs, Wanted, HysteriaTypeOK, Code
<1>5. /\ process' \in {"none", "alive", "dying"} /\ wave' \in 0..2 /\ retries' \in Nat
      /\ hyStarts' \in 0..MaxHyStarts /\ hyFaults' \in [HyFaults -> Nat]
  BY <1>1, HappensTypes, HysteriaAssumption
  DEF StopTimesOut, Fails, Clear, NewGeneration, Or, Runs, Wanted, HysteriaTypeOK, HyFaults
<1>6. ClientFacts'
  BY <1>1, NoCompatFacts, FlowLeave, FlowOutdated
  DEF StopTimesOut, Fails, Clear, NewGeneration, Or, Runs, Wanted, HyInv, HysteriaTypeOK,
      ClientFacts, Attempted
<1>7. OneDrives'
  BY <1>1, NoCompatFacts, FlowLeave, FlowOutdated
  DEF StopTimesOut, Fails, Clear, NewGeneration, Or, Runs, Wanted, HyInv, HysteriaTypeOK,
      OneDrives, FirstRestart, Compat
<1>8. Attempted'
  BY <1>1, ReportedType, NoCompatFacts, FlowLeave, FlowOutdated
  DEF StopTimesOut, Fails, Clear, NewGeneration, Or, Runs, Wanted, HyInv, HysteriaTypeOK,
      ClientFacts, OneDrives, Attempted, Code
<1>9. OneRetry' /\ FirstRestart'
  BY <1>1, NoCompatFacts, FlowLeave, FlowOutdated
  DEF StopTimesOut, Fails, Clear, NewGeneration, Or, Runs, Wanted, HyInv, HysteriaTypeOK,
      OneDrives, FirstRestart, OneRetry, Compat
<1>10. FileKept'
  BY <1>1, NoCompatFacts, FlowLeave, FlowOutdated
  DEF StopTimesOut, Fails, Clear, NewGeneration, Or, Runs, Wanted, HyInv, HysteriaTypeOK,
      ClientFacts, OneDrives, Attempted, FileKept
<1>11. Heard'
  BY <1>1, NoCompatFacts, FlowLeave, FlowOutdated
  DEF StopTimesOut, Fails, Clear, NewGeneration, Or, Runs, Wanted, HyInv, HysteriaTypeOK,
      ClientFacts, OneDrives, Attempted, FirstRestart, Heard, Compat
<1>12. HysteriaTypeOK' BY <1>2, <1>3, <1>4, <1>4a, <1>5, <1>6 DEF HysteriaTypeOK, ClientFacts, Flows
<1> QED BY <1>6, <1>7, <1>8, <1>9, <1>10, <1>11, <1>12 DEF HyInv

LEMMA PrepareSafe == ASSUME HyInv, NEW a \in Actor, Prepare(a) PROVE HyInv'
<1>1. HysteriaTypeOK /\ flow \in Flows BY DEF HyInv, HysteriaTypeOK, Flows
<1>2. {serves, starting, stopping, configFile, authed, timer, quiet, needed, told, unheard, alert, cut}' \subseteq BOOLEAN
  BY Zenon, <1>1 DEF Prepare, Fails, Clear, NewGeneration, Or, Runs, Wanted, HysteriaTypeOK
<1>3. flow' \in Flows
  BY <1>1, NoCompatFacts, FlowAt, FlowLeave, FlowOutdated
  DEF Prepare, Fails, Clear, NewGeneration, Or, Runs, Wanted
<1>4a. compat' \in Compat
  <2>1. compat' = compat \/ compat' = NoCompat
    BY Zenon DEF Prepare, Fails, Clear, NewGeneration, Or, Runs, Wanted
  <2> QED BY <1>1, <2>1, NoCompatFacts DEF HysteriaTypeOK
<1>4. report' \in [made : BOOLEAN, code : Code]
  BY <1>1, ReportedType
  DEF Prepare, Fails, Clear, NewGeneration, Or, Runs, Wanted, HysteriaTypeOK, Code
<1>5. /\ process' \in {"none", "alive", "dying"} /\ wave' \in 0..2 /\ retries' \in Nat
      /\ hyStarts' \in 0..MaxHyStarts /\ hyFaults' \in [HyFaults -> Nat]
  BY <1>1, HappensTypes, HysteriaAssumption
  DEF Prepare, Fails, Clear, NewGeneration, Or, Runs, Wanted, HysteriaTypeOK, HyFaults
<1>6. ClientFacts'
  BY <1>1, NoCompatFacts, FlowAt, FlowLeave, FlowOutdated
  DEF Prepare, Fails, Clear, NewGeneration, Or, Runs, Wanted, HyInv, HysteriaTypeOK, ClientFacts,
      Attempted
<1>7. OneDrives'
  BY <1>1, NoCompatFacts, FlowAt, FlowLeave, FlowOutdated
  DEF Prepare, Fails, Clear, NewGeneration, Or, Runs, Wanted, HyInv, HysteriaTypeOK, OneDrives,
      FirstRestart, Compat
<1>8. Attempted'
  BY <1>1, ReportedType, NoCompatFacts, FlowAt, FlowLeave, FlowOutdated
  DEF Prepare, Fails, Clear, NewGeneration, Or, Runs, Wanted, HyInv, HysteriaTypeOK, ClientFacts,
      OneDrives, Attempted, Code
<1>9. OneRetry' /\ FirstRestart'
  BY <1>1, NoCompatFacts, FlowAt, FlowLeave, FlowOutdated
  DEF Prepare, Fails, Clear, NewGeneration, Or, Runs, Wanted, HyInv, HysteriaTypeOK, OneDrives,
      FirstRestart, OneRetry, Compat
<1>10. FileKept'
  <2>1. process = "none" /\ ~serves /\ ~configFile
    BY DEF Prepare, Runs, HyInv, ClientFacts, Attempted, FileKept
  <2>2. CASE ~configFile' BY <2>2 DEF FileKept
  <2>3. CASE configFile'
    <3>1. process' = "alive" /\ flow' = At(flow, a, "spawn") /\ flow[a].current /\ serves' = serves
      BY Zenon, <2>1, <2>3 DEF Prepare
    <3>2. Begun(a)' BY <1>1, <3>1, FlowAt
    <3> QED BY <2>1, <3>1, <3>2 DEF FileKept
  <2> QED BY <2>2, <2>3
<1>11. Heard'
  BY <1>1, NoCompatFacts, FlowAt, FlowLeave, FlowOutdated
  DEF Prepare, Fails, Clear, NewGeneration, Or, Runs, Wanted, HyInv, HysteriaTypeOK, ClientFacts,
      OneDrives, Attempted, FirstRestart, Heard, Compat
<1>12. HysteriaTypeOK' BY <1>2, <1>3, <1>4, <1>4a, <1>5, <1>6 DEF HysteriaTypeOK, ClientFacts, Flows
<1> QED BY <1>6, <1>7, <1>8, <1>9, <1>10, <1>11, <1>12 DEF HyInv

LEMMA SpawnedSafe == ASSUME HyInv, NEW a \in Actor, Spawned(a) PROVE HyInv'
<1>1. HysteriaTypeOK /\ flow \in Flows BY DEF HyInv, HysteriaTypeOK, Flows
<1>2. {serves, starting, stopping, configFile, authed, timer, quiet, needed, told, unheard, alert, cut}' \subseteq BOOLEAN
  BY Zenon, <1>1 DEF Spawned, Runs, Wanted, HysteriaTypeOK
<1>3. flow' \in Flows
  BY <1>1, FlowAt DEF Spawned, Runs, Wanted
<1>4a. compat' \in Compat
  <2>1. compat' = compat \/ compat' = NoCompat
    BY Zenon DEF Spawned, Runs, Wanted
  <2> QED BY <1>1, <2>1, NoCompatFacts DEF HysteriaTypeOK
<1>4. report' \in [made : BOOLEAN, code : Code]
  BY <1>1, ReportedType DEF Spawned, Runs, Wanted, HysteriaTypeOK, Code
<1>5. /\ process' \in {"none", "alive", "dying"} /\ wave' \in 0..2 /\ retries' \in Nat
      /\ hyStarts' \in 0..MaxHyStarts /\ hyFaults' \in [HyFaults -> Nat]
  BY <1>1, HappensTypes, HysteriaAssumption DEF Spawned, Runs, Wanted, HysteriaTypeOK, HyFaults
<1>6. ClientFacts'
  BY <1>1, FlowAt DEF Spawned, Runs, Wanted, HyInv, HysteriaTypeOK, ClientFacts, Attempted
<1>7. OneDrives'
  BY <1>1, FlowAt DEF Spawned, Runs, Wanted, HyInv, HysteriaTypeOK, OneDrives, FirstRestart, Compat
<1>8. Attempted'
  BY <1>1, ReportedType, FlowAt
  DEF Spawned, Runs, Wanted, HyInv, HysteriaTypeOK, ClientFacts, OneDrives, Attempted, Code
<1>9. OneRetry' /\ FirstRestart'
  BY <1>1, FlowAt
  DEF Spawned, Runs, Wanted, HyInv, HysteriaTypeOK, OneDrives, FirstRestart, OneRetry, Compat
<1>10. FileKept'
  BY <1>1, FlowAt
  DEF Spawned, Runs, Wanted, HyInv, HysteriaTypeOK, ClientFacts, OneDrives, Attempted, FileKept
<1>11. Heard'
  BY <1>1, FlowAt
  DEF Spawned, Runs, Wanted, HyInv, HysteriaTypeOK, ClientFacts, OneDrives, Attempted,
      FirstRestart, Heard, Compat
<1>12. HysteriaTypeOK' BY <1>2, <1>3, <1>4, <1>4a, <1>5, <1>6 DEF HysteriaTypeOK, ClientFacts, Flows
<1> QED BY <1>6, <1>7, <1>8, <1>9, <1>10, <1>11, <1>12 DEF HyInv

LEMMA ClientSpawnFailsSafe == ASSUME HyInv, NEW a \in Actor, SpawnFails(a) PROVE HyInv'
<1>1. HysteriaTypeOK /\ flow \in Flows BY DEF HyInv, HysteriaTypeOK, Flows
<1>2. {serves, starting, stopping, configFile, authed, timer, quiet, needed, told, unheard, alert, cut}' \subseteq BOOLEAN
  BY Zenon, <1>1 DEF SpawnFails, Fails, Clear, NewGeneration, Or, Runs, Wanted, HysteriaTypeOK
<1>3. flow' \in Flows
  BY <1>1, NoCompatFacts, FlowLeave, FlowOutdated
  DEF SpawnFails, Fails, Clear, NewGeneration, Or, Runs, Wanted
<1>4a. compat' \in Compat
  <2>1. compat' = compat \/ compat' = NoCompat
    BY Zenon DEF SpawnFails, Fails, Clear, NewGeneration, Or, Runs, Wanted
  <2> QED BY <1>1, <2>1, NoCompatFacts DEF HysteriaTypeOK
<1>4. report' \in [made : BOOLEAN, code : Code]
  BY <1>1, ReportedType
  DEF SpawnFails, Fails, Clear, NewGeneration, Or, Runs, Wanted, HysteriaTypeOK, Code
<1>5. /\ process' \in {"none", "alive", "dying"} /\ wave' \in 0..2 /\ retries' \in Nat
      /\ hyStarts' \in 0..MaxHyStarts /\ hyFaults' \in [HyFaults -> Nat]
  BY <1>1, HappensTypes, HysteriaAssumption
  DEF SpawnFails, Fails, Clear, NewGeneration, Or, Runs, Wanted, HysteriaTypeOK, HyFaults
<1>6. ClientFacts'
  BY <1>1, NoCompatFacts, FlowLeave, FlowOutdated
  DEF SpawnFails, Fails, Clear, NewGeneration, Or, Runs, Wanted, HyInv, HysteriaTypeOK,
      ClientFacts, Attempted
<1>7. OneDrives'
  BY <1>1, NoCompatFacts, FlowLeave, FlowOutdated
  DEF SpawnFails, Fails, Clear, NewGeneration, Or, Runs, Wanted, HyInv, HysteriaTypeOK, OneDrives,
      FirstRestart, Compat
<1>8. Attempted'
  BY <1>1, ReportedType, NoCompatFacts, FlowLeave, FlowOutdated
  DEF SpawnFails, Fails, Clear, NewGeneration, Or, Runs, Wanted, HyInv, HysteriaTypeOK,
      ClientFacts, OneDrives, Attempted, Code
<1>9. OneRetry' /\ FirstRestart'
  BY <1>1, NoCompatFacts, FlowLeave, FlowOutdated
  DEF SpawnFails, Fails, Clear, NewGeneration, Or, Runs, Wanted, HyInv, HysteriaTypeOK, OneDrives,
      FirstRestart, OneRetry, Compat
<1>10. FileKept'
  BY <1>1, NoCompatFacts, FlowLeave, FlowOutdated
  DEF SpawnFails, Fails, Clear, NewGeneration, Or, Runs, Wanted, HyInv, HysteriaTypeOK,
      ClientFacts, OneDrives, Attempted, FileKept
<1>11. Heard'
  BY <1>1, NoCompatFacts, FlowLeave, FlowOutdated
  DEF SpawnFails, Fails, Clear, NewGeneration, Or, Runs, Wanted, HyInv, HysteriaTypeOK,
      ClientFacts, OneDrives, Attempted, FirstRestart, Heard, Compat
<1>12. HysteriaTypeOK' BY <1>2, <1>3, <1>4, <1>4a, <1>5, <1>6 DEF HysteriaTypeOK, ClientFacts, Flows
<1> QED BY <1>6, <1>7, <1>8, <1>9, <1>10, <1>11, <1>12 DEF HyInv

LEMMA TryRelaySafe == ASSUME HyInv, NEW a \in Actor, TryRelay(a) PROVE HyInv'
<1>1. HysteriaTypeOK /\ flow \in Flows BY DEF HyInv, HysteriaTypeOK, Flows
<1>2. {serves, starting, stopping, configFile, authed, timer, quiet, needed, told, unheard, alert, cut}' \subseteq BOOLEAN
  BY Zenon, <1>1 DEF TryRelay, Runs, Wanted, HysteriaTypeOK
<1>3. flow' \in Flows
  BY <1>1, FlowAt DEF TryRelay, Runs, Wanted
<1>4a. compat' \in Compat
  <2>1. compat' = compat \/ compat' = NoCompat
    BY Zenon DEF TryRelay, Runs, Wanted
  <2> QED BY <1>1, <2>1, NoCompatFacts DEF HysteriaTypeOK
<1>4. report' \in [made : BOOLEAN, code : Code]
  BY <1>1, ReportedType DEF TryRelay, Runs, Wanted, HysteriaTypeOK, Code
<1>5. /\ process' \in {"none", "alive", "dying"} /\ wave' \in 0..2 /\ retries' \in Nat
      /\ hyStarts' \in 0..MaxHyStarts /\ hyFaults' \in [HyFaults -> Nat]
  BY <1>1, HappensTypes, HysteriaAssumption DEF TryRelay, Runs, Wanted, HysteriaTypeOK, HyFaults
<1>6. ClientFacts'
  BY <1>1, FlowAt DEF TryRelay, Runs, Wanted, HyInv, HysteriaTypeOK, ClientFacts, Attempted
<1>7. OneDrives'
  BY <1>1, FlowAt DEF TryRelay, Runs, Wanted, HyInv, HysteriaTypeOK, OneDrives, FirstRestart, Compat
<1>8. Attempted'
  BY <1>1, ReportedType, FlowAt
  DEF TryRelay, Runs, Wanted, HyInv, HysteriaTypeOK, ClientFacts, OneDrives, Attempted, Code
<1>9. OneRetry' /\ FirstRestart'
  BY <1>1, FlowAt
  DEF TryRelay, Runs, Wanted, HyInv, HysteriaTypeOK, OneDrives, FirstRestart, OneRetry, Compat
<1>10. FileKept'
  BY <1>1, FlowAt
  DEF TryRelay, Runs, Wanted, HyInv, HysteriaTypeOK, ClientFacts, OneDrives, Attempted, FileKept
<1>11. Heard'
  BY <1>1, FlowAt
  DEF TryRelay, Runs, Wanted, HyInv, HysteriaTypeOK, ClientFacts, OneDrives, Attempted,
      FirstRestart, Heard, Compat
<1>12. HysteriaTypeOK' BY <1>2, <1>3, <1>4, <1>4a, <1>5, <1>6 DEF HysteriaTypeOK, ClientFacts, Flows
<1> QED BY <1>6, <1>7, <1>8, <1>9, <1>10, <1>11, <1>12 DEF HyInv

LEMMA RelayAgainSafe == ASSUME HyInv, NEW a \in Actor, RelayAgain(a) PROVE HyInv'
<1>1. HysteriaTypeOK /\ flow \in Flows BY DEF HyInv, HysteriaTypeOK, Flows
<1>2. {serves, starting, stopping, configFile, authed, timer, quiet, needed, told, unheard, alert, cut}' \subseteq BOOLEAN
  BY Zenon, <1>1 DEF RelayAgain, Runs, Wanted, HysteriaTypeOK
<1>3. flow' \in Flows
  BY <1>1, FlowAt DEF RelayAgain, Runs, Wanted
<1>4a. compat' \in Compat
  <2>1. compat' = compat \/ compat' = NoCompat
    BY Zenon DEF RelayAgain, Runs, Wanted
  <2> QED BY <1>1, <2>1, NoCompatFacts DEF HysteriaTypeOK
<1>4. report' \in [made : BOOLEAN, code : Code]
  BY <1>1, ReportedType DEF RelayAgain, Runs, Wanted, HysteriaTypeOK, Code
<1>5. /\ process' \in {"none", "alive", "dying"} /\ wave' \in 0..2 /\ retries' \in Nat
      /\ hyStarts' \in 0..MaxHyStarts /\ hyFaults' \in [HyFaults -> Nat]
  BY <1>1, HappensTypes, HysteriaAssumption DEF RelayAgain, Runs, Wanted, HysteriaTypeOK, HyFaults
<1>6. ClientFacts'
  BY <1>1, FlowAt DEF RelayAgain, Runs, Wanted, HyInv, HysteriaTypeOK, ClientFacts, Attempted
<1>7. OneDrives'
  BY <1>1, FlowAt
  DEF RelayAgain, Runs, Wanted, HyInv, HysteriaTypeOK, OneDrives, FirstRestart, Compat
<1>8. Attempted'
  BY <1>1, ReportedType, FlowAt
  DEF RelayAgain, Runs, Wanted, HyInv, HysteriaTypeOK, ClientFacts, OneDrives, Attempted, Code
<1>9. OneRetry' /\ FirstRestart'
  BY <1>1, FlowAt
  DEF RelayAgain, Runs, Wanted, HyInv, HysteriaTypeOK, OneDrives, FirstRestart, OneRetry, Compat
<1>10. FileKept'
  BY <1>1, FlowAt
  DEF RelayAgain, Runs, Wanted, HyInv, HysteriaTypeOK, ClientFacts, OneDrives, Attempted, FileKept
<1>11. Heard'
  BY <1>1, FlowAt
  DEF RelayAgain, Runs, Wanted, HyInv, HysteriaTypeOK, ClientFacts, OneDrives, Attempted,
      FirstRestart, Heard, Compat
<1>12. HysteriaTypeOK' BY <1>2, <1>3, <1>4, <1>4a, <1>5, <1>6 DEF HysteriaTypeOK, ClientFacts, Flows
<1> QED BY <1>6, <1>7, <1>8, <1>9, <1>10, <1>11, <1>12 DEF HyInv

LEMMA RetryClosedSafe == ASSUME HyInv, RetryClosed PROVE HyInv'
<1>1. HysteriaTypeOK /\ flow \in Flows BY DEF HyInv, HysteriaTypeOK, Flows
<1>2. {serves, starting, stopping, configFile, authed, timer, quiet, needed, told, unheard, alert, cut}' \subseteq BOOLEAN
  BY Zenon, <1>1 DEF RetryClosed, HysteriaTypeOK
<1>3. flow' \in Flows
  BY <1>1, FlowLeave DEF RetryClosed
<1>4a. compat' \in Compat BY <1>1 DEF RetryClosed, HysteriaTypeOK, Compat
<1>4. report' \in [made : BOOLEAN, code : Code]
  BY <1>1, ReportedType DEF RetryClosed, HysteriaTypeOK, Code
<1>5. /\ process' \in {"none", "alive", "dying"} /\ wave' \in 0..2 /\ retries' \in Nat
      /\ hyStarts' \in 0..MaxHyStarts /\ hyFaults' \in [HyFaults -> Nat]
  BY <1>1, HappensTypes, HysteriaAssumption DEF RetryClosed, HysteriaTypeOK, HyFaults
<1>6. ClientFacts'
  BY <1>1, FlowLeave DEF RetryClosed, HyInv, HysteriaTypeOK, ClientFacts, Attempted
<1>7. OneDrives'
  BY <1>1, FlowLeave DEF RetryClosed, HyInv, HysteriaTypeOK, OneDrives, FirstRestart, Compat
<1>8. Attempted'
  BY <1>1, ReportedType, FlowLeave
  DEF RetryClosed, HyInv, HysteriaTypeOK, ClientFacts, OneDrives, Attempted, Code
<1>9. OneRetry' /\ FirstRestart'
  BY <1>1, FlowLeave
  DEF RetryClosed, HyInv, HysteriaTypeOK, OneDrives, FirstRestart, OneRetry, Compat
<1>10. FileKept'
  BY <1>1, FlowLeave
  DEF RetryClosed, HyInv, HysteriaTypeOK, ClientFacts, OneDrives, Attempted, FileKept
<1>11. Heard'
  BY <1>1, FlowLeave
  DEF RetryClosed, HyInv, HysteriaTypeOK, ClientFacts, OneDrives, Attempted, FirstRestart, Heard,
      Compat
<1>12. HysteriaTypeOK' BY <1>2, <1>3, <1>4, <1>4a, <1>5, <1>6 DEF HysteriaTypeOK, ClientFacts, Flows
<1> QED BY <1>6, <1>7, <1>8, <1>9, <1>10, <1>11, <1>12 DEF HyInv

LEMMA AuthLineSafe == ASSUME HyInv, AuthLine PROVE HyInv'
<1>1. HysteriaTypeOK /\ flow \in Flows BY DEF HyInv, HysteriaTypeOK, Flows
<1>2. {serves, starting, stopping, configFile, authed, timer, quiet, needed, told, unheard, alert, cut}' \subseteq BOOLEAN
  BY Zenon, <1>1 DEF AuthLine, Says, HysteriaTypeOK
<1>3. flow' \in Flows
  BY <1>1 DEF AuthLine, Says
<1>4a. compat' \in Compat
  <2>1. compat' = compat \/ compat' = NoCompat
    BY Zenon DEF AuthLine, Says
  <2> QED BY <1>1, <2>1, NoCompatFacts DEF HysteriaTypeOK
<1>4. report' \in [made : BOOLEAN, code : Code]
  BY <1>1, ReportedType DEF AuthLine, Says, HysteriaTypeOK, Code
<1>5. /\ process' \in {"none", "alive", "dying"} /\ wave' \in 0..2 /\ retries' \in Nat
      /\ hyStarts' \in 0..MaxHyStarts /\ hyFaults' \in [HyFaults -> Nat]
  BY <1>1, HappensTypes, HysteriaAssumption DEF AuthLine, Says, HysteriaTypeOK, HyFaults
<1>6. ClientFacts'
  BY <1>1 DEF AuthLine, Says, HyInv, HysteriaTypeOK, ClientFacts, Attempted
<1>7. OneDrives'
  BY <1>1 DEF AuthLine, Says, HyInv, HysteriaTypeOK, OneDrives, FirstRestart, Compat
<1>8. Attempted'
  BY <1>1, ReportedType
  DEF AuthLine, Says, HyInv, HysteriaTypeOK, ClientFacts, OneDrives, Attempted, Code
<1>9. OneRetry' /\ FirstRestart'
  BY <1>1 DEF AuthLine, Says, HyInv, HysteriaTypeOK, OneDrives, FirstRestart, OneRetry, Compat
<1>10. FileKept'
  BY <1>1 DEF AuthLine, Says, HyInv, HysteriaTypeOK, ClientFacts, OneDrives, Attempted, FileKept
<1>11. Heard'
  BY <1>1
  DEF AuthLine, Says, HyInv, HysteriaTypeOK, ClientFacts, OneDrives, Attempted, FirstRestart,
      Heard, Compat
<1>12. HysteriaTypeOK' BY <1>2, <1>3, <1>4, <1>4a, <1>5, <1>6 DEF HysteriaTypeOK, ClientFacts, Flows
<1> QED BY <1>6, <1>7, <1>8, <1>9, <1>10, <1>11, <1>12 DEF HyInv

LEMMA NetworkLineSafe == ASSUME HyInv, NetworkLine PROVE HyInv'
<1>1. HysteriaTypeOK /\ flow \in Flows BY DEF HyInv, HysteriaTypeOK, Flows
<1>2. {serves, starting, stopping, configFile, authed, timer, quiet, needed, told, unheard, alert, cut}' \subseteq BOOLEAN
  BY Zenon, <1>1 DEF NetworkLine, Says, HysteriaTypeOK
<1>3. flow' \in Flows
  BY <1>1 DEF NetworkLine, Says
<1>4a. compat' \in Compat
  <2>1. compat' = compat \/ compat' = NoCompat
    BY Zenon DEF NetworkLine, Says
  <2> QED BY <1>1, <2>1, NoCompatFacts DEF HysteriaTypeOK
<1>4. report' \in [made : BOOLEAN, code : Code]
  BY <1>1, ReportedType DEF NetworkLine, Says, HysteriaTypeOK, Code
<1>5. /\ process' \in {"none", "alive", "dying"} /\ wave' \in 0..2 /\ retries' \in Nat
      /\ hyStarts' \in 0..MaxHyStarts /\ hyFaults' \in [HyFaults -> Nat]
  BY <1>1, HappensTypes, HysteriaAssumption DEF NetworkLine, Says, HysteriaTypeOK, HyFaults
<1>6. ClientFacts'
  BY <1>1 DEF NetworkLine, Says, HyInv, HysteriaTypeOK, ClientFacts, Attempted
<1>7. OneDrives'
  BY <1>1 DEF NetworkLine, Says, HyInv, HysteriaTypeOK, OneDrives, FirstRestart, Compat
<1>8. Attempted'
  BY <1>1, ReportedType
  DEF NetworkLine, Says, HyInv, HysteriaTypeOK, ClientFacts, OneDrives, Attempted, Code
<1>9. OneRetry' /\ FirstRestart'
  BY <1>1 DEF NetworkLine, Says, HyInv, HysteriaTypeOK, OneDrives, FirstRestart, OneRetry, Compat
<1>10. FileKept'
  BY <1>1 DEF NetworkLine, Says, HyInv, HysteriaTypeOK, ClientFacts, OneDrives, Attempted, FileKept
<1>11. Heard'
  BY <1>1
  DEF NetworkLine, Says, HyInv, HysteriaTypeOK, ClientFacts, OneDrives, Attempted, FirstRestart,
      Heard, Compat
<1>12. HysteriaTypeOK' BY <1>2, <1>3, <1>4, <1>4a, <1>5, <1>6 DEF HysteriaTypeOK, ClientFacts, Flows
<1> QED BY <1>6, <1>7, <1>8, <1>9, <1>10, <1>11, <1>12 DEF HyInv

LEMMA SecurityLineSafe == ASSUME HyInv, SecurityLine PROVE HyInv'
<1>1. HysteriaTypeOK /\ flow \in Flows BY DEF HyInv, HysteriaTypeOK, Flows
<1>2. {serves, starting, stopping, configFile, authed, timer, quiet, needed, told, unheard, alert, cut}' \subseteq BOOLEAN
  BY Zenon, <1>1 DEF SecurityLine, Says, HysteriaTypeOK
<1>3. flow' \in Flows
  BY <1>1 DEF SecurityLine, Says
<1>4a. compat' \in Compat
  <2>1. compat' = compat \/ compat' = NoCompat
    BY Zenon DEF SecurityLine, Says
  <2> QED BY <1>1, <2>1, NoCompatFacts DEF HysteriaTypeOK
<1>4. report' \in [made : BOOLEAN, code : Code]
  BY <1>1, ReportedType DEF SecurityLine, Says, HysteriaTypeOK, Code
<1>5. /\ process' \in {"none", "alive", "dying"} /\ wave' \in 0..2 /\ retries' \in Nat
      /\ hyStarts' \in 0..MaxHyStarts /\ hyFaults' \in [HyFaults -> Nat]
  BY <1>1, HappensTypes, HysteriaAssumption DEF SecurityLine, Says, HysteriaTypeOK, HyFaults
<1>6. ClientFacts'
  BY <1>1 DEF SecurityLine, Says, HyInv, HysteriaTypeOK, ClientFacts, Attempted
<1>7. OneDrives'
  BY <1>1 DEF SecurityLine, Says, HyInv, HysteriaTypeOK, OneDrives, FirstRestart, Compat
<1>8. Attempted'
  BY <1>1, ReportedType
  DEF SecurityLine, Says, HyInv, HysteriaTypeOK, ClientFacts, OneDrives, Attempted, Code
<1>9. OneRetry' /\ FirstRestart'
  BY <1>1 DEF SecurityLine, Says, HyInv, HysteriaTypeOK, OneDrives, FirstRestart, OneRetry, Compat
<1>10. FileKept'
  BY <1>1 DEF SecurityLine, Says, HyInv, HysteriaTypeOK, ClientFacts, OneDrives, Attempted, FileKept
<1>11. Heard'
  BY <1>1
  DEF SecurityLine, Says, HyInv, HysteriaTypeOK, ClientFacts, OneDrives, Attempted, FirstRestart,
      Heard, Compat
<1>12. HysteriaTypeOK' BY <1>2, <1>3, <1>4, <1>4a, <1>5, <1>6 DEF HysteriaTypeOK, ClientFacts, Flows
<1> QED BY <1>6, <1>7, <1>8, <1>9, <1>10, <1>11, <1>12 DEF HyInv

LEMMA CheckTunnelSafe == ASSUME HyInv, CheckTunnel PROVE HyInv'
<1>1. HysteriaTypeOK /\ flow \in Flows BY DEF HyInv, HysteriaTypeOK, Flows
<1>2. {serves, starting, stopping, configFile, authed, timer, quiet, needed, told, unheard, alert, cut}' \subseteq BOOLEAN
  BY Zenon, <1>1 DEF CheckTunnel, HysteriaTypeOK
<1>3. flow' \in Flows
  BY <1>1 DEF CheckTunnel
<1>4a. compat' \in Compat
  <2>1. compat' = compat \/ compat' = NoCompat
    BY Zenon DEF CheckTunnel
  <2> QED BY <1>1, <2>1, NoCompatFacts DEF HysteriaTypeOK
<1>4. report' \in [made : BOOLEAN, code : Code]
  BY <1>1, ReportedType DEF CheckTunnel, HysteriaTypeOK, Code
<1>5. /\ process' \in {"none", "alive", "dying"} /\ wave' \in 0..2 /\ retries' \in Nat
      /\ hyStarts' \in 0..MaxHyStarts /\ hyFaults' \in [HyFaults -> Nat]
  BY <1>1, HappensTypes, HysteriaAssumption DEF CheckTunnel, HysteriaTypeOK, HyFaults
<1>6. ClientFacts'
  BY <1>1 DEF CheckTunnel, HyInv, HysteriaTypeOK, ClientFacts, Attempted
<1>7. OneDrives'
  BY <1>1 DEF CheckTunnel, HyInv, HysteriaTypeOK, OneDrives, FirstRestart, Compat
<1>8. Attempted'
  BY <1>1, ReportedType
  DEF CheckTunnel, HyInv, HysteriaTypeOK, ClientFacts, OneDrives, Attempted, Code
<1>9. OneRetry' /\ FirstRestart'
  BY <1>1 DEF CheckTunnel, HyInv, HysteriaTypeOK, OneDrives, FirstRestart, OneRetry, Compat
<1>10. FileKept'
  BY <1>1 DEF CheckTunnel, HyInv, HysteriaTypeOK, ClientFacts, OneDrives, Attempted, FileKept
<1>11. Heard'
  BY <1>1
  DEF CheckTunnel, HyInv, HysteriaTypeOK, ClientFacts, OneDrives, Attempted, FirstRestart, Heard,
      Compat
<1>12. HysteriaTypeOK' BY <1>2, <1>3, <1>4, <1>4a, <1>5, <1>6 DEF HysteriaTypeOK, ClientFacts, Flows
<1> QED BY <1>6, <1>7, <1>8, <1>9, <1>10, <1>11, <1>12 DEF HyInv

LEMMA ProcessEndsSafe == ASSUME HyInv, ProcessEnds PROVE HyInv'
<1>1. HysteriaTypeOK /\ flow \in Flows BY DEF HyInv, HysteriaTypeOK, Flows
<1>2. {serves, starting, stopping, configFile, authed, timer, quiet, needed, told, unheard, alert, cut}' \subseteq BOOLEAN
  BY Zenon, <1>1 DEF ProcessEnds, Clear, NewGeneration, Or, HysteriaTypeOK
<1>3. flow' \in Flows
  BY <1>1, NoCompatFacts, FlowOutdated DEF ProcessEnds, Clear, NewGeneration, Or
<1>4a. compat' \in Compat
  <2>1. compat' = compat \/ compat' = NoCompat
    BY Zenon DEF ProcessEnds, Clear, NewGeneration, Or
  <2> QED BY <1>1, <2>1, NoCompatFacts DEF HysteriaTypeOK
<1>4. report' \in [made : BOOLEAN, code : Code]
  BY <1>1, ReportedType DEF ProcessEnds, Clear, NewGeneration, Or, HysteriaTypeOK, Code
<1>5. /\ process' \in {"none", "alive", "dying"} /\ wave' \in 0..2 /\ retries' \in Nat
      /\ hyStarts' \in 0..MaxHyStarts /\ hyFaults' \in [HyFaults -> Nat]
  BY <1>1, HappensTypes, HysteriaAssumption
  DEF ProcessEnds, Clear, NewGeneration, Or, HysteriaTypeOK, HyFaults
<1>6. ClientFacts'
  BY <1>1, NoCompatFacts, FlowOutdated
  DEF ProcessEnds, Clear, NewGeneration, Or, HyInv, HysteriaTypeOK, ClientFacts, Attempted
<1>7. OneDrives'
  BY <1>1, NoCompatFacts, FlowOutdated
  DEF ProcessEnds, Clear, NewGeneration, Or, HyInv, HysteriaTypeOK, OneDrives, FirstRestart, Compat
<1>8. Attempted'
  BY <1>1, ReportedType, NoCompatFacts, FlowOutdated
  DEF ProcessEnds, Clear, NewGeneration, Or, HyInv, HysteriaTypeOK, ClientFacts, OneDrives,
      Attempted, Code
<1>9. OneRetry' /\ FirstRestart'
  BY <1>1, NoCompatFacts, FlowOutdated
  DEF ProcessEnds, Clear, NewGeneration, Or, HyInv, HysteriaTypeOK, OneDrives, FirstRestart,
      OneRetry, Compat
<1>10. FileKept'
  BY <1>1, NoCompatFacts, FlowOutdated
  DEF ProcessEnds, Clear, NewGeneration, Or, HyInv, HysteriaTypeOK, ClientFacts, OneDrives,
      Attempted, FileKept
<1>11. Heard'
  BY <1>1, NoCompatFacts, FlowOutdated
  DEF ProcessEnds, Clear, NewGeneration, Or, HyInv, HysteriaTypeOK, ClientFacts, OneDrives,
      Attempted, FirstRestart, Heard, Compat
<1>12. HysteriaTypeOK' BY <1>2, <1>3, <1>4, <1>4a, <1>5, <1>6 DEF HysteriaTypeOK, ClientFacts, Flows
<1> QED BY <1>6, <1>7, <1>8, <1>9, <1>10, <1>11, <1>12 DEF HyInv

HIDE DEF Actor, Pcs, Nexts, Drives, Begun, Stale, OwnerIdle, RetryIdle, proc, past, bounds

LEMMA HyAtStart == HyInit => HyInv
<1> SUFFICES ASSUME HyInit PROVE HyInv OBVIOUS
<1>1. {serves, starting, stopping, configFile, authed, timer, quiet, needed, told, unheard, alert, cut} \subseteq BOOLEAN
  BY Zenon DEF HyInit
<1>2. flow \in [Actor -> Flow] /\ \A a \in Actor : flow[a].pc = "idle" /\ ~flow[a].current
  BY DEF HyInit, NoFlow, Flow
<1>3. compat \in Compat /\ ~compat.config /\ ~compat.pending /\ ~compat.used
  BY NoCompatFacts DEF HyInit
<1>4. ~serves /\ ~stopping /\ ~configFile /\ ~timer /\ ~quiet /\ ~told /\ ~alert BY Zenon DEF HyInit
<1>5. HysteriaTypeOK
  BY <1>1, <1>2, <1>3, HysteriaAssumption DEF HysteriaTypeOK, HyInit, Code, Actor
<1>6. OneRetry /\ ClientFacts BY <1>2, <1>4 DEF HyInit, OneRetry, ClientFacts, RetryIdle, Actor
<1>7. OneDrives /\ Attempted
  BY <1>2, <1>4 DEF HyInit, OneDrives, Attempted, Drives, Begun, Stale, OwnerIdle, RetryIdle, Actor
<1>8. FirstRestart BY <1>2, <1>3 DEF HyInit, FirstRestart, Drives, Actor
<1>9. FileKept BY <1>4 DEF FileKept
<1>10. Heard BY <1>2, <1>3, <1>4 DEF HyInit, Heard, Drives, OwnerIdle, RetryIdle, Actor
<1> QED BY <1>5, <1>6, <1>7, <1>8, <1>9, <1>10 DEF HyInv

LEMMA HyStands == HyInv /\ UNCHANGED hyVars => HyInv'
BY DEF hyVars, proc, past, bounds, HyInv, HysteriaTypeOK, OneRetry, ClientFacts, OneDrives, Attempted,
       FirstRestart, FileKept, Heard, Drives, Begun, Stale, OwnerIdle, RetryIdle

LEMMA HySteps == HyInv /\ [HyNext]_hyVars => HyInv'
<1> SUFFICES ASSUME HyInv, HyNext PROVE HyInv' BY HyStands
<1>1. ASSUME NEW a \in Actor, StartStep(a) PROVE HyInv'
  BY <1>1, StoppedSafe, StopTimesOutSafe, PrepareSafe, SpawnedSafe, ClientSpawnFailsSafe, TryRelaySafe, RelayUpSafe,
     RelayDownSafe, RelayAgainSafe, RemoteUpSafe, RemoteDownSafe DEF StartStep
<1> QED
  BY <1>1, StartClientSafe, StartRefusedSafe, StopClientSafe, RequestStopSafe, UnwantedSafe, CutOffSafe, TimerFiresSafe,
     RetryClosedSafe, AuthLineSafe, ParrotLineSafe, NetworkLineSafe, SecurityLineSafe, CheckTunnelSafe,
     ProcessEndsSafe DEF HyNext

(* Only an answer of the server makes the client serve, and by then the      *)
(* attempt has noted every security error it saw.                            *)
LEMMA OnlyUpServes == HyInv /\ HyNext /\ ~serves /\ serves' => ~alert
<1> SUFFICES ASSUME HyInv, HyNext, ~serves, serves' PROVE ~alert OBVIOUS
<1>1. ASSUME NEW a \in Actor, StartStep(a) PROVE ~alert
  <2>1. CASE RemoteUp(a)
    <3>1. Begun(a) BY <2>1 DEF RemoteUp, Runs, Drives, Begun
    <3>2. report.code # "security" BY <2>1 DEF RemoteUp, Abandoned
    <3> QED BY <3>1, <3>2 DEF HyInv, Attempted
  <2>2. CASE RelayDown(a) \/ RemoteDown(a)
    BY <2>2
    DEF RelayDown, RemoteDown, RestartCompatible, Replace, GivesUp, StopsAtOnce, KillAndWait, proc
  <2>3. CASE Stopped(a) \/ StopTimesOut(a) \/ Prepare(a) \/ Spawned(a) \/ SpawnFails(a)
    BY <2>3 DEF Stopped, StopTimesOut, Prepare, Spawned, SpawnFails, proc
  <2>4. CASE TryRelay(a) \/ RelayUp(a) \/ RelayAgain(a)
    BY <2>4 DEF TryRelay, RelayUp, RelayAgain, RestartCompatible, Replace, proc
  <2> QED BY <1>1, <2>1, <2>2, <2>3, <2>4 DEF StartStep
<1>2. serves' = serves \/ \E a \in Actor : StartStep(a)
  <2>1. CASE StartClient \/ StartRefused \/ StopClient \/ RequestStop \/ Unwanted \/ CutOff
    BY <2>1
    DEF StartClient, StartRefused, StopClient, RequestStop, Unwanted, CutOff, Replace, StopsAtOnce,
        proc
  <2>2. CASE TimerFires \/ RetryClosed \/ AuthLine \/ ParrotLine \/ NetworkLine \/ SecurityLine \/ CheckTunnel
    BY <2>2
    DEF TimerFires, RetryClosed, AuthLine, ParrotLine, NetworkLine, SecurityLine, CheckTunnel,
        Replace, proc
  <2>3. CASE ProcessEnds
    <3>1. serves' = FALSE BY Zenon, <2>3 DEF ProcessEnds
    <3> QED BY Zenon, <3>1
  <2> QED BY <2>1, <2>2, <2>3 DEF HyNext
<1> QED BY <1>1, <1>2

LEMMA HyInvIsSafe == HyInv => HysteriaTypeOK /\ SecretsGone /\ OneRetry /\ ToldTruth
<1> SUFFICES ASSUME HyInv PROVE HysteriaTypeOK /\ SecretsGone /\ OneRetry /\ ToldTruth OBVIOUS
<1>1. Settled => OwnerIdle /\ RetryIdle /\ ~timer /\ process \in {"none", "alive"}
  BY DEF Settled, OwnerIdle, RetryIdle, Actor, HyInv, HysteriaTypeOK
<1>2. SecretsGone
  BY <1>1 DEF SecretsGone, HyInv, FileKept, Begun, Drives, OwnerIdle, RetryIdle, Actor
<1>3. ToldTruth
  BY <1>1 DEF ToldTruth, HyInv, Heard, ClientFacts, HysteriaTypeOK
<1> QED BY <1>2, <1>3 DEF HyInv

(* Whatever the server answers and whoever interferes, the start and the     *)
(* restart keep the promises the sequential tests cannot reach.              *)
THEOREM HysteriaIsSafe == HySpec => HysteriaSafe
<1>1. HyInv /\ [HyNext]_hyVars => [~serves /\ serves' => ~alert]_hyVars
  BY OnlyUpServes
<1> QED BY <1>1, HyAtStart, HySteps, HyInvIsSafe, PTL DEF HySpec, HysteriaSafe, SecurityStops

-----------------------------------------------------------------------------
(* The AmneziaWG client.  A session belongs to the newest process and exists *)
(* only while no start or stop is in progress; its end is queued only once   *)
(* its own client has failed.                                                *)
Starting == step.pc \in {"spawn", "relay", "connect", "handshake", "served", "fronted"}

AwgInv ==
  /\ AmneziaTypeOK /\ NoOrphan
  /\ core # "none" => inst > 0
  /\ step.pc = "prepare" => core = "none"
  /\ session # 0 => step.pc = "idle"
  /\ session \in closes => failed
  /\ Starting => inst \notin closes

USE DEF AwgIdle, awgCore, awgRest, Quiet, Pc, Check, Starting

LEMMA AwgStartSafe == ASSUME AwgInv, AwgStart PROVE AwgInv'
<1>1. AmneziaTypeOK /\ (core # "none" => inst \in 1..inst) /\ (session # 0 => session \in 1..inst)
  BY DEF AwgInv, AmneziaTypeOK
<1>2. {awgServes, expected, failed, ready, shook, current, lost}' \subseteq BOOLEAN
  BY Zenon, <1>1 DEF AwgStart, Stop, CancelHealth, BeginStart, AmneziaTypeOK
<1>3. /\ core' \in {"none", "alive", "closing", "dying"} /\ inst' \in Nat
      /\ session' \in 0..inst' /\ 1..inst \subseteq 1..inst'
  BY <1>1 DEF AwgStart, Stop, CancelHealth, BeginStart, AwgInv, AmneziaTypeOK
<1>3a. kills' \subseteq 1..inst' /\ closes' \subseteq 1..inst'
  <2>1. kills' \subseteq 1..inst BY <1>1 DEF AwgStart, Stop, CancelHealth, BeginStart, AmneziaTypeOK
  <2>2. closes' \subseteq 1..inst
    BY <1>1 DEF AwgStart, Stop, CancelHealth, BeginStart, AmneziaTypeOK
  <2> QED BY <1>3, <2>1, <2>2
<1>4. /\ https' \in Check \ {"queued"} /\ front' \in Check /\ awgWave' \in {"none", "https", "front"}
      /\ step' \in [pc : Pc, then : {"none", "begin", "end"}]
  BY <1>1 DEF AwgStart, Stop, CancelHealth, BeginStart, AmneziaTypeOK
<1>5. awgServes' => core' # "none" /\ step'.pc \notin {"prepare", "spawn", "relay", "connect", "handshake"}
  <2>1. CASE core = "none"
    <3>1. ~awgServes' BY Zenon, <2>1 DEF AwgStart, BeginStart
    <3> QED BY <3>1
  <2>2. CASE core # "none"
    BY <1>1, <2>2 DEF AwgStart, Stop, AmneziaTypeOK
  <2> QED BY <2>1, <2>2
<1>6. /\ NoOrphan'
      /\ core' # "none" => inst' > 0
      /\ step'.pc = "prepare" => core' = "none"
      /\ session' # 0 => step'.pc = "idle"
  BY <1>1 DEF AwgStart, Stop, CancelHealth, BeginStart, AwgInv, AmneziaTypeOK, NoOrphan
<1>7. session' \in closes' => failed'
  BY <1>1 DEF AwgStart, Stop, CancelHealth, BeginStart, AwgInv, AmneziaTypeOK
<1>8. Starting' => inst' \notin closes'
  BY <1>1 DEF AwgStart, Stop, CancelHealth, BeginStart, AwgInv, AmneziaTypeOK
<1>9. AmneziaTypeOK' BY <1>2, <1>3, <1>3a, <1>4, <1>5 DEF AmneziaTypeOK
<1> QED BY <1>6, <1>7, <1>8, <1>9 DEF AwgInv

LEMMA AwgStopSafe == ASSUME AwgInv, AwgStop PROVE AwgInv'
<1>1. AmneziaTypeOK /\ (core # "none" => inst \in 1..inst) /\ (session # 0 => session \in 1..inst)
  BY DEF AwgInv, AmneziaTypeOK
<1>2. {awgServes, expected, failed, ready, shook, current, lost}' \subseteq BOOLEAN
  BY Zenon, <1>1 DEF AwgStop, Stop, CancelHealth, AmneziaTypeOK
<1>3. /\ core' \in {"none", "alive", "closing", "dying"} /\ inst' \in Nat
      /\ session' \in 0..inst' /\ 1..inst \subseteq 1..inst'
  BY <1>1 DEF AwgStop, Stop, CancelHealth, AwgInv, AmneziaTypeOK
<1>3a. kills' \subseteq 1..inst' /\ closes' \subseteq 1..inst'
  <2>1. kills' \subseteq 1..inst BY <1>1 DEF AwgStop, Stop, CancelHealth, AmneziaTypeOK
  <2>2. closes' \subseteq 1..inst BY <1>1 DEF AwgStop, Stop, CancelHealth, AmneziaTypeOK
  <2> QED BY <1>3, <2>1, <2>2
<1>4. /\ https' \in Check \ {"queued"} /\ front' \in Check /\ awgWave' \in {"none", "https", "front"}
      /\ step' \in [pc : Pc, then : {"none", "begin", "end"}]
  BY <1>1 DEF AwgStop, Stop, CancelHealth, AmneziaTypeOK
<1>5. awgServes' => core' # "none" /\ step'.pc \notin {"prepare", "spawn", "relay", "connect", "handshake"}
  BY <1>1 DEF AwgStop, Stop, CancelHealth, AwgInv, AmneziaTypeOK
<1>6. /\ NoOrphan'
      /\ core' # "none" => inst' > 0
      /\ step'.pc = "prepare" => core' = "none"
      /\ session' # 0 => step'.pc = "idle"
  BY <1>1 DEF AwgStop, Stop, CancelHealth, AwgInv, AmneziaTypeOK, NoOrphan
<1>7. session' \in closes' => failed'
  BY <1>1 DEF AwgStop, Stop, CancelHealth, AwgInv, AmneziaTypeOK
<1>8. Starting' => inst' \notin closes'
  BY <1>1 DEF AwgStop, Stop, CancelHealth, AwgInv, AmneziaTypeOK
<1>9. AmneziaTypeOK' BY <1>2, <1>3, <1>3a, <1>4, <1>5 DEF AmneziaTypeOK
<1> QED BY <1>6, <1>7, <1>8, <1>9 DEF AwgInv

LEMMA AwgRequestStopSafe == ASSUME AwgInv, AwgRequestStop PROVE AwgInv'
<1>1. AmneziaTypeOK /\ (core # "none" => inst \in 1..inst) /\ (session # 0 => session \in 1..inst)
  BY DEF AwgInv, AmneziaTypeOK
<1>2. {awgServes, expected, failed, ready, shook, current, lost}' \subseteq BOOLEAN
  BY Zenon, <1>1 DEF AwgRequestStop, StopRequested, CancelHealth, AmneziaTypeOK
<1>3. /\ core' \in {"none", "alive", "closing", "dying"} /\ inst' \in Nat
      /\ session' \in 0..inst' /\ 1..inst \subseteq 1..inst'
  BY <1>1 DEF AwgRequestStop, StopRequested, CancelHealth, AwgInv, AmneziaTypeOK
<1>3a. kills' \subseteq 1..inst' /\ closes' \subseteq 1..inst'
  <2>1. kills' \subseteq 1..inst
    BY <1>1 DEF AwgRequestStop, StopRequested, CancelHealth, AmneziaTypeOK
  <2>2. closes' \subseteq 1..inst
    BY <1>1 DEF AwgRequestStop, StopRequested, CancelHealth, AmneziaTypeOK
  <2> QED BY <1>3, <2>1, <2>2
<1>4. /\ https' \in Check \ {"queued"} /\ front' \in Check /\ awgWave' \in {"none", "https", "front"}
      /\ step' \in [pc : Pc, then : {"none", "begin", "end"}]
  BY <1>1 DEF AwgRequestStop, StopRequested, CancelHealth, AmneziaTypeOK
<1>5. awgServes' => core' # "none" /\ step'.pc \notin {"prepare", "spawn", "relay", "connect", "handshake"}
  BY <1>1 DEF AwgRequestStop, StopRequested, CancelHealth, AwgInv, AmneziaTypeOK
<1>6. /\ NoOrphan'
      /\ core' # "none" => inst' > 0
      /\ step'.pc = "prepare" => core' = "none"
      /\ session' # 0 => step'.pc = "idle"
  BY <1>1 DEF AwgRequestStop, StopRequested, CancelHealth, AwgInv, AmneziaTypeOK, NoOrphan
<1>7. session' \in closes' => failed'
  BY <1>1 DEF AwgRequestStop, StopRequested, CancelHealth, AwgInv, AmneziaTypeOK
<1>8. Starting' => inst' \notin closes'
  BY <1>1 DEF AwgRequestStop, StopRequested, CancelHealth, AwgInv, AmneziaTypeOK
<1>9. AmneziaTypeOK' BY <1>2, <1>3, <1>3a, <1>4, <1>5 DEF AmneziaTypeOK
<1> QED BY <1>6, <1>7, <1>8, <1>9 DEF AwgInv

LEMMA AwgUnwantedSafe == ASSUME AwgInv, AwgUnwanted PROVE AwgInv'
<1>1. AmneziaTypeOK /\ (core # "none" => inst \in 1..inst) /\ (session # 0 => session \in 1..inst)
  BY DEF AwgInv, AmneziaTypeOK
<1>2. {awgServes, expected, failed, ready, shook, current, lost}' \subseteq BOOLEAN
  BY Zenon, <1>1 DEF AwgUnwanted, AmneziaTypeOK
<1>3. /\ core' \in {"none", "alive", "closing", "dying"} /\ inst' \in Nat
      /\ session' \in 0..inst' /\ 1..inst \subseteq 1..inst'
  BY <1>1 DEF AwgUnwanted, AwgInv, AmneziaTypeOK
<1>3a. kills' \subseteq 1..inst' /\ closes' \subseteq 1..inst'
  <2>1. kills' \subseteq 1..inst BY <1>1 DEF AwgUnwanted, AmneziaTypeOK
  <2>2. closes' \subseteq 1..inst BY <1>1 DEF AwgUnwanted, AmneziaTypeOK
  <2> QED BY <1>3, <2>1, <2>2
<1>4. /\ https' \in Check \ {"queued"} /\ front' \in Check /\ awgWave' \in {"none", "https", "front"}
      /\ step' \in [pc : Pc, then : {"none", "begin", "end"}]
  BY <1>1 DEF AwgUnwanted, AmneziaTypeOK
<1>5. awgServes' => core' # "none" /\ step'.pc \notin {"prepare", "spawn", "relay", "connect", "handshake"}
  BY <1>1 DEF AwgUnwanted, AwgInv, AmneziaTypeOK
<1>6. /\ NoOrphan'
      /\ core' # "none" => inst' > 0
      /\ step'.pc = "prepare" => core' = "none"
      /\ session' # 0 => step'.pc = "idle"
  BY <1>1 DEF AwgUnwanted, AwgInv, AmneziaTypeOK, NoOrphan
<1>7. session' \in closes' => failed'
  BY <1>1 DEF AwgUnwanted, AwgInv, AmneziaTypeOK
<1>8. Starting' => inst' \notin closes'
  BY <1>1 DEF AwgUnwanted, AwgInv, AmneziaTypeOK
<1>9. AmneziaTypeOK' BY <1>2, <1>3, <1>3a, <1>4, <1>5 DEF AmneziaTypeOK
<1> QED BY <1>6, <1>7, <1>8, <1>9 DEF AwgInv

LEMMA CloseOwnedSafe == ASSUME AwgInv, CloseOwned PROVE AwgInv'
<1>1. AmneziaTypeOK /\ (core # "none" => inst \in 1..inst) /\ (session # 0 => session \in 1..inst)
  BY DEF AwgInv, AmneziaTypeOK
<1>2. {awgServes, expected, failed, ready, shook, current, lost}' \subseteq BOOLEAN
  BY Zenon, <1>1 DEF CloseOwned, StopRequested, CancelHealth, AmneziaTypeOK
<1>3. /\ core' \in {"none", "alive", "closing", "dying"} /\ inst' \in Nat
      /\ session' \in 0..inst' /\ 1..inst \subseteq 1..inst'
  BY <1>1 DEF CloseOwned, StopRequested, CancelHealth, AwgInv, AmneziaTypeOK
<1>3a. kills' \subseteq 1..inst' /\ closes' \subseteq 1..inst'
  <2>1. kills' \subseteq 1..inst BY <1>1 DEF CloseOwned, StopRequested, CancelHealth, AmneziaTypeOK
  <2>2. closes' \subseteq 1..inst BY <1>1 DEF CloseOwned, StopRequested, CancelHealth, AmneziaTypeOK
  <2> QED BY <1>3, <2>1, <2>2
<1>4. /\ https' \in Check \ {"queued"} /\ front' \in Check /\ awgWave' \in {"none", "https", "front"}
      /\ step' \in [pc : Pc, then : {"none", "begin", "end"}]
  BY <1>1 DEF CloseOwned, StopRequested, CancelHealth, AmneziaTypeOK
<1>5. awgServes' => core' # "none" /\ step'.pc \notin {"prepare", "spawn", "relay", "connect", "handshake"}
  BY <1>1 DEF CloseOwned, StopRequested, CancelHealth, AwgInv, AmneziaTypeOK
<1>6. /\ NoOrphan'
      /\ core' # "none" => inst' > 0
      /\ step'.pc = "prepare" => core' = "none"
      /\ session' # 0 => step'.pc = "idle"
  BY <1>1 DEF CloseOwned, StopRequested, CancelHealth, AwgInv, AmneziaTypeOK, NoOrphan
<1>7. session' \in closes' => failed'
  BY <1>1 DEF CloseOwned, StopRequested, CancelHealth, AwgInv, AmneziaTypeOK
<1>8. Starting' => inst' \notin closes'
  BY <1>1 DEF CloseOwned, StopRequested, CancelHealth, AwgInv, AmneziaTypeOK
<1>9. AmneziaTypeOK' BY <1>2, <1>3, <1>3a, <1>4, <1>5 DEF AmneziaTypeOK
<1> QED BY <1>6, <1>7, <1>8, <1>9 DEF AwgInv

LEMMA AwgFrontSafe == ASSUME AwgInv, AwgFront PROVE AwgInv'
<1>1. AmneziaTypeOK /\ (core # "none" => inst \in 1..inst) /\ (session # 0 => session \in 1..inst)
  BY DEF AwgInv, AmneziaTypeOK
<1>2. {awgServes, expected, failed, ready, shook, current, lost}' \subseteq BOOLEAN
  BY Zenon, <1>1 DEF AwgFront, Stop, CancelHealth, Running, AmneziaTypeOK
<1>3. /\ core' \in {"none", "alive", "closing", "dying"} /\ inst' \in Nat
      /\ session' \in 0..inst' /\ 1..inst \subseteq 1..inst'
  BY <1>1 DEF AwgFront, Stop, CancelHealth, Running, AwgInv, AmneziaTypeOK
<1>3a. kills' \subseteq 1..inst' /\ closes' \subseteq 1..inst'
  <2>1. kills' \subseteq 1..inst BY <1>1 DEF AwgFront, Stop, CancelHealth, Running, AmneziaTypeOK
  <2>2. closes' \subseteq 1..inst BY <1>1 DEF AwgFront, Stop, CancelHealth, Running, AmneziaTypeOK
  <2> QED BY <1>3, <2>1, <2>2
<1>4. /\ https' \in Check \ {"queued"} /\ front' \in Check /\ awgWave' \in {"none", "https", "front"}
      /\ step' \in [pc : Pc, then : {"none", "begin", "end"}]
  BY <1>1 DEF AwgFront, Stop, CancelHealth, Running, AmneziaTypeOK
<1>5. awgServes' => core' # "none" /\ step'.pc \notin {"prepare", "spawn", "relay", "connect", "handshake"}
  <2>1. CASE Running /\ ~Cancelled
    <3>1. awgServes' = awgServes /\ core' = core /\ step'.pc \in {"fronted", "idle"}
      BY <1>1, <2>1 DEF AwgFront, AmneziaTypeOK
    <3> QED BY <1>1, <3>1 DEF AmneziaTypeOK
  <2>2. CASE ~(Running /\ ~Cancelled)
    <3>1. core = "none" => ~awgServes' BY Zenon, <2>2 DEF AwgFront, Stop
    <3>2. core # "none" => awgServes' = awgServes /\ core' # "none" /\ step'.pc = "closing"
      BY <1>1, <2>2 DEF AwgFront, Stop, AmneziaTypeOK
    <3> QED BY <3>1, <3>2
  <2> QED BY <2>1, <2>2
<1>6. /\ NoOrphan'
      /\ core' # "none" => inst' > 0
      /\ step'.pc = "prepare" => core' = "none"
      /\ session' # 0 => step'.pc = "idle"
  BY <1>1 DEF AwgFront, Stop, CancelHealth, Running, AwgInv, AmneziaTypeOK, NoOrphan
<1>7. session' \in closes' => failed'
  BY <1>1 DEF AwgFront, Stop, CancelHealth, Running, AwgInv, AmneziaTypeOK
<1>8. Starting' => inst' \notin closes'
  BY <1>1 DEF AwgFront, Stop, CancelHealth, Running, AwgInv, AmneziaTypeOK
<1>9. AmneziaTypeOK' BY <1>2, <1>3, <1>3a, <1>4, <1>5 DEF AmneziaTypeOK
<1> QED BY <1>6, <1>7, <1>8, <1>9 DEF AwgInv

LEMMA AwgCaptureSafe == ASSUME AwgInv, AwgCapture PROVE AwgInv'
<1>1. AmneziaTypeOK /\ (core # "none" => inst \in 1..inst) /\ (session # 0 => session \in 1..inst)
  BY DEF AwgInv, AmneziaTypeOK
<1>2. {awgServes, expected, failed, ready, shook, current, lost}' \subseteq BOOLEAN
  BY Zenon, <1>1 DEF AwgCapture, Stop, CancelHealth, AmneziaTypeOK
<1>3. /\ core' \in {"none", "alive", "closing", "dying"} /\ inst' \in Nat
      /\ session' \in 0..inst' /\ 1..inst \subseteq 1..inst'
  BY <1>1 DEF AwgCapture, Stop, CancelHealth, AwgInv, AmneziaTypeOK
<1>3a. kills' \subseteq 1..inst' /\ closes' \subseteq 1..inst'
  <2>1. kills' \subseteq 1..inst BY <1>1 DEF AwgCapture, Stop, CancelHealth, AmneziaTypeOK
  <2>2. closes' \subseteq 1..inst BY <1>1 DEF AwgCapture, Stop, CancelHealth, AmneziaTypeOK
  <2> QED BY <1>3, <2>1, <2>2
<1>4. /\ https' \in Check \ {"queued"} /\ front' \in Check /\ awgWave' \in {"none", "https", "front"}
      /\ step' \in [pc : Pc, then : {"none", "begin", "end"}]
  BY <1>1 DEF AwgCapture, Stop, CancelHealth, AmneziaTypeOK
<1>5. awgServes' => core' # "none" /\ step'.pc \notin {"prepare", "spawn", "relay", "connect", "handshake"}
  <2>1. CASE current
    <3>1. awgServes' = awgServes /\ core' = core /\ step'.pc \in {"fronted", "idle"}
      BY <1>1, <2>1 DEF AwgCapture, AmneziaTypeOK
    <3> QED BY <1>1, <3>1 DEF AmneziaTypeOK
  <2>2. CASE ~(current)
    <3>1. core = "none" => ~awgServes' BY Zenon, <2>2 DEF AwgCapture, Stop
    <3>2. core # "none" => awgServes' = awgServes /\ core' # "none" /\ step'.pc = "closing"
      BY <1>1, <2>2 DEF AwgCapture, Stop, AmneziaTypeOK
    <3> QED BY <3>1, <3>2
  <2> QED BY <2>1, <2>2
<1>6. /\ NoOrphan'
      /\ core' # "none" => inst' > 0
      /\ step'.pc = "prepare" => core' = "none"
      /\ session' # 0 => step'.pc = "idle"
  BY <1>1 DEF AwgCapture, Stop, CancelHealth, AwgInv, AmneziaTypeOK, NoOrphan
<1>7. session' \in closes' => failed'
  BY <1>1 DEF AwgCapture, Stop, CancelHealth, AwgInv, AmneziaTypeOK
<1>8. Starting' => inst' \notin closes'
  BY <1>1 DEF AwgCapture, Stop, CancelHealth, AwgInv, AmneziaTypeOK
<1>9. AmneziaTypeOK' BY <1>2, <1>3, <1>3a, <1>4, <1>5 DEF AmneziaTypeOK
<1> QED BY <1>6, <1>7, <1>8, <1>9 DEF AwgInv

LEMMA AwgGoneSafe == ASSUME AwgInv, AwgGone PROVE AwgInv'
<1>1. AmneziaTypeOK /\ (core # "none" => inst \in 1..inst) /\ (session # 0 => session \in 1..inst)
  BY DEF AwgInv, AmneziaTypeOK
<1>2. {awgServes, expected, failed, ready, shook, current, lost}' \subseteq BOOLEAN
  BY Zenon, <1>1 DEF AwgGone, BeginStart, AmneziaTypeOK
<1>3. /\ core' \in {"none", "alive", "closing", "dying"} /\ inst' \in Nat
      /\ session' \in 0..inst' /\ 1..inst \subseteq 1..inst'
  BY <1>1 DEF AwgGone, BeginStart, AwgInv, AmneziaTypeOK
<1>3a. kills' \subseteq 1..inst' /\ closes' \subseteq 1..inst'
  <2>1. kills' \subseteq 1..inst BY <1>1 DEF AwgGone, BeginStart, AmneziaTypeOK
  <2>2. closes' \subseteq 1..inst BY <1>1 DEF AwgGone, BeginStart, AmneziaTypeOK
  <2> QED BY <1>3, <2>1, <2>2
<1>4. /\ https' \in Check \ {"queued"} /\ front' \in Check /\ awgWave' \in {"none", "https", "front"}
      /\ step' \in [pc : Pc, then : {"none", "begin", "end"}]
  BY <1>1 DEF AwgGone, BeginStart, AmneziaTypeOK
<1>5. awgServes' => core' # "none" /\ step'.pc \notin {"prepare", "spawn", "relay", "connect", "handshake"}
  BY <1>1 DEF AwgGone, BeginStart, AwgInv, AmneziaTypeOK
<1>6. /\ NoOrphan'
      /\ core' # "none" => inst' > 0
      /\ step'.pc = "prepare" => core' = "none"
      /\ session' # 0 => step'.pc = "idle"
  BY <1>1 DEF AwgGone, BeginStart, AwgInv, AmneziaTypeOK, NoOrphan
<1>7. session' \in closes' => failed'
  BY <1>1 DEF AwgGone, BeginStart, AwgInv, AmneziaTypeOK
<1>8. Starting' => inst' \notin closes'
  BY <1>1 DEF AwgGone, BeginStart, AwgInv, AmneziaTypeOK
<1>9. AmneziaTypeOK' BY <1>2, <1>3, <1>3a, <1>4, <1>5 DEF AmneziaTypeOK
<1> QED BY <1>6, <1>7, <1>8, <1>9 DEF AwgInv

LEMMA AwgGraceSafe == ASSUME AwgInv, AwgGrace PROVE AwgInv'
<1>1. AmneziaTypeOK /\ (core # "none" => inst \in 1..inst) /\ (session # 0 => session \in 1..inst)
  BY DEF AwgInv, AmneziaTypeOK
<1>2. {awgServes, expected, failed, ready, shook, current, lost}' \subseteq BOOLEAN
  BY Zenon, <1>1 DEF AwgGrace, AmneziaTypeOK
<1>3. /\ core' \in {"none", "alive", "closing", "dying"} /\ inst' \in Nat
      /\ session' \in 0..inst' /\ 1..inst \subseteq 1..inst'
  BY <1>1 DEF AwgGrace, AwgInv, AmneziaTypeOK
<1>3a. kills' \subseteq 1..inst' /\ closes' \subseteq 1..inst'
  <2>1. kills' \subseteq 1..inst BY <1>1 DEF AwgGrace, AmneziaTypeOK
  <2>2. closes' \subseteq 1..inst BY <1>1 DEF AwgGrace, AmneziaTypeOK
  <2> QED BY <1>3, <2>1, <2>2
<1>4. /\ https' \in Check \ {"queued"} /\ front' \in Check /\ awgWave' \in {"none", "https", "front"}
      /\ step' \in [pc : Pc, then : {"none", "begin", "end"}]
  BY <1>1 DEF AwgGrace, AmneziaTypeOK
<1>5. awgServes' => core' # "none" /\ step'.pc \notin {"prepare", "spawn", "relay", "connect", "handshake"}
  BY <1>1 DEF AwgGrace, AwgInv, AmneziaTypeOK
<1>6. /\ NoOrphan'
      /\ core' # "none" => inst' > 0
      /\ step'.pc = "prepare" => core' = "none"
      /\ session' # 0 => step'.pc = "idle"
  BY <1>1 DEF AwgGrace, AwgInv, AmneziaTypeOK, NoOrphan
<1>7. session' \in closes' => failed'
  BY <1>1 DEF AwgGrace, AwgInv, AmneziaTypeOK
<1>8. Starting' => inst' \notin closes'
  BY <1>1 DEF AwgGrace, AwgInv, AmneziaTypeOK
<1>9. AmneziaTypeOK' BY <1>2, <1>3, <1>3a, <1>4, <1>5 DEF AmneziaTypeOK
<1> QED BY <1>6, <1>7, <1>8, <1>9 DEF AwgInv

LEMMA AwgStuckSafe == ASSUME AwgInv, AwgStuck PROVE AwgInv'
<1>1. AmneziaTypeOK /\ (core # "none" => inst \in 1..inst) /\ (session # 0 => session \in 1..inst)
  BY DEF AwgInv, AmneziaTypeOK
<1>2. {awgServes, expected, failed, ready, shook, current, lost}' \subseteq BOOLEAN
  BY Zenon, <1>1 DEF AwgStuck, AmneziaTypeOK
<1>3. /\ core' \in {"none", "alive", "closing", "dying"} /\ inst' \in Nat
      /\ session' \in 0..inst' /\ 1..inst \subseteq 1..inst'
  BY <1>1 DEF AwgStuck, AwgInv, AmneziaTypeOK
<1>3a. kills' \subseteq 1..inst' /\ closes' \subseteq 1..inst'
  <2>1. kills' \subseteq 1..inst BY <1>1 DEF AwgStuck, AmneziaTypeOK
  <2>2. closes' \subseteq 1..inst BY <1>1 DEF AwgStuck, AmneziaTypeOK
  <2> QED BY <1>3, <2>1, <2>2
<1>4. /\ https' \in Check \ {"queued"} /\ front' \in Check /\ awgWave' \in {"none", "https", "front"}
      /\ step' \in [pc : Pc, then : {"none", "begin", "end"}]
  BY <1>1 DEF AwgStuck, AmneziaTypeOK
<1>5. awgServes' => core' # "none" /\ step'.pc \notin {"prepare", "spawn", "relay", "connect", "handshake"}
  BY <1>1 DEF AwgStuck, AwgInv, AmneziaTypeOK
<1>6. /\ NoOrphan'
      /\ core' # "none" => inst' > 0
      /\ step'.pc = "prepare" => core' = "none"
      /\ session' # 0 => step'.pc = "idle"
  BY <1>1 DEF AwgStuck, AwgInv, AmneziaTypeOK, NoOrphan
<1>7. session' \in closes' => failed'
  BY <1>1 DEF AwgStuck, AwgInv, AmneziaTypeOK
<1>8. Starting' => inst' \notin closes'
  BY <1>1 DEF AwgStuck, AwgInv, AmneziaTypeOK
<1>9. AmneziaTypeOK' BY <1>2, <1>3, <1>3a, <1>4, <1>5 DEF AmneziaTypeOK
<1> QED BY <1>6, <1>7, <1>8, <1>9 DEF AwgInv

LEMMA AwgPrepareSafe == ASSUME AwgInv, AwgPrepare PROVE AwgInv'
<1>1. AmneziaTypeOK /\ (core # "none" => inst \in 1..inst) /\ (session # 0 => session \in 1..inst)
  BY DEF AwgInv, AmneziaTypeOK
<1>2. {awgServes, expected, failed, ready, shook, current, lost}' \subseteq BOOLEAN
  BY Zenon, <1>1 DEF AwgPrepare, Stop, CancelHealth, Tells, AmneziaTypeOK
<1>3. /\ core' \in {"none", "alive", "closing", "dying"} /\ inst' \in Nat
      /\ session' \in 0..inst' /\ 1..inst \subseteq 1..inst'
  BY <1>1 DEF AwgPrepare, Stop, CancelHealth, Tells, AwgInv, AmneziaTypeOK
<1>3a. kills' \subseteq 1..inst' /\ closes' \subseteq 1..inst'
  <2>1. kills' \subseteq 1..inst BY <1>1 DEF AwgPrepare, Stop, CancelHealth, Tells, AmneziaTypeOK
  <2>2. closes' \subseteq 1..inst BY <1>1 DEF AwgPrepare, Stop, CancelHealth, Tells, AmneziaTypeOK
  <2> QED BY <1>3, <2>1, <2>2
<1>4. /\ https' \in Check \ {"queued"} /\ front' \in Check /\ awgWave' \in {"none", "https", "front"}
      /\ step' \in [pc : Pc, then : {"none", "begin", "end"}]
  BY <1>1 DEF AwgPrepare, Stop, CancelHealth, Tells, AmneziaTypeOK
<1>5. awgServes' => core' # "none" /\ step'.pc \notin {"prepare", "spawn", "relay", "connect", "handshake"}
  BY <1>1 DEF AwgPrepare, Stop, CancelHealth, Tells, AwgInv, AmneziaTypeOK
<1>6. /\ NoOrphan'
      /\ core' # "none" => inst' > 0
      /\ step'.pc = "prepare" => core' = "none"
      /\ session' # 0 => step'.pc = "idle"
  BY <1>1 DEF AwgPrepare, Stop, CancelHealth, Tells, AwgInv, AmneziaTypeOK, NoOrphan
<1>7. session' \in closes' => failed'
  BY <1>1 DEF AwgPrepare, Stop, CancelHealth, Tells, AwgInv, AmneziaTypeOK
<1>8. Starting' => inst' \notin closes'
  BY <1>1 DEF AwgPrepare, Stop, CancelHealth, Tells, AwgInv, AmneziaTypeOK
<1>9. AmneziaTypeOK' BY <1>2, <1>3, <1>3a, <1>4, <1>5 DEF AmneziaTypeOK
<1> QED BY <1>6, <1>7, <1>8, <1>9 DEF AwgInv

LEMMA AwgSpawnedSafe == ASSUME AwgInv, AwgSpawned PROVE AwgInv'
<1>1. AmneziaTypeOK /\ (core # "none" => inst \in 1..inst) /\ (session # 0 => session \in 1..inst)
  BY DEF AwgInv, AmneziaTypeOK
<1>2. {awgServes, expected, failed, ready, shook, current, lost}' \subseteq BOOLEAN
  BY Zenon, <1>1 DEF AwgSpawned, Stop, CancelHealth, FailStart, Tells, AmneziaTypeOK
<1>3. /\ core' \in {"none", "alive", "closing", "dying"} /\ inst' \in Nat
      /\ session' \in 0..inst' /\ 1..inst \subseteq 1..inst'
  BY <1>1 DEF AwgSpawned, Stop, CancelHealth, FailStart, Tells, AwgInv, AmneziaTypeOK
<1>3a. kills' \subseteq 1..inst' /\ closes' \subseteq 1..inst'
  <2>1. kills' \subseteq 1..inst
    BY <1>1 DEF AwgSpawned, Stop, CancelHealth, FailStart, Tells, AmneziaTypeOK
  <2>2. closes' \subseteq 1..inst
    BY <1>1 DEF AwgSpawned, Stop, CancelHealth, FailStart, Tells, AmneziaTypeOK
  <2> QED BY <1>3, <2>1, <2>2
<1>4. /\ https' \in Check \ {"queued"} /\ front' \in Check /\ awgWave' \in {"none", "https", "front"}
      /\ step' \in [pc : Pc, then : {"none", "begin", "end"}]
  BY <1>1 DEF AwgSpawned, Stop, CancelHealth, FailStart, Tells, AmneziaTypeOK
<1>5. awgServes' => core' # "none" /\ step'.pc \notin {"prepare", "spawn", "relay", "connect", "handshake"}
  BY <1>1 DEF AwgSpawned, Stop, CancelHealth, FailStart, Tells, AwgInv, AmneziaTypeOK
<1>6. /\ NoOrphan'
      /\ core' # "none" => inst' > 0
      /\ step'.pc = "prepare" => core' = "none"
      /\ session' # 0 => step'.pc = "idle"
  BY <1>1 DEF AwgSpawned, Stop, CancelHealth, FailStart, Tells, AwgInv, AmneziaTypeOK, NoOrphan
<1>7. session' \in closes' => failed'
  BY <1>1 DEF AwgSpawned, Stop, CancelHealth, FailStart, Tells, AwgInv, AmneziaTypeOK
<1>8. Starting' => inst' \notin closes'
  BY <1>1 DEF AwgSpawned, Stop, CancelHealth, FailStart, Tells, AwgInv, AmneziaTypeOK
<1>9. AmneziaTypeOK' BY <1>2, <1>3, <1>3a, <1>4, <1>5 DEF AmneziaTypeOK
<1> QED BY <1>6, <1>7, <1>8, <1>9 DEF AwgInv

LEMMA AwgRelaySafe == ASSUME AwgInv, AwgRelay PROVE AwgInv'
<1>1. AmneziaTypeOK /\ (core # "none" => inst \in 1..inst) /\ (session # 0 => session \in 1..inst)
  BY DEF AwgInv, AmneziaTypeOK
<1>2. {awgServes, expected, failed, ready, shook, current, lost}' \subseteq BOOLEAN
  BY Zenon, <1>1 DEF AwgRelay, Stop, CancelHealth, FailStart, Tells, AmneziaTypeOK
<1>3. /\ core' \in {"none", "alive", "closing", "dying"} /\ inst' \in Nat
      /\ session' \in 0..inst' /\ 1..inst \subseteq 1..inst'
  BY <1>1 DEF AwgRelay, Stop, CancelHealth, FailStart, Tells, AwgInv, AmneziaTypeOK
<1>3a. kills' \subseteq 1..inst' /\ closes' \subseteq 1..inst'
  <2>1. kills' \subseteq 1..inst
    BY <1>1 DEF AwgRelay, Stop, CancelHealth, FailStart, Tells, AmneziaTypeOK
  <2>2. closes' \subseteq 1..inst
    BY <1>1 DEF AwgRelay, Stop, CancelHealth, FailStart, Tells, AmneziaTypeOK
  <2> QED BY <1>3, <2>1, <2>2
<1>4. /\ https' \in Check \ {"queued"} /\ front' \in Check /\ awgWave' \in {"none", "https", "front"}
      /\ step' \in [pc : Pc, then : {"none", "begin", "end"}]
  BY <1>1 DEF AwgRelay, Stop, CancelHealth, FailStart, Tells, AmneziaTypeOK
<1>5. awgServes' => core' # "none" /\ step'.pc \notin {"prepare", "spawn", "relay", "connect", "handshake"}
  BY <1>1 DEF AwgRelay, Stop, CancelHealth, FailStart, Tells, AwgInv, AmneziaTypeOK
<1>6. /\ NoOrphan'
      /\ core' # "none" => inst' > 0
      /\ step'.pc = "prepare" => core' = "none"
      /\ session' # 0 => step'.pc = "idle"
  BY <1>1 DEF AwgRelay, Stop, CancelHealth, FailStart, Tells, AwgInv, AmneziaTypeOK, NoOrphan
<1>7. session' \in closes' => failed'
  BY <1>1 DEF AwgRelay, Stop, CancelHealth, FailStart, Tells, AwgInv, AmneziaTypeOK
<1>8. Starting' => inst' \notin closes'
  BY <1>1 DEF AwgRelay, Stop, CancelHealth, FailStart, Tells, AwgInv, AmneziaTypeOK
<1>9. AmneziaTypeOK' BY <1>2, <1>3, <1>3a, <1>4, <1>5 DEF AmneziaTypeOK
<1> QED BY <1>6, <1>7, <1>8, <1>9 DEF AwgInv

LEMMA AwgConnectSafe == ASSUME AwgInv, AwgConnect PROVE AwgInv'
<1>1. AmneziaTypeOK /\ (core # "none" => inst \in 1..inst) /\ (session # 0 => session \in 1..inst)
  BY DEF AwgInv, AmneziaTypeOK
<1>2. {awgServes, expected, failed, ready, shook, current, lost}' \subseteq BOOLEAN
  BY Zenon, <1>1 DEF AwgConnect, Stop, CancelHealth, FailStart, Tells, AmneziaTypeOK
<1>3. /\ core' \in {"none", "alive", "closing", "dying"} /\ inst' \in Nat
      /\ session' \in 0..inst' /\ 1..inst \subseteq 1..inst'
  BY <1>1 DEF AwgConnect, Stop, CancelHealth, FailStart, Tells, AwgInv, AmneziaTypeOK
<1>3a. kills' \subseteq 1..inst' /\ closes' \subseteq 1..inst'
  <2>1. kills' \subseteq 1..inst
    BY <1>1 DEF AwgConnect, Stop, CancelHealth, FailStart, Tells, AmneziaTypeOK
  <2>2. closes' \subseteq 1..inst
    BY <1>1 DEF AwgConnect, Stop, CancelHealth, FailStart, Tells, AmneziaTypeOK
  <2> QED BY <1>3, <2>1, <2>2
<1>4. /\ https' \in Check \ {"queued"} /\ front' \in Check /\ awgWave' \in {"none", "https", "front"}
      /\ step' \in [pc : Pc, then : {"none", "begin", "end"}]
  BY <1>1 DEF AwgConnect, Stop, CancelHealth, FailStart, Tells, AmneziaTypeOK
<1>5. awgServes' => core' # "none" /\ step'.pc \notin {"prepare", "spawn", "relay", "connect", "handshake"}
  BY <1>1 DEF AwgConnect, Stop, CancelHealth, FailStart, Tells, AwgInv, AmneziaTypeOK
<1>6. /\ NoOrphan'
      /\ core' # "none" => inst' > 0
      /\ step'.pc = "prepare" => core' = "none"
      /\ session' # 0 => step'.pc = "idle"
  BY <1>1 DEF AwgConnect, Stop, CancelHealth, FailStart, Tells, AwgInv, AmneziaTypeOK, NoOrphan
<1>7. session' \in closes' => failed'
  BY <1>1 DEF AwgConnect, Stop, CancelHealth, FailStart, Tells, AwgInv, AmneziaTypeOK
<1>8. Starting' => inst' \notin closes'
  BY <1>1 DEF AwgConnect, Stop, CancelHealth, FailStart, Tells, AwgInv, AmneziaTypeOK
<1>9. AmneziaTypeOK' BY <1>2, <1>3, <1>3a, <1>4, <1>5 DEF AmneziaTypeOK
<1> QED BY <1>6, <1>7, <1>8, <1>9 DEF AwgInv

LEMMA AwgHandshakeSafe == ASSUME AwgInv, AwgHandshake PROVE AwgInv'
<1>1. AmneziaTypeOK /\ (core # "none" => inst \in 1..inst) /\ (session # 0 => session \in 1..inst)
  BY DEF AwgInv, AmneziaTypeOK
<1>2. {awgServes, expected, failed, ready, shook, current, lost}' \subseteq BOOLEAN
  BY Zenon, <1>1 DEF AwgHandshake, Stop, CancelHealth, Tells, Hopeless, AmneziaTypeOK
<1>3. /\ core' \in {"none", "alive", "closing", "dying"} /\ inst' \in Nat
      /\ session' \in 0..inst' /\ 1..inst \subseteq 1..inst'
  BY <1>1 DEF AwgHandshake, Stop, CancelHealth, Tells, Hopeless, AwgInv, AmneziaTypeOK
<1>3a. kills' \subseteq 1..inst' /\ closes' \subseteq 1..inst'
  <2>1. kills' \subseteq 1..inst
    BY <1>1 DEF AwgHandshake, Stop, CancelHealth, Tells, Hopeless, AmneziaTypeOK
  <2>2. closes' \subseteq 1..inst
    BY <1>1 DEF AwgHandshake, Stop, CancelHealth, Tells, Hopeless, AmneziaTypeOK
  <2> QED BY <1>3, <2>1, <2>2
<1>4. /\ https' \in Check \ {"queued"} /\ front' \in Check /\ awgWave' \in {"none", "https", "front"}
      /\ step' \in [pc : Pc, then : {"none", "begin", "end"}]
  BY <1>1 DEF AwgHandshake, Stop, CancelHealth, Tells, Hopeless, AmneziaTypeOK
<1>5. awgServes' => core' # "none" /\ step'.pc \notin {"prepare", "spawn", "relay", "connect", "handshake"}
  BY <1>1 DEF AwgHandshake, Stop, CancelHealth, Tells, Hopeless, AwgInv, AmneziaTypeOK
<1>6. /\ NoOrphan'
      /\ core' # "none" => inst' > 0
      /\ step'.pc = "prepare" => core' = "none"
      /\ session' # 0 => step'.pc = "idle"
  BY <1>1 DEF AwgHandshake, Stop, CancelHealth, Tells, Hopeless, AwgInv, AmneziaTypeOK, NoOrphan
<1>7. session' \in closes' => failed'
  BY <1>1 DEF AwgHandshake, Stop, CancelHealth, Tells, Hopeless, AwgInv, AmneziaTypeOK
<1>8. Starting' => inst' \notin closes'
  BY <1>1 DEF AwgHandshake, Stop, CancelHealth, Tells, Hopeless, AwgInv, AmneziaTypeOK
<1>9. AmneziaTypeOK' BY <1>2, <1>3, <1>3a, <1>4, <1>5 DEF AmneziaTypeOK
<1> QED BY <1>6, <1>7, <1>8, <1>9 DEF AwgInv

LEMMA AwgEventSafe == ASSUME AwgInv, AwgEvent PROVE AwgInv'
<1>1. AmneziaTypeOK /\ (core # "none" => inst \in 1..inst) /\ (session # 0 => session \in 1..inst)
  BY DEF AwgInv, AmneziaTypeOK
<1>2. {awgServes, expected, failed, ready, shook, current, lost}' \subseteq BOOLEAN
  BY Zenon, <1>1 DEF AwgEvent, Tells, AmneziaTypeOK
<1>3. /\ core' \in {"none", "alive", "closing", "dying"} /\ inst' \in Nat
      /\ session' \in 0..inst' /\ 1..inst \subseteq 1..inst'
  BY <1>1 DEF AwgEvent, Tells, AwgInv, AmneziaTypeOK
<1>3a. kills' \subseteq 1..inst' /\ closes' \subseteq 1..inst'
  <2>1. kills' \subseteq 1..inst BY <1>1 DEF AwgEvent, Tells, AmneziaTypeOK
  <2>2. closes' \subseteq 1..inst BY <1>1 DEF AwgEvent, Tells, AmneziaTypeOK
  <2> QED BY <1>3, <2>1, <2>2
<1>4. /\ https' \in Check \ {"queued"} /\ front' \in Check /\ awgWave' \in {"none", "https", "front"}
      /\ step' \in [pc : Pc, then : {"none", "begin", "end"}]
  BY <1>1 DEF AwgEvent, Tells, AmneziaTypeOK
<1>5. awgServes' => core' # "none" /\ step'.pc \notin {"prepare", "spawn", "relay", "connect", "handshake"}
  BY <1>1 DEF AwgEvent, Tells, AwgInv, AmneziaTypeOK
<1>6. /\ NoOrphan'
      /\ core' # "none" => inst' > 0
      /\ step'.pc = "prepare" => core' = "none"
      /\ session' # 0 => step'.pc = "idle"
  BY <1>1 DEF AwgEvent, Tells, AwgInv, AmneziaTypeOK, NoOrphan
<1>7. session' \in closes' => failed'
  BY <1>1 DEF AwgEvent, Tells, AwgInv, AmneziaTypeOK
<1>8. Starting' => inst' \notin closes'
  BY <1>1 DEF AwgEvent, Tells, AwgInv, AmneziaTypeOK
<1>9. AmneziaTypeOK' BY <1>2, <1>3, <1>3a, <1>4, <1>5 DEF AmneziaTypeOK
<1> QED BY <1>6, <1>7, <1>8, <1>9 DEF AwgInv

LEMMA AwgExitsSafe == ASSUME AwgInv, AwgExits PROVE AwgInv'
<1>1. AmneziaTypeOK /\ (core # "none" => inst \in 1..inst) /\ (session # 0 => session \in 1..inst)
  BY DEF AwgInv, AmneziaTypeOK
<1>2. {awgServes, expected, failed, ready, shook, current, lost}' \subseteq BOOLEAN
  BY Zenon, <1>1 DEF AwgExits, CancelHealth, Tells, AmneziaTypeOK
<1>3. /\ core' \in {"none", "alive", "closing", "dying"} /\ inst' \in Nat
      /\ session' \in 0..inst' /\ 1..inst \subseteq 1..inst'
  BY <1>1 DEF AwgExits, CancelHealth, Tells, AwgInv, AmneziaTypeOK
<1>3a. kills' \subseteq 1..inst' /\ closes' \subseteq 1..inst'
  <2>1. kills' \subseteq 1..inst BY <1>1 DEF AwgExits, CancelHealth, Tells, AmneziaTypeOK
  <2>2. closes' \subseteq 1..inst BY <1>1 DEF AwgExits, CancelHealth, Tells, AmneziaTypeOK
  <2> QED BY <1>3, <2>1, <2>2
<1>4. /\ https' \in Check \ {"queued"} /\ front' \in Check /\ awgWave' \in {"none", "https", "front"}
      /\ step' \in [pc : Pc, then : {"none", "begin", "end"}]
  BY <1>1 DEF AwgExits, CancelHealth, Tells, AmneziaTypeOK
<1>5. awgServes' => core' # "none" /\ step'.pc \notin {"prepare", "spawn", "relay", "connect", "handshake"}
  BY <1>1 DEF AwgExits, CancelHealth, Tells, AwgInv, AmneziaTypeOK
<1>6. /\ NoOrphan'
      /\ core' # "none" => inst' > 0
      /\ step'.pc = "prepare" => core' = "none"
      /\ session' # 0 => step'.pc = "idle"
  BY <1>1 DEF AwgExits, CancelHealth, Tells, AwgInv, AmneziaTypeOK, NoOrphan
<1>7. session' \in closes' => failed'
  BY <1>1 DEF AwgExits, CancelHealth, Tells, AwgInv, AmneziaTypeOK
<1>8. Starting' => inst' \notin closes'
  BY <1>1 DEF AwgExits, CancelHealth, Tells, AwgInv, AmneziaTypeOK
<1>9. AmneziaTypeOK' BY <1>2, <1>3, <1>3a, <1>4, <1>5 DEF AmneziaTypeOK
<1> QED BY <1>6, <1>7, <1>8, <1>9 DEF AwgInv

LEMMA KillIfRunningSafe == ASSUME AwgInv, KillIfRunning PROVE AwgInv'
<1>1. AmneziaTypeOK /\ (core # "none" => inst \in 1..inst) /\ (session # 0 => session \in 1..inst)
  BY DEF AwgInv, AmneziaTypeOK
<1>2. {awgServes, expected, failed, ready, shook, current, lost}' \subseteq BOOLEAN
  BY Zenon, <1>1 DEF KillIfRunning, AmneziaTypeOK
<1>3. /\ core' \in {"none", "alive", "closing", "dying"} /\ inst' \in Nat
      /\ session' \in 0..inst' /\ 1..inst \subseteq 1..inst'
  BY <1>1 DEF KillIfRunning, AwgInv, AmneziaTypeOK
<1>3a. kills' \subseteq 1..inst' /\ closes' \subseteq 1..inst'
  <2>1. kills' \subseteq 1..inst BY <1>1 DEF KillIfRunning, AmneziaTypeOK
  <2>2. closes' \subseteq 1..inst BY <1>1 DEF KillIfRunning, AmneziaTypeOK
  <2> QED BY <1>3, <2>1, <2>2
<1>4. /\ https' \in Check \ {"queued"} /\ front' \in Check /\ awgWave' \in {"none", "https", "front"}
      /\ step' \in [pc : Pc, then : {"none", "begin", "end"}]
  BY <1>1 DEF KillIfRunning, AmneziaTypeOK
<1>5. awgServes' => core' # "none" /\ step'.pc \notin {"prepare", "spawn", "relay", "connect", "handshake"}
  BY <1>1 DEF KillIfRunning, AwgInv, AmneziaTypeOK
<1>6. /\ NoOrphan'
      /\ core' # "none" => inst' > 0
      /\ step'.pc = "prepare" => core' = "none"
      /\ session' # 0 => step'.pc = "idle"
  BY <1>1 DEF KillIfRunning, AwgInv, AmneziaTypeOK, NoOrphan
<1>7. session' \in closes' => failed'
  BY <1>1 DEF KillIfRunning, AwgInv, AmneziaTypeOK
<1>8. Starting' => inst' \notin closes'
  BY <1>1 DEF KillIfRunning, AwgInv, AmneziaTypeOK
<1>9. AmneziaTypeOK' BY <1>2, <1>3, <1>3a, <1>4, <1>5 DEF AmneziaTypeOK
<1> QED BY <1>6, <1>7, <1>8, <1>9 DEF AwgInv

LEMMA PollCheckSafe == ASSUME AwgInv, PollCheck PROVE AwgInv'
<1>1. AmneziaTypeOK /\ (core # "none" => inst \in 1..inst) /\ (session # 0 => session \in 1..inst)
  BY DEF AwgInv, AmneziaTypeOK
<1>2. {awgServes, expected, failed, ready, shook, current, lost}' \subseteq BOOLEAN
  BY Zenon, <1>1 DEF PollCheck, AmneziaTypeOK
<1>3. /\ core' \in {"none", "alive", "closing", "dying"} /\ inst' \in Nat
      /\ session' \in 0..inst' /\ 1..inst \subseteq 1..inst'
  BY <1>1 DEF PollCheck, AwgInv, AmneziaTypeOK
<1>3a. kills' \subseteq 1..inst' /\ closes' \subseteq 1..inst'
  <2>1. kills' \subseteq 1..inst BY <1>1 DEF PollCheck, AmneziaTypeOK
  <2>2. closes' \subseteq 1..inst BY <1>1 DEF PollCheck, AmneziaTypeOK
  <2> QED BY <1>3, <2>1, <2>2
<1>4. /\ https' \in Check \ {"queued"} /\ front' \in Check /\ awgWave' \in {"none", "https", "front"}
      /\ step' \in [pc : Pc, then : {"none", "begin", "end"}]
  BY <1>1 DEF PollCheck, AmneziaTypeOK
<1>5. awgServes' => core' # "none" /\ step'.pc \notin {"prepare", "spawn", "relay", "connect", "handshake"}
  BY <1>1 DEF PollCheck, AwgInv, AmneziaTypeOK
<1>6. /\ NoOrphan'
      /\ core' # "none" => inst' > 0
      /\ step'.pc = "prepare" => core' = "none"
      /\ session' # 0 => step'.pc = "idle"
  BY <1>1 DEF PollCheck, AwgInv, AmneziaTypeOK, NoOrphan
<1>7. session' \in closes' => failed'
  BY <1>1 DEF PollCheck, AwgInv, AmneziaTypeOK
<1>8. Starting' => inst' \notin closes'
  BY <1>1 DEF PollCheck, AwgInv, AmneziaTypeOK
<1>9. AmneziaTypeOK' BY <1>2, <1>3, <1>3a, <1>4, <1>5 DEF AmneziaTypeOK
<1> QED BY <1>6, <1>7, <1>8, <1>9 DEF AwgInv

HIDE DEF AwgIdle, awgCore, awgRest, Quiet, Pc, Check, Starting

LEMMA AwgAtStart == ASSUME AwgInit PROVE AwgInv
<1>1. {awgServes, expected, failed, ready, shook, current, lost} \subseteq BOOLEAN /\ ~awgServes
  BY Zenon DEF AwgInit
<1>2. /\ core = "none" /\ inst = 0 /\ session = 0 /\ kills = {} /\ closes = {}
      /\ https = "none" /\ front = "none" /\ awgWave = "none" /\ step = AwgIdle
  BY Zenon DEF AwgInit
<1>3. AmneziaTypeOK BY <1>1, <1>2 DEF AmneziaTypeOK, AwgIdle, Check, Pc
<1> QED BY <1>2, <1>3 DEF AwgInv, NoOrphan, Starting

LEMMA AwgStands == ASSUME AwgInv, UNCHANGED awgVars PROVE AwgInv'
BY DEF awgVars, awgCore, awgRest, AwgInv, AmneziaTypeOK, NoOrphan, Starting

LEMMA AwgSteps == ASSUME AwgInv, [AwgNext]_awgVars PROVE AwgInv'
BY AwgStartSafe, AwgStopSafe, AwgRequestStopSafe, AwgUnwantedSafe, CloseOwnedSafe, AwgFrontSafe,
   AwgCaptureSafe, AwgGoneSafe, AwgGraceSafe, AwgStuckSafe, AwgPrepareSafe, AwgSpawnedSafe,
   AwgRelaySafe, AwgConnectSafe, AwgHandshakeSafe, AwgEventSafe, AwgExitsSafe, KillIfRunningSafe,
   PollCheckSafe, AwgStands
DEF AwgNext, AwgStep

(* Only close_owned ends a session and takes from the queue, and it ends the *)
(* session it was queued for.                                                *)
LEMMA QueuedEndsItsOwn ==
  ASSUME AwgInv, [AwgNext]_awgVars, closes' # closes, session # 0, session' = 0
  PROVE  failed
<1>1. ~(UNCHANGED session) /\ ~(UNCHANGED closes) /\ session \in Nat
  BY DEF AwgInv, AmneziaTypeOK
<1>2. step.pc = "idle" BY DEF AwgInv
<1>3. CloseOwned
  BY <1>1, <1>2
  DEF AwgNext, AwgStep, awgVars, AwgStart, AwgStop, AwgRequestStop, AwgUnwanted, AwgFront, AwgCapture,
      AwgGone, AwgGrace, AwgStuck, AwgPrepare, AwgSpawned, AwgRelay, AwgConnect, AwgHandshake, AwgEvent,
      AwgExits, KillIfRunning, PollCheck
<1>4. session \in closes BY <1>1, <1>3 DEF CloseOwned
<1> QED BY <1>4 DEF AwgInv

(* A start that comes to nothing leaves no client behind, and the delayed    *)
(* end of a session never meets a newer one: for every number of starts,     *)
(* failures and interferences.                                               *)
THEOREM AmneziaIsSafe == AwgSpec => AmneziaSafe
<1>1. AwgInit => AwgInv BY AwgAtStart
<1>2. AwgInv /\ [AwgNext]_awgVars => AwgInv' BY AwgSteps
<1>3. AwgInv => AmneziaTypeOK /\ NoOrphan BY DEF AwgInv
<1>4. AwgInv /\ [AwgNext]_awgVars =>
        [closes' # closes /\ session # 0 /\ session' = 0 => failed]_awgVars
  BY QueuedEndsItsOwn
<1> QED BY <1>1, <1>2, <1>3, <1>4, PTL DEF AwgSpec, AmneziaSafe, NewerSpared

-----------------------------------------------------------------------------
(* The SOCKS relay.  A flow is numbered once in an association, so the       *)
(* reader that leaves takes out its own entry of the map and no other.       *)
Lives == {c \in Peer : Live(c)}

RelayPart(c) ==
  /\ \A r \in reader[c] : r.open => flows[c][r.of] = r.flow
  /\ \A r \in reader[c] : r.flow <= made[c]
  /\ \A r, q \in reader[c] : r.flow = q.flow => r = q

PlacesRight == IsFiniteSet(Lives) /\ places = Cardinality(Lives) /\ places <= ClientLimit

(* A stream that nobody cut is whole as long as one of its copies runs.      *)
StreamWhole(c) ==
  handler[c] = "relays" /\ ~cancelled /\ ~broken[c] /\ (\E w \in Way : way[c][w] = "flows")
    => remote[c] /\ sock[c] = "open"

RelayInv ==
  /\ RelayTypeOK
  /\ \A c \in Peer : RelayPart(c) /\ StreamWhole(c)
  /\ \A c \in Peer : sock[c] = "out" => handler[c] = "none"
  /\ PlacesRight

(* What the parts of the invariant speak of stands still.                    *)
LEMMA AssociationsStay ==
  ASSUME RelayInv, UNCHANGED <<port, flows, reader, made>>
  PROVE  /\ \A c \in Peer : RelayPart(c)'
         /\ port' \in [Peer -> 0..2] /\ flows' \in [Peer -> [Target -> 0..MaxFlowsMade]]
         /\ reader' \in [Peer -> SUBSET Reader] /\ made' \in [Peer -> 0..MaxFlowsMade]
BY DEF RelayInv, RelayTypeOK, RelayPart

LEMMA PlacesStay ==
  ASSUME RelayInv, \A p \in Peer : Live(p)' <=> Live(p), places' = places
  PROVE  PlacesRight' /\ places' \in Nat
<1>1. Lives' = Lives BY DEF Lives
<1> QED BY <1>1 DEF RelayInv, RelayTypeOK, PlacesRight

(* A handler that ends gives its place back.                                 *)
LEMMA PlaceBack ==
  ASSUME RelayInv, NEW c \in Peer, Live(c), ~Live(c)', places' = places - 1,
         \A p \in Peer \ {c} : Live(p)' <=> Live(p)
  PROVE  PlacesRight' /\ places' \in Nat
<1>1. Lives' = Lives \ {c} /\ c \in Lives BY DEF Lives
<1>2. IsFiniteSet(Lives) /\ places = Cardinality(Lives) /\ places <= ClientLimit
  BY DEF RelayInv, PlacesRight
<1>3. IsFiniteSet(Lives') /\ Cardinality(Lives') = Cardinality(Lives) - 1
  BY <1>1, <1>2, FS_RemoveElement
<1>4. Cardinality(Lives) \in Nat /\ Cardinality(Lives') \in Nat /\ ClientLimit \in Nat
  BY <1>2, <1>3, FS_CardinalityType, RelayAssumption
<1> QED BY <1>2, <1>3, <1>4 DEF PlacesRight

LEMMA RelayAtStart == ASSUME RelayInit PROVE RelayInv
<1>1. cancelled \in BOOLEAN /\ remote \in [Peer -> BOOLEAN] /\ udp \in [Peer -> BOOLEAN]
      /\ broken \in [Peer -> BOOLEAN] /\ \A c \in Peer : ~remote[c]
  BY Zenon DEF RelayInit
<1>2. RelayTypeOK BY <1>1, RelayAssumption DEF RelayInit, RelayTypeOK
<1>3. Lives = {} BY DEF Lives, Live, RelayInit
<1>4. PlacesRight
  BY <1>3, FS_EmptySet, RelayAssumption DEF PlacesRight, RelayInit
<1> QED BY <1>2, <1>4 DEF RelayInv, RelayPart, StreamWhole, RelayInit

LEMMA AcceptSafe == ASSUME RelayInv, NEW c \in Peer, Accept(c) PROVE RelayInv'
<1>1. UNCHANGED <<cancelled, serving, remote, way, broken, udp, port, flows, reader, made>>
  BY DEF Accept, stream, assoc
<1>0. handler[c] = "none" /\ sock[c] = "out" /\ ~remote[c]
  BY DEF Accept, RelayInv, RelayTypeOK
<1>2. CASE places < ClientLimit
  <2>1. /\ sock' = [sock EXCEPT ![c] = "open"] /\ handler' = [handler EXCEPT ![c] = "asks"]
        /\ places' = places + 1
    BY <1>2 DEF Accept, Goes
  <2>2. /\ sock' \in [Peer -> {"out", "open", "closed"}]
        /\ handler' \in [Peer -> {"none", "asks", "dials", "relays", "reads", "joins", "left"}]
    BY <2>1 DEF RelayInv, RelayTypeOK
  <2>3. \A p \in Peer : remote'[p] => handler'[p] = "relays"
    BY <1>0, <1>1, <2>1 DEF RelayInv, RelayTypeOK
  <2>4. Lives' = Lives \cup {c} /\ c \notin Lives
    BY <1>0, <2>1 DEF Lives, Live, RelayInv, RelayTypeOK
  <2>5. IsFiniteSet(Lives) /\ places = Cardinality(Lives)
    BY DEF RelayInv, PlacesRight
  <2>6. IsFiniteSet(Lives') /\ Cardinality(Lives') = Cardinality(Lives) + 1
    BY <2>4, <2>5, FS_AddElement
  <2>7. Cardinality(Lives) \in Nat /\ ClientLimit \in Nat
    BY <2>5, FS_CardinalityType, RelayAssumption
  <2>8. PlacesRight' /\ places' \in Nat
    BY <1>2, <2>1, <2>5, <2>6, <2>7 DEF PlacesRight
  <2>9. RelayTypeOK' BY <1>1, <2>2, <2>3, <2>8, AssociationsStay DEF RelayInv, RelayTypeOK
  <2>10. \A p \in Peer : (sock'[p] = "out" => handler'[p] = "none") /\ StreamWhole(p)'
    BY <1>1, <2>1 DEF RelayInv, RelayTypeOK, StreamWhole
  <2> QED BY <1>1, <2>8, <2>9, <2>10, AssociationsStay DEF RelayInv
<1>3. CASE ~(places < ClientLimit)
  <2>1. sock' = [sock EXCEPT ![c] = "closed"] /\ UNCHANGED <<handler, places>>
    BY <1>3 DEF Accept, Closes
  <2>2. PlacesRight' /\ places' \in Nat
    BY <2>1, PlacesStay DEF Live
  <2>3. RelayTypeOK' BY <1>1, <2>1, <2>2, AssociationsStay DEF RelayInv, RelayTypeOK
  <2>4. \A p \in Peer : (sock'[p] = "out" => handler'[p] = "none") /\ StreamWhole(p)'
    BY <1>0, <1>1, <2>1 DEF RelayInv, RelayTypeOK, StreamWhole
  <2> QED BY <1>1, <2>2, <2>3, <2>4, AssociationsStay DEF RelayInv
<1> QED BY <1>2, <1>3

(* The steps that touch no association and begin no handler.                 *)
LEMMA StreamStepsSafe ==
  ASSUME RelayInv, NEW c \in Peer,
         \/ PeerCloses(c) \/ RemoteBreaks(c) \/ Dial(c) \/ StreamEnds(c) \/ Ask(c)
         \/ \E w \in Way : CopyEnds(c, w) \/ CopyFails(c, w)
  PROVE  RelayInv'
<1>1. UNCHANGED <<cancelled, serving, port, flows, reader, made>>
  BY DEF PeerCloses, RemoteBreaks, Dial, StreamEnds, Ask, CopyEnds, CopyFails, assoc, stream
<1>2. PlacesRight' /\ places' \in Nat
  <2>1. handler \in [Peer -> {"none", "asks", "dials", "relays", "reads", "joins", "left"}]
    BY DEF RelayInv, RelayTypeOK
  <2>2. CASE /\ handler[c] \in {"asks", "dials", "relays"} /\ Leaves(c)
    BY <2>1, <2>2, PlaceBack DEF Leaves, Goes, Live
  <2>3. CASE /\ places' = places
             /\ \/ UNCHANGED handler
                \/ handler[c] \in {"asks", "dials"} /\ handler' = [handler EXCEPT ![c] = handler'[c]]
                   /\ handler'[c] \in {"dials", "reads", "relays"}
    BY <2>1, <2>3, PlacesStay DEF Live
  <2>4. Ask(c) \/ Dial(c) =>
          \/ handler[c] \in {"asks", "dials"} /\ Leaves(c)
          \/ /\ places' = places /\ handler[c] \in {"asks", "dials"}
             /\ handler' = [handler EXCEPT ![c] = handler'[c]]
             /\ handler'[c] \in {"dials", "reads", "relays"}
    BY <2>1 DEF Ask, Dial, Goes
  <2>5. StreamEnds(c) => handler[c] = "relays" /\ Leaves(c) BY DEF StreamEnds
  <2>6. PeerCloses(c) \/ RemoteBreaks(c) \/ (\E w \in Way : CopyEnds(c, w) \/ CopyFails(c, w))
          => places' = places /\ UNCHANGED handler
    BY DEF PeerCloses, RemoteBreaks, CopyEnds, CopyFails
  <2> QED BY <2>2, <2>3, <2>4, <2>5, <2>6
<1>3. cancelled' \in BOOLEAN /\ serving' \in {"accepts", "waits", "returned"}
  BY <1>1 DEF RelayInv, RelayTypeOK
<1>4. /\ sock' \in [Peer -> {"out", "open", "closed"}]
      /\ handler' \in [Peer -> {"none", "asks", "dials", "relays", "reads", "joins", "left"}]
      /\ \A p \in Peer : sock'[p] = "out" => handler'[p] = "none"
      /\ way' \in [Peer -> [Way -> {"none", "flows", "over"}]]
  <2>0. /\ sock \in [Peer -> {"out", "open", "closed"}]
        /\ handler \in [Peer -> {"none", "asks", "dials", "relays", "reads", "joins", "left"}]
        /\ \A p \in Peer : sock[p] = "out" => handler[p] = "none"
        /\ way \in [Peer -> [Way -> {"none", "flows", "over"}]]
    BY DEF RelayInv, RelayTypeOK
  <2>1. CASE PeerCloses(c) \/ RemoteBreaks(c) BY <2>0, <2>1 DEF PeerCloses, RemoteBreaks, Closes
  <2>2. CASE Dial(c)
    <3>1. \/ UNCHANGED way
          \/ way' = [way EXCEPT ![c] = [w \in Way |-> "flows"]]
      BY <2>2 DEF Dial, stream
    <3>2. way' \in [Peer -> [Way -> {"none", "flows", "over"}]] BY <2>0, <3>1
    <3> QED BY <2>0, <2>2, <3>2 DEF Dial, Leaves, Goes, Closes
  <2>3. CASE StreamEnds(c) BY <2>0, <2>3 DEF StreamEnds, Leaves, Goes, Closes
  <2>4. CASE Ask(c) BY <2>0, <2>4 DEF Ask, Leaves, Goes, Closes, stream
  <2>5. CASE \E w \in Way : CopyEnds(c, w) \/ CopyFails(c, w)
    <3>1. PICK w \in Way : CopyEnds(c, w) \/ CopyFails(c, w) BY <2>5
    <3>2. way' = [way EXCEPT ![c] = [way[c] EXCEPT ![w] = "over"]] /\ UNCHANGED handler
          /\ (UNCHANGED sock \/ sock' = [sock EXCEPT ![c] = "closed"])
      BY <2>0, <3>1 DEF CopyEnds, CopyFails, Closes
    <3> QED BY <2>0, <3>2
  <2> QED BY <2>1, <2>2, <2>3, <2>4, <2>5
<1>5. udp' \in [Peer -> BOOLEAN] /\ remote' \in [Peer -> BOOLEAN] /\ broken' \in [Peer -> BOOLEAN]
  <2>1. udp \in [Peer -> BOOLEAN] /\ remote \in [Peer -> BOOLEAN] /\ broken \in [Peer -> BOOLEAN]
    BY DEF RelayInv, RelayTypeOK
  <2>2. udp' \in {udp, [udp EXCEPT ![c] = TRUE]}
        /\ remote' \in {remote, [remote EXCEPT ![c] = TRUE], [remote EXCEPT ![c] = FALSE]}
        /\ broken' \in {broken, [broken EXCEPT ![c] = TRUE]}
    BY DEF PeerCloses, RemoteBreaks, Dial, StreamEnds, Ask, CopyEnds, CopyFails, stream, assoc
  <2> QED BY <2>1, <2>2
<1>6. \A p \in Peer : remote'[p] => handler'[p] = "relays"
  BY DEF PeerCloses, RemoteBreaks, Dial, StreamEnds, Ask, CopyEnds, CopyFails, Leaves, Goes, stream, assoc,
     RelayInv, RelayTypeOK
<1>7. \A p \in Peer : StreamWhole(p)'
  <2>0. /\ sock \in [Peer -> {"out", "open", "closed"}] /\ broken \in [Peer -> BOOLEAN]
        /\ handler \in [Peer -> {"none", "asks", "dials", "relays", "reads", "joins", "left"}]
        /\ way \in [Peer -> [Way -> {"none", "flows", "over"}]] /\ remote \in [Peer -> BOOLEAN]
        /\ \A p \in Peer : StreamWhole(p)
    BY DEF RelayInv, RelayTypeOK
  <2>1. \A p \in Peer \ {c} : /\ handler'[p] = handler[p] /\ sock'[p] = sock[p] /\ way'[p] = way[p]
                              /\ remote'[p] = remote[p] /\ broken'[p] = broken[p]
    BY <2>0 DEF PeerCloses, RemoteBreaks, Dial, StreamEnds, Ask, CopyEnds, CopyFails, Leaves, Goes, Closes, stream
  <2>2. \A p \in Peer \ {c} : StreamWhole(p)'
    BY <1>1, <2>0, <2>1 DEF StreamWhole
  <2>3. StreamWhole(c)'
    <3>1. CASE PeerCloses(c) \/ RemoteBreaks(c)
      BY <2>0, <3>1 DEF PeerCloses, RemoteBreaks, StreamWhole
    <3>2. CASE Ask(c) \/ StreamEnds(c)
      BY <2>0, <3>2 DEF Ask, StreamEnds, Leaves, Goes, StreamWhole
    <3>3. CASE Dial(c)
      <4>1. CASE Leaves(c) BY <2>0, <4>1 DEF Leaves, Goes, StreamWhole
      <4>2. CASE ~Leaves(c) BY <2>0, <3>3, <4>2 DEF Dial, StreamWhole
      <4> QED BY <4>1, <4>2
    <3>4. CASE \E w \in Way : CopyEnds(c, w)
      <4>1. PICK w \in Way : CopyEnds(c, w) BY <3>4
      <4>2. /\ way' = [way EXCEPT ![c] = [way[c] EXCEPT ![w] = "over"]] /\ way[c][w] = "flows"
            /\ UNCHANGED <<cancelled, sock, handler, remote, broken>>
        BY <4>1 DEF CopyEnds
      <4> QED BY <2>0, <4>2 DEF StreamWhole
    <3>5. CASE \E w \in Way : CopyFails(c, w)
      <4>1. PICK w \in Way : CopyFails(c, w) BY <3>5
      <4>2. /\ way[c][w] = "flows" /\ handler[c] = "relays" /\ (broken[c] \/ ~remote[c])
            /\ UNCHANGED <<cancelled, handler, broken>>
        BY <4>1 DEF CopyFails
      <4> QED BY <2>0, <4>2 DEF StreamWhole
    <3> QED BY <3>1, <3>2, <3>3, <3>4, <3>5
  <2> QED BY <2>2, <2>3
<1>8. RelayTypeOK' BY <1>2, <1>3, <1>4, <1>5, <1>6, <1>1, AssociationsStay DEF RelayTypeOK
<1> QED BY <1>1, <1>2, <1>4, <1>7, <1>8, AssociationsStay DEF RelayInv

LEMMA ServeStepsSafe == ASSUME RelayInv, CancelRelay \/ ServeReturns PROVE RelayInv'
<1>1. UNCHANGED <<handler, places, way, broken, udp, port, flows, reader, made>>
  BY DEF CancelRelay, ServeReturns, assoc, stream
<1>2. cancelled' \in BOOLEAN /\ remote' \in [Peer -> BOOLEAN]
  BY Zenon DEF CancelRelay, ServeReturns, stream, RelayInv, RelayTypeOK
<1>3. sock' \in [Peer -> {"out", "open", "closed"}] /\ serving' \in {"accepts", "waits", "returned"}
      /\ \A p \in Peer : remote'[p] => handler'[p] = "relays"
  BY DEF CancelRelay, ServeReturns, stream, RelayInv, RelayTypeOK
<1>4. PlacesRight' /\ places' \in Nat BY <1>1, PlacesStay DEF Live
<1>6. RelayTypeOK' BY <1>1, <1>2, <1>3, <1>4, AssociationsStay DEF RelayInv, RelayTypeOK
<1>7. \A p \in Peer : StreamWhole(p)'
  BY <1>1 DEF CancelRelay, ServeReturns, stream, RelayInv, StreamWhole
<1>5. \A p \in Peer : sock'[p] = "out" => handler'[p] = "none"
  BY <1>1 DEF CancelRelay, ServeReturns, RelayInv, RelayTypeOK
<1> QED BY <1>1, <1>4, <1>5, <1>6, <1>7, AssociationsStay DEF RelayInv

(* The association of one client moves, and those of the others stand still. *)
LEMMA OnePartMoves ==
  ASSUME RelayInv, NEW c \in Peer,
         UNCHANGED <<cancelled, serving, remote, way, broken>>,
         sock' \in [Peer -> {"out", "open", "closed"}],
         handler' \in [Peer -> {"none", "asks", "dials", "relays", "reads", "joins", "left"}],
         udp' \in [Peer -> BOOLEAN], port' \in [Peer -> 0..2],
         flows' \in [Peer -> [Target -> 0..MaxFlowsMade]],
         reader' \in [Peer -> SUBSET Reader], made' \in [Peer -> 0..MaxFlowsMade],
         \A p \in Peer : /\ sock'[p] = "out" => handler'[p] = "none"
                         /\ remote[p] => handler'[p] = "relays"
                         /\ handler'[p] = "relays" => handler[p] = "relays" /\ sock'[p] = sock[p],
         PlacesRight', places' \in Nat,
         RelayPart(c)',
         \A q \in Peer \ {c} : flows'[q] = flows[q] /\ reader'[q] = reader[q] /\ made'[q] = made[q]
  PROVE  RelayInv'
<1>1. RelayTypeOK' BY DEF RelayInv, RelayTypeOK
<1>2. \A p \in Peer : RelayPart(p)' BY DEF RelayPart, RelayInv
<1>3. \A p \in Peer : sock'[p] = "out" => handler'[p] = "none" OBVIOUS
<1>4. \A p \in Peer : StreamWhole(p)' BY DEF RelayInv, StreamWhole
<1> QED BY <1>1, <1>2, <1>3, <1>4 DEF RelayInv

(* The same where no connection and no handler moves.                        *)
LEMMA OneMapMoves ==
  ASSUME RelayInv, NEW c \in Peer,
         UNCHANGED <<cancelled, serving, remote, way, broken, sock, handler, places, udp>>,
         port' \in [Peer -> 0..2], flows' \in [Peer -> [Target -> 0..MaxFlowsMade]],
         reader' \in [Peer -> SUBSET Reader], made' \in [Peer -> 0..MaxFlowsMade],
         RelayPart(c)',
         \A q \in Peer \ {c} : flows'[q] = flows[q] /\ reader'[q] = reader[q] /\ made'[q] = made[q]
  PROVE  RelayInv'
<1>1. PlacesRight' /\ places' \in Nat BY PlacesStay DEF Live
<1> QED BY <1>1, OnePartMoves DEF RelayInv, RelayTypeOK

LEMMA DatagramSafe ==
  ASSUME RelayInv, NEW c \in Peer, NEW p \in 1..2, NEW d \in Target, Datagram(c, p, d)
  PROVE  RelayInv'
<1>1. /\ UNCHANGED <<cancelled, serving, remote, way, broken, sock, handler, places, udp>>
      /\ port' = [port EXCEPT ![c] = p]
  BY DEF Datagram, stream
<1>2. CASE UNCHANGED <<flows, reader, made>>
  <2>1. port' \in [Peer -> 0..2] BY <1>1 DEF RelayInv, RelayTypeOK
  <2> QED BY <1>1, <1>2, <2>1, OneMapMoves DEF RelayInv, RelayTypeOK, RelayPart
<1>3. CASE /\ flows[c][d] = 0 /\ made[c] < MaxFlowsMade
           /\ made' = [made EXCEPT ![c] = made[c] + 1]
           /\ flows' = [flows EXCEPT ![c] = [flows[c] EXCEPT ![d] = made[c] + 1]]
           /\ reader' = [reader EXCEPT ![c] = reader[c] \cup {[of |-> d, flow |-> made[c] + 1, open |-> TRUE]}]
  <2> DEFINE new == [of |-> d, flow |-> made[c] + 1, open |-> TRUE]
  <2>1. /\ port \in [Peer -> 0..2] /\ made \in [Peer -> 0..MaxFlowsMade]
        /\ flows \in [Peer -> [Target -> 0..MaxFlowsMade]] /\ reader \in [Peer -> SUBSET Reader]
        /\ MaxFlowsMade \in Nat
    BY RelayAssumption DEF RelayInv, RelayTypeOK
  <2>2. made[c] + 1 \in 1..MaxFlowsMade /\ made[c] \in Nat BY <1>3, <2>1
  <2>3. new \in Reader /\ new.of = d /\ new.flow = made[c] + 1 /\ new.open = TRUE
    BY <2>2 DEF Reader
  <2> HIDE DEF new
  <2>4. /\ port' \in [Peer -> 0..2] /\ made' \in [Peer -> 0..MaxFlowsMade]
        /\ flows' \in [Peer -> [Target -> 0..MaxFlowsMade]]
    BY <1>1, <1>3, <2>1, <2>2
  <2>5. reader' = [reader EXCEPT ![c] = reader[c] \cup {new}] BY <1>3 DEF new
  <2>6. reader' \in [Peer -> SUBSET Reader] BY <2>1, <2>3, <2>5
  <2>7. /\ reader'[c] = reader[c] \cup {new} /\ made'[c] = made[c] + 1 /\ flows'[c][d] = made[c] + 1
        /\ \A t \in Target : t # d => flows'[c][t] = flows[c][t]
    BY <1>3, <2>1, <2>5
  <2>8. \A r \in reader[c] : /\ r.flow <= made[c] /\ r.flow \in 1..MaxFlowsMade /\ r.of \in Target
                             /\ (r.open => flows[c][r.of] = r.flow)
    BY <2>1 DEF RelayInv, RelayPart, Reader
  <2>9. \A r \in reader[c] : r.open => r.of # d BY <1>3, <2>8
  <2>10. \A r \in reader'[c] : r.open => flows'[c][r.of] = r.flow
    BY <2>3, <2>7, <2>8, <2>9
  <2>11. \A r \in reader'[c] : r.flow <= made'[c] BY <2>2, <2>3, <2>7, <2>8
  <2>12. \A r \in reader[c] : r.flow # new.flow BY <2>2, <2>3, <2>8
  <2>13. \A r, q \in reader[c] : r.flow = q.flow => r = q BY DEF RelayInv, RelayPart
  <2>14. \A r, q \in reader'[c] : r.flow = q.flow => r = q BY <2>7, <2>12, <2>13
  <2>15. \A q \in Peer \ {c} : flows'[q] = flows[q] /\ reader'[q] = reader[q] /\ made'[q] = made[q]
    BY <1>3, <2>1
  <2>16. RelayPart(c)' BY <2>10, <2>11, <2>14 DEF RelayPart
  <2> QED BY <1>1, <2>4, <2>6, <2>15, <2>16, OneMapMoves
<1> QED BY <1>2, <1>3 DEF Datagram

LEMMA WriteFailsSafe ==
  ASSUME RelayInv, NEW c \in Peer, NEW d \in Target, WriteFails(c, d)
  PROVE  RelayInv'
<1>1. UNCHANGED <<cancelled, serving, remote, way, broken, sock, handler, places, udp, port, flows, made>>
  BY DEF WriteFails, stream
<1>2. PICK r \in reader[c] :
        reader' = [reader EXCEPT ![c] = (reader[c] \ {r}) \cup {[r EXCEPT !.open = FALSE]}]
  BY DEF WriteFails
<1> DEFINE gone == [r EXCEPT !.open = FALSE]
<1>3. /\ port' \in [Peer -> 0..2] /\ flows' \in [Peer -> [Target -> 0..MaxFlowsMade]]
      /\ made' \in [Peer -> 0..MaxFlowsMade] /\ reader \in [Peer -> SUBSET Reader]
  BY <1>1 DEF RelayInv, RelayTypeOK
<1>4. r \in Reader BY <1>2, <1>3
<1>41. gone \in Reader BY <1>4 DEF Reader
<1>42. gone.flow = r.flow /\ gone.of = r.of BY <1>4 DEF Reader
<1>43. ~gone.open BY <1>4 DEF Reader
<1>5. reader' = [reader EXCEPT ![c] = (reader[c] \ {r}) \cup {gone}] BY <1>2
<1> HIDE DEF gone
<1>6. reader' \in [Peer -> SUBSET Reader] /\ reader'[c] = (reader[c] \ {r}) \cup {gone}
      /\ \A p \in Peer \ {c} : reader'[p] = reader[p]
  BY <1>3, <1>41, <1>5
<1>7. /\ \A q \in reader'[c] : (q.open => flows[c][q.of] = q.flow) /\ q.flow <= made[c]
      /\ \A q, s \in reader'[c] : q.flow = s.flow => q = s
  BY <1>42, <1>43, <1>6 DEF RelayInv, RelayPart
<1>8. RelayPart(c)' BY <1>1, <1>7 DEF RelayPart
<1> QED BY <1>1, <1>3, <1>6, <1>8, OneMapMoves

LEMMA ReaderLeavesSafe ==
  ASSUME RelayInv, NEW c \in Peer, ReaderLeaves(c)
  PROVE  RelayInv'
<1>1. UNCHANGED <<cancelled, serving, remote, way, broken, sock, handler, places, udp, port, made>>
  BY DEF ReaderLeaves, stream
<1>2. PICK r \in reader[c] :
        /\ reader' = [reader EXCEPT ![c] = reader[c] \ {r}]
        /\ flows' = IF flows[c][r.of] = r.flow
                    THEN [flows EXCEPT ![c] = [flows[c] EXCEPT ![r.of] = 0]] ELSE flows
  BY DEF ReaderLeaves
<1>3. /\ port' \in [Peer -> 0..2] /\ flows \in [Peer -> [Target -> 0..MaxFlowsMade]]
      /\ made' \in [Peer -> 0..MaxFlowsMade] /\ reader \in [Peer -> SUBSET Reader]
      /\ MaxFlowsMade \in Nat
  BY <1>1, RelayAssumption DEF RelayInv, RelayTypeOK
<1>4. /\ reader' \in [Peer -> SUBSET Reader] /\ reader'[c] = reader[c] \ {r}
      /\ flows' \in [Peer -> [Target -> 0..MaxFlowsMade]]
      /\ \A p \in Peer \ {c} : reader'[p] = reader[p] /\ flows'[p] = flows[p]
  <2>1. reader' \in [Peer -> SUBSET Reader] /\ reader'[c] = reader[c] \ {r}
        /\ \A p \in Peer \ {c} : reader'[p] = reader[p]
    BY <1>2, <1>3
  <2>2. CASE flows[c][r.of] = r.flow
    <3>1. flows' = [flows EXCEPT ![c] = [flows[c] EXCEPT ![r.of] = 0]] BY <1>2, <2>2
    <3>2. flows[c] \in [Target -> 0..MaxFlowsMade] /\ 0 \in 0..MaxFlowsMade BY <1>3
    <3>3. [flows[c] EXCEPT ![r.of] = 0] \in [Target -> 0..MaxFlowsMade] BY <3>2
    <3>4. flows' \in [Peer -> [Target -> 0..MaxFlowsMade]] BY <1>3, <3>1, <3>3
    <3>5. \A p \in Peer \ {c} : flows'[p] = flows[p] BY <1>3, <3>1
    <3> QED BY <2>1, <3>4, <3>5
  <2>3. CASE flows[c][r.of] # r.flow BY <1>2, <1>3, <2>1, <2>3
  <2> QED BY <2>1, <2>2, <2>3
<1>5. \A q \in reader[c] : q \in Reader /\ q.of \in Target BY <1>3 DEF Reader
<1>6. RelayPart(c) BY DEF RelayInv
<1>7. \A q \in reader'[c] : q.open => flows'[c][q.of] = q.flow
  <2>1. CASE flows[c][r.of] = r.flow
    <3>1. \A q \in reader'[c] : q.open => q.of # r.of BY <1>4, <1>6, <2>1 DEF RelayPart
    <3>2. \A t \in Target : t # r.of => flows'[c][t] = flows[c][t] BY <1>2, <1>3, <2>1
    <3> QED BY <1>4, <1>5, <1>6, <3>1, <3>2 DEF RelayPart
  <2>2. CASE flows[c][r.of] # r.flow BY <1>2, <1>4, <1>6, <2>2 DEF RelayPart
  <2> QED BY <2>1, <2>2
<1>8. /\ \A q \in reader'[c] : q.flow <= made'[c]
      /\ \A q, s \in reader'[c] : q.flow = s.flow => q = s
  BY <1>1, <1>4, <1>6 DEF RelayPart
<1>9. RelayPart(c)' BY <1>7, <1>8 DEF RelayPart
<1> QED BY <1>1, <1>3, <1>4, <1>9, OneMapMoves

LEMMA ControlClosedSafe ==
  ASSUME RelayInv, NEW c \in Peer, ControlClosed(c)
  PROVE  RelayInv'
<1>1. UNCHANGED <<cancelled, serving, remote, way, broken, sock, handler, places, port, flows, reader, made>>
  BY DEF ControlClosed, stream
<1>2. udp' \in [Peer -> BOOLEAN]
  <2>1. udp \in [Peer -> BOOLEAN] /\ udp' = [udp EXCEPT ![c] = FALSE]
    BY DEF ControlClosed, RelayInv, RelayTypeOK
  <2> QED BY <2>1
<1>3. RelayPart(c)' BY <1>1, AssociationsStay
<1>4. PlacesRight' /\ places' \in Nat BY <1>1, PlacesStay DEF Live
<1> QED BY <1>1, <1>2, <1>3, <1>4, AssociationsStay, OnePartMoves DEF RelayInv, RelayTypeOK

LEMMA ReadEndsSafe ==
  ASSUME RelayInv, NEW c \in Peer, ReadEnds(c)
  PROVE  RelayInv'
<1> DEFINE over(r) == [r EXCEPT !.open = r.open /\ flows[c][r.of] # r.flow]
<1>1. /\ UNCHANGED <<cancelled, serving, remote, way, broken, sock, places, udp, port, flows, made>>
      /\ handler[c] = "reads" /\ handler' = [handler EXCEPT ![c] = "joins"]
      /\ reader' = [reader EXCEPT ![c] = {over(r) : r \in reader[c]}]
  BY DEF ReadEnds, Goes, stream
<1>2. /\ reader \in [Peer -> SUBSET Reader]
      /\ handler \in [Peer -> {"none", "asks", "dials", "relays", "reads", "joins", "left"}]
  BY DEF RelayInv, RelayTypeOK
<1>3. \A r \in reader[c] :
        over(r) \in Reader /\ over(r).flow = r.flow /\ over(r).of = r.of
        /\ (over(r).open => r.open)
  <2> SUFFICES ASSUME NEW r \in reader[c]
               PROVE  over(r) \in Reader /\ over(r).flow = r.flow /\ over(r).of = r.of
                      /\ (over(r).open => r.open)
    OBVIOUS
  <2>1. r \in Reader BY <1>2
  <2>2. (r.open /\ flows[c][r.of] # r.flow) \in BOOLEAN BY <2>1 DEF Reader
  <2>3. over(r) \in Reader BY <2>1, <2>2 DEF Reader
  <2>4. over(r).flow = r.flow /\ over(r).of = r.of BY <2>1 DEF Reader
  <2>5. over(r).open = (r.open /\ flows[c][r.of] # r.flow) BY <2>1 DEF Reader
  <2> QED BY <2>3, <2>4, <2>5
<1> HIDE DEF over
<1>4. /\ reader' \in [Peer -> SUBSET Reader] /\ reader'[c] = {over(r) : r \in reader[c]}
      /\ \A p \in Peer \ {c} : reader'[p] = reader[p]
  BY <1>1, <1>2, <1>3
<1>5. /\ handler' \in [Peer -> {"none", "asks", "dials", "relays", "reads", "joins", "left"}]
      /\ \A p \in Peer : /\ sock'[p] = "out" => handler'[p] = "none"
                         /\ remote[p] => handler'[p] = "relays"
                         /\ handler'[p] = "relays" => handler[p] = "relays" /\ sock'[p] = sock[p]
  BY <1>1, <1>2 DEF RelayInv, RelayTypeOK
<1>6. \A q \in reader'[c] : (q.open => flows[c][q.of] = q.flow) /\ q.flow <= made[c]
  BY <1>3, <1>4 DEF RelayInv, RelayPart
<1>7. \A q, s \in reader'[c] : q.flow = s.flow => q = s
  BY <1>3, <1>4 DEF RelayInv, RelayPart
<1>8. RelayPart(c)' BY <1>1, <1>6, <1>7 DEF RelayPart
<1>9. PlacesRight' /\ places' \in Nat BY <1>1, <1>2, PlacesStay DEF Live
<1> QED BY <1>1, <1>4, <1>5, <1>8, <1>9, OnePartMoves DEF RelayInv, RelayTypeOK

LEMMA JoinedSafe ==
  ASSUME RelayInv, NEW c \in Peer, Joined(c)
  PROVE  RelayInv'
<1>1. /\ UNCHANGED <<cancelled, serving, remote, way, broken, port, flows, reader, made>>
      /\ handler[c] = "joins" /\ handler' = [handler EXCEPT ![c] = "left"]
      /\ sock' = [sock EXCEPT ![c] = "closed"] /\ places' = places - 1
  BY DEF Joined, Leaves, Goes, Closes, stream
<1>2. udp' \in [Peer -> BOOLEAN]
  <2>1. udp \in [Peer -> BOOLEAN] /\ udp' = [udp EXCEPT ![c] = FALSE]
    BY DEF Joined, RelayInv, RelayTypeOK
  <2> QED BY <2>1
<1>3. RelayPart(c)' BY <1>1, AssociationsStay
<1>4. /\ sock' \in [Peer -> {"out", "open", "closed"}]
      /\ handler' \in [Peer -> {"none", "asks", "dials", "relays", "reads", "joins", "left"}]
      /\ \A p \in Peer : /\ sock'[p] = "out" => handler'[p] = "none"
                         /\ remote[p] => handler'[p] = "relays"
                         /\ handler'[p] = "relays" => handler[p] = "relays" /\ sock'[p] = sock[p]
  BY <1>1 DEF RelayInv, RelayTypeOK
<1>5. PlacesRight' /\ places' \in Nat
  BY <1>1, PlaceBack DEF Live, RelayInv, RelayTypeOK
<1> QED BY <1>1, <1>2, <1>3, <1>4, <1>5, AssociationsStay, OnePartMoves

LEMMA RelayStands == ASSUME RelayInv, UNCHANGED relayVars PROVE RelayInv'
<1>1. UNCHANGED <<cancelled, serving, sock, handler, places, remote, way, broken, udp, port, flows, reader, made>>
  BY DEF relayVars, stream, assoc
<1>2. PlacesRight'
  BY <1>1, PlacesStay DEF Live
<1> QED BY <1>1, <1>2 DEF RelayInv, RelayTypeOK, RelayPart, StreamWhole

LEMMA RelaySteps == ASSUME RelayInv, [RelayNext]_relayVars PROVE RelayInv'
<1>1. CASE CancelRelay \/ ServeReturns BY <1>1, ServeStepsSafe
<1>2. ASSUME NEW c \in Peer,
             \/ Accept(c) \/ PeerCloses(c) \/ RemoteBreaks(c) \/ Ask(c) \/ Dial(c)
             \/ \E w \in Way : CopyEnds(c, w) \/ CopyFails(c, w)
             \/ StreamEnds(c) \/ ControlClosed(c) \/ ReaderLeaves(c) \/ ReadEnds(c) \/ Joined(c)
             \/ \E d \in Target : WriteFails(c, d) \/ \E p \in 1..2 : Datagram(c, p, d)
      PROVE  RelayInv'
  <2>1. CASE Accept(c) BY <2>1, AcceptSafe
  <2>2. CASE \/ PeerCloses(c) \/ RemoteBreaks(c) \/ Dial(c) \/ StreamEnds(c) \/ Ask(c)
             \/ \E w \in Way : CopyEnds(c, w) \/ CopyFails(c, w)
    BY <2>2, StreamStepsSafe
  <2>3. CASE ControlClosed(c) BY <2>3, ControlClosedSafe
  <2>4. CASE ReaderLeaves(c) BY <2>4, ReaderLeavesSafe
  <2>5. CASE ReadEnds(c) BY <2>5, ReadEndsSafe
  <2>6. CASE Joined(c) BY <2>6, JoinedSafe
  <2>7. CASE \E d \in Target : WriteFails(c, d) \/ \E p \in 1..2 : Datagram(c, p, d)
    BY <2>7, WriteFailsSafe, DatagramSafe
  <2> QED BY <1>2, <2>1, <2>2, <2>3, <2>4, <2>5, <2>6, <2>7
<1>3. CASE UNCHANGED relayVars BY <1>3, RelayStands
<1> QED BY <1>1, <1>2, <1>3 DEF RelayNext

(* A stream with a copy that runs is left and closed by nothing but a        *)
(* failure or the end of the relay.                                          *)
LEMMA StreamSurvives ==
  ASSUME RelayInv, [RelayNext]_relayVars, NEW c \in Peer,
         handler[c] = "relays", ~cancelled', ~broken'[c], \E w \in Way : way[c][w] = "flows"
  PROVE  handler'[c] = "relays" /\ remote'[c] /\ sock'[c] = "open"
<1>0. /\ sock \in [Peer -> {"out", "open", "closed"}] /\ broken \in [Peer -> BOOLEAN]
      /\ handler \in [Peer -> {"none", "asks", "dials", "relays", "reads", "joins", "left"}]
      /\ way \in [Peer -> [Way -> {"none", "flows", "over"}]] /\ remote \in [Peer -> BOOLEAN]
  BY DEF RelayInv, RelayTypeOK
<1>1. ~cancelled /\ ~CancelRelay
  <2>1. ~CancelRelay BY DEF CancelRelay
  <2>2. cancelled' = cancelled
    BY <2>1 DEF RelayNext, relayVars, ServeReturns, Accept, PeerCloses, RemoteBreaks, Ask, Dial, CopyEnds,
                CopyFails, StreamEnds, ControlClosed, ReaderLeaves, ReadEnds, Joined, WriteFails, Datagram
  <2> QED BY <2>1, <2>2
<1>2. ~broken[c]
  BY <1>0 DEF CancelRelay, RelayNext, relayVars, stream, assoc, ServeReturns, Accept, PeerCloses, RemoteBreaks,
         Ask, Dial, CopyEnds, CopyFails, StreamEnds, ControlClosed, ReaderLeaves, ReadEnds, Joined,
         WriteFails, Datagram
<1>3. remote[c] /\ sock[c] = "open"
  BY <1>1, <1>2 DEF RelayInv, StreamWhole
<1>4. CASE ServeReturns \/ UNCHANGED relayVars
  BY <1>3, <1>4 DEF ServeReturns, relayVars, stream, assoc
<1>5. ASSUME NEW p \in Peer,
             \/ Ask(p) \/ ControlClosed(p) \/ ReaderLeaves(p) \/ ReadEnds(p) \/ Joined(p) \/ Accept(p)
             \/ RemoteBreaks(p)
             \/ \E d \in Target : WriteFails(p, d) \/ \E k \in 1..2 : Datagram(p, k, d)
      PROVE  handler'[c] = "relays" /\ remote'[c] /\ sock'[c] = "open"
  BY <1>0, <1>3, <1>5
  DEF Ask, ControlClosed, ReaderLeaves, ReadEnds, Joined, Accept, RemoteBreaks, WriteFails, Datagram,
      Leaves, Goes, Closes, stream
<1>6. ASSUME NEW p \in Peer, PeerCloses(p) \/ Dial(p) \/ StreamEnds(p)
      PROVE  handler'[c] = "relays" /\ remote'[c] /\ sock'[c] = "open"
  BY <1>0, <1>3, <1>6 DEF PeerCloses, Dial, StreamEnds, Leaves, Goes, Closes, stream
<1>7. ASSUME NEW p \in Peer, NEW w \in Way, CopyEnds(p, w) \/ CopyFails(p, w)
      PROVE  handler'[c] = "relays" /\ remote'[c] /\ sock'[c] = "open"
  BY <1>0, <1>2, <1>3, <1>7 DEF CopyEnds, CopyFails, Closes
<1> QED BY <1>1, <1>4, <1>5, <1>6, <1>7 DEF RelayNext

(* A flow of the relay that is open is found under its destination, every    *)
(* place belongs to a handler that runs, and a stream nobody cut lives until *)
(* both its directions are over, for any clients, destinations and limits.   *)
THEOREM RelayIsSafe == RelaySpec => RelaySafe
<1>1. RelayInit => RelayInv BY RelayAtStart
<1>2. RelayInv /\ [RelayNext]_relayVars => RelayInv' BY RelaySteps
<1>3. RelayInv => RelayTypeOK /\ FlowsReached /\ PlacesKept
  BY DEF RelayInv, RelayPart, FlowsReached, PlacesKept, PlacesRight, Lives
<1>4. RelayInv /\ [RelayNext]_relayVars =>
        [\A c \in Peer :
           handler[c] = "relays" /\ ~cancelled' /\ ~broken'[c] /\ (\E w \in Way : way[c][w] = "flows")
             => handler'[c] = "relays" /\ remote'[c] /\ sock'[c] = "open"]_relayVars
  BY StreamSurvives
<1> QED BY <1>1, <1>2, <1>3, <1>4, PTL DEF RelaySpec, RelaySafe, DownloadSurvives

-----------------------------------------------------------------------------
(* sing-box.  From the moment what ran before is gone until the start is     *)
(* over nothing is declared running, nothing has been shown but the stops    *)
(* that ran out of time, and a failure that was noted is held back: so it is *)
(* shown, and once.  Of the two messages such a stop may add one is kept for *)
(* the late end of the core it has left.                                     *)
Working  == job.pc \in {"gap", "probe", "yes", "reuse", "check"}
Stopping == job.pc \in {"stop", "release"}
GivingUp == Stopping /\ job.then \in {"quiet", "report", "check"}

NothingRuns ==
  /\ job.pc \in {"orphans", "gap", "reuse", "release"} => Ended
  /\ Working \/ GivingUp \/ job.pc \in {"orphans", "release"} => ~boxRuns
  /\ job.pc = "stop" /\ Ended => ~boxRuns
  /\ job.pc = "stop" => Ended \/ boxStop
  /\ job.pc \in {"probe", "yes"} /\ box.proc = "dying" => boxStop
  /\ Stopping => job.then # "none"

Attempts ==
  /\ job.pc \in {"write", "orphans", "gap"} => job.tries = 0
  /\ Stopping /\ job.then = "orphans" => job.tries = 0
  /\ job.pc = "reuse" => job.tries < 3

Owed == box.proc = "dying" /\ ~boxStop /\ ~boxTold.runtime

NothingShown ==
  /\ boxRuns \/ Working \/ job.pc = "orphans" \/ (Stopping /\ job.then # "end") => errs <= 2 * hangs
  /\ Owed => errs <= 2 * hangs
  /\ job.pc = "check" /\ Owed => errs + 1 <= 2 * hangs

HeldBack ==
  /\ Working \/ GivingUp => (boxTold.startup => boxTold.deferred)
  /\ Stopping /\ job.then = "quiet" => ~job.wanted
  /\ Stopping /\ job.then = "check" => boxTold.deferred

BoxInv ==
  /\ SingboxTypeOK /\ CheckAlone /\ OneFailureTold /\ FailureTold /\ RunsAlive
  /\ NothingRuns /\ Attempts /\ NothingShown /\ HeldBack

Places  == {"idle", "write", "stop", "release", "orphans", "gap", "probe", "yes", "reuse", "check"}
Reasons == {"none", "orphans", "quiet", "report", "check", "end"}
Results == {"none", "up", "failed", "stuck"}

(* What each way of moving the generator changes.                            *)
LEMMA JobTo ==
  ASSUME job \in Job, NEW pc \in Places
  PROVE  /\ To(pc) \in Job /\ To(pc).pc = pc /\ To(pc).then = job.then /\ To(pc).tries = job.tries
         /\ To(pc).tun = job.tun /\ To(pc).wanted = job.wanted /\ To(pc).result = job.result
         /\ To(pc).late = job.late
BY DEF Job, To, Places

LEMMA JobEnds ==
  ASSUME job \in Job, NEW r \in Results
  PROVE  /\ Ends(r) \in Job /\ Ends(r).pc = "idle" /\ Ends(r).then = "none" /\ Ends(r).result = r
         /\ Ends(r).wanted = job.wanted
BY DEF Job, Ends, Results

LEMMA JobWaits ==
  ASSUME job \in Job, usesTun \in BOOLEAN, NEW t \in Reasons
  PROVE  /\ Waits(t) \in Job /\ Waits(t).pc = "stop" /\ Waits(t).then = t
         /\ Waits(t).tries = job.tries /\ Waits(t).wanted = job.wanted /\ Waits(t).result = job.result
BY DEF Job, Waits, Reasons

LEMMA JobSpawns ==
  ASSUME job \in Job, job.tries < 3, job' = [job EXCEPT !.pc = "probe", !.tries = @ + 1]
  PROVE  /\ job' \in Job /\ job'.pc = "probe" /\ job'.then = job.then /\ job'.wanted = job.wanted
         /\ job'.tun = job.tun /\ job'.result = job.result
<1>1. job.tries + 1 \in 0..3 BY DEF Job
<1> QED BY <1>1 DEF Job

LEMMA CoreDies ==
  ASSUME box \in [proc : {"none", "alive", "dying"}, tun : BOOLEAN],
         box' = [box EXCEPT !.proc = "dying"]
  PROVE  /\ box' \in [proc : {"none", "alive", "dying"}, tun : BOOLEAN]
         /\ box'.proc = "dying" /\ box'.tun = box.tun
OBVIOUS

(* A report is held back until the launch is over.                           *)
LEMMA ReportHeld ==
  ASSUME boxTold \in [startup : BOOLEAN, runtime : BOOLEAN, deferred : BOOLEAN], Report
  PROVE  /\ boxTold' \in [startup : BOOLEAN, runtime : BOOLEAN, deferred : BOOLEAN]
         /\ boxTold'.startup /\ boxTold'.runtime = boxTold.runtime
         /\ boxTold.deferred => boxTold'.deferred
         /\ (boxTold.startup => boxTold.deferred) => boxTold'.deferred
BY DEF Report

USE DEF Places, Reasons, Results, Working, Stopping, GivingUp, Same, Ended, Fault, Healthy, Deferred, Owed

LEMMA StartBoxSafe ==
  ASSUME BoxInv, StartBox
  PROVE  BoxInv'
<1>1. SingboxTypeOK /\ job.tun \in BOOLEAN /\ job.wanted \in BOOLEAN
  BY DEF BoxInv, SingboxTypeOK, Job
<1>2. {boxRuns, boxStarts, boxStop, usesTun, stamped, fresh, ghost}' \subseteq BOOLEAN
  BY Zenon, <1>1 DEF StartBox, SingboxTypeOK
<1>3. box' \in [proc : {"none", "alive", "dying"}, tun : BOOLEAN]
  BY <1>1, CoreDies DEF StartBox, SingboxTypeOK
<1>4. boxTold' \in [startup : BOOLEAN, runtime : BOOLEAN, deferred : BOOLEAN]
  BY <1>1, ReportHeld DEF StartBox, SingboxTypeOK
<1>5. job' \in Job
  <2>1. PICK t \in BOOLEAN :
          job' = [job EXCEPT !.pc = "write", !.tun = t, !.wanted = TRUE, !.tries = 0, !.result = "none"]
    BY DEF StartBox
  <2>2. job' = [pc |-> "write", then |-> job.then, tun |-> t, wanted |-> TRUE, tries |-> 0,
                late |-> job.late, result |-> "none"]
    BY <1>1, <2>1 DEF SingboxTypeOK, Job
  <2>3. job.then \in Reasons /\ job.late \in BOOLEAN BY <1>1 DEF SingboxTypeOK, Job
  <2> QED BY <2>2, <2>3 DEF Job
<1>6. errs' \in Nat /\ hangs' \in Nat /\ boxMade' \in 0..MaxBoxStarts /\ faults' \in 0..MaxBoxFaults
  BY <1>1, SingboxAssumption DEF StartBox, SingboxTypeOK
<1>7. CheckAlone' /\ RunsAlive' /\ NothingRuns'
  BY <1>1, JobTo, JobEnds, JobWaits, CoreDies
  DEF StartBox, BoxInv, SingboxTypeOK, CheckAlone, RunsAlive, NothingRuns
<1>8. Attempts'
  BY <1>1, JobTo, JobEnds, JobWaits DEF StartBox, BoxInv, SingboxTypeOK, Attempts
<1>9. OneFailureTold' /\ NothingShown'
  BY <1>1, JobTo, JobEnds, JobWaits
  DEF StartBox, BoxInv, SingboxTypeOK, OneFailureTold, NothingShown, NothingRuns
<1>10. FailureTold' /\ HeldBack'
  BY <1>1, JobTo, JobEnds, JobWaits, ReportHeld
  DEF StartBox, BoxInv, SingboxTypeOK, FailureTold, HeldBack, NothingShown
<1>11. (job.pc \in {"write", "orphans", "gap", "check"} => ~boxRuns \/ job.pc = "write")'
  BY <1>7 DEF NothingRuns
<1> QED BY <1>2, <1>3, <1>4, <1>5, <1>6, <1>7, <1>8, <1>9, <1>10, <1>11 DEF BoxInv, SingboxTypeOK

LEMMA StopBoxSafe ==
  ASSUME BoxInv, StopBox
  PROVE  BoxInv'
<1>1. SingboxTypeOK /\ job.tun \in BOOLEAN /\ job.wanted \in BOOLEAN
  BY DEF BoxInv, SingboxTypeOK, Job
<1>2. {boxRuns, boxStarts, boxStop, usesTun, stamped, fresh, ghost}' \subseteq BOOLEAN
  BY Zenon, <1>1 DEF StopBox, Kill, SingboxTypeOK
<1>3. box' \in [proc : {"none", "alive", "dying"}, tun : BOOLEAN]
  BY <1>1, CoreDies DEF StopBox, Kill, SingboxTypeOK
<1>4. boxTold' \in [startup : BOOLEAN, runtime : BOOLEAN, deferred : BOOLEAN]
  BY <1>1, ReportHeld DEF StopBox, Kill, SingboxTypeOK
<1>5. job' \in Job
  BY <1>1, JobTo, JobEnds, JobWaits DEF StopBox, Kill, SingboxTypeOK
<1>6. errs' \in Nat /\ hangs' \in Nat /\ boxMade' \in 0..MaxBoxStarts /\ faults' \in 0..MaxBoxFaults
  BY <1>1, SingboxAssumption DEF StopBox, Kill, SingboxTypeOK
<1>7. CheckAlone' /\ RunsAlive' /\ NothingRuns'
  BY <1>1, JobTo, JobEnds, JobWaits, CoreDies
  DEF StopBox, Kill, BoxInv, SingboxTypeOK, CheckAlone, RunsAlive, NothingRuns
<1>8. Attempts'
  BY <1>1, JobTo, JobEnds, JobWaits DEF StopBox, Kill, BoxInv, SingboxTypeOK, Attempts
<1>9. OneFailureTold' /\ NothingShown'
  BY <1>1, JobTo, JobEnds, JobWaits
  DEF StopBox, Kill, BoxInv, SingboxTypeOK, OneFailureTold, NothingShown, NothingRuns
<1>10. FailureTold' /\ HeldBack'
  BY <1>1, JobTo, JobEnds, JobWaits, ReportHeld
  DEF StopBox, Kill, BoxInv, SingboxTypeOK, FailureTold, HeldBack, NothingShown
<1>11. (job.pc \in {"write", "orphans", "gap", "check"} => ~boxRuns \/ job.pc = "write")'
  BY <1>7 DEF NothingRuns
<1> QED BY <1>2, <1>3, <1>4, <1>5, <1>6, <1>7, <1>8, <1>9, <1>10, <1>11 DEF BoxInv, SingboxTypeOK

LEMMA NoLongerWantedSafe ==
  ASSUME BoxInv, NoLongerWanted
  PROVE  BoxInv'
<1>1. SingboxTypeOK /\ job.tun \in BOOLEAN /\ job.wanted \in BOOLEAN
  BY DEF BoxInv, SingboxTypeOK, Job
<1>2. {boxRuns, boxStarts, boxStop, usesTun, stamped, fresh, ghost}' \subseteq BOOLEAN
  BY Zenon, <1>1 DEF NoLongerWanted, SingboxTypeOK
<1>3. box' \in [proc : {"none", "alive", "dying"}, tun : BOOLEAN]
  BY <1>1, CoreDies DEF NoLongerWanted, SingboxTypeOK
<1>4. boxTold' \in [startup : BOOLEAN, runtime : BOOLEAN, deferred : BOOLEAN]
  BY <1>1, ReportHeld DEF NoLongerWanted, SingboxTypeOK
<1>5. job' \in Job BY <1>1 DEF NoLongerWanted, SingboxTypeOK, Job
<1>6. errs' \in Nat /\ hangs' \in Nat /\ boxMade' \in 0..MaxBoxStarts /\ faults' \in 0..MaxBoxFaults
  BY <1>1, SingboxAssumption DEF NoLongerWanted, SingboxTypeOK
<1>7. CheckAlone' /\ RunsAlive' /\ NothingRuns'
  BY <1>1, JobTo, JobEnds, JobWaits, CoreDies
  DEF NoLongerWanted, BoxInv, SingboxTypeOK, CheckAlone, RunsAlive, NothingRuns
<1>8. Attempts'
  BY <1>1, JobTo, JobEnds, JobWaits DEF NoLongerWanted, BoxInv, SingboxTypeOK, Attempts
<1>9. OneFailureTold' /\ NothingShown'
  BY <1>1, JobTo, JobEnds, JobWaits
  DEF NoLongerWanted, BoxInv, SingboxTypeOK, OneFailureTold, NothingShown, NothingRuns
<1>10. FailureTold' /\ HeldBack'
  BY <1>1, JobTo, JobEnds, JobWaits, ReportHeld
  DEF NoLongerWanted, BoxInv, SingboxTypeOK, FailureTold, HeldBack, NothingShown
<1>11. (job.pc \in {"write", "orphans", "gap", "check"} => ~boxRuns \/ job.pc = "write")'
  BY <1>7 DEF NothingRuns
<1> QED BY <1>2, <1>3, <1>4, <1>5, <1>6, <1>7, <1>8, <1>9, <1>10, <1>11 DEF BoxInv, SingboxTypeOK

LEMMA KillNowSafe ==
  ASSUME BoxInv, KillNow
  PROVE  BoxInv'
<1>1. SingboxTypeOK /\ job.tun \in BOOLEAN /\ job.wanted \in BOOLEAN
  BY DEF BoxInv, SingboxTypeOK, Job
<1>2. {boxRuns, boxStarts, boxStop, usesTun, stamped, fresh, ghost}' \subseteq BOOLEAN
  BY Zenon, <1>1 DEF KillNow, SingboxTypeOK
<1>3. box' \in [proc : {"none", "alive", "dying"}, tun : BOOLEAN]
  BY <1>1, CoreDies DEF KillNow, SingboxTypeOK
<1>4. boxTold' \in [startup : BOOLEAN, runtime : BOOLEAN, deferred : BOOLEAN]
  BY <1>1, ReportHeld DEF KillNow, SingboxTypeOK
<1>5. job' \in Job
  BY <1>1, JobTo, JobEnds, JobWaits DEF KillNow, SingboxTypeOK
<1>6. errs' \in Nat /\ hangs' \in Nat /\ boxMade' \in 0..MaxBoxStarts /\ faults' \in 0..MaxBoxFaults
  BY <1>1, SingboxAssumption DEF KillNow, SingboxTypeOK
<1>7. CheckAlone' /\ RunsAlive' /\ NothingRuns'
  BY <1>1, JobTo, JobEnds, JobWaits, CoreDies
  DEF KillNow, BoxInv, SingboxTypeOK, CheckAlone, RunsAlive, NothingRuns
<1>8. Attempts'
  BY <1>1, JobTo, JobEnds, JobWaits DEF KillNow, BoxInv, SingboxTypeOK, Attempts
<1>9. OneFailureTold' /\ NothingShown'
  BY <1>1, JobTo, JobEnds, JobWaits
  DEF KillNow, BoxInv, SingboxTypeOK, OneFailureTold, NothingShown, NothingRuns
<1>10. FailureTold' /\ HeldBack'
  BY <1>1, JobTo, JobEnds, JobWaits, ReportHeld
  DEF KillNow, BoxInv, SingboxTypeOK, FailureTold, HeldBack, NothingShown
<1>11. (job.pc \in {"write", "orphans", "gap", "check"} => ~boxRuns \/ job.pc = "write")'
  BY <1>7 DEF NothingRuns
<1> QED BY <1>2, <1>3, <1>4, <1>5, <1>6, <1>7, <1>8, <1>9, <1>10, <1>11 DEF BoxInv, SingboxTypeOK

LEMMA WrittenSafe ==
  ASSUME BoxInv, Written
  PROVE  BoxInv'
<1>1. SingboxTypeOK /\ job.tun \in BOOLEAN /\ job.wanted \in BOOLEAN
  BY DEF BoxInv, SingboxTypeOK, Job
<1>2. {boxRuns, boxStarts, boxStop, usesTun, stamped, fresh, ghost}' \subseteq BOOLEAN
  BY Zenon, <1>1 DEF Written, Kill, SingboxTypeOK
<1>3. box' \in [proc : {"none", "alive", "dying"}, tun : BOOLEAN]
  BY <1>1, CoreDies DEF Written, Kill, SingboxTypeOK
<1>4. boxTold' \in [startup : BOOLEAN, runtime : BOOLEAN, deferred : BOOLEAN]
  BY <1>1, ReportHeld DEF Written, Kill, SingboxTypeOK
<1>5. job' \in Job
  BY <1>1, JobTo, JobEnds, JobWaits DEF Written, Kill, SingboxTypeOK
<1>6. errs' \in Nat /\ hangs' \in Nat /\ boxMade' \in 0..MaxBoxStarts /\ faults' \in 0..MaxBoxFaults
  BY <1>1, SingboxAssumption DEF Written, Kill, SingboxTypeOK
<1>7. CheckAlone' /\ RunsAlive' /\ NothingRuns'
  BY <1>1, JobTo, JobEnds, JobWaits, CoreDies
  DEF Written, Kill, BoxInv, SingboxTypeOK, CheckAlone, RunsAlive, NothingRuns
<1>8. Attempts'
  BY <1>1, JobTo, JobEnds, JobWaits DEF Written, Kill, BoxInv, SingboxTypeOK, Attempts
<1>9. OneFailureTold' /\ NothingShown'
  BY <1>1, JobTo, JobEnds, JobWaits
  DEF Written, Kill, BoxInv, SingboxTypeOK, OneFailureTold, NothingShown, NothingRuns
<1>10. FailureTold' /\ HeldBack'
  BY <1>1, JobTo, JobEnds, JobWaits, ReportHeld
  DEF Written, Kill, BoxInv, SingboxTypeOK, FailureTold, HeldBack, NothingShown
<1>11. (job.pc \in {"write", "orphans", "gap", "check"} => ~boxRuns \/ job.pc = "write")'
  BY <1>7 DEF NothingRuns
<1> QED BY <1>2, <1>3, <1>4, <1>5, <1>6, <1>7, <1>8, <1>9, <1>10, <1>11 DEF BoxInv, SingboxTypeOK

LEMMA OrphansSafe ==
  ASSUME BoxInv, Orphans
  PROVE  BoxInv'
<1>1. SingboxTypeOK /\ job.tun \in BOOLEAN /\ job.wanted \in BOOLEAN
  BY DEF BoxInv, SingboxTypeOK, Job
<1>2. {boxRuns, boxStarts, boxStop, usesTun, stamped, fresh, ghost}' \subseteq BOOLEAN
  BY Zenon, <1>1 DEF Orphans, SingboxTypeOK
<1>3. box' \in [proc : {"none", "alive", "dying"}, tun : BOOLEAN]
  BY <1>1, CoreDies DEF Orphans, SingboxTypeOK
<1>3a. job.wanted => ~boxTold'.startup BY <1>1 DEF Orphans, SingboxTypeOK
<1>4. boxTold' \in [startup : BOOLEAN, runtime : BOOLEAN, deferred : BOOLEAN]
  BY <1>1 DEF Orphans, SingboxTypeOK
<1>5. job' \in Job
  BY <1>1, JobTo, JobEnds, JobWaits DEF Orphans, SingboxTypeOK
<1>6. errs' \in Nat /\ hangs' \in Nat /\ boxMade' \in 0..MaxBoxStarts /\ faults' \in 0..MaxBoxFaults
  BY <1>1, SingboxAssumption DEF Orphans, SingboxTypeOK
<1>7. CheckAlone' /\ RunsAlive' /\ NothingRuns'
  BY <1>1, JobTo, JobEnds, JobWaits, CoreDies
  DEF Orphans, BoxInv, SingboxTypeOK, CheckAlone, RunsAlive, NothingRuns
<1>8. Attempts'
  BY <1>1, JobTo, JobEnds, JobWaits DEF Orphans, BoxInv, SingboxTypeOK, Attempts
<1>9. OneFailureTold' /\ NothingShown'
  BY <1>1, JobTo, JobEnds, JobWaits
  DEF Orphans, BoxInv, SingboxTypeOK, OneFailureTold, NothingShown, NothingRuns
<1>10. FailureTold' /\ HeldBack'
  BY <1>1, <1>3a, JobTo, JobEnds DEF Orphans, BoxInv, SingboxTypeOK, FailureTold, HeldBack
<1>11. (job.pc \in {"write", "orphans", "gap", "check"} => ~boxRuns \/ job.pc = "write")'
  BY <1>7 DEF NothingRuns
<1> QED BY <1>2, <1>3, <1>4, <1>5, <1>6, <1>7, <1>8, <1>9, <1>10, <1>11 DEF BoxInv, SingboxTypeOK

(* The core is spawned, in a first attempt or in a further one.              *)
LEMMA SpawnsSafe ==
  ASSUME BoxInv, job.pc \in {"gap", "reuse"}, job.tries < 3, NEW t \in BOOLEAN,
         box' = [proc |-> "alive", tun |-> t], boxStop' = FALSE, boxStarts' \in BOOLEAN,
         job' = [job EXCEPT !.pc = "probe", !.tries = @ + 1],
         UNCHANGED <<boxRuns, usesTun, boxTold, stamped, fresh, errs, hangs, ghost, boxMade, faults>>
  PROVE  BoxInv'
<1>1. SingboxTypeOK /\ job.tun \in BOOLEAN /\ job.wanted \in BOOLEAN
  BY DEF BoxInv, SingboxTypeOK, Job
<1>2. {boxRuns, boxStarts, boxStop, usesTun, stamped, fresh, ghost}' \subseteq BOOLEAN
  BY Zenon, <1>1 DEF SingboxTypeOK
<1>3. box' \in [proc : {"none", "alive", "dying"}, tun : BOOLEAN]
  BY <1>1, CoreDies DEF BoxInv, SingboxTypeOK
<1>4. boxTold' \in [startup : BOOLEAN, runtime : BOOLEAN, deferred : BOOLEAN]
  BY <1>1, ReportHeld DEF BoxInv, SingboxTypeOK
<1>5. job' \in Job /\ job'.pc = "probe" /\ job'.wanted = job.wanted
  BY <1>1, JobSpawns DEF SingboxTypeOK
<1>6. errs' \in Nat /\ hangs' \in Nat /\ boxMade' \in 0..MaxBoxStarts /\ faults' \in 0..MaxBoxFaults
  BY <1>1, SingboxAssumption DEF BoxInv, SingboxTypeOK
<1>7. CheckAlone' /\ RunsAlive' /\ NothingRuns'
  BY <1>5 DEF BoxInv, CheckAlone, RunsAlive, NothingRuns
<1>8. Attempts' BY <1>5 DEF Attempts
<1>9. OneFailureTold' /\ NothingShown' BY <1>5 DEF BoxInv, OneFailureTold, NothingShown
<1>10. FailureTold' /\ HeldBack' BY <1>5 DEF BoxInv, FailureTold, HeldBack
<1>11. (job.pc \in {"write", "orphans", "gap", "check"} => ~boxRuns \/ job.pc = "write")'
  BY <1>7 DEF NothingRuns
<1> QED BY <1>2, <1>3, <1>4, <1>5, <1>6, <1>7, <1>8, <1>9, <1>10, <1>11 DEF BoxInv, SingboxTypeOK

LEMMA SpawnFailsSafe ==
  ASSUME BoxInv, job.pc \in {"gap", "reuse"}, Fault, boxStarts' = FALSE, Report, Failed,
         UNCHANGED <<stamped, fresh, errs, hangs, ghost>>
  PROVE  BoxInv'
<1>1. SingboxTypeOK /\ job.tun \in BOOLEAN /\ job.wanted \in BOOLEAN
  BY DEF BoxInv, SingboxTypeOK, Job
<1>2. {boxRuns, boxStarts, boxStop, usesTun, stamped, fresh, ghost}' \subseteq BOOLEAN
  BY Zenon, <1>1 DEF Report, Failed, SingboxTypeOK
<1>3. box' \in [proc : {"none", "alive", "dying"}, tun : BOOLEAN]
  BY <1>1, CoreDies DEF Report, Failed, SingboxTypeOK
<1>4. boxTold' \in [startup : BOOLEAN, runtime : BOOLEAN, deferred : BOOLEAN]
  BY <1>1, ReportHeld DEF Report, Failed, SingboxTypeOK
<1>5. job' \in Job
  BY <1>1, JobTo, JobEnds, JobWaits DEF Report, Failed, SingboxTypeOK
<1>6. errs' \in Nat /\ hangs' \in Nat /\ boxMade' \in 0..MaxBoxStarts /\ faults' \in 0..MaxBoxFaults
  BY <1>1, SingboxAssumption DEF Report, Failed, SingboxTypeOK
<1>7. CheckAlone' /\ RunsAlive' /\ NothingRuns'
  BY <1>1, JobTo, JobEnds, JobWaits, CoreDies
  DEF Report, Failed, BoxInv, SingboxTypeOK, CheckAlone, RunsAlive, NothingRuns
<1>8. Attempts'
  BY <1>1, JobTo, JobEnds, JobWaits DEF Report, Failed, BoxInv, SingboxTypeOK, Attempts
<1>9. OneFailureTold' /\ NothingShown'
  BY <1>1, JobTo, JobEnds, JobWaits
  DEF Report, Failed, BoxInv, SingboxTypeOK, OneFailureTold, NothingShown, NothingRuns
<1>10. FailureTold' /\ HeldBack'
  BY <1>1, JobTo, JobEnds, JobWaits, ReportHeld
  DEF Report, Failed, BoxInv, SingboxTypeOK, FailureTold, HeldBack, NothingShown
<1>11. (job.pc \in {"write", "orphans", "gap", "check"} => ~boxRuns \/ job.pc = "write")'
  BY <1>7 DEF NothingRuns
<1> QED BY <1>2, <1>3, <1>4, <1>5, <1>6, <1>7, <1>8, <1>9, <1>10, <1>11 DEF BoxInv, SingboxTypeOK

(* A start that is no longer wanted goes no further.                         *)
LEMMA GivesUpSafe ==
  ASSUME BoxInv, ~job.wanted, boxStarts' = FALSE, job' = Ends("failed"),
         UNCHANGED <<box, boxRuns, boxStop, usesTun, boxTold, stamped, fresh, errs, hangs, ghost, boxMade,
                     faults>>
  PROVE  BoxInv'
<1>1. SingboxTypeOK /\ job.tun \in BOOLEAN /\ job.wanted \in BOOLEAN
  BY DEF BoxInv, SingboxTypeOK, Job
<1>2. {boxRuns, boxStarts, boxStop, usesTun, stamped, fresh, ghost}' \subseteq BOOLEAN
  BY Zenon, <1>1 DEF SingboxTypeOK
<1>3. box' \in [proc : {"none", "alive", "dying"}, tun : BOOLEAN]
  BY <1>1, CoreDies DEF SingboxTypeOK
<1>4. boxTold' \in [startup : BOOLEAN, runtime : BOOLEAN, deferred : BOOLEAN]
  BY <1>1, ReportHeld DEF SingboxTypeOK
<1>5. job' \in Job
  BY <1>1, JobTo, JobEnds, JobWaits DEF SingboxTypeOK
<1>6. errs' \in Nat /\ hangs' \in Nat /\ boxMade' \in 0..MaxBoxStarts /\ faults' \in 0..MaxBoxFaults
  BY <1>1, SingboxAssumption DEF SingboxTypeOK
<1>7. CheckAlone' /\ RunsAlive' /\ NothingRuns'
  BY <1>1, JobTo, JobEnds, JobWaits, CoreDies
  DEF BoxInv, SingboxTypeOK, CheckAlone, RunsAlive, NothingRuns
<1>8. Attempts'
  BY <1>1, JobTo, JobEnds, JobWaits DEF BoxInv, SingboxTypeOK, Attempts
<1>9. OneFailureTold' /\ NothingShown'
  BY <1>1, JobTo, JobEnds, JobWaits
  DEF BoxInv, SingboxTypeOK, OneFailureTold, NothingShown, NothingRuns
<1>10. FailureTold' /\ HeldBack'
  BY <1>1, JobTo, JobEnds, JobWaits, ReportHeld
  DEF BoxInv, SingboxTypeOK, FailureTold, HeldBack, NothingShown
<1>11. (job.pc \in {"write", "orphans", "gap", "check"} => ~boxRuns \/ job.pc = "write")'
  BY <1>7 DEF NothingRuns
<1> QED BY <1>2, <1>3, <1>4, <1>5, <1>6, <1>7, <1>8, <1>9, <1>10, <1>11 DEF BoxInv, SingboxTypeOK

LEMMA GapSafe == ASSUME BoxInv, Gap PROVE BoxInv'
<1>1. CASE Spawn
  <2>1. CASE /\ box' = [proc |-> "alive", tun |-> job.tun] /\ boxStop' = FALSE
             /\ job' = [job EXCEPT !.pc = "probe", !.tries = @ + 1]
             /\ UNCHANGED <<boxRuns, boxStarts, usesTun, boxTold>> /\ Healthy
    <3>1. job.tun \in BOOLEAN /\ job.tries < 3 /\ boxStarts' \in BOOLEAN
      BY <2>1 DEF BoxInv, SingboxTypeOK, Job, Attempts, Gap
    <3> QED BY <2>1, <3>1, SpawnsSafe DEF Gap
  <2>2. CASE Fault /\ boxStarts' = FALSE /\ Report /\ Failed BY <2>2, SpawnFailsSafe DEF Gap
  <2> QED BY <1>1, <2>1, <2>2 DEF Spawn
<1>2. CASE ~Spawn
  <2>1. /\ ~job.wanted /\ boxStarts' = FALSE /\ job' = Ends("failed")
        /\ UNCHANGED <<box, boxRuns, boxStop, usesTun, boxTold, stamped, fresh, errs, hangs, ghost,
                       boxMade, faults>>
    BY <1>2 DEF Gap
  <2> QED BY <2>1, GivesUpSafe
<1> QED BY <1>1, <1>2

LEMMA ReuseSafe == ASSUME BoxInv, Reuse PROVE BoxInv'
<1>1. CASE Fault /\ boxStarts' = FALSE /\ Report /\ Failed BY <1>1, SpawnFailsSafe DEF Reuse
<1>2. CASE ~(Fault /\ boxStarts' = FALSE /\ Report /\ Failed)
  <2>1. /\ box' = [proc |-> "alive", tun |-> TRUE] /\ boxStop' = FALSE /\ boxStarts' = TRUE
        /\ job' = [job EXCEPT !.pc = "probe", !.tries = @ + 1]
        /\ UNCHANGED <<boxRuns, usesTun, boxTold, stamped, fresh, errs, hangs, ghost, boxMade, faults>>
    BY <1>2 DEF Reuse
  <2>2. job.pc = "reuse" /\ job.tries < 3 BY DEF Reuse, BoxInv, Attempts
  <2> QED BY <2>1, <2>2, SpawnsSafe
<1> QED BY <1>1, <1>2

LEMMA ProbeYesSafe ==
  ASSUME BoxInv, ProbeYes
  PROVE  BoxInv'
<1>1. SingboxTypeOK /\ job.tun \in BOOLEAN /\ job.wanted \in BOOLEAN
  BY DEF BoxInv, SingboxTypeOK, Job
<1>2. {boxRuns, boxStarts, boxStop, usesTun, stamped, fresh, ghost}' \subseteq BOOLEAN
  BY Zenon, <1>1 DEF ProbeYes, SingboxTypeOK
<1>3. box' \in [proc : {"none", "alive", "dying"}, tun : BOOLEAN]
  BY <1>1, CoreDies DEF ProbeYes, SingboxTypeOK
<1>4. boxTold' \in [startup : BOOLEAN, runtime : BOOLEAN, deferred : BOOLEAN]
  BY <1>1, ReportHeld DEF ProbeYes, SingboxTypeOK
<1>5. job' \in Job
  BY <1>1, JobTo, JobEnds, JobWaits DEF ProbeYes, SingboxTypeOK
<1>6. errs' \in Nat /\ hangs' \in Nat /\ boxMade' \in 0..MaxBoxStarts /\ faults' \in 0..MaxBoxFaults
  BY <1>1, SingboxAssumption DEF ProbeYes, SingboxTypeOK
<1>7. CheckAlone' /\ RunsAlive' /\ NothingRuns'
  BY <1>1, JobTo, JobEnds, JobWaits, CoreDies
  DEF ProbeYes, BoxInv, SingboxTypeOK, CheckAlone, RunsAlive, NothingRuns
<1>8. Attempts'
  BY <1>1, JobTo, JobEnds, JobWaits DEF ProbeYes, BoxInv, SingboxTypeOK, Attempts
<1>9. OneFailureTold' /\ NothingShown'
  BY <1>1, JobTo, JobEnds, JobWaits
  DEF ProbeYes, BoxInv, SingboxTypeOK, OneFailureTold, NothingShown, NothingRuns
<1>10. FailureTold' /\ HeldBack'
  BY <1>1, JobTo, JobEnds, JobWaits, ReportHeld
  DEF ProbeYes, BoxInv, SingboxTypeOK, FailureTold, HeldBack, NothingShown
<1>11. (job.pc \in {"write", "orphans", "gap", "check"} => ~boxRuns \/ job.pc = "write")'
  BY <1>7 DEF NothingRuns
<1> QED BY <1>2, <1>3, <1>4, <1>5, <1>6, <1>7, <1>8, <1>9, <1>10, <1>11 DEF BoxInv, SingboxTypeOK

LEMMA YesSafe ==
  ASSUME BoxInv, Yes
  PROVE  BoxInv'
<1>1. SingboxTypeOK /\ job.tun \in BOOLEAN /\ job.wanted \in BOOLEAN
  BY DEF BoxInv, SingboxTypeOK, Job
<1>2. {boxRuns, boxStarts, boxStop, usesTun, stamped, fresh, ghost}' \subseteq BOOLEAN
  BY Zenon, <1>1 DEF Yes, SingboxTypeOK
<1>3. box' \in [proc : {"none", "alive", "dying"}, tun : BOOLEAN]
  BY <1>1, CoreDies DEF Yes, SingboxTypeOK
<1>4. boxTold' \in [startup : BOOLEAN, runtime : BOOLEAN, deferred : BOOLEAN]
  BY <1>1, ReportHeld DEF Yes, SingboxTypeOK
<1>5. job' \in Job
  BY <1>1, JobTo, JobEnds, JobWaits DEF Yes, SingboxTypeOK
<1>6. errs' \in Nat /\ hangs' \in Nat /\ boxMade' \in 0..MaxBoxStarts /\ faults' \in 0..MaxBoxFaults
  BY <1>1, SingboxAssumption DEF Yes, SingboxTypeOK
<1>7. CheckAlone' /\ RunsAlive' /\ NothingRuns'
  BY <1>1, JobTo, JobEnds, JobWaits, CoreDies
  DEF Yes, BoxInv, SingboxTypeOK, CheckAlone, RunsAlive, NothingRuns
<1>8. Attempts'
  BY <1>1, JobTo, JobEnds, JobWaits DEF Yes, BoxInv, SingboxTypeOK, Attempts
<1>9. OneFailureTold' /\ NothingShown'
  BY <1>1, JobTo, JobEnds, JobWaits
  DEF Yes, BoxInv, SingboxTypeOK, OneFailureTold, NothingShown, NothingRuns
<1>10. FailureTold' /\ HeldBack'
  BY <1>1, JobTo, JobEnds, JobWaits, ReportHeld
  DEF Yes, BoxInv, SingboxTypeOK, FailureTold, HeldBack, NothingShown
<1>11. (job.pc \in {"write", "orphans", "gap", "check"} => ~boxRuns \/ job.pc = "write")'
  BY <1>7 DEF NothingRuns
<1> QED BY <1>2, <1>3, <1>4, <1>5, <1>6, <1>7, <1>8, <1>9, <1>10, <1>11 DEF BoxInv, SingboxTypeOK

LEMMA ProbeProxySafe ==
  ASSUME BoxInv, ProbeProxy
  PROVE  BoxInv'
<1>1. SingboxTypeOK /\ job.tun \in BOOLEAN /\ job.wanted \in BOOLEAN
  BY DEF BoxInv, SingboxTypeOK, Job
<1>2. {boxRuns, boxStarts, boxStop, usesTun, stamped, fresh, ghost}' \subseteq BOOLEAN
  BY Zenon, <1>1 DEF ProbeProxy, Kill, Report, Failed, SingboxTypeOK
<1>3. box' \in [proc : {"none", "alive", "dying"}, tun : BOOLEAN]
  BY <1>1, CoreDies DEF ProbeProxy, Kill, Report, Failed, SingboxTypeOK
<1>4. boxTold' \in [startup : BOOLEAN, runtime : BOOLEAN, deferred : BOOLEAN]
  BY <1>1, ReportHeld DEF ProbeProxy, Kill, Report, Failed, SingboxTypeOK
<1>5. job' \in Job
  BY <1>1, JobTo, JobEnds, JobWaits DEF ProbeProxy, Kill, Report, Failed, SingboxTypeOK
<1>6. errs' \in Nat /\ hangs' \in Nat /\ boxMade' \in 0..MaxBoxStarts /\ faults' \in 0..MaxBoxFaults
  BY <1>1, SingboxAssumption DEF ProbeProxy, Kill, Report, Failed, SingboxTypeOK
<1>7. CheckAlone' /\ RunsAlive' /\ NothingRuns'
  BY <1>1, JobTo, JobEnds, JobWaits, CoreDies
  DEF ProbeProxy, Kill, Report, Failed, BoxInv, SingboxTypeOK, CheckAlone, RunsAlive, NothingRuns
<1>8. Attempts'
  BY <1>1, JobTo, JobEnds, JobWaits
  DEF ProbeProxy, Kill, Report, Failed, BoxInv, SingboxTypeOK, Attempts
<1>9. OneFailureTold' /\ NothingShown'
  BY <1>1, JobTo, JobEnds, JobWaits
  DEF ProbeProxy, Kill, Report, Failed, BoxInv, SingboxTypeOK, OneFailureTold, NothingShown, NothingRuns
<1>10. FailureTold' /\ HeldBack'
  BY <1>1, JobTo, JobEnds, JobWaits, ReportHeld
  DEF ProbeProxy, Kill, Report, Failed, BoxInv, SingboxTypeOK, FailureTold, HeldBack, NothingShown
<1>11. (job.pc \in {"write", "orphans", "gap", "check"} => ~boxRuns \/ job.pc = "write")'
  BY <1>7 DEF NothingRuns
<1> QED BY <1>2, <1>3, <1>4, <1>5, <1>6, <1>7, <1>8, <1>9, <1>10, <1>11 DEF BoxInv, SingboxTypeOK

LEMMA ProbeTunSafe ==
  ASSUME BoxInv, ProbeTun
  PROVE  BoxInv'
<1>1. SingboxTypeOK /\ job.tun \in BOOLEAN /\ job.wanted \in BOOLEAN
  BY DEF BoxInv, SingboxTypeOK, Job
<1>2. {boxRuns, boxStarts, boxStop, usesTun, stamped, fresh, ghost}' \subseteq BOOLEAN
  BY Zenon, <1>1 DEF ProbeTun, Kill, Report, Failed, SingboxTypeOK
<1>3. box' \in [proc : {"none", "alive", "dying"}, tun : BOOLEAN]
  BY <1>1, CoreDies DEF ProbeTun, Kill, Report, Failed, SingboxTypeOK
<1>4. boxTold' \in [startup : BOOLEAN, runtime : BOOLEAN, deferred : BOOLEAN]
  BY <1>1, ReportHeld DEF ProbeTun, Kill, Report, Failed, SingboxTypeOK
<1>5. job' \in Job
  BY <1>1, JobTo, JobEnds, JobWaits DEF ProbeTun, Kill, Report, Failed, SingboxTypeOK
<1>6. errs' \in Nat /\ hangs' \in Nat /\ boxMade' \in 0..MaxBoxStarts /\ faults' \in 0..MaxBoxFaults
  BY <1>1, SingboxAssumption DEF ProbeTun, Kill, Report, Failed, SingboxTypeOK
<1>7. CheckAlone' /\ RunsAlive' /\ NothingRuns'
  BY <1>1, JobTo, JobEnds, JobWaits, CoreDies
  DEF ProbeTun, Kill, Report, Failed, BoxInv, SingboxTypeOK, CheckAlone, RunsAlive, NothingRuns
<1>8. Attempts'
  BY <1>1, JobTo, JobEnds, JobWaits
  DEF ProbeTun, Kill, Report, Failed, BoxInv, SingboxTypeOK, Attempts
<1>9. OneFailureTold' /\ NothingShown'
  BY <1>1, JobTo, JobEnds, JobWaits
  DEF ProbeTun, Kill, Report, Failed, BoxInv, SingboxTypeOK, OneFailureTold, NothingShown, NothingRuns
<1>10. FailureTold' /\ HeldBack'
  BY <1>1, JobTo, JobEnds, JobWaits, ReportHeld
  DEF ProbeTun, Kill, Report, Failed, BoxInv, SingboxTypeOK, FailureTold, HeldBack, NothingShown
<1>11. (job.pc \in {"write", "orphans", "gap", "check"} => ~boxRuns \/ job.pc = "write")'
  BY <1>7 DEF NothingRuns
<1> QED BY <1>2, <1>3, <1>4, <1>5, <1>6, <1>7, <1>8, <1>9, <1>10, <1>11 DEF BoxInv, SingboxTypeOK

LEMMA BoxStoppedSafe ==
  ASSUME BoxInv, BoxStopped
  PROVE  BoxInv'
<1>1. SingboxTypeOK /\ job.tun \in BOOLEAN /\ job.wanted \in BOOLEAN
  BY DEF BoxInv, SingboxTypeOK, Job
<1>2. {boxRuns, boxStarts, boxStop, usesTun, stamped, fresh, ghost}' \subseteq BOOLEAN
  BY Zenon, <1>1 DEF BoxStopped, AfterStop, Report, SingboxTypeOK
<1>3. box' \in [proc : {"none", "alive", "dying"}, tun : BOOLEAN]
  BY <1>1, CoreDies DEF BoxStopped, AfterStop, Report, SingboxTypeOK
<1>4. boxTold' \in [startup : BOOLEAN, runtime : BOOLEAN, deferred : BOOLEAN]
  BY <1>1, ReportHeld DEF BoxStopped, AfterStop, Report, SingboxTypeOK
<1>5. job' \in Job
  BY <1>1, JobTo, JobEnds, JobWaits DEF BoxStopped, AfterStop, Report, SingboxTypeOK
<1>6. errs' \in Nat /\ hangs' \in Nat /\ boxMade' \in 0..MaxBoxStarts /\ faults' \in 0..MaxBoxFaults
  BY <1>1, SingboxAssumption DEF BoxStopped, AfterStop, Report, SingboxTypeOK
<1>7. CheckAlone' /\ RunsAlive' /\ NothingRuns'
  BY <1>1, JobTo, JobEnds, JobWaits, CoreDies
  DEF BoxStopped, AfterStop, Report, BoxInv, SingboxTypeOK, CheckAlone, RunsAlive, NothingRuns
<1>8. Attempts'
  BY <1>1, JobTo, JobEnds, JobWaits
  DEF BoxStopped, AfterStop, Report, BoxInv, SingboxTypeOK, Attempts
<1>9. OneFailureTold' /\ NothingShown'
  BY <1>1, JobTo, JobEnds, JobWaits
  DEF BoxStopped, AfterStop, Report, BoxInv, SingboxTypeOK, OneFailureTold, NothingShown, NothingRuns
<1>10. FailureTold' /\ HeldBack'
  BY <1>1, JobTo, JobEnds, JobWaits, ReportHeld
  DEF BoxStopped, AfterStop, Report, BoxInv, SingboxTypeOK, FailureTold, HeldBack, NothingShown
<1>11. (job.pc \in {"write", "orphans", "gap", "check"} => ~boxRuns \/ job.pc = "write")'
  BY <1>7 DEF NothingRuns
<1> QED BY <1>2, <1>3, <1>4, <1>5, <1>6, <1>7, <1>8, <1>9, <1>10, <1>11 DEF BoxInv, SingboxTypeOK

LEMMA ReleasedSafe ==
  ASSUME BoxInv, Released
  PROVE  BoxInv'
<1>1. SingboxTypeOK /\ job.tun \in BOOLEAN /\ job.wanted \in BOOLEAN
  BY DEF BoxInv, SingboxTypeOK, Job
<1>2. {boxRuns, boxStarts, boxStop, usesTun, stamped, fresh, ghost}' \subseteq BOOLEAN
  BY Zenon, <1>1 DEF Released, AfterStop, Report, SingboxTypeOK
<1>3. box' \in [proc : {"none", "alive", "dying"}, tun : BOOLEAN]
  BY <1>1, CoreDies DEF Released, AfterStop, Report, SingboxTypeOK
<1>4. boxTold' \in [startup : BOOLEAN, runtime : BOOLEAN, deferred : BOOLEAN]
  BY <1>1, ReportHeld DEF Released, AfterStop, Report, SingboxTypeOK
<1>5. job' \in Job
  BY <1>1, JobTo, JobEnds, JobWaits DEF Released, AfterStop, Report, SingboxTypeOK
<1>6. errs' \in Nat /\ hangs' \in Nat /\ boxMade' \in 0..MaxBoxStarts /\ faults' \in 0..MaxBoxFaults
  BY <1>1, SingboxAssumption DEF Released, AfterStop, Report, SingboxTypeOK
<1>7. CheckAlone' /\ RunsAlive' /\ NothingRuns'
  BY <1>1, JobTo, JobEnds, JobWaits, CoreDies
  DEF Released, AfterStop, Report, BoxInv, SingboxTypeOK, CheckAlone, RunsAlive, NothingRuns
<1>8. Attempts'
  BY <1>1, JobTo, JobEnds, JobWaits DEF Released, AfterStop, Report, BoxInv, SingboxTypeOK, Attempts
<1>9. OneFailureTold' /\ NothingShown'
  BY <1>1, JobTo, JobEnds, JobWaits
  DEF Released, AfterStop, Report, BoxInv, SingboxTypeOK, OneFailureTold, NothingShown, NothingRuns
<1>10. FailureTold' /\ HeldBack'
  BY <1>1, JobTo, JobEnds, JobWaits, ReportHeld
  DEF Released, AfterStop, Report, BoxInv, SingboxTypeOK, FailureTold, HeldBack, NothingShown
<1>11. (job.pc \in {"write", "orphans", "gap", "check"} => ~boxRuns \/ job.pc = "write")'
  BY <1>7 DEF NothingRuns
<1> QED BY <1>2, <1>3, <1>4, <1>5, <1>6, <1>7, <1>8, <1>9, <1>10, <1>11 DEF BoxInv, SingboxTypeOK

LEMMA CheckedSafe ==
  ASSUME BoxInv, Checked
  PROVE  BoxInv'
<1>1. SingboxTypeOK /\ job.tun \in BOOLEAN /\ job.wanted \in BOOLEAN
  BY DEF BoxInv, SingboxTypeOK, Job
<1>2. {boxRuns, boxStarts, boxStop, usesTun, stamped, fresh, ghost}' \subseteq BOOLEAN
  BY Zenon, <1>1 DEF Checked, SingboxTypeOK
<1>3. box' \in [proc : {"none", "alive", "dying"}, tun : BOOLEAN]
  BY <1>1, CoreDies DEF Checked, SingboxTypeOK
<1>4. boxTold' \in [startup : BOOLEAN, runtime : BOOLEAN, deferred : BOOLEAN]
  BY <1>1, ReportHeld DEF Checked, SingboxTypeOK
<1>5. job' \in Job
  BY <1>1, JobTo, JobEnds, JobWaits DEF Checked, SingboxTypeOK
<1>6. errs' \in Nat /\ hangs' \in Nat /\ boxMade' \in 0..MaxBoxStarts /\ faults' \in 0..MaxBoxFaults
  BY <1>1, SingboxAssumption DEF Checked, SingboxTypeOK
<1>7. CheckAlone' /\ RunsAlive' /\ NothingRuns'
  BY <1>1, JobTo, JobEnds, JobWaits, CoreDies
  DEF Checked, BoxInv, SingboxTypeOK, CheckAlone, RunsAlive, NothingRuns
<1>8. Attempts'
  BY <1>1, JobTo, JobEnds, JobWaits DEF Checked, BoxInv, SingboxTypeOK, Attempts
<1>9. OneFailureTold' /\ NothingShown'
  BY <1>1, JobTo, JobEnds, JobWaits
  DEF Checked, BoxInv, SingboxTypeOK, OneFailureTold, NothingShown, NothingRuns
<1>10. FailureTold' /\ HeldBack'
  BY <1>1, JobTo, JobEnds, JobWaits, ReportHeld
  DEF Checked, BoxInv, SingboxTypeOK, FailureTold, HeldBack, NothingShown
<1>11. (job.pc \in {"write", "orphans", "gap", "check"} => ~boxRuns \/ job.pc = "write")'
  BY <1>7 DEF NothingRuns
<1> QED BY <1>2, <1>3, <1>4, <1>5, <1>6, <1>7, <1>8, <1>9, <1>10, <1>11 DEF BoxInv, SingboxTypeOK

LEMMA StuckSafe ==
  ASSUME BoxInv, Stuck
  PROVE  BoxInv'
<1>1. SingboxTypeOK /\ job.tun \in BOOLEAN /\ job.wanted \in BOOLEAN
  BY DEF BoxInv, SingboxTypeOK, Job
<1>2. {boxRuns, boxStarts, boxStop, usesTun, stamped, fresh, ghost}' \subseteq BOOLEAN
  BY Zenon, <1>1 DEF Stuck, Report, SingboxTypeOK
<1>3. box' \in [proc : {"none", "alive", "dying"}, tun : BOOLEAN]
  BY <1>1, CoreDies DEF Stuck, Report, SingboxTypeOK
<1>4. boxTold' \in [startup : BOOLEAN, runtime : BOOLEAN, deferred : BOOLEAN]
  BY <1>1, ReportHeld DEF Stuck, Report, SingboxTypeOK
<1>5. job' \in Job
  BY <1>1, JobTo, JobEnds, JobWaits DEF Stuck, Report, SingboxTypeOK
<1>6. errs' \in Nat /\ hangs' \in Nat /\ boxMade' \in 0..MaxBoxStarts /\ faults' \in 0..MaxBoxFaults
  BY <1>1, SingboxAssumption DEF Stuck, Report, SingboxTypeOK
<1>7. CheckAlone' /\ RunsAlive' /\ NothingRuns'
  <2>1. CASE job.then \in {"orphans", "end"}
    BY <1>1, <2>1, JobEnds DEF Stuck, BoxInv, SingboxTypeOK, CheckAlone, RunsAlive, NothingRuns
  <2>2. CASE job.then = "report"
    <3>1. boxTold'.deferred BY <1>1, <2>2, ReportHeld DEF Stuck, BoxInv, HeldBack, SingboxTypeOK
    <3>2. job' = Waits("check") /\ UNCHANGED <<box, boxRuns, ghost>> /\ ~boxRuns /\ boxStop'
      BY <2>2, <3>1 DEF Stuck, BoxInv, NothingRuns
    <3> QED BY <1>1, <3>2, JobWaits DEF BoxInv, SingboxTypeOK, CheckAlone, RunsAlive, NothingRuns
  <2>3. CASE job.then \notin {"orphans", "end", "report"}
    BY <1>1, <2>3, JobEnds, JobTo
    DEF Stuck, BoxInv, SingboxTypeOK, Job, CheckAlone, RunsAlive, NothingRuns
  <2> QED BY <2>1, <2>2, <2>3
<1>8. Attempts'
  BY <1>1, JobTo, JobEnds, JobWaits DEF Stuck, Report, BoxInv, SingboxTypeOK, Attempts
<1>9. OneFailureTold' /\ NothingShown'
  BY <1>1, JobTo, JobEnds, JobWaits
  DEF Stuck, Report, BoxInv, SingboxTypeOK, OneFailureTold, NothingShown, NothingRuns
<1>10. FailureTold' /\ HeldBack'
  <2>1. CASE job.then \in {"orphans", "end"}
    BY <1>1, <2>1, JobEnds DEF Stuck, BoxInv, SingboxTypeOK, FailureTold, HeldBack
  <2>2. CASE job.then = "report"
    <3>1. boxTold'.deferred BY <1>1, <2>2, ReportHeld DEF Stuck, BoxInv, HeldBack, SingboxTypeOK
    <3>2. job' = Waits("check") BY <2>2, <3>1 DEF Stuck
    <3> QED BY <1>1, <3>1, <3>2, JobWaits DEF BoxInv, SingboxTypeOK, FailureTold, HeldBack
  <2>3. CASE job.then \notin {"orphans", "end", "report"}
    BY <1>1, <2>3, JobEnds, JobTo
    DEF Stuck, BoxInv, SingboxTypeOK, Job, FailureTold, HeldBack, NothingRuns
  <2> QED BY <2>1, <2>2, <2>3
<1>11. (job.pc \in {"write", "orphans", "gap", "check"} => ~boxRuns \/ job.pc = "write")'
  BY <1>7 DEF NothingRuns
<1> QED BY <1>2, <1>3, <1>4, <1>5, <1>6, <1>7, <1>8, <1>9, <1>10, <1>11 DEF BoxInv, SingboxTypeOK

LEMMA BoxEndsSafe ==
  ASSUME BoxInv, BoxEnds
  PROVE  BoxInv'
<1>1. SingboxTypeOK /\ job.tun \in BOOLEAN /\ job.wanted \in BOOLEAN
  BY DEF BoxInv, SingboxTypeOK, Job
<1>2. {boxRuns, boxStarts, boxStop, usesTun, stamped, fresh, ghost}' \subseteq BOOLEAN
  BY Zenon, <1>1 DEF BoxEnds, Report, SingboxTypeOK
<1>3. box' \in [proc : {"none", "alive", "dying"}, tun : BOOLEAN]
  BY <1>1, CoreDies DEF BoxEnds, Report, SingboxTypeOK
<1>4. boxTold' \in [startup : BOOLEAN, runtime : BOOLEAN, deferred : BOOLEAN]
  BY <1>1, ReportHeld DEF BoxEnds, Report, SingboxTypeOK
<1>5. job' \in Job
  BY <1>1, JobTo, JobEnds, JobWaits DEF BoxEnds, Report, SingboxTypeOK
<1>6. errs' \in Nat /\ hangs' \in Nat /\ boxMade' \in 0..MaxBoxStarts /\ faults' \in 0..MaxBoxFaults
  BY <1>1, SingboxAssumption DEF BoxEnds, Report, SingboxTypeOK
<1>7. CheckAlone' /\ RunsAlive' /\ NothingRuns'
  BY <1>1, JobTo, JobEnds, JobWaits, CoreDies
  DEF BoxEnds, Report, BoxInv, SingboxTypeOK, CheckAlone, RunsAlive, NothingRuns
<1>8. Attempts'
  BY <1>1, JobTo, JobEnds, JobWaits DEF BoxEnds, Report, BoxInv, SingboxTypeOK, Attempts
<1>9. OneFailureTold' /\ NothingShown'
  BY <1>1, JobTo, JobEnds, JobWaits
  DEF BoxEnds, Report, BoxInv, SingboxTypeOK, OneFailureTold, NothingShown, NothingRuns
<1>10. FailureTold' /\ HeldBack'
  BY <1>1, JobTo, JobEnds, JobWaits, ReportHeld
  DEF BoxEnds, Report, BoxInv, SingboxTypeOK, FailureTold, HeldBack, NothingShown
<1>11. (job.pc \in {"write", "orphans", "gap", "check"} => ~boxRuns \/ job.pc = "write")'
  BY <1>7 DEF NothingRuns
<1> QED BY <1>2, <1>3, <1>4, <1>5, <1>6, <1>7, <1>8, <1>9, <1>10, <1>11 DEF BoxInv, SingboxTypeOK

LEMMA GapPassesSafe ==
  ASSUME BoxInv, GapPasses
  PROVE  BoxInv'
<1>1. SingboxTypeOK /\ job.tun \in BOOLEAN /\ job.wanted \in BOOLEAN
  BY DEF BoxInv, SingboxTypeOK, Job
<1>2. {boxRuns, boxStarts, boxStop, usesTun, stamped, fresh, ghost}' \subseteq BOOLEAN
  BY Zenon, <1>1 DEF GapPasses, SingboxTypeOK
<1>3. box' \in [proc : {"none", "alive", "dying"}, tun : BOOLEAN]
  BY <1>1, CoreDies DEF GapPasses, SingboxTypeOK
<1>4. boxTold' \in [startup : BOOLEAN, runtime : BOOLEAN, deferred : BOOLEAN]
  BY <1>1, ReportHeld DEF GapPasses, SingboxTypeOK
<1>5. job' \in Job
  BY <1>1, JobTo, JobEnds, JobWaits DEF GapPasses, SingboxTypeOK
<1>6. errs' \in Nat /\ hangs' \in Nat /\ boxMade' \in 0..MaxBoxStarts /\ faults' \in 0..MaxBoxFaults
  BY <1>1, SingboxAssumption DEF GapPasses, SingboxTypeOK
<1>7. CheckAlone' /\ RunsAlive' /\ NothingRuns'
  BY <1>1, JobTo, JobEnds, JobWaits, CoreDies
  DEF GapPasses, BoxInv, SingboxTypeOK, CheckAlone, RunsAlive, NothingRuns
<1>8. Attempts'
  BY <1>1, JobTo, JobEnds, JobWaits DEF GapPasses, BoxInv, SingboxTypeOK, Attempts
<1>9. OneFailureTold' /\ NothingShown'
  BY <1>1, JobTo, JobEnds, JobWaits
  DEF GapPasses, BoxInv, SingboxTypeOK, OneFailureTold, NothingShown, NothingRuns
<1>10. FailureTold' /\ HeldBack'
  BY <1>1, JobTo, JobEnds, JobWaits, ReportHeld
  DEF GapPasses, BoxInv, SingboxTypeOK, FailureTold, HeldBack, NothingShown
<1>11. (job.pc \in {"write", "orphans", "gap", "check"} => ~boxRuns \/ job.pc = "write")'
  BY <1>7 DEF NothingRuns
<1> QED BY <1>2, <1>3, <1>4, <1>5, <1>6, <1>7, <1>8, <1>9, <1>10, <1>11 DEF BoxInv, SingboxTypeOK

HIDE DEF Places, Reasons, Results, Working, Stopping, GivingUp, Same, Ended, Fault, Healthy, Deferred, Owed

LEMMA BoxAtStart == ASSUME BoxInit PROVE BoxInv
<1>1. {boxRuns, boxStarts, boxStop, usesTun, stamped, fresh, ghost} \subseteq BOOLEAN
      /\ ~boxRuns
  BY Zenon DEF BoxInit
<1>2. /\ box \in [proc : {"none", "alive", "dying"}, tun : BOOLEAN]
      /\ boxTold \in [startup : BOOLEAN, runtime : BOOLEAN, deferred : BOOLEAN]
      /\ job \in Job /\ job.pc = "idle" /\ job.result = "none"
  BY DEF BoxInit, Job
<1>3. errs = 0 /\ hangs = 0 /\ boxMade = 0 /\ faults = 0 BY Zenon DEF BoxInit
<1>4. SingboxTypeOK BY <1>1, <1>2, <1>3, SingboxAssumption DEF SingboxTypeOK
<1> QED
  BY <1>1, <1>2, <1>3, <1>4
  DEF BoxInv, CheckAlone, OneFailureTold, FailureTold, RunsAlive, NothingRuns, Attempts,
      NothingShown, Owed, HeldBack, Working, Stopping, GivingUp

LEMMA BoxStands == ASSUME BoxInv, UNCHANGED boxVars PROVE BoxInv'
BY DEF boxVars, BoxInv, SingboxTypeOK, CheckAlone, OneFailureTold, FailureTold, RunsAlive,
       NothingRuns, Attempts, NothingShown, Owed, HeldBack, Working, Stopping, GivingUp, Ended

LEMMA BoxSteps == ASSUME BoxInv, [BoxNext]_boxVars PROVE BoxInv'
BY StartBoxSafe, StopBoxSafe, NoLongerWantedSafe, KillNowSafe, WrittenSafe, OrphansSafe, GapSafe,
   ProbeYesSafe, YesSafe, ProbeProxySafe, ProbeTunSafe, ReuseSafe, BoxStoppedSafe, ReleasedSafe,
   StuckSafe, CheckedSafe, BoxEndsSafe, GapPassesSafe, BoxStands
DEF BoxNext, BoxStep

(* Only the step that has waited starts the first TUN of a launch.           *)
LEMMA FirstTunWaits ==
  ASSUME BoxInv, [BoxNext]_boxVars, FirstTun
  PROVE  ~(fresh /\ stamped)
<1>0. box \in [proc : {"none", "alive", "dying"}, tun : BOOLEAN] BY DEF BoxInv, SingboxTypeOK
<1>1. ~(UNCHANGED box) /\ box'.proc = "alive" /\ job.pc = "gap" BY DEF FirstTun
<1>2. ~KillNow /\ ~BoxEnds /\ ~StopBox
  BY <1>0, <1>1, CoreDies DEF KillNow, BoxEnds, StopBox, Kill
<1>3. Gap
  BY <1>1, <1>2
  DEF BoxNext, BoxStep, boxVars, StartBox, NoLongerWanted, Written, Orphans, Yes, ProbeYes, ProbeProxy,
      ProbeTun, Reuse, BoxStopped, Released, Stuck, Checked, GapPasses
<1>4. Spawn BY <1>1, <1>3 DEF Gap, Same
<1>5. ~Failed BY <1>0, <1>1, CoreDies DEF Failed
<1>6. box' = [proc |-> "alive", tun |-> job.tun] BY <1>4, <1>5 DEF Spawn
<1>7. job.tun BY <1>6 DEF FirstTun
<1> QED BY <1>3, <1>7 DEF Gap

(* The check runs once the core is gone, a failed start is told, and told    *)
(* once, but for the stops that ran out of time; what is declared running is *)
(* a process unless its answer came too late, and the gap is kept after a    *)
(* stopped TUN: for every number of starts and faults.                       *)
THEOREM SingboxIsSafe == BoxSpec => SingboxSafe
<1>1. BoxInit => BoxInv BY BoxAtStart
<1>2. BoxInv /\ [BoxNext]_boxVars => BoxInv' BY BoxSteps
<1>3. BoxInv => SingboxTypeOK /\ CheckAlone /\ OneFailureTold /\ FailureTold /\ RunsAlive
  BY DEF BoxInv
<1>4. BoxInv /\ [BoxNext]_boxVars => [FirstTun => ~(fresh /\ stamped)]_boxVars
  BY FirstTunWaits
<1> QED BY <1>1, <1>2, <1>3, <1>4, PTL DEF BoxSpec, SingboxSafe, StoppedGapKept
=============================================================================
