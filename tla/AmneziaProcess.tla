--------------------------- MODULE AmneziaProcess ---------------------------
(* The AmneziaWG client as a child process: engines/amnezia/manager.py, and  *)
(* what the controller makes of its failures.  The client leaves when its    *)
(* standard input is closed; a stop that waits kills it after 1.5 s, a stop  *)
(* that does not wait leaves that to a timer.                                *)
EXTENDS Naturals, FiniteSetsExt

CONSTANTS
  AwgBudget,     \* [AwgFaults -> Nat], bound: events of each kind
  MaxAwgFaults,  \* bound: events altogether
  MaxAwgStarts   \* bound: starts by the owner

AwgFaults == {"broken", "exit", "error", "cut", "unwanted"}

ASSUME AmneziaAssumption ==
  AwgBudget \in [AwgFaults -> Nat] /\ MaxAwgFaults \in Nat /\ MaxAwgStarts \in Nat

VARIABLES
  core,       \* the process: none, alive, closing (stdin is closed), dying (killed)
  inst,       \* which process it is, counted from 1
  awgServes,  \* _running
  expected,   \* _expected: a stop was asked for
  failed,     \* _failed
  ready,      \* _relay_ready
  shook,      \* stats: a peer has completed a handshake
  https,      \* stats["https_check"]
  front,      \* stats["front_dns_check"]; "queued": _pending_front_config is kept
  awgWave,       \* the check that runs: none, https or front
  step,       \* the generator of the owner: where it waits, and what follows a stop
  current,    \* is_current() of the start
  kills,      \* the processes for which a _kill_if_running is queued
  session,    \* the process the captured session belongs to, 0: no session
  closes,     \* the sessions for which a close_owned is queued
  lost,       \* history: the client failed before its session was captured
  awgStarts, awgFaults  \* bounds

awgCore == <<core, inst, awgServes, expected, failed, ready, shook>>
awgRest == <<https, front, awgWave>>
awgVars == <<awgCore, awgRest, step, current, kills, session, closes, lost, awgStarts, awgFaults>>

Pc    == {"idle", "closing", "killing", "prepare", "spawn", "relay", "connect", "handshake", "served", "fronted"}
Check == {"none", "queued", "pending", "passed", "warning", "cancelled"}

AmneziaTypeOK ==
  /\ core \in {"none", "alive", "closing", "dying"} /\ inst \in Nat
  /\ {awgServes, expected, failed, ready, shook, current, lost} \subseteq BOOLEAN
  /\ https \in Check \ {"queued"} /\ front \in Check /\ awgWave \in {"none", "https", "front"}
  /\ step \in [pc : Pc, then : {"none", "begin", "end"}]
  /\ kills \subseteq 1..inst /\ session \in 0..inst /\ closes \subseteq 1..inst
  /\ awgServes => core # "none" /\ step.pc \notin {"prepare", "spawn", "relay", "connect", "handshake"}

AwgIdle == [pc |-> "idle", then |-> "none"]

AwgInit ==
  /\ core = "none" /\ inst = 0 /\ awgServes = FALSE /\ expected = FALSE /\ failed = FALSE
  /\ ready = FALSE /\ shook = FALSE /\ https = "none" /\ front = "none" /\ awgWave = "none"
  /\ step = AwgIdle /\ current = FALSE /\ kills = {} /\ session = 0 /\ closes = {}
  /\ lost = FALSE /\ awgStarts = 0 /\ awgFaults = [f \in AwgFaults |-> 0]

Occurs(f) ==
  /\ awgFaults[f] < AwgBudget[f]
  /\ MapThenSumSet(LAMBDA g : awgFaults[g], AwgFaults) < MaxAwgFaults
  /\ awgFaults' = [awgFaults EXCEPT ![f] = @ + 1] /\ UNCHANGED awgStarts

Quiet == UNCHANGED <<awgStarts, awgFaults>>

Running   == awgServes /\ ~failed /\ core # "none"   \* is_running
Cancelled == expected \/ ~current

(* _cancel_health                                                            *)
CancelHealth ==
  /\ awgWave' = "none"
  /\ https' = IF https = "pending" THEN "cancelled" ELSE https
  /\ front' = IF front \in {"pending", "queued"} THEN "cancelled" ELSE front

(* A failure of the client: the session it serves is closed, from the event  *)
(* loop and only while it is still that session.  Before the session is      *)
(* captured nobody listens.                                                  *)
Tells ==
  /\ closes' = IF session = 0 THEN closes ELSE closes \cup {session}
  /\ lost' = (lost \/ session = 0)

(* stop_steps of the owner: close stdin, and then go on.                     *)
Stop(then) ==
  /\ CancelHealth /\ expected' = TRUE
  /\ IF core = "none"
     THEN step' = AwgIdle /\ awgServes' = FALSE /\ UNCHANGED core
     ELSE /\ core' = IF core = "alive" THEN "closing" ELSE core
          /\ step' = [pc |-> "closing", then |-> then] /\ UNCHANGED awgServes

(* A start begins once nothing runs.                                         *)
BeginStart ==
  /\ step' = [pc |-> "prepare", then |-> "none"]
  /\ expected' = FALSE /\ failed' = FALSE /\ ready' = FALSE /\ shook' = FALSE
  /\ https' = "none" /\ front' = "none" /\ awgWave' = "none" /\ awgServes' = FALSE /\ lost' = FALSE

(* --- The owner ------------------------------------------------------------ *)

AwgStart ==
  /\ step.pc = "idle" /\ session = 0 /\ awgStarts < MaxAwgStarts
  /\ awgStarts' = awgStarts + 1 /\ UNCHANGED awgFaults
  /\ current' = TRUE
  /\ IF core = "none" THEN BeginStart /\ UNCHANGED core
     ELSE Stop("begin") /\ UNCHANGED <<failed, ready, shook, lost>>
  /\ UNCHANGED <<inst, kills, session, closes>>

AwgStop ==
  /\ step.pc = "idle" /\ core # "none"
  /\ Stop("end") /\ session' = 0 /\ current' = FALSE
  /\ UNCHANGED <<inst, failed, ready, shook, kills, closes, lost>> /\ Quiet

(* request_stop: close stdin, and let the timer kill what does not leave.    *)
StopRequested ==
  /\ CancelHealth /\ expected' = TRUE
  /\ IF core = "none" THEN awgServes' = FALSE /\ UNCHANGED <<core, kills>>
     ELSE /\ core' = IF core = "alive" THEN "closing" ELSE core
          /\ kills' = kills \cup {inst} /\ UNCHANGED awgServes

AwgRequestStop ==
  /\ core # "none" /\ Occurs("cut")
  /\ StopRequested /\ session' = 0 /\ current' = FALSE
  /\ UNCHANGED <<inst, failed, ready, shook, step, closes, lost>>

AwgUnwanted ==
  /\ current /\ Occurs("unwanted")
  /\ current' = FALSE
  /\ UNCHANGED <<awgCore, awgRest, step, kills, session, closes, lost>>

(* The client serves; sing-box starts in front of it, and the check of its   *)
(* DNS begins, or waits for the other check.                                 *)
AwgFront ==
  /\ step.pc = "served"
  /\ IF Running /\ ~Cancelled
     THEN /\ IF awgWave = "https" THEN front' = "queued" /\ UNCHANGED awgWave
                             ELSE front' = "pending" /\ awgWave' = "front"
          /\ step' = [step EXCEPT !.pc = "fronted"]
          /\ UNCHANGED <<core, awgServes, expected, https>>
     ELSE Stop("end")
  /\ UNCHANGED <<inst, failed, ready, shook, current, kills, session, closes, lost>> /\ Quiet

(* The system proxy has been set meanwhile.  If the start is still wanted    *)
(* the session is captured: nobody looks at the client again.                *)
AwgCapture ==
  /\ step.pc = "fronted"
  /\ IF current
     THEN step' = AwgIdle /\ session' = inst /\ UNCHANGED <<core, awgServes, expected, awgRest>>
     ELSE Stop("end") /\ UNCHANGED session
  /\ UNCHANGED <<inst, failed, ready, shook, current, kills, closes, lost>> /\ Quiet

(* Mutant of CloseOwned: whichever session is there is closed.               *)
CloseOwnedAny ==
  /\ closes # {} /\ closes' = {}
  /\ StopRequested /\ session' = 0 /\ current' = FALSE
  /\ UNCHANGED <<inst, failed, ready, shook, step, lost>> /\ Quiet

(* close_owned                                                               *)
CloseOwned ==
  /\ closes # {}
  /\ \E s \in closes :
       /\ closes' = closes \ {s}
       /\ IF s = session
          THEN StopRequested /\ session' = 0 /\ current' = FALSE
          ELSE UNCHANGED <<core, awgServes, expected, awgRest, kills, session, current>>
  /\ UNCHANGED <<inst, failed, ready, shook, step, lost>> /\ Quiet

(* --- A start or a stop, step by step -------------------------------------- *)

AwgGone ==
  /\ step.pc \in {"closing", "killing"} /\ core = "none"
  /\ IF step.then = "begin" THEN BeginStart
     ELSE step' = AwgIdle /\ awgServes' = FALSE
          /\ UNCHANGED <<expected, failed, ready, shook, awgRest, lost>>
  /\ UNCHANGED <<core, inst, current, kills, session, closes>> /\ Quiet

(* 1.5 s are over.                                                           *)
AwgGrace ==
  /\ step.pc = "closing" /\ core # "none"
  /\ core' = "dying" /\ step' = [step EXCEPT !.pc = "killing"]
  /\ UNCHANGED <<inst, awgServes, expected, failed, ready, shook, awgRest, current, kills,
                 session, closes, lost>> /\ Quiet

AwgStuck ==
  /\ step.pc = "killing" /\ core = "dying"
  /\ step' = AwgIdle
  /\ UNCHANGED <<awgCore, awgRest, current, kills, session, closes, lost>> /\ Quiet

(* Peers and uplink are looked up by workers, then the client starts.        *)
AwgPrepare ==
  /\ step.pc = "prepare"
  /\ \/ /\ Cancelled /\ step' = AwgIdle
        /\ UNCHANGED <<core, inst, awgServes, expected, awgRest, lost, closes>> /\ Quiet
     \/ /\ ~Cancelled /\ Occurs("broken")
        /\ Tells /\ Stop("end") /\ UNCHANGED inst
     \/ /\ ~Cancelled /\ core' = "alive" /\ inst' = inst + 1 /\ step' = [step EXCEPT !.pc = "spawn"]
        /\ UNCHANGED <<awgServes, expected, awgRest, lost, closes>> /\ Quiet
  /\ UNCHANGED <<failed, ready, shook, current, kills, session>>

(* What fails is reported, unless the client itself has said what failed,    *)
(* and the client is stopped.                                                *)
FailStart ==
  /\ IF failed THEN UNCHANGED <<lost, closes>> ELSE Tells
  /\ Stop("end")

(* It runs: its configuration is written to its standard input.              *)
AwgSpawned ==
  /\ step.pc = "spawn"
  /\ IF core = "alive"
     THEN step' = [step EXCEPT !.pc = "relay"]
          /\ UNCHANGED <<core, awgServes, expected, awgRest, lost, closes>>
     ELSE FailStart
  /\ UNCHANGED <<inst, failed, ready, shook, current, kills, session>> /\ Quiet

Hopeless == failed \/ core = "none"

(* Mutant of AwgRelay: there is no deadline.                                 *)
AwgRelayPatient ==
  /\ step.pc = "relay"
  /\ \/ Cancelled /\ Stop("end") /\ UNCHANGED <<lost, closes>>
     \/ ~Cancelled /\ Hopeless /\ FailStart
     \/ /\ ~Cancelled /\ ~Hopeless /\ ready /\ step' = [step EXCEPT !.pc = "connect"]
        /\ UNCHANGED <<core, awgServes, expected, awgRest, lost, closes>>
  /\ UNCHANGED <<inst, failed, ready, shook, current, kills, session>> /\ Quiet

(* Ten seconds for the event "relay_ready", checked every 25 ms.             *)
AwgRelay ==
  /\ step.pc = "relay"
  /\ \/ /\ Cancelled /\ Stop("end") /\ UNCHANGED <<lost, closes>> /\ Quiet
     \/ ~Cancelled /\ Hopeless /\ FailStart /\ Quiet
     \/ ~Cancelled /\ ~Hopeless /\ ~ready /\ FailStart /\ Quiet
     \/ /\ ~Cancelled /\ ~Hopeless /\ ready /\ step' = [step EXCEPT !.pc = "connect"]
        /\ UNCHANGED <<core, awgServes, expected, awgRest, lost, closes>> /\ Quiet
  /\ UNCHANGED <<inst, failed, ready, shook, current, kills, session>>

(* wait_for_loopback_relay_steps; its answer may be older than a failure.    *)
AwgConnect ==
  /\ step.pc = "connect"
  /\ \/ /\ step' = [step EXCEPT !.pc = "handshake"]
        /\ UNCHANGED <<core, awgServes, expected, awgRest, lost, closes>> /\ Quiet
     \/ Cancelled /\ Stop("end") /\ UNCHANGED <<lost, closes>> /\ Quiet
     \/ ~Cancelled /\ Hopeless /\ FailStart /\ Quiet
     \/ ~Cancelled /\ ~Hopeless /\ FailStart /\ Quiet
  /\ UNCHANGED <<inst, failed, ready, shook, current, kills, session>>

(* Twenty seconds for a handshake; the check over HTTPS goes on without it.  *)
AwgHandshake ==
  /\ step.pc = "handshake"
  /\ \/ /\ ~Cancelled /\ ~Hopeless /\ shook
        /\ awgServes' = TRUE /\ https' = "pending" /\ awgWave' = "https"
        /\ step' = [step EXCEPT !.pc = "served"]
        /\ UNCHANGED <<core, expected, front, lost, closes>> /\ Quiet
     \/ (Cancelled \/ Hopeless) /\ Stop("end") /\ UNCHANGED <<lost, closes>> /\ Quiet
     \/ ~Cancelled /\ ~Hopeless /\ ~shook /\ Tells /\ Stop("end") /\ Quiet
  /\ UNCHANGED <<inst, failed, ready, shook, current, kills, session>>

(* --- The client, its timers and checks ------------------------------------ *)

Listening == core # "none" /\ step.pc # "spawn"

AwgEvent ==
  /\ Listening
  /\ \/ ~ready /\ ready' = TRUE /\ UNCHANGED <<failed, shook, lost, closes>> /\ Quiet
     \/ ready /\ ~shook /\ shook' = TRUE /\ UNCHANGED <<failed, ready, lost, closes>> /\ Quiet
     \/ Occurs("error") /\ failed' = TRUE /\ Tells /\ UNCHANGED <<ready, shook>>
  /\ UNCHANGED <<core, inst, awgServes, expected, awgRest, step, current, kills, session>>

(* It ends: because it was told to, or on its own.                           *)
AwgExits ==
  /\ \/ core \in {"closing", "dying"} /\ Quiet
     \/ core = "alive" /\ Occurs("exit")
  /\ core' = "none" /\ awgServes' = FALSE /\ CancelHealth
  /\ IF expected \/ failed THEN UNCHANGED <<failed, lost, closes>> ELSE failed' = TRUE /\ Tells
  /\ UNCHANGED <<inst, expected, ready, shook, step, current, kills, session>>

(* _kill_if_running: whatever runs now.                                      *)
KillIfRunning ==
  /\ kills # {}
  /\ \E k \in kills : kills' = kills \ {k}
  /\ core' = IF core = "none" THEN core ELSE "dying"
  /\ UNCHANGED <<inst, awgServes, expected, failed, ready, shook, awgRest, step, current,
                 session, closes, lost>> /\ Quiet

(* BackgroundHealthCheck.poll: the answer of a check that is still wanted;   *)
(* the one that waited begins then.                                          *)
PollCheck ==
  /\ awgWave # "none"
  /\ IF ~(Running /\ ~Cancelled) THEN awgWave' = "none" /\ UNCHANGED <<https, front>>
     ELSE IF awgWave = "front"
     THEN front' \in {"passed", "warning"} /\ awgWave' = "none" /\ UNCHANGED https
     ELSE /\ https' \in {"passed", "warning"}
          /\ front' = IF front = "queued" THEN "pending" ELSE front
          /\ awgWave' = IF front = "queued" THEN "front" ELSE "none"
  /\ UNCHANGED <<awgCore, step, current, kills, session, closes, lost>> /\ Quiet

AwgStep ==
  AwgGone \/ AwgGrace \/ AwgStuck \/ AwgPrepare \/ AwgSpawned \/ AwgRelay \/ AwgConnect
  \/ AwgHandshake \/ AwgFront \/ AwgCapture

AwgNext ==
  \/ AwgStart \/ AwgStop \/ AwgRequestStop \/ AwgUnwanted \/ CloseOwned
  \/ AwgStep \/ AwgEvent \/ AwgExits \/ KillIfRunning \/ PollCheck

(* A start that comes to nothing leaves no client: one that still listens to *)
(* the program serves the session, or is being started.                      *)
NoOrphan == core = "alive" /\ step.pc = "idle" => session = inst

(* The delayed end of a session never meets a newer one: only a session      *)
(* whose own client failed is ended by it.                                   *)
NewerSpared == [][closes' # closes /\ session # 0 /\ session' = 0 => failed]_awgVars

(* A start ends, whatever the client does and whoever interferes.            *)
AwgStartEnds == step.pc = "prepare" ~> step.pc = "idle"

(* A client that failed while it served leaves, even if it ignores that its  *)
(* input was closed - if anybody listened when it failed.                    *)
FailedLeaves == awgServes /\ failed /\ ~lost ~> core = "none"

(* An answer to both checks, unless the session is superseded or fails.      *)
ChecksAnswered == front \in {"queued", "pending"} ~> front \notin {"queued", "pending"} \/ ~Running \/ Cancelled

(* The same for a failure nobody listened to: the client failed between the  *)
(* check of the front and the capture of the session.                        *)
FailedAlwaysLeaves == session # 0 /\ failed ~> session = 0

(* A client that was never asked to leave is never killed.                   *)
OnlyToldIsKilled == [][core = "alive" => core' # "dying"]_awgVars

AwgFairness ==
  /\ WF_awgVars(AwgStep) /\ WF_awgVars(CloseOwned) /\ WF_awgVars(KillIfRunning)
  /\ WF_awgVars(AwgExits /\ core = "dying") /\ WF_awgVars(PollCheck)

AwgSpec == AwgInit /\ [][AwgNext]_awgVars /\ AwgFairness

(* No client is left over, and a newer session is spared by the failure of   *)
(* an older one.                                                             *)
AmneziaSafe == [](AmneziaTypeOK /\ NoOrphan) /\ NewerSpared
=============================================================================
