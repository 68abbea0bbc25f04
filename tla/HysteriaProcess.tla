--------------------------- MODULE HysteriaProcess ---------------------------
(* The Hysteria client as a child process: engines/hysteria/manager.py.  Its *)
(* owner, the controller, starts and stops it; a start is a generator that   *)
(* waits for the local relay and then for the server.  When the server       *)
(* answers with one particular TLS error the client is started once more in  *)
(* a compatible mode: by the start itself if one is in progress, by a timer  *)
(* and a generator of its own if the client was already serving.             *)
EXTENDS Naturals, FiniteSetsExt

CONSTANTS
  HyBudget,    \* [HyFaults -> Nat], bound: events of each kind
  MaxHyFaults, \* bound: events altogether
  MaxHyStarts  \* bound: starts by the owner

HyFaults == {"parrot", "network", "security", "exit", "slow", "broken", "cut"}
Actor    == {"owner", "retry"}
Code     == {"none", "network", "security", "other"}

ASSUME HysteriaAssumption ==
  HyBudget \in [HyFaults -> Nat] /\ MaxHyFaults \in Nat /\ MaxHyStarts \in Nat

VARIABLES
  process,     \* QProcess: none, alive, or killed and not yet gone
  serves,      \* _running
  starting,    \* _starting
  stopping,    \* _stop_requested
  configFile,  \* the configuration, with its secrets, is on disk
  authed,      \* _remote_authenticated
  report,      \* [made: _failure_reported, code: _last_failure_code]
  compat,      \* what the compatible restart works from, see Compat
  timer,       \* a restart is queued and its generation is still current
  quiet,       \* _suppress_state_change
  wave,        \* _tunnel_check_wave while that check runs, 0: no check
  flow,        \* the generator of each actor, see Flow
  needed,      \* should_continue of the owner's start
  told,        \* what the owner last heard: the client serves or not
  unheard,     \* history: a restart ended, and the owner heard nothing
  alert,       \* history: this attempt saw a security error
  retries,     \* history: compatible restarts since the owner's start
  cut,         \* history: the owner ended with the process there: a stop is due
  hyStarts, hyFaults  \* bounds

proc   == <<process, serves, starting, stopping, configFile>>
past   == <<told, unheard, alert, retries, cut>>
bounds == <<hyStarts, hyFaults>>
hyVars == <<proc, authed, report, compat, timer, quiet, wave, flow, needed, past, bounds>>

(* config: kept; plain: it is the compatible one; then the three             *)
(* _chrome_fallback_* flags.                                                 *)
Compat == [config : BOOLEAN, plain : BOOLEAN, pending : BOOLEAN, used : BOOLEAN, busy : BOOLEAN]
NoCompat == [config |-> FALSE, plain |-> FALSE, pending |-> FALSE, used |-> FALSE, busy |-> FALSE]

(* pc: what it waits for; current: no one has begun a new generation since   *)
(* it looked; next: what follows a stop; again: the owner's second attempt.  *)
Flow == [pc : {"idle", "stop", "prepare", "spawn", "relay", "connect", "remote"},
         current : BOOLEAN, next : {"none", "begin", "abandon", "fail"}, again : BOOLEAN]
NoFlow == [pc |-> "idle", current |-> FALSE, next |-> "none", again |-> FALSE]

HysteriaTypeOK ==
  /\ process \in {"none", "alive", "dying"}
  /\ {serves, starting, stopping, configFile, authed, timer, quiet, needed,
      told, unheard, alert, cut} \subseteq BOOLEAN
  /\ report \in [made : BOOLEAN, code : Code] /\ compat \in Compat
  /\ wave \in 0..2 /\ flow \in [Actor -> Flow]
  /\ retries \in Nat /\ hyStarts \in 0..MaxHyStarts /\ hyFaults \in [HyFaults -> Nat]
  /\ flow["retry"].pc # "idle" => quiet

HyInit ==
  /\ process = "none"
  /\ serves = FALSE /\ starting = FALSE /\ stopping = FALSE /\ configFile = FALSE
  /\ authed = FALSE /\ report = [made |-> FALSE, code |-> "none"]
  /\ compat = NoCompat /\ timer = FALSE /\ quiet = FALSE /\ wave = 0
  /\ flow = [a \in Actor |-> NoFlow] /\ needed = TRUE
  /\ told = FALSE /\ unheard = FALSE /\ alert = FALSE /\ retries = 0 /\ cut = FALSE
  /\ hyStarts = 0 /\ hyFaults = [f \in HyFaults |-> 0]

Happens(f) ==
  /\ hyFaults[f] < HyBudget[f]
  /\ MapThenSumSet(LAMBDA g : hyFaults[g], HyFaults) < MaxHyFaults
  /\ hyFaults' = [hyFaults EXCEPT ![f] = @ + 1] /\ UNCHANGED hyStarts

(* --- Parts of the operations ---------------------------------------------- *)

(* _emit_error: once per attempt, and again only to raise it to security.    *)
Reported(r, code) ==
  IF r.made /\ ~(code = "security" /\ r.code # "security") THEN r
  ELSE [made |-> TRUE, code |-> code]

Or(code, default) == IF code = "none" THEN default ELSE code

(* A new compatibility generation: who looked before is not current.         *)
Outdated(f) == [a \in Actor |-> [f[a] EXCEPT !.current = FALSE]]
NewGeneration(f) == flow' = Outdated(f) /\ timer' = FALSE

(* _clear_compatibility_state, with `f` the flows it leaves behind.          *)
Clear(f) == compat' = NoCompat /\ NewGeneration(f)

(* The generator of `a` goes on, waits for a stop, begins, leaves, and that  *)
(* of the owner goes round once more.                                        *)
At(f, a, pc)     == [f EXCEPT ![a].pc = pc]
Halt(f, a, next) == [f EXCEPT ![a].pc = "stop", ![a].next = next]
Enter(f, a)      == [f EXCEPT ![a] = [NoFlow EXCEPT !.current = TRUE]]
Leave(f, a)      == [f EXCEPT ![a] = NoFlow]
Again(f)         == [f EXCEPT !["owner"].again = TRUE]

(* start_steps of `a` returns FALSE.  The owner reports a second attempt and *)
(* forgets the configuration.  A restart ends with its runner, which finds   *)
(* that its own failure has begun a new generation and so tells nobody.      *)
Fails(a, r, cleared) ==
  IF a = "retry"
  THEN /\ Clear(Leave(flow, a)) /\ report' = r
       /\ quiet' = FALSE /\ unheard' = (told /\ ~serves)
  ELSE /\ UNCHANGED <<quiet, unheard>>
       /\ IF cleared \/ flow[a].again
          THEN /\ Clear(Leave(flow, a))
               /\ report' = IF flow[a].again THEN Reported(r, "other") ELSE r
          ELSE /\ flow' = Leave(flow, a) /\ report' = r
               /\ UNCHANGED <<compat, timer>>

(* _begin_attempt                                                            *)
Begin(a) ==
  /\ flow' = [flow EXCEPT ![a] = [@ EXCEPT !.pc = "prepare", !.next = "none", !.current = TRUE]]
  /\ report' = [report EXCEPT !.made = FALSE]
  /\ authed' = FALSE /\ wave' = 0 /\ alert' = FALSE

(* stop_steps when the process lives: kill it and wait.                      *)
KillAndWait(a, next) ==
  /\ process' = "dying" /\ stopping' = TRUE /\ configFile' = FALSE /\ wave' = 0
  /\ UNCHANGED <<serves, starting>>
  /\ IF next = "fail" THEN Clear(Halt(flow, a, next))
     ELSE flow' = Halt(flow, a, next) /\ UNCHANGED <<compat, timer>>

(* stop_steps when it does not: nothing is left to wait for.                 *)
StopsAtOnce ==
  /\ process' = process /\ stopping' = FALSE /\ starting' = FALSE
  /\ configFile' = FALSE /\ wave' = 0 /\ UNCHANGED serves

(* A start stops what lives before it begins; `f` is its generator.          *)
Replace(a, f, code) ==
  /\ report' = [made |-> FALSE, code |-> code]
  /\ IF process = "none"
     THEN /\ flow' = At(f, a, "prepare")
          /\ authed' = FALSE /\ wave' = 0 /\ alert' = FALSE /\ UNCHANGED proc
     ELSE /\ flow' = Halt(f, a, "begin")
          /\ process' = "dying" /\ stopping' = TRUE /\ configFile' = FALSE /\ wave' = 0
          /\ UNCHANGED <<serves, starting, authed, alert>>

(* The generator of `a` may go on: that of a restart only while current.     *)
Runs(a, pc) == flow[a].pc = pc /\ (a = "retry" => flow[a].current)
Wanted(a)   == a = "retry" \/ needed

(* --- The owner ------------------------------------------------------------ *)

Fresh == [config |-> TRUE, plain |-> FALSE, pending |-> FALSE, used |-> FALSE, busy |-> FALSE]

(* start_steps: whatever ran before is stopped first.                        *)
StartClient ==
  /\ flow["owner"].pc = "idle" /\ hyStarts < MaxHyStarts
  /\ hyStarts' = hyStarts + 1 /\ UNCHANGED hyFaults
  /\ needed' = TRUE /\ told' = FALSE /\ unheard' = FALSE /\ retries' = 0 /\ cut' = FALSE
  /\ compat' = Fresh /\ timer' = FALSE
  /\ Replace("owner", Enter(Outdated(flow), "owner"), "none")
  /\ UNCHANGED quiet

(* The program file is gone, or the relay has no port.                       *)
StartRefused ==
  /\ flow["owner"].pc = "idle" /\ Happens("broken")
  /\ Clear(flow) /\ report' = [made |-> TRUE, code |-> "other"]
  /\ authed' = FALSE /\ wave' = 0 /\ alert' = FALSE
  /\ told' = FALSE /\ cut' = TRUE
  /\ UNCHANGED <<proc, quiet, needed, unheard, retries>>

(* stop_steps.                                                               *)
StopClient ==
  /\ flow["owner"].pc = "idle"
  /\ told' = FALSE /\ unheard' = FALSE /\ cut' = FALSE
  /\ IF process = "none" THEN StopsAtOnce /\ Clear(flow)
     ELSE /\ process' = "dying" /\ stopping' = TRUE /\ configFile' = FALSE /\ wave' = 0
          /\ Clear(Halt(flow, "owner", "none"))
          /\ UNCHANGED <<serves, starting>>
  /\ UNCHANGED <<authed, report, quiet, needed, alert, retries, bounds>>

(* request_stop: kill, and wait for nothing.                                 *)
RequestStop ==
  /\ process # "none" /\ Happens("cut")
  /\ process' = "dying" /\ stopping' = TRUE /\ configFile' = FALSE /\ wave' = 0
  /\ Clear(flow) /\ told' = FALSE /\ unheard' = FALSE
  /\ UNCHANGED <<serves, starting, authed, report, quiet, needed, alert, retries, cut>>

(* A newer choice, or a stop, makes the start unwanted.                      *)
Unwanted ==
  /\ flow["owner"].pc # "idle" /\ needed
  /\ needed' = FALSE
  /\ UNCHANGED <<proc, authed, report, compat, timer, quiet, wave, flow, past, bounds>>

(* The runner of the transition closes the generator where it stands.        *)
CutOff ==
  /\ flow["owner"].pc # "idle" /\ Happens("cut")
  /\ flow' = Leave(flow, "owner") /\ cut' = TRUE
  /\ compat' = IF flow["owner"].again THEN [compat EXCEPT !.busy = FALSE] ELSE compat
  /\ UNCHANGED <<proc, authed, report, timer, quiet, wave, needed, told, unheard, alert, retries>>

(* --- A start, step by step ------------------------------------------------ *)

(* wait_process_finished has an answer.                                      *)
Stopped(a) ==
  /\ Runs(a, "stop") /\ process = "none"
  /\ starting' = FALSE
  /\ CASE flow[a].next = "begin" ->
            Begin(a) /\ UNCHANGED <<compat, timer, quiet, unheard>>
       [] flow[a].next = "fail" ->
            /\ Fails(a, Reported(report, Or(report.code, "network")), FALSE)
            /\ UNCHANGED <<authed, wave, alert>>
       [] OTHER ->
            Fails(a, report, FALSE) /\ UNCHANGED <<authed, wave, alert>>
  /\ UNCHANGED <<process, serves, stopping, configFile, needed, told, retries, cut, bounds>>

StopTimesOut(a) ==
  /\ Runs(a, "stop") /\ process = "dying" /\ Happens("slow")
  /\ stopping' = FALSE
  /\ starting' = (starting /\ flow[a].next # "fail")
  /\ Fails(a, Reported(report, "other"), flow[a].next = "begin")
  /\ cut' = (cut \/ a = "owner")
  /\ UNCHANGED <<process, serves, configFile, authed, wave, needed, told, alert, retries>>

(* Orphans are killed and the address is resolved, by workers; then the      *)
(* client starts.  A restart that has become stale waits for such a worker   *)
(* since earlier, or for the process that has just ended: it is closed first.*)
Prepare(a) ==
  /\ Runs(a, "prepare") /\ (a = "owner" => flow["retry"].pc = "idle")
  /\ \/ /\ flow[a].current /\ Wanted(a)
        /\ process' = "alive" /\ starting' = TRUE /\ stopping' = FALSE /\ configFile' = TRUE
        /\ flow' = At(flow, a, "spawn")
        /\ UNCHANGED <<report, compat, timer, quiet, unheard, bounds>>
     \/ /\ ~(flow[a].current /\ Wanted(a))
        /\ Fails(a, report, FALSE) /\ UNCHANGED <<process, starting, stopping, configFile, bounds>>
     \/ /\ flow[a].current /\ Wanted(a) /\ Happens("broken")
        /\ configFile' = FALSE
        /\ Fails(a, Reported(report, "other"), TRUE) /\ UNCHANGED <<process, starting, stopping>>
  /\ UNCHANGED <<serves, authed, wave, needed, told, alert, retries, cut>>

Spawned(a) ==
  /\ Runs(a, "spawn")
  /\ flow' = At(flow, a, "relay")
  /\ UNCHANGED <<proc, authed, report, compat, timer, quiet, wave, needed, past, bounds>>

SpawnFails(a) ==
  /\ Runs(a, "spawn") /\ process = "alive" /\ Happens("broken")
  /\ process' = "none" /\ starting' = FALSE /\ configFile' = FALSE
  /\ Fails(a, Reported(report, "other"), TRUE)
  /\ UNCHANGED <<serves, stopping, authed, wave, needed, told, alert, retries, cut>>

Restart == compat.pending /\ flow["owner"].current

(* The start goes round once more, in the compatible mode.                   *)
RestartCompatible ==
  /\ compat' = [compat EXCEPT !.pending = FALSE, !.plain = TRUE, !.busy = TRUE]
  /\ retries' = retries + 1
  /\ Replace("owner", Again(flow), report.code)
  /\ UNCHANGED timer

(* A wait has come to nothing.                                               *)
GivesUp(a) ==
  /\ UNCHANGED retries
  /\ IF flow[a].current /\ Wanted(a)
     THEN IF process = "none"
          THEN /\ StopsAtOnce /\ Fails(a, Reported(report, Or(report.code, "network")), TRUE)
               /\ UNCHANGED <<authed, alert>>
          ELSE KillAndWait(a, "fail") /\ UNCHANGED <<report, authed, alert, quiet, unheard>>
     ELSE IF process = "none" \/ (flow[a].pc = "remote" /\ ~flow[a].current)
          THEN /\ Fails(a, report, FALSE)
               /\ starting' = (starting /\ flow[a].pc = "remote" /\ ~flow[a].current)
               /\ UNCHANGED <<process, serves, stopping, configFile, wave, authed, alert>>
          ELSE /\ process' = "dying" /\ stopping' = TRUE /\ configFile' = FALSE /\ wave' = 0
               /\ starting' = FALSE
               /\ flow' = Halt(flow, a, "abandon")
               /\ UNCHANGED <<serves, compat, timer, report, authed, alert, quiet, unheard>>

(* wait_for_loopback_relay_steps: look whether it is still worth it, then    *)
(* try to connect; the answer is taken as it is.                             *)
RelayGate(a) ==
  process # "none" /\ flow[a].current /\ ~compat.pending /\ Wanted(a)

TryRelay(a) ==
  /\ Runs(a, "relay") /\ RelayGate(a)
  /\ flow' = At(flow, a, "connect")
  /\ UNCHANGED <<proc, authed, report, compat, timer, quiet, wave, needed, past, bounds>>

RelayUp(a) ==
  /\ Runs(a, "connect")
  /\ IF a = "owner" /\ Restart THEN RestartCompatible
     ELSE /\ flow' = [flow EXCEPT ![a].pc = "remote", ![a].current = TRUE]
          /\ UNCHANGED <<proc, authed, report, compat, timer, wave, alert, retries>>
  /\ UNCHANGED <<quiet, needed, told, unheard, cut, bounds>>

RelayDown(a) ==
  /\ \/ Runs(a, "relay") /\ ~RelayGate(a) /\ UNCHANGED bounds
     \/ Runs(a, "connect") /\ Happens("slow")
  /\ IF a = "owner" /\ Restart THEN RestartCompatible /\ UNCHANGED <<quiet, unheard>>
                                ELSE GivesUp(a)
  /\ UNCHANGED <<needed, told, cut>>

RelayAgain(a) ==
  /\ Runs(a, "connect") /\ ~RelayGate(a)
  /\ flow' = At(flow, a, "relay")
  /\ UNCHANGED <<proc, authed, report, compat, timer, quiet, wave, needed, past, bounds>>

Abandoned(a) ==
  \/ stopping \/ ~flow[a].current \/ process = "none" \/ report.code = "security"
  \/ compat.pending \/ ~Wanted(a)

(* The server has authenticated the client, or a probe came through.         *)
RemoteUp(a) ==
  /\ Runs(a, "remote")
  /\ \/ ~Abandoned(a)
     \/ authed /\ flow[a].current /\ report.code # "security" /\ process # "none" /\ ~stopping
  /\ IF a = "owner" /\ Restart THEN RestartCompatible /\ UNCHANGED <<quiet, told>>
     ELSE /\ configFile' = FALSE /\ starting' = FALSE /\ serves' = TRUE
          /\ report' = [made |-> FALSE, code |-> "none"]
          /\ told' = (told \/ a = "owner" \/ ~quiet)
          /\ IF a = "owner"
             THEN /\ IF flow[a].again THEN Clear(Leave(flow, a))
                     ELSE flow' = Leave(flow, a) /\ UNCHANGED <<compat, timer>>
                  /\ UNCHANGED quiet
             ELSE /\ flow' = Leave(flow, a) /\ quiet' = FALSE
                  /\ compat' = [compat EXCEPT !.busy = FALSE] /\ UNCHANGED timer
          /\ UNCHANGED <<process, stopping, authed, wave, alert, retries>>
  /\ UNCHANGED <<needed, unheard, cut, bounds>>

RemoteDown(a) ==
  /\ Runs(a, "remote")
  /\ \/ Abandoned(a) /\ UNCHANGED bounds
     \/ ~Abandoned(a) /\ Happens("slow")
  /\ IF a = "owner" /\ Restart THEN RestartCompatible /\ UNCHANGED <<quiet, unheard>>
                                ELSE GivesUp(a)
  /\ UNCHANGED <<needed, told, cut>>

(* --- The restart of a client that was serving ----------------------------- *)

(* _run_chrome_parrot_fallback                                               *)
TimerFires ==
  /\ timer
  /\ IF stopping
     THEN /\ compat' = [compat EXCEPT !.pending = FALSE] /\ timer' = FALSE
          /\ UNCHANGED <<proc, report, authed, wave, flow, quiet, alert, retries>>
     ELSE /\ compat' = [compat EXCEPT !.pending = FALSE, !.plain = TRUE, !.busy = TRUE]
          /\ timer' = FALSE /\ quiet' = TRUE /\ retries' = retries + 1
          /\ Replace("retry", Enter(flow, "retry"), report.code)
  /\ UNCHANGED <<needed, told, unheard, cut, bounds>>

(* Its runner finds the generation changed, by the owner or by the end of    *)
(* the process, and closes it; _on_chrome_parrot_fallback_finished then      *)
(* tells nobody.                                                             *)
RetryClosed ==
  /\ flow["retry"].pc # "idle" /\ ~flow["retry"].current
  /\ flow' = Leave(flow, "retry")
  /\ quiet' = FALSE /\ compat' = [compat EXCEPT !.busy = FALSE]
  /\ unheard' = (told /\ ~serves)
  /\ UNCHANGED <<proc, authed, report, timer, wave, needed, told, alert, retries, cut, bounds>>

(* --- The process ---------------------------------------------------------- *)

Says(kind) == process # "none" /\ Happens(kind)

(* "connected to server"                                                     *)
AuthLine ==
  /\ process # "none" /\ (starting \/ wave > 0) /\ ~stopping /\ (~authed \/ wave > 0)
  /\ authed' = TRUE /\ wave' = 0
  /\ report' = IF wave > 0 THEN [report EXCEPT !.code = "none"] ELSE report
  /\ UNCHANGED <<proc, compat, timer, quiet, flow, needed, past, bounds>>

(* Mutant of ParrotLine: every such line asks for a restart.                 *)
ParrotLineAgain ==
  /\ Says("parrot")
  /\ compat' = [compat EXCEPT !.pending = TRUE, !.used = TRUE]
  /\ timer' = (\A a \in Actor : flow[a].pc = "idle")
  /\ UNCHANGED <<proc, authed, report, quiet, wave, flow, needed, told, unheard, alert, retries, cut>>

(* The TLS error of the compatible mode; a timer set while a start is in     *)
(* progress finds that start and leaves the restart to it.                   *)
ParrotLine ==
  /\ Says("parrot")
  /\ IF compat.plain \/ (compat.used /\ ~compat.pending /\ ~compat.busy)
     THEN report' = Reported(report, "security") /\ alert' = TRUE /\ UNCHANGED <<compat, timer>>
     ELSE /\ IF compat.config /\ ~compat.used /\ ~compat.pending
             THEN /\ compat' = [compat EXCEPT !.pending = TRUE, !.used = TRUE]
                  /\ timer' = (\A a \in Actor : flow[a].pc = "idle")
             ELSE UNCHANGED <<compat, timer>>
          /\ UNCHANGED <<report, alert>>
  /\ UNCHANGED <<proc, authed, quiet, wave, flow, needed, told, unheard, retries, cut>>

(* A transport error: noted while starting, checked while serving.           *)
NetworkLine ==
  /\ Says("network")
  /\ \/ /\ starting
        /\ report' = IF report.code = "security" THEN report ELSE [report EXCEPT !.code = "network"]
        /\ UNCHANGED wave
     \/ ~starting /\ ~serves /\ report' = Reported(report, "network") /\ UNCHANGED wave
     \/ ~starting /\ serves /\ wave' = (IF wave = 0 THEN 1 ELSE wave) /\ UNCHANGED report
  /\ UNCHANGED <<proc, authed, compat, timer, quiet, flow, needed, past>>

SecurityLine ==
  /\ Says("security")
  /\ report' = Reported(report, "security") /\ alert' = TRUE
  /\ UNCHANGED <<proc, authed, compat, timer, quiet, wave, flow, needed, told, unheard, retries, cut>>

(* The check of the tunnel: a probe comes through, or a wave of them fails.  *)
CheckTunnel ==
  /\ wave > 0
  /\ IF ~(serves /\ ~stopping /\ process # "none") THEN wave' = 0 /\ UNCHANGED report
     ELSE \/ wave' = 0 /\ report' = [report EXCEPT !.code = "none"]
          \/ wave = 1 /\ wave' = 2 /\ UNCHANGED report
          \/ wave = 2 /\ wave' = 0 /\ report' = Reported(report, "network")
  /\ UNCHANGED <<proc, authed, compat, timer, quiet, flow, needed, past, bounds>>

(* _on_finished                                                              *)
ProcessEnds ==
  /\ \/ process = "dying" /\ UNCHANGED bounds
     \/ process = "alive" /\ Happens("exit")
  /\ process' = "none" /\ serves' = FALSE /\ starting' = FALSE /\ stopping' = FALSE
  /\ configFile' = FALSE /\ wave' = 0
  /\ IF stopping \/ compat.pending THEN UNCHANGED <<report, compat, timer, flow>>
     ELSE report' = Reported(report, Or(report.code, "other")) /\ Clear(flow)
  /\ told' = (told /\ ~(serves /\ ~quiet /\ ~compat.pending))
  /\ UNCHANGED <<authed, quiet, needed, unheard, alert, retries, cut>>

StartStep(a) ==
  \/ Stopped(a) \/ StopTimesOut(a) \/ Prepare(a) \/ Spawned(a) \/ SpawnFails(a)
  \/ TryRelay(a) \/ RelayUp(a) \/ RelayDown(a) \/ RelayAgain(a) \/ RemoteUp(a) \/ RemoteDown(a)

HyNext ==
  \/ StartClient \/ StartRefused \/ StopClient \/ RequestStop \/ Unwanted \/ CutOff
  \/ \E a \in Actor : StartStep(a)
  \/ TimerFires \/ RetryClosed
  \/ AuthLine \/ ParrotLine \/ NetworkLine \/ SecurityLine \/ CheckTunnel \/ ProcessEnds

Settled == (\A a \in Actor : flow[a].pc = "idle") /\ ~timer /\ process # "dying"

(* The file with the passwords is gone as soon as the client serves, and     *)
(* after every stop and every failure: only a start that was cut off leaves  *)
(* it, until the stop that must follow.                                      *)
SecretsGone == (serves \/ (Settled /\ ~cut)) => ~configFile

(* At most one compatible restart follows a start, however often the server  *)
(* repeats its error and whoever restarts, the start or the timer.           *)
OneRetry == retries <= 1

(* After a certificate or a password was refused this attempt never ends in  *)
(* a session, even if the server authenticates it or a probe comes through.  *)
SecurityStops == [][~serves /\ serves' => ~alert]_hyVars

(* When nothing is in progress the owner has heard what is the case, unless  *)
(* a restart was closed by its own failure.                                  *)
ToldTruth == Settled /\ ~cut /\ ~unheard => told = serves

(* The same, whatever the restart did.                                       *)
FailedRestartIsHeard == Settled /\ ~cut => told = serves

(* Whatever the server says and whoever interferes, the owner's start ends.  *)
StartEnds == flow["owner"].pc = "prepare" ~> flow["owner"].pc = "idle"

HyFairness ==
  /\ \A a \in Actor : WF_hyVars(StartStep(a))
  /\ WF_hyVars(ProcessEnds /\ process = "dying") /\ WF_hyVars(RetryClosed) /\ WF_hyVars(TimerFires)

HySpec == HyInit /\ [][HyNext]_hyVars /\ HyFairness

(* A start tells the truth, once, retries once, and leaves no secrets        *)
(* behind; a security failure ends it.                                       *)
HysteriaSafe == [](HysteriaTypeOK /\ SecretsGone /\ OneRetry /\ ToldTruth) /\ SecurityStops
=============================================================================
