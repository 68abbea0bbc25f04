----------------------------- MODULE StepRunner -----------------------------
(* application/async_steps.py: the runner of a transition and the steps it   *)
(* waits for.  The generator runs on the GUI thread; a call in a worker, a   *)
(* timer or a process answers later, from another thread, twice or never.    *)
EXTENDS Naturals

CONSTANT MaxSteps   \* bound: steps a transition yields

Step == 1..MaxSteps

ASSUME StepRunnerAssumption == MaxSteps \in Nat

Kind == {"worker", "timer"}          \* RunInWorkerStep; SleepStep and Wait...Step
Work == {"none", "queued", "running", "done", "dropped"}
Says == {"value", "error"}

VARIABLES
  gen,        \* the generator: "new", "waiting", "ended" or "closed"
  seq,        \* TransitionRunner._seq: the step it waits for
  kind,       \* what each step is
  work,       \* the future of a worker step
  armed,      \* steps whose timer runs
  reported,   \* steps that have reported
  cancelled,  \* steps that were cancelled
  checking,   \* steps whose worker is in _on_done, past its check
  events,     \* queued signals _step_completed
  current,    \* is_current
  done,       \* TransitionRunner._done
  finished,   \* calls of on_finished so far
  delivered   \* history: how often the generator got the result of each step

runnerVars == <<gen, seq, kind, work, armed, reported, cancelled, checking, events,
                current, done, finished, delivered>>
stepState  == <<kind, work, armed, reported, cancelled, checking>>

RunnerTypeOK ==
  /\ gen \in {"new", "waiting", "ended", "closed"}
  /\ seq \in 0..MaxSteps
  /\ kind \in [Step -> Kind] /\ work \in [Step -> Work]
  /\ armed \subseteq Step /\ reported \subseteq Step
  /\ cancelled \subseteq Step /\ checking \subseteq Step
  /\ events \subseteq [of : Step, says : Says]
  /\ current \in BOOLEAN /\ done \in BOOLEAN
  /\ finished \in Nat /\ delivered \in [Step -> Nat]

RunnerInit ==
  /\ gen = "new" /\ seq = 0
  /\ kind = [s \in Step |-> "timer"] /\ work = [s \in Step |-> "none"]
  /\ armed = {} /\ reported = {} /\ cancelled = {} /\ checking = {}
  /\ events = {} /\ current = TRUE
  /\ done = FALSE /\ finished = 0
  /\ delivered = [s \in Step |-> 0]

(* --- The runner, on the GUI thread --------------------------------------- *)

(* _finish: the owner is told once.                                          *)
Finish(g) ==
  /\ gen' = g /\ done' = TRUE
  /\ finished' = IF done THEN finished ELSE finished + 1
  /\ UNCHANGED seq

(* step.start: a worker step submits its call and arms its deadline; another *)
(* step arms its timer; a process that is there already, or a start that     *)
(* raises, reports at once.                                                  *)
StartStep(s, k, at_once, left) ==
  /\ kind' = [kind EXCEPT ![s] = k]
  /\ work' = [work EXCEPT ![s] = IF k = "worker" /\ ~at_once THEN "queued" ELSE "none"]
  /\ armed' = IF at_once THEN armed ELSE armed \cup {s}
  /\ \E w \in Says : events' = IF at_once THEN left \cup {[of |-> s, says |-> w]} ELSE left
  /\ UNCHANGED <<reported, cancelled, checking>>

(* Mutant of CancelRun: a call that waits in the queue stays there.          *)
CancelKept ==
  /\ IF gen = "waiting"
       THEN /\ cancelled' = cancelled \cup {seq} /\ armed' = armed \ {seq}
            /\ UNCHANGED <<kind, work, reported, checking>>
       ELSE UNCHANGED stepState
  /\ Finish("closed")

(* _cancel_run: the step is cancelled, which drops a call that has not begun *)
(* and disarms the timer, and the generator is closed.                       *)
CancelRun ==
  /\ IF gen = "waiting"
       THEN /\ cancelled' = cancelled \cup {seq}
            /\ armed' = armed \ {seq}
            /\ work' = [work EXCEPT ![seq] = IF @ = "queued" THEN "dropped" ELSE @]
            /\ reported' = IF kind[seq] = "timer" THEN reported \cup {seq} ELSE reported
            /\ UNCHANGED <<kind, checking>>
       ELSE UNCHANGED stepState
  /\ Finish("closed")

(* _advance: unless it is superseded, the generator goes on to its next step *)
(* or to its end.  While it runs a newer request may come in.  "left" are    *)
(* the signals still queued.                                                 *)
Advance(left) ==
  \/ /\ current /\ gen \in {"new", "waiting"} /\ seq < MaxSteps
     /\ \E k \in Kind, at_once \in BOOLEAN : StartStep(seq + 1, k, at_once, left)
     /\ seq' = seq + 1 /\ gen' = "waiting"
     /\ current' \in {current, FALSE}
     /\ UNCHANGED <<done, finished>>
  \/ /\ current
     /\ Finish("ended") /\ current' \in {current, FALSE}
     /\ events' = left /\ UNCHANGED stepState
  \/ /\ ~current
     /\ CancelRun /\ events' = left
     /\ UNCHANGED current

Begin ==
  /\ gen = "new" /\ ~done
  /\ Advance(events)
  /\ UNCHANGED delivered

(* Mutant of Stale: the number of the step is not compared.                  *)
StaleOver(e) == done

(* _handle_step_completed: a report of another step, or one that comes after *)
(* the end, is ignored.                                                      *)
Stale(e) == done \/ e.of # seq

Ignore ==
  \E e \in events :
    /\ Stale(e)
    /\ events' = events \ {e}
    /\ UNCHANGED <<gen, seq, stepState, current, done, finished, delivered>>

Resume ==
  \E e \in events :
    /\ ~Stale(e)
    /\ delivered' = IF current THEN [delivered EXCEPT ![e.of] = @ + 1] ELSE delivered
    /\ Advance(events \ {e})

(* cancel(), by a shutdown.                                                  *)
Cancel ==
  /\ ~done /\ CancelRun
  /\ UNCHANGED <<events, current, delivered>>

Supersede ==
  /\ current /\ ~done /\ current' = FALSE
  /\ UNCHANGED <<gen, seq, stepState, events, done, finished, delivered>>

(* --- The steps ------------------------------------------------------------ *)

Runner == <<gen, seq, current, done, finished, delivered>>
Report(s, w) == events' = events \cup {[of |-> s, says |-> w]}

WorkerBegins(s) ==
  /\ work[s] = "queued" /\ work' = [work EXCEPT ![s] = "running"]
  /\ UNCHANGED <<kind, armed, reported, cancelled, checking, events, Runner>>

(* _on_done on the worker thread: first it looks at the flags ...            *)
WorkerEnds(s) ==
  /\ work[s] = "running" /\ work' = [work EXCEPT ![s] = "done"]
  /\ checking' = IF s \in cancelled \cup reported THEN checking ELSE checking \cup {s}
  /\ UNCHANGED <<kind, armed, reported, cancelled, events, Runner>>

(* ... then it sets its own and reports; the deadline may come in between.   *)
WorkerReports(s) ==
  /\ s \in checking /\ checking' = checking \ {s}
  /\ reported' = reported \cup {s}
  /\ \E w \in Says : Report(s, w)
  /\ UNCHANGED <<kind, work, armed, cancelled, Runner>>

(* Mutant of Deadline: a call that runs is waited for.                       *)
DeadlinePatient(s) ==
  /\ s \in armed /\ kind[s] = "worker" /\ work[s] = "queued"
  /\ armed' = armed \ {s} /\ reported' = reported \cup {s}
  /\ work' = [work EXCEPT ![s] = "dropped"] /\ Report(s, "error")
  /\ UNCHANGED <<kind, cancelled, checking, Runner>>

(* _on_deadline, 60 s later: the step fails, a call that has not begun is    *)
(* dropped.                                                                  *)
Deadline(s) ==
  /\ s \in armed /\ kind[s] = "worker" /\ armed' = armed \ {s}
  /\ IF s \in reported \cup cancelled
       THEN UNCHANGED <<work, reported, events>>
       ELSE /\ reported' = reported \cup {s}
            /\ work' = [work EXCEPT ![s] = IF @ = "queued" THEN "dropped" ELSE @]
            /\ Report(s, "error")
  /\ UNCHANGED <<kind, cancelled, checking, Runner>>

(* A pause is over, or the process answers or does not answer in time: the   *)
(* first of them disconnects the others.                                     *)
TimerFires(s) ==
  /\ s \in armed /\ kind[s] = "timer" /\ s \notin reported
  /\ armed' = armed \ {s} /\ reported' = reported \cup {s}
  /\ Report(s, "value")
  /\ UNCHANGED <<kind, work, cancelled, checking, Runner>>

RunnerNext ==
  \/ Begin \/ Ignore \/ Resume \/ Cancel \/ Supersede
  \/ \E s \in Step : \/ WorkerBegins(s) \/ WorkerEnds(s) \/ WorkerReports(s)
                     \/ Deadline(s) \/ TimerFires(s)

RunnerSpec == RunnerInit /\ [][RunnerNext]_runnerVars

(* Timers of Qt fire and queued signals are delivered; nothing is assumed of *)
(* the calls in the workers.                                                 *)
RunnerFairness ==
  /\ WF_runnerVars(Begin \/ Resume)
  /\ \A s \in Step : WF_runnerVars(Deadline(s) \/ TimerFires(s))

-----------------------------------------------------------------------------
(* No result reaches the generator twice, although worker and deadline may   *)
(* both report: the second report has the number of an earlier step.         *)
DeliveredOnce == \A s \in Step : delivered[s] <= 1

(* The owner of the run is told of its end once, and only then is it over    *)
(* (TransitionRunner._finish).                                               *)
ToldOnce == finished = IF done THEN 1 ELSE 0

(* A run that is over leaves no call behind that has not begun: what was     *)
(* cancelled before it started never happens.                                *)
NothingBeginsLate == [][\A s \in Step : done => ~WorkerBegins(s)]_runnerVars

(* A wedged call cannot keep a transition waiting: once begun it ends.       *)
RunEnds == gen # "new" ~> done

(* The runner keeps the promise of StepContract.                             *)
Given == IF seq = 0 THEN 0 ELSE (seq - 1) + delivered[seq]
Contract == INSTANCE StepContract WITH asked <- seq, given <- Given, over <- done, told <- finished
KeepsContract == Contract!ContractSpec

(* One delivery for a result, one report of the end.                         *)
RunnerSafe == RunnerTypeOK /\ DeliveredOnce /\ ToldOnce

(* What a transition relies on, to which the workers add nothing after its   *)
(* end.                                                                      *)
RunnerKeepsWord == NothingBeginsLate /\ KeepsContract
=============================================================================
