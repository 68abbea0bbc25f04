--------------------------- MODULE SingboxProcess ---------------------------
(* sing-box as a child process: engines/singbox/manager.py.  A start writes  *)
(* the configuration, stops what ran, spawns the core and probes it, in TUN  *)
(* mode up to three times; a failure is explained by `sing-box check`, which *)
(* must not run beside a core.  Meanwhile the core may end and a signal      *)
(* handler may kill it without waiting.                                      *)
EXTENDS Naturals

CONSTANTS
  MaxBoxStarts,  \* bound: starts by the owner
  MaxBoxFaults   \* bound: crashes, kills without waiting, and stuck processes

ASSUME SingboxAssumption == MaxBoxStarts \in Nat /\ MaxBoxFaults \in Nat

VARIABLES
  box,       \* [proc: none, alive or dying, tun: it holds the TUN adapter]
  boxRuns,   \* _running, and what state_changed has told
  boxStarts, \* _starting
  boxStop,   \* _stop_requested
  usesTun,   \* _uses_tun
  stamped,   \* _tun_stopped_at is of the last TUN that ended
  fresh,     \* a TUN ended less than TUN_RESTART_GAP_S ago
  boxTold,      \* [startup, runtime: the two _reported flags, deferred: one is held back]
  job,       \* the generator, see Job
  errs,      \* history: messages shown since the launch began
  hangs,     \* history: stops since then that ran out of time
  ghost,     \* history: a core that had ended was declared running
  boxMade, faults  \* bounds

boxVars == <<box, boxRuns, boxStarts, boxStop, usesTun, stamped, fresh, boxTold, job, errs, hangs,
             ghost, boxMade, faults>>

(* pc: what it waits for; then: what follows a stop; tun: the mode asked     *)
(* for; wanted: should_continue(); tries: attempts so far; held: a failure   *)
(* is held back while the launch goes on; late: the stop took down a TUN.    *)
Job == [pc : {"idle", "write", "stop", "release", "orphans", "gap", "probe", "yes", "reuse", "check"},
        then : {"none", "orphans", "quiet", "report", "check", "end"},
        tun : BOOLEAN, wanted : BOOLEAN, tries : 0..3, late : BOOLEAN,
        result : {"none", "up", "failed", "stuck"}]

SingboxTypeOK ==
  /\ box \in [proc : {"none", "alive", "dying"}, tun : BOOLEAN]
  /\ {boxRuns, boxStarts, boxStop, usesTun, stamped, fresh, ghost} \subseteq BOOLEAN
  /\ boxTold \in [startup : BOOLEAN, runtime : BOOLEAN, deferred : BOOLEAN]
  /\ job \in Job /\ errs \in Nat /\ hangs \in Nat
  /\ boxMade \in 0..MaxBoxStarts /\ faults \in 0..MaxBoxFaults
  /\ job.pc \in {"write", "orphans", "gap", "check"} => ~boxRuns \/ job.pc = "write"

BoxInit ==
  /\ box = [proc |-> "none", tun |-> FALSE] /\ boxRuns = FALSE /\ boxStarts = FALSE
  /\ boxStop = FALSE /\ usesTun = FALSE /\ stamped = FALSE /\ fresh = FALSE
  /\ boxTold = [startup |-> FALSE, runtime |-> FALSE, deferred |-> FALSE]
  /\ job = [pc |-> "idle", then |-> "none", tun |-> FALSE, wanted |-> FALSE, tries |-> 0,
            late |-> FALSE, result |-> "none"]
  /\ errs = 0 /\ hangs = 0 /\ ghost = FALSE /\ boxMade = 0 /\ faults = 0

Fault   == faults < MaxBoxFaults /\ faults' = faults + 1 /\ UNCHANGED boxMade
Healthy == UNCHANGED <<boxMade, faults>>
Ended   == box.proc = "none"

To(pc)    == [job EXCEPT !.pc = pc]
Ends(res) == [job EXCEPT !.pc = "idle", !.then = "none", !.result = res]
Waits(then) == [job EXCEPT !.pc = "stop", !.then = then, !.late = usesTun]

(* _report_startup_failure: once per launch, held back until the launch is   *)
(* over.                                                                     *)
Report == boxTold' = IF boxTold.startup THEN boxTold ELSE [boxTold EXCEPT !.startup = TRUE, !.deferred = TRUE]
Deferred == boxTold'.deferred

(* stop_steps while the core lives.                                          *)
Kill(then) ==
  /\ box' = [box EXCEPT !.proc = "dying"] /\ boxStop' = TRUE
  /\ job' = Waits(then)
  /\ UNCHANGED <<boxRuns, boxStarts, usesTun>>

(* The launch has failed: with a reason held back the core is stopped and    *)
(* the configuration checked, without one the start is over.                 *)
Failed ==
  IF ~Deferred THEN job' = Ends("failed") /\ UNCHANGED <<box, boxStop, usesTun, boxRuns>>
  ELSE IF ~Ended THEN /\ box' = [box EXCEPT !.proc = "dying"] /\ boxStop' = TRUE
                      /\ job' = Waits("check")
                      /\ UNCHANGED <<usesTun, boxRuns>>
  ELSE job' = To("check") /\ UNCHANGED <<box, boxStop, usesTun, boxRuns>>

Same == UNCHANGED <<box, boxRuns, boxStop, usesTun>>

(* --- The owner ------------------------------------------------------------ *)

StartBox ==
  /\ job.pc = "idle" /\ boxMade < MaxBoxStarts
  /\ boxMade' = boxMade + 1 /\ UNCHANGED faults
  /\ \E t \in BOOLEAN :
       job' = [job EXCEPT !.pc = "write", !.tun = t, !.wanted = TRUE, !.tries = 0, !.result = "none"]
  /\ UNCHANGED <<box, boxRuns, boxStarts, boxStop, usesTun, stamped, fresh, boxTold, errs, hangs, ghost>>

StopBox ==
  /\ job.pc = "idle"
  /\ IF Ended
     THEN /\ boxStop' = FALSE /\ boxRuns' = FALSE /\ boxStarts' = FALSE /\ usesTun' = FALSE
          /\ UNCHANGED <<box, job>>
     ELSE Kill("end")
  /\ UNCHANGED <<stamped, fresh, boxTold, errs, hangs, ghost>> /\ Healthy

(* should_continue turns false.                                              *)
NoLongerWanted ==
  /\ job.pc # "idle" /\ job.wanted
  /\ job' = [job EXCEPT !.wanted = FALSE]
  /\ UNCHANGED <<box, boxRuns, boxStarts, boxStop, usesTun, stamped, fresh, boxTold, errs, hangs, ghost>>
  /\ Healthy

(* request_stop: from a signal handler, at any time.                         *)
KillNow ==
  /\ ~Ended /\ Fault
  /\ box' = [box EXCEPT !.proc = "dying"] /\ boxStop' = TRUE
  /\ UNCHANGED <<boxRuns, boxStarts, usesTun, stamped, fresh, boxTold, job, errs, hangs, ghost>>

(* --- A start --------------------------------------------------------------- *)

(* The configuration is on disk; what runs is stopped first.                 *)
Written ==
  /\ job.pc = "write" /\ boxTold' = [boxTold EXCEPT !.deferred = FALSE]
  /\ IF ~job.wanted THEN job' = Ends("failed") /\ Same /\ UNCHANGED boxStarts
     ELSE IF Ended
     THEN boxRuns' = FALSE /\ job' = To("orphans") /\ UNCHANGED <<box, boxStop, usesTun, boxStarts>>
     ELSE Kill("orphans")
  /\ errs' = 0 /\ hangs' = 0
  /\ UNCHANGED <<stamped, fresh, ghost>> /\ Healthy

(* Orphans are killed.                                                       *)
Orphans ==
  /\ job.pc = "orphans"
  /\ IF ~job.wanted THEN job' = Ends("failed") /\ UNCHANGED <<usesTun, boxStarts, boxTold>>
     ELSE /\ usesTun' = job.tun /\ boxStarts' = TRUE
          /\ boxTold' = [boxTold EXCEPT !.startup = FALSE, !.runtime = FALSE]
          /\ job' = To("gap")
  /\ UNCHANGED <<box, boxRuns, boxStop, stamped, fresh, errs, hangs, ghost>> /\ Healthy

(* _spawn and the answer of Windows.                                         *)
Spawn ==
  \/ /\ box' = [proc |-> "alive", tun |-> job.tun] /\ boxStop' = FALSE
     /\ job' = [job EXCEPT !.pc = "probe", !.tries = @ + 1]
     /\ UNCHANGED <<boxRuns, boxStarts, usesTun, boxTold>> /\ Healthy
  \/ /\ Fault /\ boxStarts' = FALSE /\ Report /\ Failed

(* Mutant of Gap: it does not wait.                                          *)
GapUnkept ==
  /\ job.pc = "gap" /\ job.wanted /\ Spawn
  /\ UNCHANGED <<stamped, fresh, errs, hangs, ghost>>

(* A new TUN waits out the gap after one that stop_steps has taken down.     *)
Gap ==
  /\ job.pc = "gap"
  /\ job.tun /\ stamped => ~fresh
  /\ \/ (job.wanted \/ ~job.tun) /\ Spawn
     \/ /\ ~job.wanted /\ job.tun
        /\ boxStarts' = FALSE /\ job' = Ends("failed") /\ Same /\ UNCHANGED boxTold /\ Healthy
  /\ UNCHANGED <<stamped, fresh, errs, hangs, ghost>>

(* The probe of a worker finds the core ready; its answer is taken as it is. *)
ProbeYes ==
  /\ job.pc = "probe" /\ box.proc = "alive"
  /\ job' = To("yes")
  /\ UNCHANGED <<boxStarts, stamped, fresh, boxTold, errs, hangs, ghost>> /\ Same /\ Healthy

Yes ==
  /\ job.pc = "yes"
  /\ boxStarts' = FALSE /\ boxStop' = FALSE /\ boxRuns' = TRUE
  /\ job' = Ends("up") /\ ghost' = (ghost \/ Ended)
  /\ UNCHANGED <<box, usesTun, stamped, fresh, boxTold, errs, hangs>> /\ Healthy

(* Look at the process, then at the wish, then at the clock.  A TUN start    *)
(* looks at the wish once more, and tries again if the adapter was in use.   *)
ProbeProxy ==
  /\ job.pc = "probe" /\ ~job.tun
  /\ \/ Ended /\ boxStarts' = FALSE /\ Report /\ Failed
     \/ ~Ended /\ ~job.wanted /\ boxStarts' = FALSE
        /\ box' = [box EXCEPT !.proc = "dying"] /\ boxStop' = TRUE
        /\ job' = Waits("quiet")
        /\ UNCHANGED <<boxRuns, usesTun, boxTold>>
     \/ ~Ended /\ job.wanted /\ Kill("report") /\ UNCHANGED boxTold
  /\ UNCHANGED <<stamped, fresh, errs, hangs, ghost>> /\ Healthy

ProbeTun ==
  /\ job.pc = "probe" /\ job.tun
  /\ \/ /\ ~job.wanted /\ ~Ended /\ boxStarts' = FALSE
        /\ box' = [box EXCEPT !.proc = "dying"] /\ boxStop' = TRUE
        /\ job' = Waits("quiet")
        /\ UNCHANGED <<boxRuns, usesTun, boxTold>>
     \/ /\ ~job.wanted /\ Ended /\ boxStarts' = FALSE /\ UNCHANGED boxTold
        /\ boxStop' = FALSE /\ boxRuns' = FALSE /\ usesTun' = FALSE /\ UNCHANGED box
        /\ job' = IF boxTold.deferred THEN To("check") ELSE Ends("failed")
     \/ job.wanted /\ Ended /\ job.tries < 3 /\ job' = To("reuse") /\ Same /\ UNCHANGED <<boxStarts, boxTold>>
     \/ job.wanted /\ Ended /\ boxStarts' = FALSE /\ Report /\ Failed
     \/ job.wanted /\ ~Ended /\ Kill("report") /\ UNCHANGED boxTold
  /\ UNCHANGED <<stamped, fresh, errs, hangs, ghost>> /\ Healthy

(* The adapter is free again: the next attempt.                              *)
Reuse ==
  /\ job.pc = "reuse"
  /\ \/ /\ box' = [proc |-> "alive", tun |-> TRUE] /\ boxStop' = FALSE /\ boxStarts' = TRUE
        /\ job' = [job EXCEPT !.pc = "probe", !.tries = @ + 1]
        /\ UNCHANGED <<boxRuns, usesTun, boxTold>> /\ Healthy
     \/ Fault /\ boxStarts' = FALSE /\ Report /\ Failed
  /\ UNCHANGED <<stamped, fresh, errs, hangs, ghost>>

(* --- A stop, and what follows it ------------------------------------------ *)

AfterStop ==
  CASE job.then = "orphans" -> job' = To("orphans") /\ UNCHANGED <<boxTold, box, boxStop>>
    [] job.then = "check"   -> job' = To("check") /\ UNCHANGED <<boxTold, box, boxStop>>
    [] job.then = "report"  ->
         /\ Report
         /\ job' = IF ~Deferred THEN Ends("failed") ELSE To("check")
         /\ UNCHANGED <<box, boxStop>>
    [] job.then = "quiet"   ->
         /\ job' = IF boxTold.deferred THEN To("check") ELSE Ends("failed")
         /\ UNCHANGED <<boxTold, box, boxStop>>
    [] OTHER -> job' = Ends("none") /\ UNCHANGED <<boxTold, box, boxStop>>

BoxStopped ==
  /\ job.pc = "stop" /\ Ended
  /\ usesTun' = FALSE /\ boxStarts' = FALSE
  /\ IF job.late THEN job' = To("release") /\ UNCHANGED <<boxTold, box, boxStop>> ELSE AfterStop
  /\ UNCHANGED <<boxRuns, stamped, fresh, errs, hangs, ghost>> /\ Healthy

(* The adapter is gone: only now does the gap begin.                         *)
Released ==
  /\ job.pc = "release" /\ stamped' = TRUE /\ AfterStop
  /\ UNCHANGED <<boxRuns, boxStarts, usesTun, fresh, errs, hangs, ghost>> /\ Healthy

(* Two seconds are not enough, which is told at once: a new start goes no    *)
(* further and tells that too; one that had failed anyway goes on to its     *)
(* report, and asks the core to end once more.                               *)
Stuck ==
  /\ job.pc = "stop" /\ box.proc = "dying" /\ Fault
  /\ hangs' = hangs + 1
  /\ errs' = IF job.then = "orphans" THEN errs + 2 ELSE errs + 1
  /\ CASE job.then \in {"orphans", "end"} ->
            job' = Ends("stuck") /\ boxStop' = FALSE /\ UNCHANGED <<boxStarts, boxTold>>
       [] job.then = "report" ->
            /\ Report /\ boxStop' = Deferred /\ boxStarts' = FALSE
            /\ job' = IF Deferred THEN Waits("check") ELSE Ends("failed")
       [] OTHER ->
            /\ boxStop' = FALSE /\ UNCHANGED <<boxStarts, boxTold>>
            /\ job' = IF boxTold.deferred THEN To("check") ELSE Ends("failed")
  /\ UNCHANGED <<box, boxRuns, usesTun, stamped, fresh, ghost>>

(* The configuration is checked; the failure is shown at last.               *)
Checked ==
  /\ job.pc = "check"
  /\ errs' = errs + 1 /\ boxTold' = [boxTold EXCEPT !.deferred = FALSE] /\ job' = Ends("failed")
  /\ UNCHANGED <<box, boxRuns, boxStarts, boxStop, usesTun, stamped, fresh, hangs, ghost>> /\ Healthy

(* --- The core -------------------------------------------------------------- *)

(* _on_error and _on_finished.  A core that was killed counts as crashed: its *)
(* end is told when nobody is known to have asked for it, as after a stop    *)
(* that ran out of time.                                                     *)
BoxEnds ==
  /\ \/ box.proc = "dying" /\ Healthy
     \/ box.proc = "alive" /\ Fault
  /\ box' = [box EXCEPT !.proc = "none"]
  /\ boxStop' = FALSE /\ boxRuns' = FALSE /\ usesTun' = FALSE /\ boxStarts' = FALSE
  /\ IF boxStarts /\ ~boxStop THEN Report /\ UNCHANGED errs
     ELSE IF (boxRuns \/ box.proc = "dying") /\ ~boxStop /\ ~boxTold.runtime
     THEN boxTold' = [boxTold EXCEPT !.runtime = TRUE] /\ errs' = errs + 1
     ELSE UNCHANGED <<boxTold, errs>>
  /\ IF box.tun THEN fresh' = TRUE /\ stamped' = FALSE ELSE UNCHANGED <<fresh, stamped>>
  /\ UNCHANGED <<job, hangs, ghost>>

GapPasses ==
  /\ fresh /\ fresh' = FALSE
  /\ UNCHANGED <<box, boxRuns, boxStarts, boxStop, usesTun, stamped, boxTold, job, errs, hangs, ghost>> /\ Healthy

BoxStep == Written \/ Orphans \/ Gap \/ Yes \/ ProbeProxy \/ ProbeTun \/ Reuse \/ BoxStopped
           \/ Released \/ Checked

BoxNext == StartBox \/ StopBox \/ NoLongerWanted \/ KillNow \/ BoxStep \/ ProbeYes \/ Stuck
           \/ BoxEnds \/ GapPasses

(* `sing-box check` of a TUN configuration builds the adapter of the tunnel: *)
(* it runs once the core is gone.  Only a stop that ran out of time lets it  *)
(* run beside a core, one that has been killed and has not ended.            *)
CheckAlone == job.pc = "check" => Ended \/ (hangs > 0 /\ box.proc = "dying")

(* A start, or a session, ends with one message, however many ways it fails; *)
(* each stop that runs out of time in between adds two at the most.          *)
OneFailureTold == errs <= 1 + 2 * hangs

(* A start that fails while it is still wanted says why, and so does a stop  *)
(* that runs out of time.                                                    *)
FailureTold ==
  job.pc = "idle" /\ (job.result = "stuck" \/ (job.result = "failed" /\ job.wanted)) => errs > 0

(* What is declared running is a process, unless the probe's answer came     *)
(* after its end.                                                            *)
RunsAlive == boxRuns /\ ~ghost => ~Ended

FirstTun == box'.tun /\ box'.proc = "alive" /\ box.proc # "alive" /\ job.pc = "gap"

(* After a TUN that a stop took down a new one keeps the gap.                *)
StoppedGapKept == [][FirstTun => ~(fresh /\ stamped)]_boxVars

(* A new TUN is never started within the gap after the end of the last one.  *)
TunGap == [][FirstTun => ~fresh]_boxVars

(* A start ends.                                                             *)
BoxStartEnds == job.pc = "write" ~> job.pc = "idle"

BoxFairness ==
  WF_boxVars(BoxStep) /\ WF_boxVars(BoxEnds /\ box.proc = "dying") /\ WF_boxVars(GapPasses)

BoxSpec == BoxInit /\ [][BoxNext]_boxVars /\ BoxFairness

(* One core at a time, one message for a failure, and the gap after a        *)
(* stopped TUN.                                                              *)
SingboxSafe ==
  [](SingboxTypeOK /\ CheckAlone /\ OneFailureTold /\ FailureTold /\ RunsAlive) /\ StoppedGapKept
=============================================================================
