--------------------------- MODULE InstallHandoff ---------------------------
(* The installer takes over from the running program: it shows its window,   *)
(* says that it is there, closes the program, replaces its files, starts the *)
(* new version under a lock that keeps that window back, and starts the old  *)
(* version again when the new one dies (xray_fluent/updates/installer/,      *)
(* zapret_update/apply.py, handoff.py, main.py).  What happens to the files  *)
(* one by one is FileSwap's; here they are "old", "new" or "mixed".          *)
EXTENDS Naturals

CONSTANT MaxSetbacks   \* what goes wrong in one behaviour

VARIABLES
  app,        \* the program that asked: "awaits" | "kills" | "stays" | "leaves" | "gone"
  installer,  \* the step the installer is at, "killed", "broken" or "gone"
  told,       \* its ready marker is on the disk
  hold,       \* the lock of the window, and the answer of the program under it
  prog,       \* the program the installer started last
  win,        \* the window of the update
  files,      \* the files of the program, their journal, the rescue, and history:
              \* the new version undid its own installation, an undoing broke off
  why,        \* the failure left for the server, "fatal" when a person was told
  setbacks

handoffVars == <<app, installer, told, hold, prog, win, files, why, setbacks>>

NoProgram == [is |-> "none", at |-> "off", claimed |-> FALSE, looked |-> FALSE, passed |-> FALSE]
Booting(is) == [is |-> is, at |-> "boots", claimed |-> FALSE, looked |-> FALSE, passed |-> FALSE]
Living == {"boots", "waits", "shown"}

(* Whatever runs from the folder of the program is ended.                    *)
EndedUnder(p) == [p EXCEPT !.at = IF @ \in Living THEN "dead" ELSE @]
(* A file that resists is told apart from another failure by who holds it.   *)
Resists == {"lock", "swap"}

HandoffInit ==
  /\ app = "awaits" /\ installer = "starts" /\ told = FALSE
  /\ hold = [held |-> FALSE, ready |-> FALSE, late |-> FALSE]
  /\ prog = NoProgram
  /\ win = [is |-> "none", finished |-> FALSE, timer |-> "none"]
  /\ files = [are |-> "old", journal |-> FALSE, armed |-> FALSE, undone |-> FALSE, cut |-> FALSE]
  /\ why = "none" /\ setbacks = 0

Setback == setbacks < MaxSetbacks /\ setbacks' = setbacks + 1

(* --- The program that asked ---------------------------------------------- *)

(* _await_installer: it leaves once the installer is there, stays when the   *)
(* installer has ended, and kills one that stays silent.                     *)
AwaitReady ==
  /\ app = "awaits" /\ told /\ app' = "leaves"
  /\ UNCHANGED <<installer, told, hold, prog, win, files, why, setbacks>>
AwaitDead ==
  /\ app = "awaits" /\ ~told /\ installer = "broken" /\ app' = "stays"
  /\ UNCHANGED <<installer, told, hold, prog, win, files, why, setbacks>>
AwaitOver ==
  /\ app = "awaits" /\ ~told /\ installer \in {"starts", "opened"} /\ app' = "kills"
  /\ UNCHANGED <<installer, told, hold, prog, win, files, why, setbacks>>
NoKill ==
  /\ app = "kills" /\ app' = "stays"
  /\ UNCHANGED <<installer, told, hold, prog, win, files, why, setbacks>>
Kill ==
  /\ app = "kills" /\ app' = "stays"
  /\ installer' = "killed" /\ win' = [win EXCEPT !.is = "closed"]
  /\ UNCHANGED <<told, hold, prog, files, why, setbacks>>
AppExits ==
  /\ app = "leaves" /\ app' = "gone"
  /\ UNCHANGED <<installer, told, hold, prog, win, files, why, setbacks>>

(* --- The installer -------------------------------------------------------- *)

(* The window comes first, the marker after it; without a window (its        *)
(* construction failed) the installation goes on all the same.               *)
OpenWindow ==
  /\ installer = "starts"
  /\ \/ installer' = "opened" /\ win' = [win EXCEPT !.is = "open"] /\ UNCHANGED setbacks
     \/ Setback /\ installer' = "opened" /\ UNCHANGED win
     \/ Setback /\ installer' = "broken" /\ UNCHANGED win
  /\ UNCHANGED <<app, told, hold, prog, files, why>>
ConfirmStart ==
  /\ installer = "opened" /\ installer' = "prepares" /\ told' = TRUE
  /\ UNCHANGED <<app, hold, prog, win, files, why, setbacks>>

(* run_apply, step by step; a failure is named by the step it met.           *)
PrepareFiles ==
  /\ installer = "prepares"
  /\ \/ installer' = "closes" /\ UNCHANGED <<why, setbacks>>
     \/ Setback /\ installer' = "undoes" /\ why' = "prep"
  /\ UNCHANGED <<app, told, hold, prog, win, files>>

(* The program gets its time to leave and is then ended by its pid, whatever *)
(* it is doing; one that outlives that is noted in the log, and the work     *)
(* goes on.                                                                  *)
CloseApp ==
  /\ installer = "closes"
  /\ \/ installer' = "swaps" /\ app' = "gone" /\ UNCHANGED <<why, setbacks>>
     \/ Setback /\ installer' = "swaps" /\ UNCHANGED <<app, why>>
     \/ Setback /\ installer' = "undoes" /\ why' = "close" /\ UNCHANGED app
  /\ UNCHANGED <<told, hold, prog, win, files>>

(* The rescue is armed, or is not (no rights); a file that resists leaves    *)
(* the replacement half done.                                                *)
SwapFiles ==
  /\ installer = "swaps"
  /\ \/ /\ installer' = "launches"
        /\ files' = [files EXCEPT !.are = "new", !.journal = TRUE, !.armed = TRUE] /\ UNCHANGED <<why, setbacks>>
     \/ /\ Setback /\ installer' = "launches"
        /\ files' = [files EXCEPT !.are = "new", !.journal = TRUE] /\ UNCHANGED why
     \/ /\ Setback /\ installer' = "undoes" /\ why' \in Resists
        /\ \E armed \in BOOLEAN :
             files' = [files EXCEPT !.are = "mixed", !.journal = TRUE, !.armed = armed]
  /\ UNCHANGED <<app, told, hold, prog, win>>

Armed(is) == /\ hold' = [hold EXCEPT !.held = TRUE, !.ready = FALSE] /\ prog' = Booting(is)
Launch ==
  /\ installer = "launches"
  /\ \/ installer' = "verifies" /\ Armed("new") /\ UNCHANGED <<why, setbacks>>
     \/ Setback /\ installer' = "undoes" /\ why' = "crash" /\ UNCHANGED <<hold, prog>>
  /\ UNCHANGED <<app, told, win, files>>

(* _wait_until_started: what died has failed; what answered, or what outlived *)
(* the wait, has started.                                                    *)
StartFails ==
  /\ installer = "verifies" /\ prog.at = "dead" /\ installer' = "undoes" /\ why' = "crash"
  /\ UNCHANGED <<app, told, hold, prog, win, files, setbacks>>
StartHolds ==
  /\ installer = "verifies" /\ prog.at # "dead" /\ installer' = "cleans"
  /\ prog' = [prog EXCEPT !.passed = TRUE]
  /\ UNCHANGED <<app, told, hold, win, files, why, setbacks>>

(* The window hears the last stage: put away, it leaves at once; else it     *)
(* stays for its time, says goodbye and closes.                              *)
Finished(w) ==
  CASE w.is = "away" -> [w EXCEPT !.finished = TRUE, !.is = "closed"]
    [] w.is = "open" -> [w EXCEPT !.finished = TRUE, !.timer = "phrase"]
    [] OTHER -> w
Clean ==
  /\ installer = "cleans" /\ installer' = "ends" /\ win' = Finished(win)
  /\ \/ files' = [files EXCEPT !.journal = FALSE, !.armed = FALSE] /\ UNCHANGED setbacks
     \/ Setback /\ files' = [files EXCEPT !.journal = FALSE]
  /\ UNCHANGED <<app, told, hold, prog, why>>

(* _recover: neither version should run while the files go back, but what    *)
(* outlives its end does not stop the undoing.                               *)
Undo ==
  /\ installer = "undoes" /\ installer' = "restores"
  /\ \/ app' = "gone" /\ prog' = EndedUnder(prog) /\ UNCHANGED setbacks
     \/ Setback /\ UNCHANGED <<app, prog>>
  /\ UNCHANGED <<told, hold, win, files, why>>

(* rollback, discard and disarm: the rescue may resist; files that resist    *)
(* keep their journal and their rescue, and the server is told.  A journal   *)
(* that cannot be written breaks the whole off: nothing is started, and      *)
(* nobody is told more than the log and the code of the first failure.       *)
Restore ==
  /\ installer = "restores"
  /\ \/ /\ installer' = "relaunches"
        /\ files' = [files EXCEPT !.are = "old", !.journal = FALSE, !.armed = FALSE]
        /\ UNCHANGED <<why, win, setbacks>>
     \/ /\ Setback /\ installer' = "relaunches"
        /\ files' = [files EXCEPT !.are = "old", !.journal = FALSE] /\ UNCHANGED <<why, win>>
     \/ /\ Setback /\ files.journal /\ installer' = "relaunches"
        /\ files' = [files EXCEPT !.are = "mixed"] /\ why' = "rback" /\ UNCHANGED win
     \/ /\ Setback /\ installer' = "ends" /\ win' = Finished(win) /\ UNCHANGED why
        /\ \E are \in IF files.journal THEN {"old", "mixed"} ELSE {"old"} :
             files' = [files EXCEPT !.are = are, !.cut = TRUE]
  /\ UNCHANGED <<app, told, hold, prog>>
Relaunch ==
  /\ installer = "relaunches"
  /\ \/ installer' = "reverifies" /\ Armed("old") /\ UNCHANGED <<why, win, setbacks>>
     \/ Setback /\ installer' = "ends" /\ why' = "fatal" /\ win' = Finished(win) /\ UNCHANGED <<hold, prog>>
  /\ UNCHANGED <<app, told, files>>
Reverify ==
  /\ installer = "reverifies" /\ installer' = "ends" /\ win' = Finished(win)
  /\ prog' = [prog EXCEPT !.passed = prog.at # "dead"]
  /\ why' = IF prog.at = "dead" THEN "fatal" ELSE why
  /\ UNCHANGED <<app, told, hold, files, setbacks>>

(* main: the lock goes when the window is closed and the work is over.       *)
Leaves ==
  /\ installer = "ends" /\ win.is \in {"none", "closed"} /\ installer' = "gone"
  /\ hold' = [hold EXCEPT !.held = FALSE, !.ready = FALSE]
  /\ UNCHANGED <<app, told, prog, win, files, why, setbacks>>

(* The process may be ended at any step of its work; amid the files that is  *)
(* FileSwap's.                                                               *)
Breaks ==
  /\ Setback /\ installer \in {"prepares", "closes", "launches", "verifies", "cleans", "undoes", "relaunches",
                             "reverifies", "ends"}
  /\ installer' = "broken" /\ win' = [win EXCEPT !.is = "closed"]
  /\ UNCHANGED <<app, told, hold, prog, files, why>>

(* --- The window ----------------------------------------------------------- *)

PutAwayOnly ==
  /\ win.is = "open" /\ win' = [win EXCEPT !.is = "away"]
  /\ UNCHANGED <<app, installer, told, hold, prog, files, why, setbacks>>
PutAway ==
  /\ win.is = "open" /\ win' = [win EXCEPT !.is = IF win.finished THEN "closed" ELSE "away"]
  /\ UNCHANGED <<app, installer, told, hold, prog, files, why, setbacks>>
CloseWindow ==
  /\ win.is \in {"open", "away"} /\ win.finished /\ win' = [win EXCEPT !.is = "closed"]
  /\ UNCHANGED <<app, installer, told, hold, prog, files, why, setbacks>>
SayFarewell ==
  /\ win.timer = "phrase"
  /\ win' = [win EXCEPT !.timer = IF win.is = "open" THEN "close" ELSE "none"]
  /\ UNCHANGED <<app, installer, told, hold, prog, files, why, setbacks>>
CloseTimer ==
  /\ win.timer = "close" /\ win' = [win EXCEPT !.timer = "none", !.is = "closed"]
  /\ UNCHANGED <<app, installer, told, hold, prog, files, why, setbacks>>

(* --- The program started by the installer --------------------------------- *)

(* Its first window takes the lock from the environment and answers; without *)
(* a lock it shows itself.                                                   *)
Claim ==
  /\ prog.at = "boots"
  /\ prog' = [prog EXCEPT !.claimed = TRUE, !.at = IF hold.held THEN "waits" ELSE "shown"]
  /\ hold' = [hold EXCEPT !.ready = hold.held]
  /\ UNCHANGED <<app, installer, told, win, files, why, setbacks>>
ShowAfterHold ==
  /\ prog.at = "waits" /\ ~hold.held /\ prog' = [prog EXCEPT !.at = "shown"]
  /\ UNCHANGED <<app, installer, told, hold, win, files, why, setbacks>>
ShowAfterWait ==
  /\ prog.at = "waits" /\ hold.held /\ prog' = [prog EXCEPT !.at = "shown"] /\ hold' = [hold EXCEPT !.late = TRUE]
  /\ UNCHANGED <<app, installer, told, win, files, why, setbacks>>

(* Its startup thread looks for a replacement that was cut off: under the    *)
(* lock it does not, but the window may have taken the lock out of the       *)
(* environment by then, and what keeps it from undoing its own installation  *)
(* is the age of the journal, which an installation that hung may reach.     *)
LookForSwap ==
  /\ prog.at \in Living /\ ~prog.looked /\ prog' = [prog EXCEPT !.looked = TRUE]
  /\ \/ UNCHANGED <<files, setbacks>>
     \/ /\ Setback /\ prog.claimed /\ files.journal
        /\ files' = [files EXCEPT !.are = "old", !.journal = FALSE, !.armed = FALSE,
                               !.undone = installer \in {"verifies", "cleans"}]
  /\ UNCHANGED <<app, installer, told, hold, win, why>>
ProgramDies ==
  /\ Setback /\ prog.at \in {"boots", "waits"} /\ prog' = [prog EXCEPT !.at = "dead"]
  /\ UNCHANGED <<app, installer, told, hold, win, files, why>>

HandoffNext ==
  \/ AwaitReady \/ AwaitDead \/ AwaitOver \/ Kill \/ AppExits
  \/ OpenWindow \/ ConfirmStart \/ PrepareFiles \/ CloseApp \/ SwapFiles \/ Launch \/ StartFails \/ StartHolds
  \/ Clean \/ Undo \/ Restore \/ Relaunch \/ Reverify \/ Leaves \/ Breaks
  \/ PutAway \/ CloseWindow \/ SayFarewell \/ CloseTimer
  \/ Claim \/ ShowAfterHold \/ ShowAfterWait \/ LookForSwap \/ ProgramDies

HandoffSpec == HandoffInit /\ [][HandoffNext]_handoffVars

(* --- What must hold -------------------------------------------------------- *)

(* The window of the update and the one of the program it started are on the *)
(* screen together only when the program had waited its longest.             *)
OneWindow == win.is = "open" /\ prog.at = "shown" => hold.late

(* A window that has heard the end still has a way to close: else the        *)
(* installer would never leave, and the program would not show itself.       *)
WindowEnds == win.finished /\ win.is # "closed" => win.timer # "none"

(* When the installer has left, a program runs, or died after it had         *)
(* started, or the person was told that none does.  Only an undoing that     *)
(* broke off leaves without a word.                                          *)
SomethingRuns == installer = "gone" => why = "fatal" \/ prog.at \in Living \/ prog.passed \/ files.cut

(* Files left between two versions keep the journal that can still put them  *)
(* back, and whoever reads the failure is told of them, or at least of the   *)
(* failure that began it; a version that stands leaves no journal, so that a *)
(* rescue that stayed finds nothing to undo.                                 *)
MixedIsKept ==
  /\ files.are = "mixed" => files.journal
  /\ installer \in {"relaunches", "reverifies", "ends", "gone"} /\ files.are = "mixed" =>
       why \in {"rback", "fatal"} \/ (files.cut /\ why # "none")
  /\ installer = "gone" /\ files.are = "new" => ~files.journal

(* A new version under trial does not undo the installation that tries it:   *)
(* what the comment of recover_interrupted_swaps promises.                   *)
TrialStands == ~files.undone

(* A program that said that the update did not start is not closed by an     *)
(* installer that woke up later.                                             *)
HandoffKept == [][app = "stays" => app' = "stays"]_handoffVars

HandoffSafe == OneWindow /\ WindowEnds /\ SomethingRuns /\ MixedIsKept
=============================================================================
