------------------------------ MODULE FileSwap ------------------------------
(* The update of the program's own files: zapret_update/swap.py, the order   *)
(* of steps of zapret_update/apply.py, the rescue task of rescue.py and the  *)
(* recovery at program start (updates/auto_update.py).  Files are renamed    *)
(* one at a time, and each rename is written to a journal on disk, so that   *)
(* an update that fails, or is cut off, is undone from the journal.          *)
EXTENDS Naturals, FiniteSets

CONSTANTS
  File,        \* files of the program that differ between the two versions
  Exe,         \* the one the program is started from
  Installed,   \* [File -> Content]: the installed version
  Release,     \* [File -> Content]: the new version
  Fault,       \* which failures happen in the instance
  MaxFaults,   \* bound: failures in a behaviour
  MaxRuns      \* bound: starts of the installer

(* What a file holds; "other" is a copy put there by a reinstallation.       *)
Content == {"none", "prev", "next", "other"}
Empty   == [f \in File |-> "none"]

(* A journal record: the file moved out of the program, or the new one moved *)
(* in, with the signature it had then.                                       *)
Ways  == {"out", "in"}
Entry == [file : File, way : Ways, sig : Content]

Faults == {"lock", "save", "start", "journal", "reinstall",
           "crash", "torn", "discard", "rescue", "registry"}

ASSUME FileSwapAssumption ==
  /\ Exe \in File
  /\ Installed \in [File -> {"none", "prev"}]
  /\ Release \in [File -> {"none", "next"}]
  /\ Fault \subseteq Faults
  /\ MaxFaults \in Nat
  /\ MaxRuns \in Nat

ROLLBACK_ATTEMPTS == 4

VARIABLES
  pc,         \* how far the installer or a recovery is; "off": neither runs
  who,        \* who undoes the journal
  app,        \* the program's files
  old,        \* <work>/old: what was moved out
  new,        \* <work>/new: what is to be moved in
  saved,      \* journal.json exists
  disk,       \* its records
  mem,        \* FileSwap._journal
  last,       \* the move made last
  extras,     \* files only the old version has, still to be moved out
  incoming,   \* files still to be moved in
  todo,       \* undo: records not looked at yet
  remaining,  \* undo: records to be repeated later
  tries,      \* rollbacks attempted by the installer
  armed,      \* the RunOnce rescue task is registered
  insured,    \* history: the registry took whatever the update asked of the task
  base,       \* history: the program before the updates, or as the last good one left it
  verified,   \* history: the new version has started
  faults,     \* failures so far
  runs        \* starts of the installer so far

fileVars    == <<app, old, new>>
journalVars == <<saved, disk, mem>>
commitVars  == <<last, extras, incoming>>
undoVars    == <<who, todo, remaining, tries>>
historyVars == <<base, verified, runs>>

vars == <<pc, fileVars, journalVars, commitVars, undoVars, armed, insured, historyVars, faults>>

NoEntry == [file |-> Exe, way |-> "out", sig |-> "none"]
Phases  == {"off", "stage", "staged", "commit", "moved", "pair", "start", "undo", "discard"}
Undoers == {"none", "installer", "prepare", "rescue", "app"}

Out(f, c) == [file |-> f, way |-> "out", sig |-> c]
In(f, c)  == [file |-> f, way |-> "in", sig |-> c]

(* The type of every variable.                                               *)
FlagTypes == saved \in BOOLEAN /\ armed \in BOOLEAN /\ insured \in BOOLEAN /\ verified \in BOOLEAN

DataTypes ==
  /\ pc \in Phases /\ who \in Undoers
  /\ app \in [File -> Content] /\ old \in [File -> Content] /\ new \in [File -> Content]
  /\ disk \subseteq Entry /\ mem \subseteq Entry
  /\ last \in Entry /\ extras \subseteq File /\ incoming \subseteq File
  /\ todo \subseteq Entry /\ remaining \subseteq Entry /\ tries \in 0..ROLLBACK_ATTEMPTS
  /\ base \in [File -> Content]
  /\ faults \in 0..MaxFaults /\ runs \in 0..MaxRuns

TypeOK == FlagTypes /\ DataTypes

Init ==
  /\ pc = "off" /\ who = "none"
  /\ app = Installed /\ old = Empty /\ new = Empty
  /\ saved = FALSE /\ disk = {} /\ mem = {}
  /\ last = NoEntry /\ extras = {} /\ incoming = {}
  /\ todo = {} /\ remaining = {} /\ tries = 0
  /\ armed = FALSE /\ insured = TRUE
  /\ base = Installed /\ verified = FALSE
  /\ faults = 0 /\ runs = 0

Fails(f) == f \in Fault /\ faults < MaxFaults /\ faults' = faults + 1

-----------------------------------------------------------------------------
(* Phases shared by the actions.                                             *)

(* Walk the journal j backwards.                                             *)
Undo(by, j) == pc' = "undo" /\ who' = by /\ todo' = j /\ remaining' = {}

(* The installer or the recovery is over, or has been cut off.               *)
Over == /\ pc' = "off" /\ who' = "none" /\ mem' = {} /\ last' = NoEntry
        /\ extras' = {} /\ incoming' = {} /\ todo' = {} /\ remaining' = {} /\ tries' = 0

(* run_apply, `except`: the previous version is brought back.                *)
RollBack(j) == Undo("installer", j) /\ tries' = 1

-----------------------------------------------------------------------------
(* run_apply up to the swap.                                                 *)

(* prepare(): what an earlier attempt in this directory left is undone first.*)
Begin ==
  /\ pc = "off" /\ runs < MaxRuns
  /\ runs' = runs + 1
  /\ IF disk = {}
     THEN pc' = "stage" /\ saved' = FALSE /\ UNCHANGED <<who, todo, remaining>>
     ELSE Undo("prepare", disk) /\ UNCHANGED saved
  /\ UNCHANGED <<fileVars, disk, mem, commitVars, tries, armed, insured, base, verified, faults>>

(* prepare(): changed files are copied to new/, old/ is emptied.             *)
Staged == {f \in File : Release[f] # "none" /\ app[f] # Release[f]}

Stage ==
  /\ pc = "stage"
  /\ pc' = "staged"
  /\ extras' = {f \in File : app[f] # "none" /\ Release[f] = "none"}
  /\ incoming' = Staged
  /\ new' = [f \in File |-> IF f \in Staged THEN Release[f] ELSE "none"]
  /\ old' = Empty
  /\ base' = [f \in File |-> IF verified \/ app[f] = "other" THEN app[f] ELSE base[f]]
  /\ verified' = FALSE
  /\ UNCHANGED <<app, journalVars, last, undoVars, armed, insured, runs, faults>>

(* Mutant of Arm: the rescue is not armed.                                   *)
ArmNothing ==
  /\ pc = "staged"
  /\ pc' = "commit" /\ saved' = TRUE /\ disk' = {}
  /\ UNCHANGED <<fileVars, mem, commitVars, undoVars, armed, insured, historyVars, faults>>

(* The program is closed, the rescue is armed, or cannot be, which is no     *)
(* reason not to update (_arm_rescue), and commit() writes an empty journal. *)
Arm ==
  /\ pc = "staged"
  /\ pc' = "commit" /\ saved' = TRUE /\ disk' = {}
  /\ \/ armed' = TRUE /\ UNCHANGED faults
     \/ Fails("registry") /\ UNCHANGED armed
  /\ insured' = armed'
  /\ UNCHANGED <<fileVars, mem, commitVars, undoVars, historyVars>>

(* The empty journal cannot be written: nothing has moved yet, and the       *)
(* rescue is armed, or could not be.                                         *)
ArmSaveFails ==
  /\ pc = "staged" /\ Fails("save")
  /\ armed' \in BOOLEAN /\ ("registry" \in Fault \/ armed') /\ insured' = armed'
  /\ RollBack(mem)
  /\ UNCHANGED <<fileVars, journalVars, commitVars, historyVars>>

-----------------------------------------------------------------------------
(* commit(): the files of the old version alone go first; a locked one is    *)
(* left behind.                                                              *)
MoveOut(f) ==
  /\ app' = [app EXCEPT ![f] = "none"] /\ old' = [old EXCEPT ![f] = app[f]]
  /\ last' = Out(f, app[f]) /\ pc' = "moved"
  /\ UNCHANGED new

TakeOutExtra(f) ==
  /\ pc = "commit" /\ f \in extras
  /\ extras' = extras \ {f}
  /\ \/ MoveOut(f) /\ UNCHANGED faults
     \/ Fails("lock") /\ UNCHANGED <<pc, fileVars, last>>
  /\ UNCHANGED <<journalVars, incoming, undoVars, armed, insured, historyVars>>

(* A file to be replaced is moved out; a locked one ends the update.         *)
TakeOut(f) ==
  /\ pc = "commit" /\ extras = {} /\ f \in incoming /\ app[f] # "none"
  /\ \/ MoveOut(f) /\ UNCHANGED <<undoVars, faults>>
     \/ Fails("lock") /\ RollBack(mem) /\ UNCHANGED <<fileVars, last>>
  /\ UNCHANGED <<journalVars, extras, incoming, armed, insured, historyVars>>

(* The new file takes its place at once.                                     *)
BringIn(f) ==
  /\ extras = {} /\ f \in incoming /\ app[f] = "none"
  /\ pc = "commit" \/ (pc = "pair" /\ last.file = f)
  /\ \/ /\ app' = [app EXCEPT ![f] = new[f]] /\ new' = [new EXCEPT ![f] = "none"]
        /\ incoming' = incoming \ {f}
        /\ last' = In(f, new[f]) /\ pc' = "moved"
        /\ UNCHANGED <<undoVars, faults>>
     \/ Fails("lock") /\ RollBack(mem) /\ UNCHANGED <<app, new, incoming, last>>
  /\ UNCHANGED <<old, journalVars, extras, armed, insured, historyVars>>

(* _record(): the move made is added to the journal on disk.                 *)
Record ==
  /\ pc = "moved"
  /\ mem' = mem \cup {last}
  /\ \/ /\ saved' = TRUE /\ disk' = mem'
        /\ pc' = IF last.way = "out" /\ last.file \in incoming THEN "pair" ELSE "commit"
        /\ UNCHANGED <<undoVars, faults>>
     \/ Fails("save") /\ RollBack(mem \cup {last}) /\ UNCHANGED <<saved, disk>>
  /\ UNCHANGED <<fileVars, commitVars, armed, insured, historyVars>>

CommitDone ==
  /\ pc = "commit" /\ extras = {} /\ incoming = {}
  /\ pc' = "start"
  /\ UNCHANGED <<fileVars, journalVars, commitVars, undoVars, armed, insured, historyVars, faults>>

(* Mutant of Start: a version is taken for started once its process is.      *)
StartEarly ==
  /\ pc = "start"
  /\ verified' = TRUE
  /\ \/ pc' = "discard" /\ UNCHANGED <<undoVars, faults>>
     \/ Fails("start") /\ RollBack(mem)
  /\ UNCHANGED <<fileVars, journalVars, commitVars, armed, insured, base, runs>>

(* _start_and_verify(): the new version answers, or lives on without one.    *)
Start ==
  /\ pc = "start"
  /\ \/ pc' = "discard" /\ verified' = TRUE /\ UNCHANGED <<undoVars, faults>>
     \/ Fails("start") /\ RollBack(mem) /\ UNCHANGED verified
  /\ UNCHANGED <<fileVars, journalVars, commitVars, armed, insured, base, runs>>

-----------------------------------------------------------------------------
(* _undo(): a record is put back unless its file is gone, is not the one     *)
(* that was moved, or its place is taken.                                    *)
Current(e) == IF e.way = "out" THEN old[e.file] ELSE app[e.file]
Origin(e)  == IF e.way = "out" THEN app[e.file] ELSE new[e.file]

(* Mutant of Foreign: any file of the name is taken for the one moved.       *)
ForeignGone(e) == Current(e) = "none"

Stuck(e)   == e.way = "out" /\ \E r \in remaining : r.file = e.file /\ r.way = "in"
Foreign(e) == Current(e) = "none" \/ Current(e) # e.sig

(* Mutant of Due: the journal is walked in any order.                        *)
DueAny(e) == e \in todo

(* The journal is walked backwards: what came in leaves before what it       *)
(* replaced returns.                                                         *)
Due(e) == e \in todo /\ (e.way = "out" => ~\E r \in todo : r.file = e.file /\ r.way = "in")

undoFrame == UNCHANGED <<pc, journalVars, commitVars, who, tries, armed, insured, historyVars>>

(* Mutant of UndoSkip: a file whose place is taken is waited for.            *)
UndoSkipForeign(e) ==
  /\ pc = "undo" /\ Due(e)
  /\ Foreign(e)
  /\ todo' = todo \ {e}
  /\ UNCHANGED <<fileVars, remaining, faults>>
  /\ undoFrame

UndoSkip(e) ==
  /\ pc = "undo" /\ Due(e)
  /\ Foreign(e) \/ Origin(e) # "none"
  /\ todo' = todo \ {e}
  /\ remaining' = IF ~Foreign(e) /\ Stuck(e) THEN remaining \cup {e} ELSE remaining
  /\ UNCHANGED <<fileVars, faults>>
  /\ undoFrame

UndoMove(e) ==
  /\ pc = "undo" /\ Due(e)
  /\ ~Foreign(e) /\ Origin(e) = "none"
  /\ todo' = todo \ {e}
  /\ \/ /\ IF e.way = "out"
           THEN /\ app' = [app EXCEPT ![e.file] = old[e.file]]
                /\ old' = [old EXCEPT ![e.file] = "none"]
                /\ UNCHANGED new
           ELSE /\ new' = [new EXCEPT ![e.file] = app[e.file]]
                /\ app' = [app EXCEPT ![e.file] = "none"]
                /\ UNCHANGED old
        /\ UNCHANGED <<remaining, faults>>
     \/ Fails("lock") /\ remaining' = remaining \cup {e} /\ UNCHANGED fileVars
  /\ undoFrame

UndoEnds(by) == pc = "undo" /\ who = by /\ todo = {}

(* rollback() and the attempts of _recover(): what did not return stays in   *)
(* the journal, and the rescue stays armed.                                  *)
RolledBack ==
  /\ UndoEnds("installer")
  /\ saved' = TRUE /\ disk' = remaining
  /\ \/ remaining = {} /\ pc' = "discard" /\ mem' = {} /\ UNCHANGED <<commitVars, undoVars>>
     \/ /\ remaining # {} /\ tries < ROLLBACK_ATTEMPTS
        /\ Undo("installer", remaining) /\ tries' = tries + 1 /\ mem' = remaining
        /\ UNCHANGED commitVars
     \/ remaining # {} /\ tries = ROLLBACK_ATTEMPTS /\ Over
  /\ UNCHANGED <<fileVars, armed, insured, historyVars, faults>>

(* recover() inside prepare(): leftovers end the attempt, whose own journal  *)
(* is empty.                                                                 *)
LeftoversUndone ==
  /\ UndoEnds("prepare")
  /\ disk' = remaining /\ saved' = (remaining # {}) /\ mem' = {}
  /\ IF remaining = {} THEN pc' = "stage" /\ UNCHANGED undoVars
                       ELSE RollBack({})
  /\ UNCHANGED <<fileVars, commitVars, armed, insured, historyVars, faults>>

(* Mutant of Recovered: the journal is dropped though something has not      *)
(* returned.                                                                 *)
RecoveredAtOnce ==
  /\ UndoEnds("rescue") \/ UndoEnds("app")
  /\ disk' = {} /\ saved' = FALSE /\ armed' = FALSE
  /\ Over
  /\ UNCHANGED <<fileVars, insured, historyVars, faults>>

(* The rescue script or recover_interrupted_swaps() ends: the task is there  *)
(* again for what resists, or is no longer needed; the registry may refuse   *)
(* either, and then the task stays as it is.                                 *)
Recovered ==
  /\ UndoEnds("rescue") \/ UndoEnds("app")
  /\ disk' = remaining /\ saved' = (remaining # {})
  /\ \/ /\ armed' = IF remaining = {} THEN FALSE ELSE (who = "rescue" \/ armed)
        /\ UNCHANGED <<insured, faults>>
     \/ /\ Fails("registry") /\ UNCHANGED armed
        /\ insured' = (insured /\ ~(who = "rescue" /\ remaining # {}))
  /\ Over
  /\ UNCHANGED <<fileVars, historyVars>>

(* The journal cannot be written at the end: an exception ends whoever undid *)
(* it; in prepare() the attempt still goes on to its own rollback.           *)
UndoSaveFails ==
  /\ pc = "undo" /\ todo = {} /\ Fails("save")
  /\ IF who = "prepare" THEN mem' = {} /\ RollBack({}) /\ UNCHANGED commitVars ELSE Over
  /\ UNCHANGED <<fileVars, saved, disk, armed, insured, historyVars>>

-----------------------------------------------------------------------------
(* discard(): rmtree of the work directory, its folders first, then the      *)
(* journal; errors are ignored.  The rescue is disarmed after it, or stays.  *)
DiscardFile(f) ==
  /\ pc = "discard" /\ (old[f] # "none" \/ new[f] # "none")
  /\ old' = [old EXCEPT ![f] = "none"] /\ new' = [new EXCEPT ![f] = "none"]
  /\ UNCHANGED <<pc, app, journalVars, commitVars, undoVars, armed, insured, historyVars, faults>>

DiscardJournal ==
  /\ pc = "discard" /\ old = Empty /\ new = Empty
  /\ \/ saved' = FALSE /\ disk' = {} /\ armed' = FALSE /\ UNCHANGED faults
     \/ Fails("journal") /\ armed' = FALSE /\ UNCHANGED <<saved, disk>>
     \/ Fails("registry") /\ saved' = FALSE /\ disk' = {} /\ UNCHANGED armed
  /\ Over
  /\ UNCHANGED <<fileVars, insured, historyVars>>

-----------------------------------------------------------------------------
(* While no installer runs.                                                  *)

(* Somebody logs on: Windows removes the task and runs the script.           *)
Rescue ==
  /\ pc = "off" /\ armed
  /\ armed' = FALSE
  /\ IF saved THEN Undo("rescue", disk) ELSE UNCHANGED <<pc, who, todo, remaining>>
  /\ UNCHANGED <<fileVars, journalVars, commitVars, tries, insured, historyVars, faults>>

(* The program starts and finds a journal ten minutes old.                   *)
AppRecovers ==
  /\ pc = "off" /\ app[Exe] # "none" /\ saved
  /\ IF disk = {} THEN saved' = FALSE /\ UNCHANGED <<pc, who, todo, remaining>>
                  ELSE Undo("app", disk) /\ UNCHANGED saved
  /\ UNCHANGED <<fileVars, disk, mem, commitVars, tries, armed, insured, historyVars, faults>>

(* Mutant of Purge: the journal is not asked.                                *)
PurgeAll ==
  /\ pc = "off" /\ app[Exe] # "none"
  /\ old # Empty \/ new # Empty \/ saved
  /\ old' = Empty /\ new' = Empty /\ saved' = FALSE /\ disk' = {}
  /\ UNCHANGED <<pc, app, mem, commitVars, undoVars, armed, insured, historyVars, faults>>

(* purge_update_leftovers(): an old work directory with nothing pending.     *)
Purge ==
  /\ pc = "off" /\ app[Exe] # "none" /\ disk = {}
  /\ old # Empty \/ new # Empty \/ saved
  /\ old' = Empty /\ new' = Empty /\ saved' = FALSE
  /\ UNCHANGED <<pc, app, disk, mem, commitVars, undoVars, armed, insured, historyVars, faults>>

(* The user unpacks a release over the program.                              *)
Reinstall ==
  /\ pc = "off" /\ Fails("reinstall")
  /\ app' = [f \in File |-> IF Release[f] # "none" THEN "other" ELSE app[f]]
  /\ UNCHANGED <<pc, old, new, journalVars, commitVars, undoVars, armed, insured, historyVars>>

(* Power is lost, or the process is killed: between a rename and its record, *)
(* in the cleanup of a successful update, in the rescue, or elsewhere.       *)
CrashKind == CASE pc = "moved"                -> "torn"
               [] pc = "discard" /\ verified  -> "discard"
               [] pc = "undo" /\ who = "rescue" -> "rescue"
               [] OTHER                       -> "crash"

Crash ==
  /\ pc # "off" /\ Fails(CrashKind)
  /\ Over
  /\ UNCHANGED <<fileVars, saved, disk, armed, insured, historyVars>>

-----------------------------------------------------------------------------
CommitStep == \/ \E f \in File : TakeOutExtra(f) \/ TakeOut(f) \/ BringIn(f)
              \/ Record \/ CommitDone \/ Start

UndoStep == \/ \E e \in todo : UndoSkip(e) \/ UndoMove(e)
            \/ RolledBack \/ LeftoversUndone \/ Recovered \/ UndoSaveFails

DiscardStep == (\E f \in File : DiscardFile(f)) \/ DiscardJournal

Installer == Stage \/ Arm \/ ArmSaveFails \/ CommitStep \/ UndoStep \/ DiscardStep

Next == Begin \/ Installer \/ Rescue \/ AppRecovers \/ Purge \/ Reinstall \/ Crash

Spec == Init /\ [][Next]_vars

(* A process that runs goes on to its end, and some day somebody logs on and *)
(* starts the program.                                                       *)
Fairness == WF_vars(Installer) /\ WF_vars(Rescue) /\ WF_vars(AppRecovers)

FairSpec == Spec /\ Fairness

-----------------------------------------------------------------------------
(* What the update of the program's files promises, over FileSwap.           *)

(* Nothing runs and nothing is left to undo.                                 *)
Settled == pc = "off" /\ disk = {}

Unpacked(f) == app[f] = "other"      \* put there by a reinstallation

(* The last copy of a file of the previous version is not lost before the    *)
(* new version has started (swap.py 17-19).                                  *)
LastCopyKept ==
  ~verified => \A f \in File : base[f] # "none" =>
                 app[f] = base[f] \/ old[f] = base[f] \/ Unpacked(f)

(* An update that did not end with the new version running leaves the        *)
(* program exactly as it was, whatever failed and however often (run_apply:  *)
(* "on any error the previous version is returned").                         *)
Restored == Settled /\ ~verified => \A f \in File : app[f] = base[f] \/ Unpacked(f)

(* The program is never left with files of two versions.                     *)
Whole == \/ \A f \in File : app[f] = base[f]
         \/ \A f \in File : Release[f] # "none" => app[f] = Release[f]
         \/ \A f \in File : Release[f] # "none" => Unpacked(f)
NeverMixed == Settled => Whole

(* A program without its exe cannot recover itself: the exe lies beside the  *)
(* journal that puts it back, and the rescue is armed, wherever the registry *)
(* took it.                                                                  *)
ExeOrRescue ==
  pc = "off" /\ app[Exe] = "none" =>
    /\ old[Exe] = base[Exe] /\ saved /\ Out(Exe, base[Exe]) \in disk
    /\ armed \/ ~insured

(* Files unpacked by the user are not taken away by a late recovery.         *)
ReinstallKept ==
  [][pc # "commit" => \A f \in File : Unpacked(f) => app'[f] = app[f]]_vars

(* An update cut off between the two exes whose rescue could not be armed:   *)
(* nothing of the program can start, and nobody is told to put it back.      *)
Orphaned == pc = "off" /\ app[Exe] = "none" /\ ~armed

(* Every other update settles: it ends, or is undone at the next logon.      *)
Settles == ~Settled ~> (Settled \/ Orphaned)

(* Seen from outside, the program changes version as a whole, keeps a new    *)
(* one only after it has started, and does not stay in between.              *)
Version == IF ~Settled THEN "between"
           ELSE IF \A f \in File : app[f] = base[f] THEN "prev"
           ELSE IF \A f \in File : Release[f] # "none" => app[f] = Release[f] THEN "next"
           ELSE "mixed"

Update == INSTANCE AtomicInstall WITH version <- Version, healthy <- verified, orphaned <- Orphaned
Atomic == Update!Spec

(* There is a program to run at every moment, of one version, or somebody    *)
(* left to put it back.                                                      *)
Runnable == NeverMixed /\ ExeOrRescue

(* --- The inductive invariant -------------------------------------------- *)
(* Why LastCopyKept and Restored hold: the inductive invariant behind them.  *)

(* The journal is written after every move, and the installer is not begun   *)
(* again over files that resist its recovery.  Each exclusion is one of the  *)
(* counterexamples the runs show.                                            *)
SafeFaults ==
  /\ "torn" \notin Fault /\ "save" \notin Fault
  /\ MaxRuns <= 1 \/ "lock" \notin Fault

Journalled(e) == e \in disk \/ (pc = "moved" /\ last = e)

(* The journal on disk, or the move about to be added to it, holds the       *)
(* record; a recovery under way has not given it up.                         *)
Tracked(e) ==
  /\ Journalled(e)
  /\ pc = "undo" => e \in todo \cup remaining

(* A file that is not what it was can be put back: the old one lies in old/, *)
(* the new one can be taken out, and both are in the journal.                *)
Returnable(f) ==
  app[f] # base[f] /\ ~Unpacked(f) =>
    /\ base[f] # "none" => old[f] = base[f] /\ Tracked(Out(f, base[f]))
    /\ app[f] # "none" => /\ app[f] = Release[f] /\ new[f] = "none"
                          /\ Tracked(In(f, Release[f]))

(* A file only the new version has leaves nothing in old/.                   *)
NothingOld(f) == base[f] = "none" => old[f] = "none"

(* Only new files are recorded as moved in.                                  *)
OnlyNewIn(f) ==
  \A e \in Entry : Journalled(e) /\ e.file = f /\ e.way = "in"
                     => e.sig = Release[f] /\ Release[f] # base[f]

(* What commit() has still to do is untouched.                               *)
CommitPhases == {"staged", "commit", "moved", "pair"}
Untouched(f) ==
  pc \in CommitPhases =>
    /\ f \in extras => app[f] = base[f]
    /\ f \in incoming => /\ new[f] = Release[f]
                         /\ Release[f] # "none" /\ Release[f] # base[f]
                         /\ app[f] \in {base[f], "none"}

FileInv(f) == Returnable(f) /\ NothingOld(f) /\ OnlyNewIn(f) /\ Untouched(f)

(* The journal in memory is the one on disk until it is undone.              *)
SameJournal ==
  /\ pc \in {"commit", "moved", "pair", "start"} => mem = disk
  /\ pc \in {"stage", "staged"} => disk = {} /\ mem = {}
  /\ pc = "off" => mem = {}
  /\ pc = "discard" /\ ~verified => disk = {}
  /\ pc = "undo" => todo \subseteq disk /\ remaining \subseteq disk
  /\ pc = "undo" /\ who = "prepare" => mem = {}

(* prepare() is never left with a file it could not bring back.              *)
NoneLeftBehind ==
  /\ who = "prepare" => "lock" \notin Fault /\ remaining = {}
  /\ runs = 0 => disk = {} /\ pc = "off" /\ ~armed

IInv ==
  /\ TypeOK
  /\ SameJournal
  /\ NoneLeftBehind
  /\ ~verified => \A f \in File : FileInv(f)

(* --- Why Runnable holds as well ------------------------------------------ *)

(* Besides, nothing cuts off the cleanup of a successful update or the       *)
(* rescue, and the journal can be deleted; the exe is a file of both         *)
(* versions.  The registry may refuse the rescue.                            *)
CleanFaults ==
  /\ SafeFaults /\ Fault \cap {"journal", "discard", "rescue"} = {}
  /\ Installed[Exe] = "prev" /\ Release[Exe] = "next"

AllNew      == \A f \in File : Release[f] # "none" => app[f] = Release[f]
AllUnpacked == \A f \in File : Release[f] # "none" => Unpacked(f)

(* commit() has brought in whatever it no longer has to.                     *)
Brought ==
  /\ pc \in CommitPhases \cup {"start"} =>
       \A f \in File : /\ f \in extras => Release[f] = "none"
                       /\ Release[f] # "none" /\ f \notin incoming => app[f] = Release[f]
                       /\ Unpacked(f) => base[f] = "other"
  /\ pc = "start" => incoming = {}

(* A reinstallation since the last update began replaced the whole program;  *)
(* nothing of it was moved out.                                              *)
Reinstalled ==
  ~verified => /\ \A f \in File : old[f] = "other" => base[f] = "other"
               /\ (\E f \in File : Unpacked(f) /\ base[f] # "other") => AllUnpacked

(* A version that has started is whole, and once cleaned up nothing is       *)
(* journalled against it.                                                    *)
Stays ==
  verified => /\ pc \in {"discard", "off", "stage"} /\ (AllNew \/ AllUnpacked)
              /\ pc # "discard" => disk = {} /\ ~saved

(* Whoever could need the rescue has it, if the registry took it.            *)
Guarded ==
  /\ disk # {} \/ pc \in {"commit", "moved", "pair", "start"}
       => armed \/ ~insured \/ (pc = "undo" /\ who = "rescue")
  /\ disk # {} => saved
  /\ base[Exe] # "none"

RunInv == IInv /\ Brought /\ Reinstalled /\ Stays /\ Guarded
=============================================================================
