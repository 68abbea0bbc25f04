-------------------------- MODULE FileSwap_proofs --------------------------
(* Proofs about FileSwap, for every set of files and every bound.            *)
EXTENDS FileSwap, TLAPS

(* The initial state has the types.                                          *)
LEMMA InitType == Init => TypeOK
<1> SUFFICES ASSUME Init PROVE TypeOK
  OBVIOUS
<1>1. FlagTypes
  BY Zenon DEF Init, FlagTypes
<1>2. Installed \in [File -> Content] /\ Empty \in [File -> Content]
  BY FileSwapAssumption DEF FileSwapAssumption, Empty, Content
<1>3. NoEntry \in Entry
  BY FileSwapAssumption DEF FileSwapAssumption, NoEntry, Entry, Ways, Content
<1>4. 0 \in 0..MaxFaults /\ 0 \in 0..MaxRuns
  BY FileSwapAssumption DEF FileSwapAssumption
<1> QED
  BY <1>1, <1>2, <1>3, <1>4
  DEF Init, TypeOK, DataTypes, Phases, Undoers, ROLLBACK_ATTEMPTS

(* A failure is counted within its bound.                                    *)
LEMMA FaultCount ==
  ASSUME DataTypes, NEW x, Fails(x)
  PROVE  faults' \in 0..MaxFaults
BY FileSwapAssumption DEF FileSwapAssumption, DataTypes, Fails

(* The records are records.                                                  *)
LEMMA EntryType ==
  ASSUME NEW f \in File, NEW c \in Content
  PROVE  Out(f, c) \in Entry /\ In(f, c) \in Entry
BY DEF Out, In, Entry, Ways

(* Each action preserves the types.                                          *)
LEMMA DataNext == DataTypes /\ [Next]_vars => DataTypes'
<1> SUFFICES ASSUME DataTypes, [Next]_vars PROVE DataTypes'
  OBVIOUS
<1> USE FileSwapAssumption, FaultCount
<1>0. NoEntry \in Entry
  BY DEF FileSwapAssumption, NoEntry, Entry, Ways, Content
<1>1. CASE Begin
  BY <1>1 DEF Begin, Undo, DataTypes, Phases, Undoers, fileVars, commitVars, FileSwapAssumption
<1>2. CASE Stage
  BY <1>2
  DEF Stage, Staged, DataTypes, Phases, Undoers, Empty, Content, fileVars, journalVars, undoVars,
      FileSwapAssumption
<1>3. CASE Arm \/ ArmSaveFails
  BY <1>3
  DEF Arm, ArmSaveFails, RollBack, Undo, DataTypes, Phases, Undoers, fileVars, journalVars,
      commitVars, undoVars, historyVars, FileSwapAssumption, ROLLBACK_ATTEMPTS
<1>4. ASSUME NEW f \in File, TakeOutExtra(f) PROVE DataTypes'
  BY <1>4, EntryType
  DEF TakeOutExtra, MoveOut, DataTypes, Phases, Content, fileVars, journalVars, undoVars,
      historyVars
<1>5. ASSUME NEW f \in File, TakeOut(f) PROVE DataTypes'
  BY <1>5, EntryType
  DEF TakeOut, MoveOut, RollBack, Undo, DataTypes, Phases, Undoers, Content, fileVars,
     journalVars, undoVars, historyVars, ROLLBACK_ATTEMPTS
<1>6. ASSUME NEW f \in File, BringIn(f) PROVE DataTypes'
  BY <1>6, EntryType
  DEF BringIn, RollBack, Undo, DataTypes, Phases, Undoers, Content, journalVars, undoVars,
     historyVars, ROLLBACK_ATTEMPTS
<1>7. CASE Record
  BY <1>7
  DEF Record, RollBack, Undo, DataTypes, Phases, Undoers, fileVars, commitVars, undoVars,
      historyVars,
     ROLLBACK_ATTEMPTS
<1>8. CASE CommitDone
  BY <1>8
  DEF CommitDone, DataTypes, Phases, fileVars, journalVars, commitVars, undoVars, historyVars
<1>9. CASE Start
  BY <1>9
  DEF Start, RollBack, Undo, DataTypes, Phases, Undoers, fileVars, journalVars, commitVars,
      undoVars,
     ROLLBACK_ATTEMPTS
<1>10. ASSUME NEW e \in todo, UndoSkip(e) PROVE DataTypes'
  BY <1>10 DEF UndoSkip, undoFrame, DataTypes, fileVars, journalVars, commitVars, historyVars
<1>11. ASSUME NEW e \in todo, UndoMove(e) PROVE DataTypes'
  <2>1. e \in Entry /\ e.file \in File
    BY DEF DataTypes, Entry
  <2>2. app' \in [File -> Content] /\ old' \in [File -> Content] /\ new' \in [File -> Content]
    BY <1>11, <2>1 DEF UndoMove, DataTypes, fileVars, Content
  <2>3. remaining' \subseteq Entry /\ todo' \subseteq Entry /\ faults' \in 0..MaxFaults
    BY <1>11, <2>1 DEF UndoMove, DataTypes
  <2> QED BY <1>11, <2>2, <2>3 DEF UndoMove, undoFrame, DataTypes, journalVars, commitVars, historyVars
<1>12. CASE RolledBack
  BY <1>12, <1>0
  DEF RolledBack, UndoEnds, Undo, Over, DataTypes, Phases, Undoers, fileVars, commitVars, undoVars,
     historyVars, ROLLBACK_ATTEMPTS
<1>13. CASE LeftoversUndone
  BY <1>13
  DEF LeftoversUndone, UndoEnds, RollBack, Undo, DataTypes, Phases, Undoers, fileVars, commitVars,
      undoVars,
     historyVars, ROLLBACK_ATTEMPTS
<1>14. CASE Recovered
  <2>1. faults' \in 0..MaxFaults
    BY <1>14 DEF Recovered, DataTypes
  <2>2. disk' \subseteq Entry /\ Over /\ UNCHANGED <<fileVars, historyVars>>
    BY <1>14 DEF Recovered, DataTypes
  <2> QED
    BY <1>0, <2>1, <2>2
    DEF Over, DataTypes, Phases, Undoers, fileVars, historyVars, ROLLBACK_ATTEMPTS
<1>15. CASE UndoSaveFails
  BY <1>15, <1>0
  DEF UndoSaveFails, RollBack, Undo, Over, DataTypes, Phases, Undoers, fileVars, commitVars,
     historyVars, ROLLBACK_ATTEMPTS
<1>16. ASSUME NEW f \in File, DiscardFile(f) PROVE DataTypes'
  BY <1>16 DEF DiscardFile, DataTypes, Content, journalVars, commitVars, undoVars, historyVars
<1>17. CASE DiscardJournal
  BY <1>17, <1>0
  DEF DiscardJournal, Over, DataTypes, Phases, Undoers, fileVars, historyVars, ROLLBACK_ATTEMPTS
<1>18. CASE Rescue
  BY <1>18
  DEF Rescue, Undo, DataTypes, Phases, Undoers, fileVars, journalVars, commitVars, historyVars
<1>19. CASE AppRecovers
  BY <1>19 DEF AppRecovers, Undo, DataTypes, Phases, Undoers, fileVars, commitVars, historyVars
<1>20. CASE Purge
  BY <1>20 DEF Purge, Empty, DataTypes, Content, commitVars, undoVars, historyVars
<1>21. CASE Reinstall
  BY <1>21 DEF Reinstall, DataTypes, Content, journalVars, commitVars, undoVars, historyVars
<1>22. CASE Crash
  BY <1>22, <1>0
  DEF Crash, Over, DataTypes, Phases, Undoers, fileVars, historyVars, ROLLBACK_ATTEMPTS
<1>23. CASE UNCHANGED vars
  BY <1>23 DEF vars, DataTypes, fileVars, journalVars, commitVars, undoVars, historyVars
<1> QED
  BY <1>1, <1>2, <1>3, <1>4, <1>5, <1>6, <1>7, <1>8, <1>9, <1>10, <1>11, <1>12, <1>13, <1>14, <1>15,
     <1>16, <1>17, <1>18, <1>19, <1>20, <1>21, <1>22, <1>23
  DEF Next, Installer, CommitStep, UndoStep, DiscardStep

(* The flags are set and cleared, never anything else.                       *)
LEMMA FlagNext == FlagTypes /\ [Next]_vars => FlagTypes'
<1> SUFFICES ASSUME FlagTypes, [Next]_vars PROVE FlagTypes'
  OBVIOUS
<1> USE DEF FlagTypes, journalVars, historyVars
<1>1. CASE Begin
  BY <1>1, Zenon DEF Begin
<1>2. CASE Stage \/ Arm \/ ArmSaveFails \/ Start \/ CommitDone
  BY <1>2, Zenon DEF Stage, Arm, ArmSaveFails, Start, CommitDone
<1>3. CASE Record
  BY <1>3, Zenon DEF Record
<1>4. ASSUME NEW f \in File, TakeOutExtra(f) \/ TakeOut(f) \/ BringIn(f) \/ DiscardFile(f)
      PROVE  FlagTypes'
  BY <1>4, Zenon DEF TakeOutExtra, TakeOut, BringIn, DiscardFile
<1>5. ASSUME NEW e \in todo, UndoSkip(e) \/ UndoMove(e) PROVE FlagTypes'
  BY <1>5, Zenon DEF UndoSkip, UndoMove, undoFrame
<1>6. CASE RolledBack \/ LeftoversUndone
  BY <1>6, Zenon DEF RolledBack, LeftoversUndone
<1>7. CASE Recovered
  BY <1>7, Zenon DEF Recovered
<1>8. CASE UndoSaveFails
  BY <1>8, Zenon DEF UndoSaveFails
<1>9. CASE DiscardJournal
  BY <1>9, Zenon DEF DiscardJournal
<1>10. CASE Rescue \/ AppRecovers
  BY <1>10, Zenon DEF Rescue, AppRecovers
<1>11. CASE Purge \/ Reinstall \/ Crash
  BY <1>11, Zenon DEF Purge, Reinstall, Crash
<1>12. CASE UNCHANGED vars
  BY <1>12, Zenon DEF vars
<1> QED
  BY <1>1, <1>2, <1>3, <1>4, <1>5, <1>6, <1>7, <1>8, <1>9, <1>10, <1>11, <1>12
  DEF Next, Installer, CommitStep, UndoStep, DiscardStep

(* Both together.                                                            *)
LEMMA TypeNext == TypeOK /\ [Next]_vars => TypeOK'
BY DataNext, FlagNext DEF TypeOK

(* Every variable of the update keeps its type.                              *)
THEOREM TypeCorrect == Spec => []TypeOK
<1>1. Init => TypeOK
  BY InitType
<1>2. TypeOK /\ [Next]_vars => TypeOK'
  BY TypeNext
<1> QED BY <1>1, <1>2, PTL DEF Spec

-----------------------------------------------------------------------------
(* The inductive invariant.                                                  *)

(* The journal in memory and on disk agree after every step.                 *)
LEMMA JournalNext ==
  ASSUME SafeFaults, IInv, [Next]_vars
  PROVE  SameJournal' /\ NoneLeftBehind'
<1> USE DEF SameJournal, NoneLeftBehind
<1>0. /\ DataTypes /\ SameJournal /\ NoneLeftBehind
      /\ "torn" \notin Fault /\ "save" \notin Fault /\ (MaxRuns <= 1 \/ "lock" \notin Fault)
      /\ MaxRuns \in Nat
  BY FileSwapAssumption, Zenon DEF IInv, TypeOK, SafeFaults, FileSwapAssumption
<1>1. CASE Begin
  BY <1>0, <1>1 DEF Begin, Undo, DataTypes, fileVars, commitVars
<1>2. CASE Stage
  BY <1>0, <1>2 DEF Stage, journalVars, undoVars
<1>3. CASE Arm \/ ArmSaveFails
  BY <1>0, <1>3 DEF Arm, ArmSaveFails, Fails, undoVars, historyVars
<1>4. ASSUME NEW f \in File, TakeOutExtra(f) PROVE SameJournal' /\ NoneLeftBehind'
  BY <1>0, <1>4 DEF TakeOutExtra, MoveOut, journalVars, undoVars, historyVars
<1>5. ASSUME NEW f \in File, TakeOut(f) PROVE SameJournal' /\ NoneLeftBehind'
  BY <1>0, <1>5 DEF TakeOut, MoveOut, RollBack, Undo, journalVars, undoVars, historyVars
<1>6. ASSUME NEW f \in File, BringIn(f) PROVE SameJournal' /\ NoneLeftBehind'
  BY <1>0, <1>6 DEF BringIn, RollBack, Undo, journalVars, undoVars, historyVars
<1>7. CASE Record
  BY <1>0, <1>7 DEF Record, Fails, fileVars, commitVars, undoVars, historyVars
<1>8. CASE CommitDone
  BY <1>0, <1>8 DEF CommitDone, journalVars, undoVars, historyVars
<1>9. CASE Start
  BY <1>0, <1>9 DEF Start, RollBack, Undo, journalVars, undoVars
<1>10. ASSUME NEW e \in todo, UndoSkip(e) PROVE SameJournal' /\ NoneLeftBehind'
  BY <1>0, <1>10 DEF UndoSkip, Stuck, undoFrame, journalVars, historyVars
<1>11. ASSUME NEW e \in todo, UndoMove(e) PROVE SameJournal' /\ NoneLeftBehind'
  BY <1>0, <1>11 DEF UndoMove, Fails, undoFrame, journalVars, historyVars
<1>12. CASE RolledBack
  BY <1>0, <1>12 DEF RolledBack, UndoEnds, Undo, Over, commitVars, undoVars, historyVars
<1>13. CASE LeftoversUndone
  BY <1>0, <1>13 DEF LeftoversUndone, UndoEnds, undoVars, historyVars
<1>14. CASE Recovered
  <2>1. pc = "undo" /\ Over /\ UNCHANGED historyVars
    BY <1>14, Zenon DEF Recovered, UndoEnds
  <2> QED BY <1>0, <2>1 DEF Over, historyVars
<1>15. CASE UndoSaveFails
  BY <1>0, <1>15 DEF UndoSaveFails, Fails
<1>16. ASSUME NEW f \in File, DiscardFile(f) PROVE SameJournal' /\ NoneLeftBehind'
  BY <1>0, <1>16 DEF DiscardFile, journalVars, undoVars, historyVars
<1>17. CASE DiscardJournal
  BY <1>0, <1>17 DEF DiscardJournal, Over, historyVars
<1>18. CASE Rescue
  <2>1. /\ pc = "off" /\ runs # 0 /\ UNCHANGED <<disk, mem, runs>>
        /\ \/ pc' = "undo" /\ who' = "rescue" /\ todo' = disk /\ remaining' = {}
           \/ UNCHANGED <<pc, who, todo, remaining>>
    BY <1>0, <1>18, Zenon DEF Rescue, Undo, journalVars, historyVars
  <2> QED BY <1>0, <2>1
<1>19. CASE AppRecovers
  BY <1>0, <1>19 DEF AppRecovers, Undo, historyVars
<1>20. CASE Purge \/ Reinstall
  BY <1>0, <1>20 DEF Purge, Reinstall, journalVars, undoVars, historyVars
<1>21. CASE Crash
  BY <1>0, <1>21 DEF Crash, Over, historyVars
<1>22. CASE UNCHANGED vars
  BY <1>0, <1>22 DEF vars, journalVars, undoVars, historyVars
<1> QED
  BY <1>1, <1>2, <1>3, <1>4, <1>5, <1>6, <1>7, <1>8, <1>9, <1>10, <1>11, <1>12, <1>13, <1>14, <1>15,
     <1>16, <1>17, <1>18, <1>19, <1>20, <1>21, <1>22
  DEF Next, Installer, CommitStep, UndoStep, DiscardStep

(* Every file stays returnable after every step, while the new version has   *)
(* not started.                                                              *)
LEMMA FileNext ==
  ASSUME SafeFaults, IInv, [Next]_vars, ~verified', NEW f \in File
  PROVE  FileInv(f)'
<1> USE DEF FileInv, Returnable, NothingOld, OnlyNewIn, Untouched, Tracked, Journalled, Unpacked,
            CommitPhases, Out, In
<1>0. /\ DataTypes /\ SameJournal /\ NoneLeftBehind
      /\ "torn" \notin Fault /\ "save" \notin Fault /\ Release \in [File -> {"none", "next"}]
      /\ ~verified => FileInv(f)
  BY FileSwapAssumption, Zenon DEF IInv, TypeOK, SafeFaults, FileSwapAssumption
<1>00. base[f] \in Content /\ app[f] \in Content /\ old[f] \in Content /\ new[f] \in Content
       /\ Release[f] \in {"none", "next"}
  BY <1>0 DEF DataTypes
<1>1. CASE Stage
  BY <1>0, <1>00, <1>1 DEF Stage, Staged, Empty, SameJournal, DataTypes, journalVars
<1>2. CASE Start
  BY <1>0, <1>00, <1>2 DEF Start, RollBack, Undo, SameJournal, fileVars, journalVars, commitVars
<1> SUFFICES ASSUME ~Stage, ~Start, FileInv(f), UNCHANGED base, ~verified
             PROVE  FileInv(f)'
  <2>1. ~Stage /\ ~Start => UNCHANGED <<base, verified>>
    BY Zenon
    DEF Next, Installer, CommitStep, UndoStep, DiscardStep, Begin, Arm, ArmSaveFails, TakeOutExtra, TakeOut,
       BringIn, Record, CommitDone, UndoSkip, UndoMove, undoFrame, RolledBack, LeftoversUndone, Recovered,
       UndoSaveFails, DiscardFile, DiscardJournal, Rescue, AppRecovers, Purge, Reinstall, Crash,
       historyVars, vars
  <2> QED BY <1>0, <1>1, <1>2, <2>1
<1>3. CASE Begin
  BY <1>0, <1>00, <1>3 DEF Begin, Undo, SameJournal, fileVars, commitVars
<1>4. CASE Arm \/ ArmSaveFails
  BY <1>0, <1>00, <1>4 DEF Arm, ArmSaveFails, Fails, SameJournal, fileVars, commitVars, undoVars
<1>5. ASSUME NEW g \in File, TakeOutExtra(g) PROVE FileInv(f)'
  BY <1>0, <1>00, <1>5
  DEF TakeOutExtra, MoveOut, SameJournal, DataTypes, fileVars, journalVars, undoVars
<1>6. ASSUME NEW g \in File, TakeOut(g) PROVE FileInv(f)'
  BY <1>0, <1>00, <1>6
  DEF TakeOut, MoveOut, RollBack, Undo, SameJournal, DataTypes, fileVars, journalVars,
     undoVars
<1>7. ASSUME NEW g \in File, BringIn(g) PROVE FileInv(f)'
  BY <1>0, <1>00, <1>7 DEF BringIn, RollBack, Undo, SameJournal, DataTypes, journalVars, undoVars
<1>8. CASE Record
  BY <1>0, <1>00, <1>8 DEF Record, Fails, SameJournal, fileVars, commitVars, undoVars
<1>9. CASE CommitDone
  BY <1>0, <1>00, <1>9 DEF CommitDone, SameJournal, fileVars, journalVars, commitVars, undoVars
<1>10. ASSUME NEW e \in todo, UndoSkip(e) PROVE FileInv(f)'
  BY <1>0, <1>00, <1>10
  DEF UndoSkip, Due, Foreign, Stuck, Current, Origin, undoFrame, SameJournal, DataTypes,
     fileVars, journalVars, commitVars, Entry, Content
<1>11. ASSUME NEW e \in todo, UndoMove(e) PROVE FileInv(f)'
  BY <1>0, <1>00, <1>11
  DEF UndoMove, Due, Foreign, Current, Origin, undoFrame, SameJournal, DataTypes,
     fileVars, journalVars, commitVars, Entry, Ways, Content
<1>12. CASE RolledBack
  BY <1>0, <1>00, <1>12
  DEF RolledBack, UndoEnds, Undo, Over, SameJournal, fileVars, commitVars, undoVars
<1>13. CASE LeftoversUndone
  BY <1>0, <1>00, <1>13
  DEF LeftoversUndone, UndoEnds, SameJournal, NoneLeftBehind, fileVars, commitVars, undoVars
<1>14. CASE Recovered
  <2>1. pc = "undo" /\ todo = {} /\ Over /\ UNCHANGED fileVars /\ disk' = remaining
    BY <1>14, Zenon DEF Recovered, UndoEnds
  <2> QED BY <1>0, <1>00, <2>1 DEF Over, SameJournal, fileVars
<1>15. CASE UndoSaveFails
  BY <1>0, <1>15 DEF UndoSaveFails, Fails
<1>16. ASSUME NEW g \in File, DiscardFile(g) PROVE FileInv(f)'
  BY <1>0, <1>00, <1>16 DEF DiscardFile, SameJournal, DataTypes, journalVars, commitVars, undoVars
<1>17. CASE DiscardJournal
  BY <1>0, <1>00, <1>17 DEF DiscardJournal, Over, SameJournal, fileVars
<1>18. CASE Rescue
  BY <1>0, <1>00, <1>18 DEF Rescue, Undo, SameJournal, fileVars, journalVars, commitVars
<1>19. CASE AppRecovers
  BY <1>0, <1>00, <1>19 DEF AppRecovers, Undo, SameJournal, fileVars, commitVars
<1>20. CASE Purge
  BY <1>0, <1>00, <1>20 DEF Purge, Empty, SameJournal, DataTypes, commitVars, undoVars
<1>21. CASE Reinstall
  BY <1>0, <1>00, <1>21 DEF Reinstall, SameJournal, DataTypes, journalVars, commitVars, undoVars
<1>22. CASE Crash
  BY <1>0, <1>00, <1>22 DEF Crash, CrashKind, Fails, Over, SameJournal, fileVars
<1>23. CASE UNCHANGED vars
  BY <1>0, <1>00, <1>23 DEF vars, fileVars, journalVars, commitVars, undoVars
<1> QED
  BY <1>3, <1>4, <1>5, <1>6, <1>7, <1>8, <1>9, <1>10, <1>11, <1>12, <1>13, <1>14, <1>15,
     <1>16, <1>17, <1>18, <1>19, <1>20, <1>21, <1>22, <1>23
  DEF Next, Installer, CommitStep, UndoStep, DiscardStep

-----------------------------------------------------------------------------
(* The invariant holds at the start: nothing has moved.                      *)
LEMMA InitInv == Init => IInv
<1> SUFFICES ASSUME Init PROVE IInv
  OBVIOUS
<1>1. SameJournal /\ NoneLeftBehind
  BY DEF Init, SameJournal, NoneLeftBehind
<1>2. ASSUME NEW f \in File PROVE FileInv(f)
  BY DEF Init, FileInv, Returnable, NothingOld, OnlyNewIn, Untouched, Journalled, CommitPhases, Empty
<1> QED BY <1>1, <1>2, InitType DEF IInv

(* And after every step.                                                     *)
LEMMA StepInv ==
  ASSUME SafeFaults
  PROVE  IInv /\ [Next]_vars => IInv'
BY TypeNext, JournalNext, FileNext DEF IInv

(* The inductive invariant: a file of the program that is not what it was    *)
(* has its old copy in old/ and its moves in the journal.                    *)
THEOREM Invariant ==
  ASSUME SafeFaults
  PROVE  Spec => []IInv
<1>1. Init => IInv
  BY InitInv
<1>2. IInv /\ [Next]_vars => IInv'
  BY StepInv
<1> QED BY <1>1, <1>2, PTL DEF Spec

(* Whatever fails and wherever the installer or a recovery is cut off, the   *)
(* last copy of a file of the previous version is not lost before the new    *)
(* version has started.                                                      *)
THEOREM LastCopy ==
  ASSUME SafeFaults
  PROVE  Spec => []LastCopyKept
<1>1. IInv => LastCopyKept
  BY DEF IInv, FileInv, Returnable, LastCopyKept
<1> QED BY <1>1, Invariant, PTL

(* An update that did not succeed is undone wherever it settles.             *)
LEMMA Undone == IInv /\ Settled /\ ~verified => \A f \in File : app[f] = base[f] \/ Unpacked(f)
<1> SUFFICES ASSUME IInv, Settled, ~verified, NEW f \in File, app[f] # base[f], ~Unpacked(f)
             PROVE  FALSE
  OBVIOUS
<1>1. Returnable(f) /\ disk = {} /\ pc = "off"
  BY DEF IInv, FileInv, Settled
<1>2. base[f] # "none"  \/ app[f] # "none"
  OBVIOUS
<1> QED
  BY <1>1, <1>2 DEF Returnable, Tracked, Journalled

(* Once nothing runs and the journal holds no record, an update that did not *)
(* succeed has left the program exactly as it was.                           *)
THEOREM RestoredAfterFailure ==
  ASSUME SafeFaults
  PROVE  Spec => []Restored
<1>1. IInv => Restored
  BY Undone DEF Restored
<1> QED BY <1>1, Invariant, PTL

-----------------------------------------------------------------------------
(* After every step a version that started is whole, a reinstallation too,   *)
(* and the rescue is armed for whoever may need it.                          *)
LEMMA RunNext ==
  ASSUME CleanFaults, RunInv, [Next]_vars
  PROVE  Brought' /\ Reinstalled' /\ Stays' /\ Guarded'
<1> USE DEF Brought, Reinstalled, Stays, Guarded, AllNew, AllUnpacked, Unpacked, CommitPhases
<1>0. /\ DataTypes /\ SameJournal /\ NoneLeftBehind /\ Brought /\ Reinstalled /\ Stays /\ Guarded
      /\ Fault \cap {"torn", "save", "journal", "discard", "rescue"} = {}
      /\ Release \in [File -> {"none", "next"}] /\ Exe \in File /\ Release[Exe] = "next"
      /\ ~verified => \A f \in File : FileInv(f)
  BY FileSwapAssumption DEF RunInv, IInv, TypeOK, CleanFaults, SafeFaults, FileSwapAssumption
<1>1. CASE Begin
  BY <1>0, <1>1
  DEF Begin, Undo, DataTypes, SameJournal, NoneLeftBehind, FileInv, Untouched, Returnable,
      OnlyNewIn, Journalled, fileVars, journalVars, commitVars, undoVars, historyVars
<1>2. CASE Stage
  BY <1>0, <1>2
  DEF Stage, Staged, Empty, DataTypes, SameJournal, NoneLeftBehind, FileInv, Untouched, Returnable,
      OnlyNewIn, Journalled, fileVars, journalVars, commitVars, undoVars, historyVars
<1>3. CASE Arm \/ ArmSaveFails
  BY <1>0, <1>3
  DEF Arm, ArmSaveFails, Fails, DataTypes, SameJournal, NoneLeftBehind, FileInv, Untouched, Returnable, OnlyNewIn,
      Journalled, fileVars, journalVars, commitVars, undoVars, historyVars
<1>4. ASSUME NEW f \in File, TakeOutExtra(f) PROVE Brought' /\ Reinstalled' /\ Stays' /\ Guarded'
  BY <1>0, <1>4
  DEF TakeOutExtra, MoveOut, DataTypes, SameJournal, NoneLeftBehind, FileInv, Untouched,
      Returnable, OnlyNewIn, Journalled, fileVars, journalVars, commitVars, undoVars, historyVars
<1>5. ASSUME NEW f \in File, TakeOut(f) PROVE Brought' /\ Reinstalled' /\ Stays' /\ Guarded'
  BY <1>0, <1>5
  DEF TakeOut, MoveOut, RollBack, Undo, DataTypes, SameJournal, NoneLeftBehind, FileInv, Untouched,
      Returnable, OnlyNewIn, Journalled, fileVars, journalVars, commitVars, undoVars, historyVars
<1>6. ASSUME NEW f \in File, BringIn(f) PROVE Brought' /\ Reinstalled' /\ Stays' /\ Guarded'
  BY <1>0, <1>6
  DEF BringIn, RollBack, Undo, DataTypes, SameJournal, NoneLeftBehind, FileInv, Untouched,
      Returnable, OnlyNewIn, Journalled, fileVars, journalVars, commitVars, undoVars, historyVars
<1>7. CASE Record
  BY <1>0, <1>7
  DEF Record, Fails, DataTypes, SameJournal, NoneLeftBehind, FileInv, Untouched, Returnable,
      OnlyNewIn, Journalled, fileVars, journalVars, commitVars, undoVars, historyVars
<1>8. CASE CommitDone
  BY <1>0, <1>8
  DEF CommitDone, DataTypes, SameJournal, NoneLeftBehind, FileInv, Untouched, Returnable,
      OnlyNewIn, Journalled, fileVars, journalVars, commitVars, undoVars, historyVars
<1>9. CASE Start
  BY <1>0, <1>9
  DEF Start, RollBack, Undo, DataTypes, SameJournal, NoneLeftBehind, FileInv, Untouched,
      Returnable, OnlyNewIn, Journalled, fileVars, journalVars, commitVars, undoVars, historyVars
<1>10. ASSUME NEW e \in todo, UndoSkip(e) PROVE Brought' /\ Reinstalled' /\ Stays' /\ Guarded'
  BY <1>0, <1>10
  DEF UndoSkip, undoFrame, DataTypes, SameJournal, NoneLeftBehind, FileInv, Untouched, Returnable,
      OnlyNewIn, Journalled, fileVars, journalVars, commitVars, undoVars, historyVars
<1>11. ASSUME NEW e \in todo, UndoMove(e) PROVE Brought' /\ Reinstalled' /\ Stays' /\ Guarded'
  <2>1. /\ pc = "undo" /\ e.file \in File /\ e.way \in {"out", "in"} /\ ~verified
        /\ UNCHANGED <<pc, disk, saved, armed, insured, who, incoming, base, verified>>
    BY <1>0, <1>11
    DEF UndoMove, undoFrame, DataTypes, Entry, Ways, journalVars, commitVars, historyVars
  <2>2. Brought' /\ Stays' /\ Guarded'
    BY <1>0, <2>1
  <2>3. ASSUME NEW f \in File, old'[f] = "other" PROVE base'[f] = "other"
    BY <1>0, <1>11, <2>1, <2>3 DEF UndoMove, DataTypes, fileVars
  <2>4. ASSUME NEW f \in File, Unpacked(f)', base[f] # "other" PROVE Unpacked(f)
    BY <1>0, <1>11, <2>1, <2>4 DEF UndoMove, DataTypes, fileVars
  <2>5. ASSUME NEW f \in File, Unpacked(f), Release[f] # "none" PROVE Unpacked(f)'
    <3>1. e.way = "in" /\ e.file = f => e.sig = app[f] /\ e \in disk
      BY <1>0, <1>11, <2>1 DEF UndoMove, Foreign, Current, SameJournal
    <3>2. e.way = "in" /\ e.file = f => e.sig = Release[f]
      BY <1>0, <2>1, <3>1, <2>5 DEF FileInv, OnlyNewIn, Journalled, DataTypes
    <3>3. e.way = "out" => app[e.file] = "none"
      BY <1>11 DEF UndoMove, Origin
    <3> QED
      BY <1>0, <1>11, <2>1, <2>5, <3>1, <3>2, <3>3 DEF UndoMove, DataTypes, fileVars
  <2> QED
    BY <1>0, <2>1, <2>2, <2>3, <2>4, <2>5
<1>12. CASE RolledBack
  BY <1>0, <1>12
  DEF RolledBack, UndoEnds, Undo, Over, DataTypes, SameJournal, NoneLeftBehind, FileInv, Untouched,
      Returnable, OnlyNewIn, Journalled, fileVars, journalVars, commitVars, undoVars, historyVars
<1>13. CASE LeftoversUndone
  BY <1>0, <1>13
  DEF LeftoversUndone, UndoEnds, RollBack, Undo, DataTypes, SameJournal, NoneLeftBehind, FileInv,
      Untouched, Returnable, OnlyNewIn, Journalled, fileVars, journalVars, commitVars, undoVars,
      historyVars
<1>14. CASE Recovered
  <2>1. /\ pc = "undo" /\ pc' = "off" /\ incoming' = {} /\ disk' = remaining /\ saved' = (remaining # {})
        /\ UNCHANGED <<app, old, new, base, verified>>
    BY <1>14 DEF Recovered, UndoEnds, Over, fileVars, historyVars
  <2>2. remaining \subseteq disk /\ ~verified
    BY <1>0, <1>14, <2>1 DEF Recovered, UndoEnds, SameJournal
  <2>3. ASSUME remaining # {} PROVE armed' \/ ~insured'
    <3>1. who = "rescue" \/ armed \/ ~insured
      BY <1>0, <1>14, <2>2, <2>3 DEF Recovered, UndoEnds
    <3>2. CASE armed' = (who = "rescue" \/ armed) /\ UNCHANGED insured
      BY <3>1, <3>2, Zenon
    <3>3. CASE UNCHANGED armed /\ insured' = (insured /\ ~(who = "rescue" /\ remaining # {}))
      BY <2>3, <3>1, <3>3, Zenon
    <3> QED
      BY <1>14, <2>3, <3>2, <3>3 DEF Recovered
  <2> QED
    BY <1>0, <2>1, <2>2, <2>3 DEF DataTypes
<1>15. CASE UndoSaveFails
  BY <1>0, <1>15
  DEF UndoSaveFails, Fails, DataTypes, SameJournal, NoneLeftBehind, FileInv, Untouched, Returnable,
      OnlyNewIn, Journalled, fileVars, journalVars, commitVars, undoVars, historyVars
<1>16. ASSUME NEW f \in File, DiscardFile(f) PROVE Brought' /\ Reinstalled' /\ Stays' /\ Guarded'
  BY <1>0, <1>16
  DEF DiscardFile, DataTypes, SameJournal, NoneLeftBehind, FileInv, Untouched, Returnable,
      OnlyNewIn, Journalled, fileVars, journalVars, commitVars, undoVars, historyVars
<1>17. CASE DiscardJournal
  BY <1>0, <1>17
  DEF DiscardJournal, Over, Fails, DataTypes, SameJournal, NoneLeftBehind, FileInv, Untouched,
      Returnable, OnlyNewIn, Journalled, fileVars, journalVars, commitVars, undoVars, historyVars
<1>18. CASE Rescue
  BY <1>0, <1>18
  DEF Rescue, Undo, DataTypes, SameJournal, NoneLeftBehind, FileInv, Untouched, Returnable,
      OnlyNewIn, Journalled, fileVars, journalVars, commitVars, undoVars, historyVars
<1>19. CASE AppRecovers
  BY <1>0, <1>19
  DEF AppRecovers, Undo, DataTypes, SameJournal, NoneLeftBehind, FileInv, Untouched, Returnable,
      OnlyNewIn, Journalled, fileVars, journalVars, commitVars, undoVars, historyVars
<1>20. CASE Purge
  BY <1>0, <1>20
  DEF Purge, Empty, DataTypes, SameJournal, NoneLeftBehind, FileInv, Untouched, Returnable,
      OnlyNewIn, Journalled, fileVars, journalVars, commitVars, undoVars, historyVars
<1>21. CASE Reinstall
  BY <1>0, <1>21
  DEF Reinstall, DataTypes, SameJournal, NoneLeftBehind, FileInv, Untouched, Returnable, OnlyNewIn,
      Journalled, fileVars, journalVars, commitVars, undoVars, historyVars
<1>22. CASE Crash
  BY <1>0, <1>22
  DEF Crash, CrashKind, Fails, Over, DataTypes, SameJournal, NoneLeftBehind, FileInv, Untouched,
      Returnable, OnlyNewIn, Journalled, fileVars, journalVars, commitVars, undoVars, historyVars
<1>23. CASE UNCHANGED vars
  BY <1>0, <1>23
  DEF vars, DataTypes, SameJournal, NoneLeftBehind, FileInv, Untouched, Returnable, OnlyNewIn,
      Journalled, fileVars, journalVars, commitVars, undoVars, historyVars
<1> QED
  BY <1>1, <1>2, <1>3, <1>4, <1>5, <1>6, <1>7, <1>8, <1>9, <1>10, <1>11, <1>12, <1>13, <1>14, <1>15, <1>16, <1>17, <1>18, <1>19, <1>20, <1>21, <1>22, <1>23
  DEF Next, Installer, CommitStep, UndoStep, DiscardStep

(* The invariant holds at the start and after every step.                    *)
LEMMA RunInvariant ==
  ASSUME CleanFaults
  PROVE  Spec => []RunInv
<1>1. Init => RunInv
  <2> SUFFICES ASSUME Init PROVE RunInv
    OBVIOUS
  <2>1. Installed \in [File -> {"none", "prev"}] /\ Installed[Exe] = "prev"
    BY FileSwapAssumption DEF CleanFaults, FileSwapAssumption
  <2>2. Brought /\ Stays /\ Guarded
    BY <2>1 DEF Init, Brought, Stays, Guarded, CommitPhases
  <2>3. Reinstalled
    BY <2>1 DEF Init, Reinstalled, Unpacked, Empty
  <2> QED
    BY <2>2, <2>3, InitInv DEF RunInv
<1>2. RunInv /\ [Next]_vars => RunInv'
  BY StepInv, RunNext DEF CleanFaults, RunInv
<1> QED
  BY <1>1, <1>2, PTL DEF Spec

(* An exe that is gone while nothing runs can be put back.                   *)
LEMMA ExeJournalled == ASSUME CleanFaults, RunInv PROVE ExeOrRescue
<1> SUFFICES ASSUME pc = "off", app[Exe] = "none"
             PROVE  /\ old[Exe] = base[Exe] /\ saved /\ Out(Exe, base[Exe]) \in disk
                    /\ armed \/ ~insured
  BY DEF ExeOrRescue
<1>1. Exe \in File /\ Release[Exe] = "next" /\ base[Exe] # "none"
  BY FileSwapAssumption DEF CleanFaults, FileSwapAssumption, RunInv, Guarded
<1>2. ~verified
  BY <1>1 DEF RunInv, Stays, AllNew, AllUnpacked, Unpacked
<1>3. Returnable(Exe)
  BY <1>1, <1>2 DEF RunInv, IInv, FileInv
<1>4. old[Exe] = base[Exe] /\ Out(Exe, base[Exe]) \in disk
  BY <1>1, <1>3 DEF Returnable, Tracked, Journalled, Unpacked
<1> QED
  BY <1>4 DEF RunInv, Guarded

(* There is always a program to run, of one version, or its exe lies beside  *)
(* the journal and the rescue is armed to put it back, wherever the registry *)
(* took it.                                                                  *)
THEOREM AlwaysRunnable ==
  ASSUME CleanFaults
  PROVE  Spec => []Runnable
<1>1. RunInv => NeverMixed
  BY Undone
  DEF RunInv, NeverMixed, Settled, Whole, Stays, AllNew, AllUnpacked, Reinstalled, Unpacked
<1>2. RunInv => ExeOrRescue
  BY ExeJournalled
<1> QED
  BY <1>1, <1>2, RunInvariant, PTL DEF Runnable

(* --- The update as its user sees it ---------------------------------------- *)

(* One update, and nobody reinstalls meanwhile: only the two versions there  *)
(* are ever moved, and it is judged once.                                    *)
Once ==
  /\ base = Installed /\ \A f \in File : app[f] # "other" /\ old[f] # "other"
  /\ verified => pc # "stage" /\ runs # 0

(* One update is judged once, where it has been put in place.               *)
LEMMA OnceNext ==
  ASSUME CleanFaults, "reinstall" \notin Fault, MaxRuns <= 1, RunInv, Once, [Next]_vars
  PROVE  Once' /\ (verified' # verified => pc = "start" /\ pc' # "off")
<1> USE DEF Once
<1>0. /\ DataTypes /\ SameJournal /\ NoneLeftBehind /\ Stays /\ MaxRuns \in Nat
      /\ Installed \in [File -> {"none", "prev"}] /\ Release \in [File -> {"none", "next"}]
      /\ ~verified => \A f \in File : FileInv(f)
  BY FileSwapAssumption DEF RunInv, IInv, TypeOK, FileSwapAssumption
<1>1. CASE Begin
  BY <1>0, <1>1
  DEF Begin, Undo, DataTypes, Entry, NoneLeftBehind, Stays, FileInv, Untouched, fileVars,
      journalVars, commitVars, undoVars, historyVars
<1>2. CASE Stage
  <2>1. ~verified /\ base' = base
    BY <1>0, <1>2 DEF Stage, DataTypes
  <2>2. verified = FALSE
    BY <2>1, Zenon DEF RunInv, IInv, TypeOK, FlagTypes
  <2> QED
    BY <1>0, <1>2, <2>1, <2>2 DEF Stage, Empty
<1>3. CASE Arm \/ ArmSaveFails
  BY <1>0, <1>3
  DEF Arm, ArmSaveFails, RollBack, Undo, CommitPhases, DataTypes, Entry, NoneLeftBehind, Stays, FileInv, Untouched, fileVars, journalVars,
      commitVars, undoVars, historyVars
<1>4. ASSUME NEW f \in File, TakeOutExtra(f) PROVE Once' /\ (verified' # verified => pc = "start" /\ pc' # "off")
  BY <1>0, <1>4
  DEF TakeOutExtra, MoveOut, DataTypes, Entry, NoneLeftBehind, Stays, FileInv, Untouched, fileVars,
      journalVars, commitVars, undoVars, historyVars
<1>5. ASSUME NEW f \in File, TakeOut(f) PROVE Once' /\ (verified' # verified => pc = "start" /\ pc' # "off")
  BY <1>0, <1>5
  DEF TakeOut, MoveOut, RollBack, Undo, DataTypes, Entry, NoneLeftBehind, Stays, FileInv,
      Untouched, fileVars, journalVars, commitVars, undoVars, historyVars
<1>6. ASSUME NEW f \in File, BringIn(f) PROVE Once' /\ (verified' # verified => pc = "start" /\ pc' # "off")
  BY <1>0, <1>6
  DEF BringIn, RollBack, Undo, CommitPhases, DataTypes, Entry, NoneLeftBehind, Stays, FileInv,
      Untouched, fileVars, journalVars, commitVars, undoVars, historyVars
<1>7. CASE Record
  BY <1>0, <1>7
  DEF Record, Fails, DataTypes, Entry, NoneLeftBehind, Stays, FileInv, Untouched, fileVars,
      journalVars, commitVars, undoVars, historyVars
<1>8. CASE CommitDone
  BY <1>0, <1>8
  DEF CommitDone, DataTypes, Entry, NoneLeftBehind, Stays, FileInv, Untouched, fileVars,
      journalVars, commitVars, undoVars, historyVars
<1>9. CASE Start
  BY <1>0, <1>9
  DEF Start, RollBack, Undo, DataTypes, Entry, NoneLeftBehind, Stays, FileInv, Untouched, fileVars,
      journalVars, commitVars, undoVars, historyVars
<1>10. ASSUME NEW e \in todo, UndoSkip(e) PROVE Once' /\ (verified' # verified => pc = "start" /\ pc' # "off")
  BY <1>0, <1>10
  DEF UndoSkip, undoFrame, DataTypes, Entry, NoneLeftBehind, Stays, FileInv, Untouched, fileVars,
      journalVars, commitVars, undoVars, historyVars
<1>11. ASSUME NEW e \in todo, UndoMove(e) PROVE Once' /\ (verified' # verified => pc = "start" /\ pc' # "off")
  BY <1>0, <1>11
  DEF UndoMove, undoFrame, DataTypes, Entry, NoneLeftBehind, Stays, FileInv, Untouched, fileVars,
      journalVars, commitVars, undoVars, historyVars
<1>12. CASE RolledBack
  BY <1>0, <1>12
  DEF RolledBack, UndoEnds, Undo, Over, DataTypes, Entry, NoneLeftBehind, Stays, FileInv,
      Untouched, fileVars, journalVars, commitVars, undoVars, historyVars
<1>13. CASE LeftoversUndone
  BY <1>0, <1>13
  DEF LeftoversUndone, UndoEnds, RollBack, Undo, DataTypes, Entry, NoneLeftBehind, Stays, FileInv,
      Untouched, fileVars, journalVars, commitVars, undoVars, historyVars
<1>14. CASE Recovered
  BY <1>0, <1>14
  DEF Recovered, UndoEnds, Over, DataTypes, Entry, NoneLeftBehind, Stays, FileInv, Untouched,
      fileVars, journalVars, commitVars, undoVars, historyVars
<1>15. CASE UndoSaveFails
  BY <1>0, <1>15
  DEF UndoSaveFails, Fails, RollBack, Undo, Over, DataTypes, Entry, NoneLeftBehind, Stays, FileInv,
      Untouched, fileVars, journalVars, commitVars, undoVars, historyVars
<1>16. ASSUME NEW f \in File, DiscardFile(f) PROVE Once' /\ (verified' # verified => pc = "start" /\ pc' # "off")
  BY <1>0, <1>16
  DEF DiscardFile, DataTypes, Entry, NoneLeftBehind, Stays, FileInv, Untouched, fileVars,
      journalVars, commitVars, undoVars, historyVars
<1>17. CASE DiscardJournal
  BY <1>0, <1>17
  DEF DiscardJournal, Over, DataTypes, Entry, NoneLeftBehind, Stays, FileInv, Untouched, fileVars,
      journalVars, commitVars, undoVars, historyVars
<1>18. CASE Rescue
  BY <1>0, <1>18
  DEF Rescue, Undo, DataTypes, Entry, NoneLeftBehind, Stays, FileInv, Untouched, fileVars,
      journalVars, commitVars, undoVars, historyVars
<1>19. CASE AppRecovers
  BY <1>0, <1>19
  DEF AppRecovers, Undo, DataTypes, Entry, NoneLeftBehind, Stays, FileInv, Untouched, fileVars,
      journalVars, commitVars, undoVars, historyVars
<1>20. CASE Purge
  BY <1>0, <1>20
  DEF Purge, Empty, DataTypes, Entry, NoneLeftBehind, Stays, FileInv, Untouched, fileVars,
      journalVars, commitVars, undoVars, historyVars
<1>21. CASE Reinstall
  BY <1>0, <1>21
  DEF Reinstall, Fails, DataTypes, Entry, NoneLeftBehind, Stays, FileInv, Untouched, fileVars,
      journalVars, commitVars, undoVars, historyVars
<1>22. CASE Crash
  BY <1>0, <1>22
  DEF Crash, Over, DataTypes, Entry, NoneLeftBehind, Stays, FileInv, Untouched, fileVars,
      journalVars, commitVars, undoVars, historyVars
<1>23. CASE UNCHANGED vars
  BY <1>0, <1>23
  DEF vars, DataTypes, Entry, NoneLeftBehind, Stays, FileInv, Untouched, fileVars, journalVars,
      commitVars, undoVars, historyVars
<1> QED
  BY <1>1, <1>2, <1>3, <1>4, <1>5, <1>6, <1>7, <1>8, <1>9, <1>10, <1>11, <1>12, <1>13, <1>14, <1>15, <1>16, <1>17, <1>18, <1>19, <1>20, <1>21, <1>22, <1>23
  DEF Next, Installer, CommitStep, UndoStep, DiscardStep

(* What the user sees of a state.                                            *)
LEMMA Seen ==
  ASSUME CleanFaults, RunInv, Once
  PROVE  Version = IF ~Settled THEN "between" ELSE IF verified THEN "next" ELSE "prev"
<1>1. Exe \in File /\ Release[Exe] = "next" /\ base[Exe] = "prev"
  BY FileSwapAssumption DEF CleanFaults, FileSwapAssumption, Once
<1>2. CASE Settled /\ verified
  BY <1>1, <1>2 DEF RunInv, Stays, AllNew, AllUnpacked, Unpacked, Once, Version
<1>3. CASE Settled /\ ~verified
  BY <1>3, Undone DEF RunInv, Unpacked, Once, Version
<1> QED
  BY <1>2, <1>3 DEF Version

(* What nobody is left to undo is not settled, and only a step that leaves    *)
(* it unsettled ends that; an update that begins has somebody to finish it.  *)
LEMMA OrphansWait ==
  ASSUME CleanFaults, RunInv, [Next]_vars
  PROVE  /\ Orphaned => ~Settled'
         /\ Settled /\ ~Settled' => ~Orphaned'
<1>1. pc = "off" /\ app[Exe] = "none" => disk # {}
  BY ExeJournalled DEF ExeOrRescue
<1>2. ASSUME Orphaned PROVE ~Settled'
  <2>1. disk # {} /\ pc = "off" /\ app[Exe] = "none" /\ ~armed
    BY <1>1, <1>2 DEF Orphaned
  <2>2. ~Purge /\ ~AppRecovers /\ ~Rescue
    BY <2>1 DEF Purge, AppRecovers, Rescue
  <2>3. ~Installer /\ ~Crash
    BY <2>1
    DEF Installer, Stage, Arm, ArmSaveFails, CommitStep, TakeOutExtra, TakeOut, BringIn, Record, CommitDone,
        Start, UndoStep, UndoSkip, UndoMove, RolledBack, LeftoversUndone, Recovered, UndoEnds,
        UndoSaveFails, DiscardStep, DiscardFile, DiscardJournal, Crash
  <2>4. CASE Begin
    BY <2>1, <2>4 DEF Begin, Undo, Settled
  <2>5. CASE Reinstall
    BY <2>1, <2>5 DEF Reinstall, Settled, journalVars
  <2>6. CASE UNCHANGED vars
    BY <2>1, <2>6 DEF vars, Settled, journalVars
  <2> QED
    BY <2>2, <2>3, <2>4, <2>5, <2>6 DEF Next
<1>3. ASSUME Settled, pc' = "off" PROVE Settled'
  <2>1. pc = "off" /\ disk = {}
    BY <1>3 DEF Settled
  <2>2. CASE Begin
    BY <1>3, <2>1, <2>2 DEF Begin
  <2>3. CASE Rescue \/ AppRecovers \/ Purge \/ Reinstall
    BY <1>3, <2>1, <2>3 DEF Rescue, AppRecovers, Purge, Reinstall, Settled, journalVars
  <2>4. ~Installer /\ ~Crash
    BY <2>1
    DEF Installer, Stage, Arm, ArmSaveFails, CommitStep, TakeOutExtra, TakeOut, BringIn, Record, CommitDone,
        Start, UndoStep, UndoSkip, UndoMove, RolledBack, LeftoversUndone, Recovered, UndoEnds,
        UndoSaveFails, DiscardStep, DiscardFile, DiscardJournal, Crash
  <2>5. CASE UNCHANGED vars
    BY <1>3, <2>5 DEF vars, Settled, journalVars
  <2> QED
    BY <2>2, <2>3, <2>4, <2>5 DEF Next
<1> QED
  BY <1>1, <1>2, <1>3 DEF Settled, Orphaned

(* One update, with the failures the journal covers, is to its user an       *)
(* atomic one: the version changes as a whole, and stays only if it started. *)
THEOREM UpdateIsAtomic ==
  ASSUME CleanFaults, "reinstall" \notin Fault, MaxRuns <= 1
  PROVE  Spec => Update!SafeSpec
<1> DEFINE Good == RunInv /\ Once
           Eyes == /\ Version = IF ~Settled THEN "between" ELSE IF verified THEN "next" ELSE "prev"
                   /\ Settled => ~Orphaned
<1>1. Init => Once /\ Update!Init
  <2> SUFFICES ASSUME Init PROVE Once /\ Update!Init
    OBVIOUS
  <2>1. Installed \in [File -> {"none", "prev"}]
    BY FileSwapAssumption DEF FileSwapAssumption
  <2>2. Once
    BY <2>1 DEF Init, Once, Empty
  <2>3. Version = "prev" /\ verified = FALSE
    BY DEF Init, Version, Settled
  <2>4. ~Orphaned
    BY FileSwapAssumption DEF Init, Orphaned, CleanFaults, FileSwapAssumption
  <2> QED
    BY <2>2, <2>3, <2>4 DEF Update!Init
<1>2. RunInv /\ Once /\ [Next]_vars => Once'
  BY OnceNext
<1>3. Good => Eyes
  BY Seen, ExeJournalled DEF ExeOrRescue, Orphaned, Settled
<1>4. Good /\ Good' /\ Eyes /\ Eyes' /\ [Next]_vars => [Update!Next]_<<Version, verified, Orphaned>>
  <2> SUFFICES ASSUME Good, Good', Eyes, Eyes', [Next]_vars
               PROVE  Update!Next \/ UNCHANGED <<Version, verified, Orphaned>>
    OBVIOUS
  <2>1. verified' # verified => ~Settled /\ ~Settled' /\ ~Orphaned /\ ~Orphaned'
    BY OnceNext DEF Settled, Orphaned
  <2>2. verified \in BOOLEAN /\ verified' \in BOOLEAN
    BY Zenon DEF RunInv, IInv, TypeOK, FlagTypes
  <2>3. (Orphaned => ~Settled') /\ (Settled /\ ~Settled' => ~Orphaned')
    BY OrphansWait
  <2>4. Orphaned \in BOOLEAN /\ Orphaned' \in BOOLEAN
    BY Zenon DEF Orphaned
  <2> QED
    BY <2>1, <2>2, <2>3, <2>4 DEF Update!Next, Update!Begin, Update!Judge, Update!Abandon, Update!End
<1> QED
  BY <1>1, <1>2, <1>3, <1>4, RunInvariant, PTL DEF Spec, Update!SafeSpec

-----------------------------------------------------------------------------
(* What the user unpacks.  A recovery takes a file out of the program only   *)
(* for a record of a new file moved in, and only if the file is the one of   *)
(* the record.  What lies in new/ is the release, or was taken out for such  *)
(* a record: so no record ever names a file unpacked by the user.            *)
Records == disk \cup mem \cup todo \cup remaining \cup {last}

OnlyOurs ==
  /\ \A f \in File : new[f] # "other"
  /\ \A e \in Records : e.way = "in" => e.sig # "other"

LEMMA OnlyOursNext ==
  ASSUME TypeOK, OnlyOurs, [Next]_vars PROVE OnlyOurs'
<1> USE DEF OnlyOurs, Records
<1>0. DataTypes /\ Release \in [File -> {"none", "next"}] /\ NoEntry.way = "out"
  BY FileSwapAssumption DEF TypeOK, FileSwapAssumption, NoEntry
<1>1. CASE Begin BY <1>1 DEF Begin, Undo, fileVars, commitVars
<1>2. CASE Stage BY <1>0, <1>2 DEF Stage, journalVars, undoVars
<1>3. CASE Arm \/ ArmSaveFails
  BY <1>3 DEF Arm, ArmSaveFails, RollBack, Undo, fileVars, journalVars, commitVars, undoVars
<1>4. ASSUME NEW f \in File, TakeOutExtra(f) \/ TakeOut(f) PROVE OnlyOurs'
  BY <1>4
  DEF TakeOutExtra, TakeOut, MoveOut, Out, RollBack, Undo, fileVars, journalVars, undoVars
<1>5. ASSUME NEW f \in File, BringIn(f) PROVE OnlyOurs'
  BY <1>0, <1>5 DEF BringIn, In, RollBack, Undo, DataTypes, journalVars, undoVars
<1>6. CASE Record BY <1>6 DEF Record, RollBack, Undo, fileVars, commitVars, undoVars
<1>7. CASE CommitDone \/ Start
  BY <1>7 DEF CommitDone, Start, RollBack, Undo, fileVars, journalVars, commitVars, undoVars
<1>8. ASSUME NEW e \in todo, UndoSkip(e) PROVE OnlyOurs'
  BY <1>8 DEF UndoSkip, undoFrame, fileVars, journalVars, commitVars
<1>9. ASSUME NEW e \in todo, UndoMove(e) PROVE OnlyOurs'
  <2>1. new' = new \/ (e.way = "in" /\ new' = [new EXCEPT ![e.file] = e.sig])
    BY <1>0, <1>9 DEF UndoMove, Foreign, Current, DataTypes, Entry, Ways, fileVars
  <2>2. UNCHANGED <<disk, mem, last>> /\ todo' \subseteq todo /\ remaining' \subseteq remaining \cup {e}
    BY <1>9 DEF UndoMove, undoFrame, journalVars, commitVars
  <2>3. \A f \in File : new'[f] # "other" BY <1>0, <2>1 DEF DataTypes
  <2> QED BY <2>2, <2>3
<1>10. CASE RolledBack \/ LeftoversUndone
  BY <1>0, <1>10
  DEF RolledBack, LeftoversUndone, RollBack, UndoEnds, Undo, Over, fileVars, commitVars, undoVars
<1>11. CASE Recovered \/ UndoSaveFails
  BY <1>0, <1>11 DEF Recovered, UndoSaveFails, RollBack, Undo, Over, fileVars, commitVars
<1>12. ASSUME NEW f \in File, DiscardFile(f) PROVE OnlyOurs'
  BY <1>0, <1>12 DEF DiscardFile, DataTypes, journalVars, commitVars, undoVars
<1>13. CASE DiscardJournal BY <1>0, <1>13 DEF DiscardJournal, Over, fileVars
<1>14. CASE Rescue \/ AppRecovers
  BY <1>14 DEF Rescue, AppRecovers, Undo, fileVars, journalVars, commitVars
<1>15. CASE Purge BY <1>15 DEF Purge, Empty, commitVars, undoVars
<1>16. CASE Reinstall BY <1>16 DEF Reinstall, journalVars, commitVars, undoVars
<1>17. CASE Crash BY <1>0, <1>17 DEF Crash, Over, fileVars
<1>18. CASE UNCHANGED vars BY <1>18 DEF vars, fileVars, journalVars, commitVars, undoVars
<1> QED
  BY <1>1, <1>2, <1>3, <1>4, <1>5, <1>6, <1>7, <1>8, <1>9, <1>10, <1>11, <1>12, <1>13, <1>14, <1>15,
     <1>16, <1>17, <1>18
  DEF Next, Installer, CommitStep, UndoStep, DiscardStep

(* An unpacked file stays where it is, but for the moves of an update that   *)
(* the user asked for after it.                                              *)
LeftAlone == pc # "commit" => \A f \in File : Unpacked(f) => app'[f] = app[f]

LEMMA StepLeavesAlone == ASSUME TypeOK, OnlyOurs, [Next]_vars PROVE LeftAlone
<1> USE DEF LeftAlone, Unpacked
<1>0. DataTypes BY DEF TypeOK
<1>1. CASE Begin \/ Stage \/ Arm \/ ArmSaveFails \/ Record \/ CommitDone \/ Start
  BY <1>1, Zenon DEF Begin, Stage, Arm, ArmSaveFails, Record, CommitDone, Start, fileVars
<1>2. ASSUME NEW g \in File, TakeOutExtra(g) \/ TakeOut(g) PROVE LeftAlone
  BY <1>2 DEF TakeOutExtra, TakeOut
<1>3. ASSUME NEW g \in File, BringIn(g) PROVE LeftAlone
  BY <1>0, <1>3 DEF BringIn, DataTypes
<1>4. ASSUME NEW e \in todo, UndoMove(e) PROVE LeftAlone
  <2>1. e \in Entry BY <1>0 DEF DataTypes
  <2>2. CASE e.way = "out"
    BY <1>0, <1>4, <2>1, <2>2 DEF UndoMove, Origin, DataTypes, Entry, fileVars
  <2>3. CASE e.way = "in"
    <3>1. app[e.file] = e.sig /\ e.sig # "other"
      BY <1>4, <2>3 DEF UndoMove, Foreign, Current, OnlyOurs, Records
    <3> QED BY <1>0, <1>4, <2>1, <2>3, <3>1 DEF UndoMove, DataTypes, Entry, fileVars
  <2> QED BY <2>1, <2>2, <2>3 DEF Entry, Ways
<1>5. ASSUME NEW e \in todo, UndoSkip(e) PROVE LeftAlone
  BY <1>5 DEF UndoSkip, fileVars
<1>6. CASE RolledBack \/ LeftoversUndone \/ Recovered \/ UndoSaveFails \/ DiscardJournal
  BY <1>6, Zenon DEF RolledBack, LeftoversUndone, Recovered, UndoSaveFails, DiscardJournal, fileVars
<1>7. ASSUME NEW g \in File, DiscardFile(g) PROVE LeftAlone BY <1>7 DEF DiscardFile
<1>8. CASE Rescue \/ AppRecovers \/ Purge \/ Crash
  BY <1>8, Zenon DEF Rescue, AppRecovers, Purge, Crash, fileVars
<1>9. CASE Reinstall BY <1>0, <1>9 DEF Reinstall, DataTypes
<1>10. CASE UNCHANGED vars BY <1>10 DEF vars, fileVars
<1> QED
  BY <1>1, <1>2, <1>3, <1>4, <1>5, <1>6, <1>7, <1>8, <1>9, <1>10
  DEF Next, Installer, CommitStep, UndoStep, DiscardStep

(* Whatever fails, and however many installations and recoveries there are,  *)
(* no recovery takes away a file the user has unpacked (FileSwap._undo asks  *)
(* whether the file is the one that was moved).                              *)
THEOREM UnpackedIsKept == Spec => ReinstallKept
<1>1. Init => TypeOK /\ OnlyOurs
  <2>1. ASSUME Init PROVE OnlyOurs
    BY <2>1 DEF Init, OnlyOurs, Records, NoEntry, Empty
  <2> QED BY <2>1, InitType
<1>2. TypeOK /\ OnlyOurs /\ [Next]_vars => (TypeOK /\ OnlyOurs)' BY TypeNext, OnlyOursNext
<1>3. TypeOK /\ OnlyOurs /\ [Next]_vars => [LeftAlone]_vars BY StepLeavesAlone
<1>4. Spec => [][LeftAlone]_vars BY <1>1, <1>2, <1>3, PTL DEF Spec
<1> QED BY <1>4 DEF LeftAlone, ReinstallKept
=============================================================================
