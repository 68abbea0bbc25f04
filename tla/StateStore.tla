----------------------------- MODULE StateStore -----------------------------
(* The saved state of the program: profiles/storage.py, the writer thread of *)
(* network/background_workers.py, the timer that gathers saves and the two   *)
(* saves of controller.py, the loader of startup_service.py and the ways out *)
(* of main_window.py.  A state is a number: 0 is what AppState() gives, every *)
(* edit makes the next one.                                                  *)
EXTENDS Naturals, FiniteSets, Sequences, FiniteSetsExt

CONSTANTS
  Phrases,      \* passphrases the user may choose, NoPhrase among them
  StoreBudget,  \* [StoreFaults -> Nat], bound: failures of each kind
  MaxEdits      \* bound: edits of the state and of the passphrase

NoPhrase    == ""
StoreFaults == {"kill", "power", "write", "slow", "read", "quit"}

ASSUME StoreAssumption ==
  /\ NoPhrase \in Phrases
  /\ StoreBudget \in [StoreFaults -> Nat]
  /\ MaxEdits \in Nat \ {0}

VARIABLES
  life,        \* what the window does
  typed,       \* StartupLoader.storage.passphrase
  loading,     \* a StartupWorker runs or its signal is queued
  live,        \* controller.state
  phrase,      \* controller.storage.passphrase
  dirty,       \* _save_pending, with the save timer running
  pending,     \* StateWriter._pending: none or one snapshot
  busy,        \* the snapshot the writer thread works on: none or one
  disk,        \* what was last written to the state file
  form,        \* what became of it: see Forms
  edits,       \* edits so far
  unwritten,   \* history: the last write failed (of those asked for at the exit, there)
  storeFaults  \* failures so far

storeVars == <<life, typed, loading, live, phrase, dirty, pending, busy, disk, form,
               edits, unwritten, storeFaults>>

Snapshot == [state : 0..MaxEdits, key : Phrases]

(* A torn file begins like one of the program's own and cannot be parsed.  A *)
(* foreign one is empty or begins like none (zeros after a power cut, a text *)
(* encrypted for another account).                                           *)
Forms == {"whole", "torn", "foreign"}

StoreTypeOK ==
  /\ life \in {"off", "starting", "asking", "up", "failed", "leaving", "closing"}
  /\ typed \in Phrases /\ phrase \in Phrases
  /\ loading \in BOOLEAN /\ dirty \in BOOLEAN /\ unwritten \in BOOLEAN
  /\ live \in 0..MaxEdits /\ edits \in 1..MaxEdits
  /\ pending \subseteq Snapshot /\ Cardinality(pending) <= 1
  /\ busy \subseteq Snapshot
  /\ disk \in Snapshot /\ form \in Forms
  /\ storeFaults \in [StoreFaults -> Nat]

StoreInit ==
  /\ life = "off" /\ typed = NoPhrase /\ loading = FALSE
  /\ live = 0 /\ phrase = NoPhrase /\ dirty = FALSE
  /\ pending = {} /\ busy = {}
  /\ disk \in [state : {1}, key : Phrases] /\ form \in Forms
  /\ edits = 1 /\ unwritten = FALSE
  /\ storeFaults = [f \in StoreFaults |-> 0]

StoreFails(f) ==
  /\ storeFaults[f] < StoreBudget[f]
  /\ storeFaults' = [storeFaults EXCEPT ![f] = @ + 1]

(* --- Saving --------------------------------------------------------------- *)

(* controller.save: the snapshot replaces one that still waits.              *)
Save(state, key) ==
  /\ dirty' = FALSE
  /\ pending' = {[state |-> state, key |-> key]}

Idling == UNCHANGED <<life, typed, loading>>

(* Most changes call save or schedule_save, which starts the timer anew.     *)
Edit ==
  /\ life = "up" /\ edits < MaxEdits
  /\ edits' = edits + 1 /\ live' = edits + 1
  /\ \/ Save(edits + 1, phrase)
     \/ dirty' = TRUE /\ UNCHANGED pending
  /\ Idling /\ UNCHANGED <<phrase, busy, disk, form, unwritten, storeFaults>>

SaveTimer ==
  /\ life = "up" /\ dirty
  /\ Save(live, phrase)
  /\ Idling /\ UNCHANGED <<live, phrase, busy, disk, form, edits, unwritten, storeFaults>>

(* set_data_passphrase and clear_data_passphrase.                            *)
SetPassphrase ==
  /\ life = "up" /\ edits < MaxEdits
  /\ edits' = edits + 1
  /\ phrase' \in Phrases \ {phrase}
  /\ Save(live, phrase')
  /\ Idling /\ UNCHANGED <<live, busy, disk, form, unwritten, storeFaults>>

(* --- The writer thread ----------------------------------------------------- *)

TakeSnapshot ==
  /\ busy = {} /\ pending # {}
  /\ busy' = pending /\ pending' = {}
  /\ Idling /\ UNCHANGED <<live, phrase, dirty, disk, form, edits, unwritten, storeFaults>>

(* write_serialized: a file beside the state file takes its place when whole. *)
ReplaceFile ==
  /\ busy # {}
  /\ disk' \in busy /\ form' = "whole" /\ busy' = {}
  /\ unwritten' = FALSE
  /\ Idling /\ UNCHANGED <<live, phrase, dirty, pending, edits, storeFaults>>

StateWriteFails ==
  /\ busy # {} /\ StoreFails("write")
  /\ busy' = {} /\ unwritten' = TRUE
  /\ Idling /\ UNCHANGED <<live, phrase, dirty, pending, disk, form, edits>>

(* --- Start ------------------------------------------------------------------ *)

Launch ==
  /\ life = "off"
  /\ life' = "starting" /\ loading' = TRUE
  /\ typed' = NoPhrase /\ live' = 0 /\ phrase' = NoPhrase
  /\ UNCHANGED <<dirty, pending, busy, disk, form, edits, unwritten, storeFaults>>

NotSaving == UNCHANGED <<dirty, pending, busy, disk, form, edits, unwritten>>

Readable == form = "whole" /\ (disk.key = NoPhrase \/ disk.key = typed)

(* complete_initialization, unless the window is already leaving.  A foreign *)
(* file is taken for none: load_payload gives the default state.             *)
Loaded ==
  /\ loading /\ (Readable \/ form = "foreign")
  /\ loading' = FALSE
  /\ IF life = "starting"
       THEN /\ life' = "up" /\ phrase' = typed
            /\ live' = IF form = "foreign" THEN 0 ELSE disk.state
       ELSE UNCHANGED <<life, live, phrase>>
  /\ NotSaving /\ UNCHANGED <<typed, storeFaults>>

(* PassphraseRequired, or a passphrase that does not open the file.          *)
NeedsPassphrase ==
  /\ loading /\ ~Readable /\ form # "foreign" /\ disk.key # NoPhrase
  /\ loading' = FALSE
  /\ life' = IF life = "starting" THEN "asking" ELSE life
  /\ NotSaving /\ UNCHANGED <<typed, live, phrase, storeFaults>>

LoadFails ==
  /\ loading
  /\ StoreFails("read") \/ (form = "torn" /\ disk.key = NoPhrase /\ UNCHANGED storeFaults)
  /\ loading' = FALSE
  /\ life' = IF life = "starting" THEN (IF typed = NoPhrase THEN "failed" ELSE "asking") ELSE life
  /\ NotSaving /\ UNCHANGED <<typed, live, phrase>>

TypePassphrase ==
  /\ life = "asking"
  /\ typed' \in Phrases
  /\ life' = "starting" /\ loading' = TRUE
  /\ NotSaving /\ UNCHANGED <<live, phrase, storeFaults>>

(* --- End -------------------------------------------------------------------- *)

(* Mutant of Quit: a state that was never loaded is saved.                   *)
QuitSavingAll ==
  /\ life \in {"starting", "asking", "failed", "up"} /\ StoreFails("quit")
  /\ life' = "closing" /\ Save(live, phrase) /\ unwritten' = FALSE
  /\ UNCHANGED <<typed, loading, live, phrase, busy, disk, form, edits>>

(* _shutdown_controller saves only a state that was loaded.                  *)
Quit ==
  /\ life \in {"starting", "asking", "failed", "up"} /\ StoreFails("quit")
  /\ IF life = "up" THEN life' = "closing" /\ Save(live, phrase)
                    ELSE life' = "leaving" /\ UNCHANGED <<dirty, pending>>
  /\ unwritten' = FALSE
  /\ UNCHANGED <<typed, loading, live, phrase, busy, disk, form, edits>>

(* close waits for the writer, at most fifteen seconds; then the thread ends *)
(* with the process.  The loader's threads are waited for.                   *)
Gone == life' = "off" /\ dirty' = FALSE /\ pending' = {} /\ busy' = {}

Exit ==
  /\ \/ life = "leaving" /\ ~loading /\ UNCHANGED storeFaults
     \/ life = "closing" /\ pending = {} /\ busy = {} /\ UNCHANGED storeFaults
     \/ life = "closing" /\ (pending # {} \/ busy # {}) /\ StoreFails("slow")
  /\ Gone /\ UNCHANGED <<typed, loading, live, phrase, disk, form, edits, unwritten>>

KillWriter ==
  /\ life # "off" /\ StoreFails("kill")
  /\ Gone /\ loading' = FALSE
  /\ UNCHANGED <<typed, live, phrase, disk, form, edits, unwritten>>

(* write_serialized does not flush: what it wrote may be lost with the power. *)
PowerFails ==
  /\ life \in {"up", "closing"} /\ form = "whole" /\ StoreFails("power")
  /\ form' \in {"torn", "foreign"}
  /\ Gone /\ loading' = FALSE
  /\ UNCHANGED <<typed, live, phrase, disk, edits, unwritten>>

StoreNext ==
  \/ Edit \/ SaveTimer \/ SetPassphrase \/ TakeSnapshot \/ ReplaceFile \/ StateWriteFails
  \/ Launch \/ Loaded \/ NeedsPassphrase \/ LoadFails \/ TypePassphrase
  \/ Quit \/ Exit \/ KillWriter \/ PowerFails

NothingQueued == pending = {} /\ busy = {} /\ ~unwritten
Stored        == form = "whole" /\ disk = [state |-> live, key |-> phrase]

(* The file never returns to an older state: snapshots that wait are merged  *)
(* into the newest, one thread writes them in order, and no state is saved   *)
(* that was not loaded.  A foreign file is the exception: the program starts *)
(* from the default state over it, and what it held before is lost.          *)
NeverBack == [][form # "foreign" => disk'.state >= disk.state]_storeVars

(* An exit that waits for the writer leaves the last state on disk under the *)
(* passphrase the user chose last, whatever earlier writes failed.           *)
NothingLostAtExit == life = "closing" /\ NothingQueued => Stored

(* While the program runs and nothing waits to be written, the disk holds    *)
(* the state in memory, even after gathered saves; or a foreign file that    *)
(* was taken for none, and nothing was changed since.                        *)
SavedWhenIdle ==
  life = "up" /\ ~dirty /\ NothingQueued => Stored \/ (form = "foreign" /\ live = 0)

(* A file nobody could read stays as it is, however often the program is     *)
(* started and left: a torn one always, a foreign one until a start has      *)
(* taken it for none and the program runs on the default state.              *)
UnreadNotReplaced ==
  [][form # "whole" /\ <<disk, form>>' # <<disk, form>>
       => form = "foreign" /\ life \in {"up", "closing"}]_storeVars

(* Every edit reaches the disk, without further edits and without an exit.   *)
EditsReachDisk ==
  (life = "up" /\ disk.state < live) ~> (disk.state = live \/ life # "up" \/ unwritten)

(* The timer fires and the thread runs; they never wait for the user.        *)
StoreFairness ==
  WF_storeVars(SaveTimer) /\ WF_storeVars(TakeSnapshot \/ ReplaceFile)

(* The state on disk: newest at an exit and when idle, never older, and only *)
(* a foreign file replaced unread.                                           *)
StoreKept ==
  [](StoreTypeOK /\ NothingLostAtExit /\ SavedWhenIdle) /\ NeverBack /\ UnreadNotReplaced

-----------------------------------------------------------------------------
(* The history of traffic: diagnostics/traffic_history.py.  A session counts *)
(* bytes while a connection lasts; when it ends they are added to the total  *)
(* of the day.  The text of an ended session is encoded once and kept.  The  *)
(* file is written by a thread, newest text first (module StateStore).       *)

CONSTANTS
  ByteLimit,     \* a counter above it is unreasonable
  MaxTraffic,    \* bound: sessions
  MaxRestarts    \* bound: kills

ASSUME TrafficAssumption == ByteLimit \in Nat /\ MaxTraffic \in Nat /\ MaxRestarts \in Nat

VARIABLES
  history,   \* _sessions
  counting,   \* the index of _current_session, 0: none
  daily,     \* _daily_totals of the one day of the model
  frozen,    \* _frozen_json: text by session
  text,      \* what was handed to the writer last
  record,    \* what traffic_history.json holds
  restarts   \* kills so far

trafficVars == <<history, counting, daily, frozen, text, record, restarts>>

Usage  == 0..(ByteLimit + 1)
Entry  == [used : 0..ByteLimit, ended : BOOLEAN]
None   == {}
Slots  == 1..MaxTraffic

TrafficTypeOK ==
  /\ history \in Seq(Entry) /\ Len(history) <= MaxTraffic
  /\ counting \in 0..Len(history)
  /\ daily \in Nat
  /\ frozen \in [Slots -> {None} \cup {{e} : e \in Entry}]
  /\ text \in Seq(Entry) /\ record \in Seq(Entry)
  /\ restarts \in 0..MaxRestarts

TrafficInit ==
  /\ history = <<>> /\ counting = 0 /\ daily = 0
  /\ frozen = [i \in Slots |-> None]
  /\ text = <<>> /\ record = <<>> /\ restarts = 0

(* _sanitize_session: an unreasonable counter is dropped.                    *)
Sane(bytes) == IF bytes > ByteLimit THEN 0 ELSE bytes

Total(sessions) ==
  LET sum[i \in 0..Len(sessions)] == IF i = 0 THEN 0 ELSE sum[i - 1] + sessions[i].used
  IN  sum[Len(sessions)]

(* serialize: an open session is encoded anew, an ended one once.            *)
Encoded(sessions, i) ==
  IF sessions[i].ended /\ frozen[i] # None THEN CHOOSE e \in frozen[i] : TRUE ELSE sessions[i]

(* Mutant of SaveHistory: open sessions are kept encoded too.                *)
SaveHistoryAll(sessions) ==
  /\ text' = sessions
  /\ frozen' = [i \in Slots |-> IF i \in DOMAIN sessions THEN {Encoded(sessions, i)} ELSE None]

SaveHistory(sessions) ==
  /\ text' = [i \in DOMAIN sessions |-> Encoded(sessions, i)]
  /\ frozen' = [i \in Slots |-> IF i \in DOMAIN sessions /\ sessions[i].ended
                                THEN {Encoded(sessions, i)} ELSE None]

(* end_session and what it leaves.                                           *)
Ended    == IF counting = 0 THEN history ELSE [history EXCEPT ![counting].ended = TRUE]
DayTotal == IF counting = 0 THEN daily ELSE daily + history[counting].used

StartSession ==
  /\ Len(history) < MaxTraffic
  /\ history' = Append(Ended, [used |-> 0, ended |-> FALSE])
  /\ daily' = DayTotal /\ counting' = Len(history) + 1
  /\ SaveHistory(history')
  /\ UNCHANGED <<record, restarts>>

(* update_session: the counters are those of the core since it started.      *)
UpdateSession ==
  /\ counting # 0
  /\ \E bytes \in Usage : history' = [history EXCEPT ![counting].used = Sane(bytes)]
  /\ UNCHANGED <<counting, daily, frozen, text, record, restarts>>

EndSession ==
  /\ counting # 0
  /\ history' = Ended /\ daily' = DayTotal /\ counting' = 0
  /\ SaveHistory(history')
  /\ UNCHANGED <<record, restarts>>

SavePeriodic ==
  /\ counting # 0
  /\ SaveHistory(history)
  /\ UNCHANGED <<history, counting, daily, record, restarts>>

WriteHistory ==
  /\ record # text
  /\ record' = text
  /\ UNCHANGED <<history, counting, daily, frozen, text, restarts>>

(* The program is killed; the next one loads the file and counts anew.       *)
Reload ==
  /\ restarts < MaxRestarts
  /\ restarts' = restarts + 1
  /\ history' = record /\ counting' = 0 /\ daily' = Total(record)
  /\ frozen' = [i \in Slots |-> None] /\ text' = record
  /\ UNCHANGED record

TrafficNext ==
  \/ StartSession \/ UpdateSession \/ EndSession \/ SavePeriodic \/ WriteHistory \/ Reload

(* The total of the day, kept by addition, is the sum over the sessions that *)
(* are not counting any more, those a kill has cut short included.           *)
DailyAgrees ==
  daily = Total(IF counting = 0 THEN history ELSE [history EXCEPT ![counting].used = 0])

(* The text kept for an ended session is what the session still says.        *)
FrozenFresh ==
  \A i \in DOMAIN history : frozen[i] # None => frozen[i] = {history[i]}

(* A session that has ended reaches the file as it ended, and no later text  *)
(* changes it.                                                               *)
EndedKept ==
  [][\A i \in DOMAIN record : record[i].ended =>
        i \in DOMAIN record' /\ record'[i] = record[i]]_trafficVars

(* The history adds up and an ended session does not change any more.        *)
TrafficKept == [](TrafficTypeOK /\ DailyAgrees /\ FrozenFresh) /\ EndedKept
=============================================================================
