--------------------------- MODULE Services_proofs ---------------------------
(* What is proved of the services around a connection.                       *)
EXTENDS MCServices, FiniteSetTheorems, WellFoundedInduction, TLAPS

-----------------------------------------------------------------------------
(* The saved state.  A snapshot waits, another may be on its way to the      *)
(* disk: each is newer than what it follows, and the last is what the        *)
(* program holds, unless the save timer still runs.  What a foreign file     *)
(* held does not count.                                                      *)
AtMostOne(S) == S = {} \/ \E s \in Snapshot : S = {s}
Runs         == life \in {"up", "closing"}
Current      == [state |-> live, key |-> phrase]

OnlyLoadedSaves ==
  /\ ~Runs => pending = {} /\ busy = {}
  /\ Runs => form # "torn"
  /\ life # "up" => ~dirty
  /\ loading => life \in {"starting", "leaving"}
  /\ life = "asking" \/ (life = "starting" /\ typed # NoPhrase) => disk.key # NoPhrase

InOrder ==
  /\ disk.state \in 0..edits
  /\ Runs => live <= edits /\ (form = "whole" => disk.state <= live)
  /\ \A b \in busy : b.state <= live /\ (form = "whole" => disk.state <= b.state)
  /\ \A p \in pending : p.state <= live /\ (form = "whole" => disk.state <= p.state)
  /\ \A b \in busy, p \in pending : b.state <= p.state

Newest ==
  Runs /\ ~dirty =>
    /\ pending # {} => pending = {Current}
    /\ pending = {} /\ busy # {} => busy = {Current}
    /\ NothingQueued => Stored \/ (life = "up" /\ form = "foreign" /\ live = 0)

StoreInv ==
  /\ StoreTypeOK /\ AtMostOne(pending) /\ AtMostOne(busy)
  /\ OnlyLoadedSaves /\ InOrder /\ Newest

StoreSpec == StoreInit /\ [][StoreNext]_storeVars

LEMMA CurrentIsSnapshot ==
  ASSUME StoreTypeOK PROVE Current \in Snapshot
BY DEF StoreTypeOK, Current, Snapshot

LEMMA OneSnapshot ==
  ASSUME NEW S, AtMostOne(S) PROVE S \subseteq Snapshot /\ Cardinality(S) <= 1
<1>1. CASE S = {}
  BY <1>1, FS_EmptySet
<1>2. CASE \E s \in Snapshot : S = {s}
  <2>1. PICK s \in Snapshot : S = {s}
    BY <1>2
  <2>2. Cardinality({s}) = 1
    BY FS_Singleton
  <2> QED BY <2>1, <2>2
<1> QED BY <1>1, <1>2 DEF AtMostOne

LEMMA FaultsCounted ==
  ASSUME storeFaults \in [StoreFaults -> Nat], NEW f \in StoreFaults, StoreFails(f)
  PROVE  storeFaults' \in [StoreFaults -> Nat]
BY DEF StoreFails

(* The failures a program may have count for nothing else.                   *)
StoreCore == <<life, typed, loading, live, phrase, dirty, pending, busy, disk, form, edits, unwritten>>

LEMMA StoreAtStart == ASSUME StoreInit PROVE StoreInv
<1>1. disk \in Snapshot /\ disk.state = 1
  BY StoreAssumption DEF StoreInit, Snapshot
<1>2. AtMostOne(pending) /\ AtMostOne(busy) /\ Cardinality(pending) <= 1
  BY FS_EmptySet DEF StoreInit, AtMostOne
<1>3. storeFaults \in [StoreFaults -> Nat]
  BY DEF StoreInit
<1>5. loading \in BOOLEAN /\ dirty \in BOOLEAN /\ unwritten \in BOOLEAN
  BY Zenon DEF StoreInit
<1>4. StoreTypeOK
  BY <1>1, <1>2, <1>3, <1>5, StoreAssumption DEF StoreInit, StoreTypeOK
<1> QED BY <1>1, <1>2, <1>4 DEF StoreInit, StoreInv, OnlyLoadedSaves, InOrder, Newest, Runs

LEMMA EditKept == ASSUME StoreInv, Edit PROVE StoreInv'
<1> USE DEF StoreInv, OnlyLoadedSaves, InOrder, Newest, Runs, Current, Stored, NothingQueued
<1>1. StoreTypeOK' /\ AtMostOne(pending)' /\ AtMostOne(busy)'
  <2>1. [state |-> edits + 1, key |-> phrase] \in Snapshot /\ edits + 1 \in 1..MaxEdits
    BY StoreAssumption DEF Edit, StoreTypeOK, Snapshot
  <2>2. AtMostOne(pending)' /\ AtMostOne(busy)'
    BY <2>1 DEF Edit, Save, AtMostOne
  <2>3. pending' \subseteq Snapshot /\ Cardinality(pending') <= 1
    BY <2>2, OneSnapshot
  <2>4. loading' \in BOOLEAN /\ dirty' \in BOOLEAN /\ unwritten' \in BOOLEAN
    BY Zenon DEF Edit, Save, Idling, StoreTypeOK
  <2> QED BY <2>1, <2>2, <2>3, <2>4, StoreAssumption DEF Edit, Save, Idling, StoreTypeOK
<1>2. OnlyLoadedSaves'
  BY DEF Edit, Save, Idling
<1>3. InOrder'
  <2>1. /\ live' = edits + 1 /\ edits' = edits + 1 /\ busy' = busy /\ disk' = disk /\ form' = form
        /\ edits \in Nat /\ live \in Nat
    BY DEF Edit, StoreTypeOK
  <2>2. \A p \in pending' : p \in pending \/ p = [state |-> edits + 1, key |-> phrase]
    BY DEF Edit, Save
  <2>3. \A b \in busy \cup pending : b.state \in Nat
    BY DEF StoreTypeOK, Snapshot
  <2>4. disk.state \in Nat
    BY DEF StoreTypeOK, Snapshot
  <2>5. life = "up" /\ Runs
    BY DEF Edit
  <2> QED BY <2>1, <2>2, <2>3, <2>4, <2>5
<1>4. Newest'
  BY DEF Edit, Save, Idling
<1> QED BY <1>1, <1>2, <1>3, <1>4

LEMMA SaveTimerKept == ASSUME StoreInv, SaveTimer PROVE StoreInv'
<1> USE DEF StoreInv, OnlyLoadedSaves, InOrder, Newest, Runs, Current, Stored, NothingQueued
<1>1. StoreTypeOK' /\ AtMostOne(pending)' /\ AtMostOne(busy)'
  <2>1. AtMostOne(pending)' /\ AtMostOne(busy)'
    BY CurrentIsSnapshot DEF SaveTimer, Save, Idling, AtMostOne
  <2>2. pending' \subseteq Snapshot /\ busy' \subseteq Snapshot /\ Cardinality(pending') <= 1
    BY <2>1, OneSnapshot
  <2>3. loading' \in BOOLEAN /\ dirty' \in BOOLEAN /\ unwritten' \in BOOLEAN
    BY Zenon DEF SaveTimer, Save, Idling, StoreTypeOK
  <2>4. storeFaults' \in [StoreFaults -> Nat]
    BY FaultsCounted DEF SaveTimer, Save, Idling, StoreFaults, StoreTypeOK
  <2>5. disk \in Snapshot /\ disk.state \in 0..MaxEdits /\ disk.key \in Phrases /\ form \in Forms
    BY DEF StoreTypeOK, Snapshot
  <2> QED BY <2>2, <2>3, <2>4, <2>5, StoreAssumption DEF SaveTimer, Save, Idling, StoreTypeOK, AtMostOne, Forms
<1>2. OnlyLoadedSaves'
  BY DEF SaveTimer, Save, Idling
<1>3. InOrder'
  <2>1. \A b \in busy \cup pending : b.state \in Nat
    BY DEF StoreTypeOK, Snapshot
  <2>2. disk.state \in Nat /\ live \in Nat /\ edits \in Nat
    BY DEF StoreTypeOK, Snapshot
  <2> QED BY <2>1, <2>2 DEF SaveTimer, Save, Idling
<1>4. Newest'
  BY DEF SaveTimer, Save, Idling
<1> QED BY <1>1, <1>2, <1>3, <1>4

LEMMA SetPassphraseKept == ASSUME StoreInv, SetPassphrase PROVE StoreInv'
<1> USE DEF StoreInv, OnlyLoadedSaves, InOrder, Newest, Runs, Current, Stored, NothingQueued
<1>1. StoreTypeOK' /\ AtMostOne(pending)' /\ AtMostOne(busy)'
  <2>1. AtMostOne(pending)' /\ AtMostOne(busy)'
    <3>1. [state |-> live, key |-> phrase'] \in Snapshot
      BY DEF SetPassphrase, StoreTypeOK, Snapshot
    <3> QED BY <3>1 DEF SetPassphrase, Save, Idling, AtMostOne
  <2>2. pending' \subseteq Snapshot /\ busy' \subseteq Snapshot /\ Cardinality(pending') <= 1
    BY <2>1, OneSnapshot
  <2>3. loading' \in BOOLEAN /\ dirty' \in BOOLEAN /\ unwritten' \in BOOLEAN
    BY Zenon DEF SetPassphrase, Save, Idling, StoreTypeOK
  <2>4. storeFaults' \in [StoreFaults -> Nat]
    BY FaultsCounted DEF SetPassphrase, Save, Idling, StoreFaults, StoreTypeOK
  <2>5. disk \in Snapshot /\ disk.state \in 0..MaxEdits /\ disk.key \in Phrases /\ form \in Forms
    BY DEF StoreTypeOK, Snapshot
  <2> QED BY <2>2, <2>3, <2>4, <2>5, StoreAssumption DEF SetPassphrase, Save, Idling, StoreTypeOK, AtMostOne, Forms
<1>2. OnlyLoadedSaves'
  BY DEF SetPassphrase, Save, Idling
<1>3. InOrder'
  <2>1. \A b \in busy \cup pending : b.state \in Nat
    BY DEF StoreTypeOK, Snapshot
  <2>2. disk.state \in Nat /\ live \in Nat /\ edits \in Nat
    BY DEF StoreTypeOK, Snapshot
  <2> QED BY <2>1, <2>2 DEF SetPassphrase, Save, Idling
<1>4. Newest'
  BY DEF SetPassphrase, Save, Idling
<1> QED BY <1>1, <1>2, <1>3, <1>4

LEMMA TakeSnapshotKept == ASSUME StoreInv, TakeSnapshot PROVE StoreInv'
<1> USE DEF StoreInv, OnlyLoadedSaves, InOrder, Newest, Runs, Current, Stored, NothingQueued
<1>1. StoreTypeOK' /\ AtMostOne(pending)' /\ AtMostOne(busy)'
  <2>1. AtMostOne(pending)' /\ AtMostOne(busy)'
    BY CurrentIsSnapshot DEF TakeSnapshot, Idling, AtMostOne
  <2>2. pending' \subseteq Snapshot /\ busy' \subseteq Snapshot /\ Cardinality(pending') <= 1
    BY <2>1, OneSnapshot
  <2>3. loading' \in BOOLEAN /\ dirty' \in BOOLEAN /\ unwritten' \in BOOLEAN
    BY Zenon DEF TakeSnapshot, Idling, StoreTypeOK
  <2>4. storeFaults' \in [StoreFaults -> Nat]
    BY FaultsCounted DEF TakeSnapshot, Idling, StoreFaults, StoreTypeOK
  <2>5. disk \in Snapshot /\ disk.state \in 0..MaxEdits /\ disk.key \in Phrases /\ form \in Forms
    BY DEF StoreTypeOK, Snapshot
  <2> QED BY <2>2, <2>3, <2>4, <2>5, StoreAssumption DEF TakeSnapshot, Idling, StoreTypeOK, AtMostOne, Forms
<1>2. OnlyLoadedSaves'
  BY DEF TakeSnapshot, Idling
<1>3. InOrder'
  <2>1. \A b \in busy \cup pending : b.state \in Nat
    BY DEF StoreTypeOK, Snapshot
  <2>2. disk.state \in Nat /\ live \in Nat /\ edits \in Nat
    BY DEF StoreTypeOK, Snapshot
  <2> QED BY <2>1, <2>2 DEF TakeSnapshot, Idling
<1>4. Newest'
  BY DEF TakeSnapshot, Idling
<1> QED BY <1>1, <1>2, <1>3, <1>4

LEMMA ReplaceFileKept == ASSUME StoreInv, ReplaceFile PROVE StoreInv'
<1> USE DEF StoreInv, OnlyLoadedSaves, InOrder, Newest, Runs, Current, Stored, NothingQueued
<1>1. StoreTypeOK' /\ AtMostOne(pending)' /\ AtMostOne(busy)'
  <2>1. AtMostOne(pending)' /\ AtMostOne(busy)'
    BY CurrentIsSnapshot DEF ReplaceFile, Idling, AtMostOne
  <2>2. pending' \subseteq Snapshot /\ busy' \subseteq Snapshot /\ Cardinality(pending') <= 1
    BY <2>1, OneSnapshot
  <2>3. loading' \in BOOLEAN /\ dirty' \in BOOLEAN /\ unwritten' \in BOOLEAN
    BY Zenon DEF ReplaceFile, Idling, StoreTypeOK
  <2>4. storeFaults' \in [StoreFaults -> Nat]
    BY FaultsCounted DEF ReplaceFile, Idling, StoreFaults, StoreTypeOK
  <2>5. disk \in Snapshot /\ disk.state \in 0..MaxEdits /\ disk.key \in Phrases /\ form \in Forms
    BY DEF StoreTypeOK, Snapshot
  <2> QED BY <2>2, <2>3, <2>4, <2>5, StoreAssumption DEF ReplaceFile, Idling, StoreTypeOK, AtMostOne, Forms
<1>2. OnlyLoadedSaves'
  BY DEF ReplaceFile, Idling
<1>3. InOrder'
  <2>1. \A b \in busy \cup pending : b.state \in Nat
    BY DEF StoreTypeOK, Snapshot
  <2>2. disk.state \in Nat /\ live \in Nat /\ edits \in Nat
    BY DEF StoreTypeOK, Snapshot
  <2> QED BY <2>1, <2>2 DEF ReplaceFile, Idling
<1>4. Newest'
  BY DEF ReplaceFile, Idling
<1> QED BY <1>1, <1>2, <1>3, <1>4

LEMMA StateWriteFailsKept == ASSUME StoreInv, StateWriteFails PROVE StoreInv'
<1> USE DEF StoreInv, OnlyLoadedSaves, InOrder, Newest, Runs, Current, Stored, NothingQueued
<1>1. StoreTypeOK' /\ AtMostOne(pending)' /\ AtMostOne(busy)'
  <2>1. AtMostOne(pending)' /\ AtMostOne(busy)'
    BY CurrentIsSnapshot DEF StateWriteFails, Idling, AtMostOne
  <2>2. pending' \subseteq Snapshot /\ busy' \subseteq Snapshot /\ Cardinality(pending') <= 1
    BY <2>1, OneSnapshot
  <2>3. loading' \in BOOLEAN /\ dirty' \in BOOLEAN /\ unwritten' \in BOOLEAN
    BY Zenon DEF StateWriteFails, Idling, StoreTypeOK
  <2>4. storeFaults' \in [StoreFaults -> Nat]
    BY FaultsCounted DEF StateWriteFails, Idling, StoreFaults, StoreTypeOK
  <2>5. disk \in Snapshot /\ disk.state \in 0..MaxEdits /\ disk.key \in Phrases /\ form \in Forms
    BY DEF StoreTypeOK, Snapshot
  <2> QED BY <2>2, <2>3, <2>4, <2>5, StoreAssumption DEF StateWriteFails, Idling, StoreTypeOK, AtMostOne, Forms
<1>2. OnlyLoadedSaves'
  BY DEF StateWriteFails, Idling
<1>3. InOrder'
  <2>1. \A b \in busy \cup pending : b.state \in Nat
    BY DEF StoreTypeOK, Snapshot
  <2>2. disk.state \in Nat /\ live \in Nat /\ edits \in Nat
    BY DEF StoreTypeOK, Snapshot
  <2> QED BY <2>1, <2>2 DEF StateWriteFails, Idling
<1>4. Newest'
  BY DEF StateWriteFails, Idling
<1> QED BY <1>1, <1>2, <1>3, <1>4

LEMMA LaunchKept == ASSUME StoreInv, Launch PROVE StoreInv'
<1> USE DEF StoreInv, OnlyLoadedSaves, InOrder, Newest, Runs, Current, Stored, NothingQueued
<1>1. StoreTypeOK' /\ AtMostOne(pending)' /\ AtMostOne(busy)'
  <2>1. AtMostOne(pending)' /\ AtMostOne(busy)'
    BY CurrentIsSnapshot DEF Launch, AtMostOne
  <2>2. pending' \subseteq Snapshot /\ busy' \subseteq Snapshot /\ Cardinality(pending') <= 1
    BY <2>1, OneSnapshot
  <2>3. loading' \in BOOLEAN /\ dirty' \in BOOLEAN /\ unwritten' \in BOOLEAN
    BY Zenon DEF Launch, StoreTypeOK
  <2>4. storeFaults' \in [StoreFaults -> Nat]
    BY FaultsCounted DEF Launch, StoreFaults, StoreTypeOK
  <2>5. disk \in Snapshot /\ disk.state \in 0..MaxEdits /\ disk.key \in Phrases /\ form \in Forms
    BY DEF StoreTypeOK, Snapshot
  <2> QED BY <2>2, <2>3, <2>4, <2>5, StoreAssumption DEF Launch, StoreTypeOK, AtMostOne, Forms
<1>2. OnlyLoadedSaves'
  BY DEF Launch
<1>3. InOrder'
  <2>1. \A b \in busy \cup pending : b.state \in Nat
    BY DEF StoreTypeOK, Snapshot
  <2>2. disk.state \in Nat /\ live \in Nat /\ edits \in Nat
    BY DEF StoreTypeOK, Snapshot
  <2> QED BY <2>1, <2>2 DEF Launch
<1>4. Newest'
  BY DEF Launch
<1> QED BY <1>1, <1>2, <1>3, <1>4

LEMMA LoadedKept == ASSUME StoreInv, Loaded PROVE StoreInv'
<1> USE DEF StoreInv, OnlyLoadedSaves, InOrder, Newest, Runs, Current, Stored, NothingQueued
<1>1. StoreTypeOK' /\ AtMostOne(pending)' /\ AtMostOne(busy)'
  <2>1. AtMostOne(pending)' /\ AtMostOne(busy)'
    BY CurrentIsSnapshot DEF Loaded, NotSaving, Readable, AtMostOne
  <2>2. pending' \subseteq Snapshot /\ busy' \subseteq Snapshot /\ Cardinality(pending') <= 1
    BY <2>1, OneSnapshot
  <2>3. loading' \in BOOLEAN /\ dirty' \in BOOLEAN /\ unwritten' \in BOOLEAN
    BY Zenon DEF Loaded, NotSaving, Readable, StoreTypeOK
  <2>4. storeFaults' \in [StoreFaults -> Nat]
    BY FaultsCounted DEF Loaded, NotSaving, Readable, StoreFaults, StoreTypeOK
  <2>5. disk \in Snapshot /\ disk.state \in 0..MaxEdits /\ disk.key \in Phrases /\ form \in Forms
    BY DEF StoreTypeOK, Snapshot
  <2> QED BY <2>2, <2>3, <2>4, <2>5, StoreAssumption DEF Loaded, NotSaving, Readable, StoreTypeOK, AtMostOne, Forms
<1>2. OnlyLoadedSaves'
  BY DEF Loaded, NotSaving, Readable
<1>3. InOrder'
  <2>1. \A b \in busy \cup pending : b.state \in Nat
    BY DEF StoreTypeOK, Snapshot
  <2>2. disk.state \in Nat /\ live \in Nat /\ edits \in Nat
    BY DEF StoreTypeOK, Snapshot
  <2> QED BY <2>1, <2>2 DEF Loaded, NotSaving, Readable
<1>4. Newest'
  <2>1. disk = [state |-> disk.state, key |-> disk.key]
    BY DEF StoreTypeOK, Snapshot
  <2> QED BY <2>1 DEF Loaded, NotSaving, Readable
<1> QED BY <1>1, <1>2, <1>3, <1>4

LEMMA NeedsPassphraseKept == ASSUME StoreInv, NeedsPassphrase PROVE StoreInv'
<1> USE DEF StoreInv, OnlyLoadedSaves, InOrder, Newest, Runs, Current, Stored, NothingQueued
<1>1. StoreTypeOK' /\ AtMostOne(pending)' /\ AtMostOne(busy)'
  <2>1. AtMostOne(pending)' /\ AtMostOne(busy)'
    BY CurrentIsSnapshot DEF NeedsPassphrase, NotSaving, Readable, AtMostOne
  <2>2. pending' \subseteq Snapshot /\ busy' \subseteq Snapshot /\ Cardinality(pending') <= 1
    BY <2>1, OneSnapshot
  <2>3. loading' \in BOOLEAN /\ dirty' \in BOOLEAN /\ unwritten' \in BOOLEAN
    BY Zenon DEF NeedsPassphrase, NotSaving, Readable, StoreTypeOK
  <2>4. storeFaults' \in [StoreFaults -> Nat]
    BY FaultsCounted DEF NeedsPassphrase, NotSaving, Readable, StoreFaults, StoreTypeOK
  <2>5. disk \in Snapshot /\ disk.state \in 0..MaxEdits /\ disk.key \in Phrases /\ form \in Forms
    BY DEF StoreTypeOK, Snapshot
  <2> QED
    BY <2>2, <2>3, <2>4, <2>5, StoreAssumption DEF NeedsPassphrase, NotSaving, Readable, StoreTypeOK, AtMostOne, Forms
<1>2. OnlyLoadedSaves'
  BY DEF NeedsPassphrase, NotSaving, Readable
<1>3. InOrder'
  <2>1. \A b \in busy \cup pending : b.state \in Nat
    BY DEF StoreTypeOK, Snapshot
  <2>2. disk.state \in Nat /\ live \in Nat /\ edits \in Nat
    BY DEF StoreTypeOK, Snapshot
  <2> QED BY <2>1, <2>2 DEF NeedsPassphrase, NotSaving, Readable
<1>4. Newest'
  BY DEF NeedsPassphrase, NotSaving, Readable
<1> QED BY <1>1, <1>2, <1>3, <1>4

LEMMA LoadFailsKept == ASSUME StoreInv, LoadFails PROVE StoreInv'
<1> USE DEF StoreInv, OnlyLoadedSaves, InOrder, Newest, Runs, Current, Stored, NothingQueued
<1>1. StoreTypeOK' /\ AtMostOne(pending)' /\ AtMostOne(busy)'
  <2>1. AtMostOne(pending)' /\ AtMostOne(busy)'
    BY CurrentIsSnapshot DEF LoadFails, NotSaving, AtMostOne
  <2>2. pending' \subseteq Snapshot /\ busy' \subseteq Snapshot /\ Cardinality(pending') <= 1
    BY <2>1, OneSnapshot
  <2>3. loading' \in BOOLEAN /\ dirty' \in BOOLEAN /\ unwritten' \in BOOLEAN
    BY Zenon DEF LoadFails, NotSaving, StoreTypeOK
  <2>4. storeFaults' \in [StoreFaults -> Nat]
    BY FaultsCounted DEF LoadFails, NotSaving, StoreFaults, StoreTypeOK
  <2>5. disk \in Snapshot /\ disk.state \in 0..MaxEdits /\ disk.key \in Phrases /\ form \in Forms
    BY DEF StoreTypeOK, Snapshot
  <2> QED BY <2>2, <2>3, <2>4, <2>5, StoreAssumption DEF LoadFails, NotSaving, StoreTypeOK, AtMostOne, Forms
<1>2. OnlyLoadedSaves'
  BY DEF LoadFails, NotSaving
<1>3. InOrder'
  <2>1. \A b \in busy \cup pending : b.state \in Nat
    BY DEF StoreTypeOK, Snapshot
  <2>2. disk.state \in Nat /\ live \in Nat /\ edits \in Nat
    BY DEF StoreTypeOK, Snapshot
  <2> QED BY <2>1, <2>2 DEF LoadFails, NotSaving
<1>4. Newest'
  BY DEF LoadFails, NotSaving
<1> QED BY <1>1, <1>2, <1>3, <1>4

LEMMA TypePassphraseKept == ASSUME StoreInv, TypePassphrase PROVE StoreInv'
<1> USE DEF StoreInv, OnlyLoadedSaves, InOrder, Newest, Runs, Current, Stored, NothingQueued
<1>1. StoreTypeOK' /\ AtMostOne(pending)' /\ AtMostOne(busy)'
  <2>1. AtMostOne(pending)' /\ AtMostOne(busy)'
    BY CurrentIsSnapshot DEF TypePassphrase, NotSaving, AtMostOne
  <2>2. pending' \subseteq Snapshot /\ busy' \subseteq Snapshot /\ Cardinality(pending') <= 1
    BY <2>1, OneSnapshot
  <2>3. loading' \in BOOLEAN /\ dirty' \in BOOLEAN /\ unwritten' \in BOOLEAN
    BY Zenon DEF TypePassphrase, NotSaving, StoreTypeOK
  <2>4. storeFaults' \in [StoreFaults -> Nat]
    BY FaultsCounted DEF TypePassphrase, NotSaving, StoreFaults, StoreTypeOK
  <2>5. disk \in Snapshot /\ disk.state \in 0..MaxEdits /\ disk.key \in Phrases /\ form \in Forms
    BY DEF StoreTypeOK, Snapshot
  <2> QED BY <2>2, <2>3, <2>4, <2>5, StoreAssumption DEF TypePassphrase, NotSaving, StoreTypeOK, AtMostOne, Forms
<1>2. OnlyLoadedSaves'
  BY DEF TypePassphrase, NotSaving
<1>3. InOrder'
  <2>1. \A b \in busy \cup pending : b.state \in Nat
    BY DEF StoreTypeOK, Snapshot
  <2>2. disk.state \in Nat /\ live \in Nat /\ edits \in Nat
    BY DEF StoreTypeOK, Snapshot
  <2> QED BY <2>1, <2>2 DEF TypePassphrase, NotSaving
<1>4. Newest'
  BY DEF TypePassphrase, NotSaving
<1> QED BY <1>1, <1>2, <1>3, <1>4

LEMMA QuitKept == ASSUME StoreInv, Quit PROVE StoreInv'
<1> USE DEF StoreInv, OnlyLoadedSaves, InOrder, Newest, Runs, Current, Stored, NothingQueued
<1>1. StoreTypeOK' /\ AtMostOne(pending)' /\ AtMostOne(busy)'
  <2>1. AtMostOne(pending)' /\ AtMostOne(busy)'
    BY CurrentIsSnapshot DEF Quit, Save, AtMostOne
  <2>2. pending' \subseteq Snapshot /\ busy' \subseteq Snapshot /\ Cardinality(pending') <= 1
    BY <2>1, OneSnapshot
  <2>3. loading' \in BOOLEAN /\ dirty' \in BOOLEAN /\ unwritten' \in BOOLEAN
    BY Zenon DEF Quit, Save, StoreTypeOK
  <2>4. storeFaults' \in [StoreFaults -> Nat]
    BY FaultsCounted DEF Quit, Save, StoreFaults, StoreTypeOK
  <2>5. disk \in Snapshot /\ disk.state \in 0..MaxEdits /\ disk.key \in Phrases /\ form \in Forms
    BY DEF StoreTypeOK, Snapshot
  <2> QED BY <2>2, <2>3, <2>4, <2>5, StoreAssumption DEF Quit, Save, StoreTypeOK, AtMostOne, Forms
<1>2. OnlyLoadedSaves'
  BY DEF Quit, Save
<1>3. InOrder'
  <2>1. \A b \in busy \cup pending : b.state \in Nat
    BY DEF StoreTypeOK, Snapshot
  <2>2. disk.state \in Nat /\ live \in Nat /\ edits \in Nat
    BY DEF StoreTypeOK, Snapshot
  <2> QED BY <2>1, <2>2 DEF Quit, Save
<1>4. Newest'
  BY DEF Quit, Save
<1> QED BY <1>1, <1>2, <1>3, <1>4

LEMMA ExitKept == ASSUME StoreInv, Exit PROVE StoreInv'
<1> USE DEF StoreInv, OnlyLoadedSaves, InOrder, Newest, Runs, Current, Stored, NothingQueued
<1>1. StoreTypeOK' /\ AtMostOne(pending)' /\ AtMostOne(busy)'
  <2>1. AtMostOne(pending)' /\ AtMostOne(busy)'
    BY CurrentIsSnapshot DEF Exit, Gone, AtMostOne
  <2>2. pending' \subseteq Snapshot /\ busy' \subseteq Snapshot /\ Cardinality(pending') <= 1
    BY <2>1, OneSnapshot
  <2>3. loading' \in BOOLEAN /\ dirty' \in BOOLEAN /\ unwritten' \in BOOLEAN
    BY Zenon DEF Exit, Gone, StoreTypeOK
  <2>4. storeFaults' \in [StoreFaults -> Nat]
    BY FaultsCounted DEF Exit, Gone, StoreFaults, StoreTypeOK
  <2>5. disk \in Snapshot /\ disk.state \in 0..MaxEdits /\ disk.key \in Phrases /\ form \in Forms
    BY DEF StoreTypeOK, Snapshot
  <2> QED BY <2>2, <2>3, <2>4, <2>5, StoreAssumption DEF Exit, Gone, StoreTypeOK, AtMostOne, Forms
<1>2. OnlyLoadedSaves'
  BY DEF Exit, Gone
<1>3. InOrder'
  <2>1. \A b \in busy \cup pending : b.state \in Nat
    BY DEF StoreTypeOK, Snapshot
  <2>2. disk.state \in Nat /\ live \in Nat /\ edits \in Nat
    BY DEF StoreTypeOK, Snapshot
  <2> QED BY <2>1, <2>2 DEF Exit, Gone
<1>4. Newest'
  BY DEF Exit, Gone
<1> QED BY <1>1, <1>2, <1>3, <1>4

LEMMA KillWriterKept == ASSUME StoreInv, KillWriter PROVE StoreInv'
<1> USE DEF StoreInv, OnlyLoadedSaves, InOrder, Newest, Runs, Current, Stored, NothingQueued
<1>1. StoreTypeOK' /\ AtMostOne(pending)' /\ AtMostOne(busy)'
  <2>1. AtMostOne(pending)' /\ AtMostOne(busy)'
    BY CurrentIsSnapshot DEF KillWriter, Gone, AtMostOne
  <2>2. pending' \subseteq Snapshot /\ busy' \subseteq Snapshot /\ Cardinality(pending') <= 1
    BY <2>1, OneSnapshot
  <2>3. loading' \in BOOLEAN /\ dirty' \in BOOLEAN /\ unwritten' \in BOOLEAN
    BY Zenon DEF KillWriter, Gone, StoreTypeOK
  <2>4. storeFaults' \in [StoreFaults -> Nat]
    BY FaultsCounted DEF KillWriter, Gone, StoreFaults, StoreTypeOK
  <2>5. disk \in Snapshot /\ disk.state \in 0..MaxEdits /\ disk.key \in Phrases /\ form \in Forms
    BY DEF StoreTypeOK, Snapshot
  <2> QED BY <2>2, <2>3, <2>4, <2>5, StoreAssumption DEF KillWriter, Gone, StoreTypeOK, AtMostOne, Forms
<1>2. OnlyLoadedSaves'
  BY DEF KillWriter, Gone
<1>3. InOrder'
  <2>1. \A b \in busy \cup pending : b.state \in Nat
    BY DEF StoreTypeOK, Snapshot
  <2>2. disk.state \in Nat /\ live \in Nat /\ edits \in Nat
    BY DEF StoreTypeOK, Snapshot
  <2> QED BY <2>1, <2>2 DEF KillWriter, Gone
<1>4. Newest'
  BY DEF KillWriter, Gone
<1> QED BY <1>1, <1>2, <1>3, <1>4

LEMMA PowerFailsKept == ASSUME StoreInv, PowerFails PROVE StoreInv'
<1> USE DEF StoreInv, OnlyLoadedSaves, InOrder, Newest, Runs, Current, Stored, NothingQueued
<1>1. StoreTypeOK' /\ AtMostOne(pending)' /\ AtMostOne(busy)'
  <2>1. AtMostOne(pending)' /\ AtMostOne(busy)'
    BY CurrentIsSnapshot DEF PowerFails, Gone, AtMostOne
  <2>2. pending' \subseteq Snapshot /\ busy' \subseteq Snapshot /\ Cardinality(pending') <= 1
    BY <2>1, OneSnapshot
  <2>3. loading' \in BOOLEAN /\ dirty' \in BOOLEAN /\ unwritten' \in BOOLEAN
    BY Zenon DEF PowerFails, Gone, StoreTypeOK
  <2>4. storeFaults' \in [StoreFaults -> Nat]
    BY FaultsCounted DEF PowerFails, Gone, StoreFaults, StoreTypeOK
  <2>5. disk \in Snapshot /\ disk.state \in 0..MaxEdits /\ disk.key \in Phrases /\ form \in Forms
    BY DEF StoreTypeOK, Snapshot
  <2> QED BY <2>2, <2>3, <2>4, <2>5, StoreAssumption DEF PowerFails, Gone, StoreTypeOK, AtMostOne, Forms
<1>2. OnlyLoadedSaves'
  BY DEF PowerFails, Gone
<1>3. InOrder'
  <2>1. \A b \in busy \cup pending : b.state \in Nat
    BY DEF StoreTypeOK, Snapshot
  <2>2. disk.state \in Nat /\ live \in Nat /\ edits \in Nat
    BY DEF StoreTypeOK, Snapshot
  <2> QED BY <2>1, <2>2 DEF PowerFails, Gone
<1>4. Newest'
  BY DEF PowerFails, Gone
<1> QED BY <1>1, <1>2, <1>3, <1>4

LEMMA StoreStep == ASSUME StoreInv, StoreNext PROVE StoreInv'
BY EditKept, SaveTimerKept, SetPassphraseKept, TakeSnapshotKept, ReplaceFileKept, StateWriteFailsKept,
   LaunchKept, LoadedKept, NeedsPassphraseKept, LoadFailsKept, TypePassphraseKept, QuitKept, ExitKept,
   KillWriterKept, PowerFailsKept
DEF StoreNext

LEMMA StoreStays == ASSUME StoreInv, UNCHANGED storeVars PROVE StoreInv'
<1>1. StoreTypeOK'
  BY DEF StoreInv, StoreTypeOK, storeVars
<1> QED BY <1>1
  DEF StoreInv, AtMostOne, OnlyLoadedSaves, InOrder, Newest, Runs, Current, Stored, NothingQueued, storeVars

LEMMA StoreInvImplies ==
  ASSUME StoreInv
  PROVE  StoreTypeOK /\ NothingLostAtExit /\ SavedWhenIdle
<1>1. NothingLostAtExit /\ SavedWhenIdle
  BY DEF StoreInv, OnlyLoadedSaves, Newest, Runs, Current, NothingLostAtExit, SavedWhenIdle
<1> QED BY <1>1 DEF StoreInv

(* Only the writer, and a power cut, touch the file.                         *)
LEMMA WhoWrites ==
  ASSUME StoreInv, [StoreNext]_storeVars
  PROVE  ReplaceFile \/ PowerFails \/ UNCHANGED <<disk, form>>
BY DEF StoreNext, Edit, SaveTimer, SetPassphrase, TakeSnapshot, StateWriteFails, Launch, Loaded,
       NeedsPassphrase, LoadFails, TypePassphrase, Quit, Exit, KillWriter, NotSaving, Idling, storeVars

LEMMA StoreNeverBack ==
  ASSUME StoreInv, [StoreNext]_storeVars
  PROVE  form # "foreign" => disk'.state >= disk.state
<1>1. disk.state \in Nat
  BY DEF StoreInv, StoreTypeOK, Snapshot
<1>2. CASE ReplaceFile
  <2>1. disk' \in busy /\ disk'.state \in Nat
    BY <1>2 DEF ReplaceFile, StoreInv, StoreTypeOK, Snapshot
  <2>2. form # "torn"
    BY <1>2 DEF ReplaceFile, StoreInv, OnlyLoadedSaves
  <2> QED BY <1>1, <2>1, <2>2 DEF StoreInv, InOrder, StoreTypeOK, Forms
<1>3. CASE PowerFails \/ UNCHANGED <<disk, form>>
  BY <1>1, <1>3 DEF PowerFails
<1> QED BY <1>2, <1>3, WhoWrites

LEMMA StoreUnread ==
  ASSUME StoreInv, [StoreNext]_storeVars
  PROVE  form # "whole" /\ <<disk, form>>' # <<disk, form>>
           => form = "foreign" /\ life \in {"up", "closing"}
<1>1. CASE ReplaceFile
  BY <1>1 DEF ReplaceFile, StoreInv, OnlyLoadedSaves, Runs, StoreTypeOK, Forms
<1>2. CASE PowerFails \/ UNCHANGED <<disk, form>>
  BY <1>2 DEF PowerFails
<1> QED BY <1>1, <1>2, WhoWrites

-----------------------------------------------------------------------------
(* The templates.  A section the user has left alone is as in the template   *)
(* on disk, or already as in the release; one he has changed is not as in    *)
(* the template.                                                             *)
FollowsOne ==
  IsDocument(active) =>
    /\ IsDocument(installed)
    /\ \A s \in touched : ~Same(active, installed, s)
    /\ \A s \in Section \ touched : Same(active, installed, s) \/ Same(active, Bundle[release], s)

TemplateInv ==
  /\ TemplateTypeOK /\ FollowsOne
  /\ stage \in {"up", "saving"} => installed = Bundle[release]
  /\ stage = "template" /\ IsDocument(active)
       => \A s \in Section \ touched : Same(active, Bundle[release], s)
  /\ active = NoFile => touched = {}

TemplateSpec == TemplateInit /\ [][TemplateNext]_templateVars

Texts == {"a", "b", "c", Mine}

(* A document is a function on sections, and neither missing nor torn.       *)
LEMMA DocumentType ==
  ASSUME NEW V, NEW f \in Documents(V), "file" \notin V, "text" \notin V
  PROVE  /\ IsDocument(f) /\ DOMAIN f \subseteq Section /\ \A t \in DOMAIN f : f[t] \in V
         /\ f = [t \in DOMAIN f |-> f[t]]
<1>1. PICK S \in SUBSET Section : f \in [S -> V]
  BY DEF Documents
<1>2. NoFile["missing"] = "file" /\ "missing" \in DOMAIN NoFile
  BY DEF NoFile
<1>3. Torn["torn"] = "text" /\ "torn" \in DOMAIN Torn
  BY DEF Torn
<1> QED BY <1>1, <1>2, <1>3 DEF IsDocument

LEMMA MadeDocument ==
  ASSUME NEW S \in SUBSET Section, NEW V, NEW f \in [S -> V] PROVE f \in Documents(V)
BY DEF Documents

LEMMA BundleType ==
  ASSUME NEW r \in Releases
  PROVE  /\ Bundle[r] \in Documents(Texts) /\ IsDocument(Bundle[r])
         /\ DOMAIN Bundle[r] \subseteq Section /\ \A t \in DOMAIN Bundle[r] : Bundle[r][t] \in Texts
<1>1. Bundle[r] \in Documents({"a", "b", "c"})
  BY TemplateAssumption
<1>2. /\ IsDocument(Bundle[r]) /\ DOMAIN Bundle[r] \subseteq Section
      /\ \A t \in DOMAIN Bundle[r] : Bundle[r][t] \in {"a", "b", "c"}
      /\ Bundle[r] = [t \in DOMAIN Bundle[r] |-> Bundle[r][t]]
  BY <1>1, DocumentType
<1>3. Bundle[r] \in [DOMAIN Bundle[r] -> Texts]
  BY <1>2 DEF Texts
<1> QED BY <1>2, <1>3, MadeDocument DEF Texts

LEMMA FileIsDocument ==
  ASSUME NEW f \in File, IsDocument(f)
  PROVE  f \in Documents(Texts) /\ DOMAIN f \subseteq Section /\ \A t \in DOMAIN f : f[t] \in Texts
<1>1. f \in Documents(Texts)
  BY DEF File, IsDocument, Texts
<1>2. "file" \notin Texts /\ "text" \notin Texts
  BY DEF Texts, Mine
<1> QED BY <1>1, <1>2, DocumentType

LEMMA DocumentIsFile ==
  ASSUME NEW f \in Documents(Texts) PROVE f \in File /\ IsDocument(f)
<1>2. "file" \notin Texts /\ "text" \notin Texts
  BY DEF Texts, Mine
<1> QED BY <1>2, DocumentType DEF File, Texts

(* What a merge makes of each section.                                       *)
LEMMA MergeType ==
  ASSUME NEW c \in Documents(Texts), NEW p \in Documents(Texts), NEW n \in Documents(Texts)
  PROVE  Merge(c, p, n) \in Documents(Texts)
<1> DEFINE stock  == {s \in DOMAIN c \cap DOMAIN p : c[s] = p[s]}
           stays  == DOMAIN c \ stock
           follow == (stock \cap DOMAIN n) \cup (DOMAIN n \ (DOMAIN c \cup DOMAIN p))
           S      == stays \cup follow
           m      == [s \in S |-> IF s \in stays THEN c[s] ELSE n[s]]
<1>1. "file" \notin Texts /\ "text" \notin Texts
  BY DEF Texts, Mine
<1>2. DOMAIN c \subseteq Section /\ \A t \in DOMAIN c : c[t] \in Texts
  BY <1>1, DocumentType
<1>3. DOMAIN n \subseteq Section /\ \A t \in DOMAIN n : n[t] \in Texts
  BY <1>1, DocumentType
<1>4. S \in SUBSET Section /\ m \in [S -> Texts]
  BY <1>2, <1>3
<1>5. Merge(c, p, n) = m
  BY DEF Merge
<1> HIDE DEF S, m
<1> QED BY <1>4, <1>5, MadeDocument

LEMMA MergeSections ==
  ASSUME NEW c, NEW p, NEW n, NEW s
  PROVE  /\ ~Same(c, p, s) => Same(c, Merge(c, p, n), s)
         /\ Same(c, p, s) \/ Same(c, n, s) => Same(Merge(c, p, n), n, s)
<1> DEFINE stock  == {t \in DOMAIN c \cap DOMAIN p : c[t] = p[t]}
           stays  == DOMAIN c \ stock
           follow == (stock \cap DOMAIN n) \cup (DOMAIN n \ (DOMAIN c \cup DOMAIN p))
           m      == [t \in stays \cup follow |-> IF t \in stays THEN c[t] ELSE n[t]]
<1>1. Merge(c, p, n) = m
  BY DEF Merge
<1>2. DOMAIN m = stays \cup follow /\ \A t \in DOMAIN m : m[t] = IF t \in stays THEN c[t] ELSE n[t]
  OBVIOUS
<1> HIDE DEF m
<1> QED BY <1>1, <1>2 DEF Same

LEMMA SameSelf == ASSUME NEW f, NEW s PROVE Same(f, f, s)
BY DEF Same

LEMMA ReleaseIsFile ==
  ASSUME NEW r \in Releases PROVE Bundle[r] \in File \ {NoFile, Torn} /\ IsDocument(Bundle[r])
BY BundleType, DocumentIsFile DEF IsDocument

LEMMA StartSyncKept == ASSUME TemplateInv, StartSync PROVE TemplateInv'
<1>1. TemplateTypeOK'
  BY TemplateAssumption DEF TemplateInv, TemplateTypeOK, StartSync
<1> QED BY <1>1 DEF TemplateInv, FollowsOne, StartSync

LEMMA SyncCopyKept == ASSUME TemplateInv, SyncCopy PROVE TemplateInv'
<1>1. release \in Releases /\ Bundle[release] \in File /\ IsDocument(Bundle[release]) /\ active \in File
          /\ installed \in File
  BY ReleaseIsFile DEF TemplateInv, TemplateTypeOK
<1> USE DEF SyncCopy
<1>2. CASE installed \in {NoFile, Bundle[release]} \/ ~IsDocument(active)
  <2>1. active' = active
    BY <1>2
  <2>2. IsDocument(active) => installed = Bundle[release]
    BY <1>2 DEF TemplateInv, FollowsOne, IsDocument
  <2>3. TemplateTypeOK'
    BY <2>1 DEF TemplateInv, TemplateTypeOK
  <2> QED BY <2>1, <2>2, <2>3 DEF TemplateInv, FollowsOne
<1>3. CASE ~(installed \in {NoFile, Bundle[release]} \/ ~IsDocument(active)) /\ active = installed
  <2>1. active' = Bundle[release] /\ active' # NoFile
    BY <1>1, <1>3 DEF IsDocument
  <2>2. touched = {}
    BY <1>3, SameSelf DEF TemplateInv, FollowsOne
  <2>3. \A s \in Section : Same(active', Bundle[release], s)
    BY <2>1, SameSelf
  <2>4. TemplateTypeOK'
    BY <1>1, <2>1 DEF TemplateInv, TemplateTypeOK
  <2>5. IsDocument(installed)
    BY <1>3
  <2> QED BY <2>1, <2>2, <2>3, <2>4, <2>5 DEF TemplateInv, FollowsOne
<1>4. CASE ~(installed \in {NoFile, Bundle[release]} \/ ~IsDocument(active)) /\ active # installed
  <2>1. active' = Merge(active, installed, Bundle[release])
    BY <1>4
  <2>2. IsDocument(active) /\ IsDocument(installed)
    BY <1>4 DEF TemplateInv, FollowsOne
  <2>3. /\ active \in Documents(Texts) /\ installed \in Documents(Texts) /\ Bundle[release] \in Documents(Texts)
    BY <1>1, <2>2, FileIsDocument
  <2>4. active' \in Documents(Texts)
    BY <2>1, <2>3, MergeType
  <2>5. active' \in File /\ IsDocument(active')
    BY <2>4, DocumentIsFile
  <2>6. \A s \in touched : Same(active, active', s)
    BY <2>1, <2>2, MergeSections DEF TemplateInv, FollowsOne
  <2>7. \A s \in touched : ~Same(active', installed, s)
    BY <2>2, <2>6 DEF TemplateInv, FollowsOne, Same
  <2>8. \A s \in Section \ touched : Same(active', Bundle[release], s)
    BY <2>1, <2>2, MergeSections DEF TemplateInv, FollowsOne
  <2>9. TemplateTypeOK'
    BY <2>5 DEF TemplateInv, TemplateTypeOK
  <2> QED BY <2>2, <2>5, <2>7, <2>8, <2>9 DEF TemplateInv, FollowsOne, IsDocument
<1> QED BY <1>2, <1>3, <1>4

LEMMA SyncTemplateKept == ASSUME TemplateInv, SyncTemplate PROVE TemplateInv'
<1>1. release \in Releases /\ Bundle[release] \in File \ {NoFile, Torn} /\ IsDocument(Bundle[release])
  BY ReleaseIsFile DEF TemplateInv, TemplateTypeOK
<1>2. installed' = Bundle[release] /\ active' = active /\ release' = release /\ stage' = "up"
  BY DEF SyncTemplate
<1>3. touched' = {s \in touched : ~IsDocument(active) \/ ~Same(active, installed', s)}
  BY DEF SyncTemplate
<1>4. TemplateTypeOK'
  BY <1>1, <1>2, <1>3 DEF TemplateInv, TemplateTypeOK, SyncTemplate
<1>5. FollowsOne'
  BY <1>1, <1>2, <1>3 DEF TemplateInv, FollowsOne, SyncTemplate
<1> QED BY <1>2, <1>3, <1>4, <1>5 DEF TemplateInv

LEMMA EnsureCopyKept == ASSUME TemplateInv, EnsureCopy PROVE TemplateInv'
<1>1. release \in Releases /\ Bundle[release] \in File \ {NoFile, Torn} /\ IsDocument(Bundle[release])
  BY ReleaseIsFile DEF TemplateInv, TemplateTypeOK
<1>2. active' = Bundle[release] /\ installed = Bundle[release] /\ touched = {}
  BY DEF TemplateInv, EnsureCopy
<1>3. \A s \in Section : Same(active', installed, s)
  BY <1>2, SameSelf
<1>4. TemplateTypeOK'
  BY <1>1, <1>2 DEF TemplateInv, TemplateTypeOK, EnsureCopy
<1> QED BY <1>1, <1>2, <1>3, <1>4 DEF TemplateInv, FollowsOne, EnsureCopy

LEMMA ResetCopyKept == ASSUME TemplateInv, ResetCopy PROVE TemplateInv'
<1>1. release \in Releases /\ Bundle[release] \in File \ {NoFile, Torn} /\ IsDocument(Bundle[release])
  BY ReleaseIsFile DEF TemplateInv, TemplateTypeOK
<1>2. active' = Bundle[release] /\ installed = Bundle[release] /\ touched' = {}
  BY DEF TemplateInv, ResetCopy
<1>3. \A s \in Section : Same(active', installed, s)
  BY <1>2, SameSelf
<1>4. TemplateTypeOK'
  BY <1>1, <1>2, TemplateAssumption DEF TemplateInv, TemplateTypeOK, ResetCopy
<1> QED BY <1>1, <1>2, <1>3, <1>4 DEF TemplateInv, FollowsOne, ResetCopy

LEMMA UpdateReleaseKept == ASSUME TemplateInv, UpdateRelease PROVE TemplateInv'
<1>1. TemplateTypeOK'
  BY DEF TemplateInv, TemplateTypeOK, UpdateRelease
<1>2. installed = Bundle[release]
  BY DEF TemplateInv, UpdateRelease
<1> QED BY <1>1, <1>2 DEF TemplateInv, FollowsOne, UpdateRelease

LEMMA EndProgramKept == ASSUME TemplateInv, EndProgram PROVE TemplateInv'
<1>1. TemplateTypeOK'
  BY DEF TemplateInv, TemplateTypeOK, EndProgram
<1> QED BY <1>1 DEF TemplateInv, FollowsOne, EndProgram

(* One section is written, taken out, or the file is torn.                   *)
LEMMA UserSavesKept == ASSUME TemplateInv, UserSaves PROVE TemplateInv'
<1>1. PICK s \in Section :
       /\ \/ active' = [t \in DOMAIN active \cup {s} |-> IF t = s THEN Mine ELSE active[t]]
          \/ s \in DOMAIN active /\ active' = Restrict(active, DOMAIN active \ {s})
          \/ active' = Torn
       /\ touched' = IF Same(active', installed, s) THEN touched \ {s} ELSE touched \cup {s}
  BY DEF UserSaves
<1>2. installed = Bundle[release] /\ IsDocument(active) /\ active \in File /\ IsDocument(installed)
  BY DEF UserSaves, TemplateInv, TemplateTypeOK, FollowsOne
<1>3. active \in Documents(Texts) /\ DOMAIN active \subseteq Section
          /\ \A t \in DOMAIN active : active[t] \in Texts
  BY <1>2, FileIsDocument
<1>4. UNCHANGED <<release, installed, starts>> /\ stage' = IF active' = Torn THEN "saving" ELSE "up"
  BY DEF UserSaves
<1>5. active' \in File /\ active' # NoFile
  <2>1. CASE active' = [t \in DOMAIN active \cup {s} |-> IF t = s THEN Mine ELSE active[t]]
    <3>1. active' \in [DOMAIN active \cup {s} -> Texts]
      BY <1>3, <2>1 DEF Texts
    <3> QED BY <1>3, <3>1, MadeDocument, DocumentIsFile DEF IsDocument
  <2>2. CASE active' = Restrict(active, DOMAIN active \ {s})
    <3>1. active' \in [DOMAIN active \ {s} -> Texts]
      BY <1>3, <2>2 DEF Restrict
    <3> QED BY <1>3, <3>1, MadeDocument, DocumentIsFile DEF IsDocument
  <2>3. CASE active' = Torn
    BY <2>3 DEF File, Torn, NoFile
  <2> QED BY <1>1, <2>1, <2>2, <2>3
<1>6. TemplateTypeOK'
  <2>1. userEdits' \in 0..MaxUserEdits
    BY TemplateAssumption DEF UserSaves, TemplateInv, TemplateTypeOK
  <2> QED BY <1>1, <1>4, <1>5, <2>1 DEF TemplateInv, TemplateTypeOK
<1>7. \A t \in Section \ {s} : IsDocument(active')
          => (Same(active', installed, t) <=> Same(active, installed, t))
  <2>1. CASE active' = [t \in DOMAIN active \cup {s} |-> IF t = s THEN Mine ELSE active[t]]
    BY <2>1 DEF Same
  <2>2. CASE active' = Restrict(active, DOMAIN active \ {s})
    BY <2>2 DEF Same, Restrict
  <2> QED BY <1>1, <2>1, <2>2 DEF IsDocument
<1>8. touched \subseteq Section
  BY DEF TemplateInv, TemplateTypeOK
<1>9. FollowsOne'
  BY <1>1, <1>2, <1>4, <1>7, <1>8 DEF TemplateInv, FollowsOne
<1> QED BY <1>2, <1>4, <1>5, <1>6, <1>9 DEF TemplateInv

LEMMA TemplateStep == ASSUME TemplateInv, TemplateNext PROVE TemplateInv'
BY StartSyncKept, SyncCopyKept, SyncTemplateKept, EnsureCopyKept, UserSavesKept, ResetCopyKept,
   UpdateReleaseKept, EndProgramKept
DEF TemplateNext

LEMMA TemplateStays == ASSUME TemplateInv, UNCHANGED templateVars PROVE TemplateInv'
<1>1. TemplateTypeOK'
  BY DEF TemplateInv, TemplateTypeOK, templateVars
<1> QED BY <1>1 DEF TemplateInv, FollowsOne, templateVars

LEMMA TemplateAtStart == ASSUME TemplateInit PROVE TemplateInv
<1>1. 1 \in Releases /\ 0 \in 0..MaxStarts /\ 0 \in 0..MaxUserEdits
  BY TemplateAssumption
<1>2. Bundle[1] \in File \ {NoFile, Torn} /\ IsDocument(Bundle[1])
  BY <1>1, ReleaseIsFile
<1>3. installed \in File \ {Torn} /\ active \in File
  BY <1>2 DEF TemplateInit, File, NoFile, Torn
<1>4. TemplateTypeOK
  BY <1>1, <1>3 DEF TemplateInit, TemplateTypeOK
<1>5. \A s \in Section : Same(active, installed, s)
  BY SameSelf DEF TemplateInit
<1> QED BY <1>2, <1>4, <1>5 DEF TemplateInit, TemplateInv, FollowsOne, IsDocument

LEMMA TemplateFollows == ASSUME TemplateInv PROVE StockFollows
BY DEF TemplateInv, FollowsOne, StockFollows

LEMMA TemplateKeepsSections ==
  ASSUME TemplateInv, [TemplateNext]_templateVars
  PROVE  [Syncing /\ IsDocument(active) /\ active # active' =>
            IsDocument(active') /\ \A s \in touched : Same(active, active', s)]_templateVars
<1>1. CASE SyncCopy /\ IsDocument(active) /\ active # active'
  <2>1. release \in Releases /\ Bundle[release] \in File /\ IsDocument(Bundle[release]) /\ active \in File
            /\ installed \in File
    BY ReleaseIsFile DEF TemplateInv, TemplateTypeOK
  <2>2. CASE active = installed
    BY <1>1, <2>1, <2>2, SameSelf DEF SyncCopy, TemplateInv, FollowsOne
  <2>3. CASE active # installed
    <3>1. active' = Merge(active, installed, Bundle[release])
      BY <1>1, <2>3 DEF SyncCopy
    <3>2. active \in Documents(Texts) /\ installed \in Documents(Texts) /\ Bundle[release] \in Documents(Texts)
      BY <1>1, <2>1, FileIsDocument DEF TemplateInv, FollowsOne
    <3>3. IsDocument(active')
      BY <3>1, <3>2, MergeType, DocumentIsFile
    <3> QED BY <1>1, <3>1, <3>3, MergeSections DEF TemplateInv, FollowsOne
  <2> QED BY <2>2, <2>3
<1>2. Syncing /\ TemplateNext => SyncCopy \/ active' = active
  BY DEF Syncing, TemplateNext, StartSync, SyncTemplate, EnsureCopy, UserSaves, ResetCopy, UpdateRelease,
      EndProgram
<1> QED BY <1>1, <1>2 DEF templateVars

-----------------------------------------------------------------------------
(* A set of numbers has a least one: what an induction over numbers needs.   *)
LEMMA LeastNumber == ASSUME NEW T, T \subseteq Nat, T # {} PROVE \E x \in T : \A y \in T : x <= y
<1> DEFINE R == {ss \in Nat \X Nat : ss[1] < ss[2]}
<1>1. R = OpToRel(<, Nat)
  BY Zenon DEF OpToRel
<1>2. IsWellFoundedOn(R, Nat)
  BY Zenon, <1>1, NatLessThanWellFounded
<1>3. \A x, y \in Nat : y < x => <<y, x>> \in R
  OBVIOUS
<1> HIDE DEF R
<1>4. PICK x \in T : \A y \in T : ~ (<<y, x>> \in R)
  BY Zenon, <1>2, WFMin
<1>5. \A y \in T : x <= y
  <2> TAKE y \in T
  <2>1. x \in Nat /\ y \in Nat
    OBVIOUS
  <2>2. ~ (y < x)
    BY <1>3, <1>4, <2>1
  <2> QED BY <2>1, <2>2
<1> QED BY <1>5

(* The partial sums of a history.                                            *)
Summed(s, n, g) ==
  /\ g \in [0..n -> Nat]
  /\ \A i \in 0..n : g[i] = IF i = 0 THEN 0 ELSE g[i - 1] + s[i].used

LEMMA SumsExist ==
  ASSUME NEW s \in Seq(Entry), NEW n \in 0..Len(s), ByteLimit \in Nat PROVE \E g : Summed(s, n, g)
<1> DEFINE T == {m \in 0..Len(s) : ~ \E g : Summed(s, m, g)}
<1> SUFFICES ASSUME T # {} PROVE FALSE
  OBVIOUS
<1>0. T \subseteq Nat /\ Len(s) \in Nat
  OBVIOUS
<1>1. PICK m \in T : \A k \in T : m <= k
  BY <1>0, LeastNumber
<1>2. CASE m = 0
  <2>1. Summed(s, m, [i \in 0..0 |-> 0])
    BY <1>2 DEF Summed
  <2> QED BY <2>1
<1>3. CASE m # 0
  <2>1. m - 1 \in 0..Len(s) /\ m \in 1..Len(s) /\ m - 1 \notin T
    BY <1>0, <1>1, <1>3
  <2>2. PICK g : Summed(s, m - 1, g)
    BY <2>1
  <2>3. s[m].used \in Nat
    <3>1. s[m] \in Entry
      BY <2>1
    <3>2. s[m].used \in 0..ByteLimit
      BY <3>1 DEF Entry
    <3> QED BY <3>2
  <2> DEFINE h == [i \in 0..m |-> IF i = m THEN g[m - 1] + s[m].used ELSE g[i]]
  <2>4. \A i \in 0..m : i # m => i \in 0..(m - 1)
    BY <1>0
  <2>5. g[m - 1] \in Nat /\ \A i \in 0..(m - 1) : g[i] \in Nat
    BY <2>1, <2>2 DEF Summed
  <2>6. h \in [0..m -> Nat]
    BY <2>3, <2>4, <2>5
  <2>7. \A i \in 0..m : h[i] = IF i = 0 THEN 0 ELSE h[i - 1] + s[i].used
    <3> SUFFICES ASSUME NEW i \in 0..m PROVE h[i] = IF i = 0 THEN 0 ELSE h[i - 1] + s[i].used
      OBVIOUS
    <3>1. CASE i = m
      BY <1>0, <1>3, <3>1
    <3>2. CASE i # m
      <4>1. i \in 0..(m - 1) /\ h[i] = g[i]
        BY <2>4, <3>2
      <4>2. i # 0 => i - 1 \in 0..m /\ i - 1 # m /\ h[i - 1] = g[i - 1]
        BY <1>0, <4>1
      <4> QED BY <2>2, <4>1, <4>2 DEF Summed
    <3> QED BY <3>1, <3>2
  <2> QED BY <2>6, <2>7 DEF Summed
<1> QED BY <1>2, <1>3

(* Histories that agree up to a place have the same sums up to it.           *)
LEMMA SumsAgree ==
  ASSUME NEW s \in Seq(Entry), NEW t \in Seq(Entry), NEW g, NEW h,
         Summed(s, Len(s), g), Summed(t, Len(t), h)
  PROVE  \A k \in 0..Len(s) :
           k <= Len(t) /\ (\A i \in 1..k : s[i].used = t[i].used) => g[k] = h[k]
<1> TAKE k \in 0..Len(s)
<1> HAVE k <= Len(t) /\ (\A i \in 1..k : s[i].used = t[i].used)
<1> DEFINE T == {i \in 0..k : g[i] # h[i]}
<1> SUFFICES ASSUME T # {} PROVE FALSE
  OBVIOUS
<1>0. T \subseteq Nat /\ k \in Nat /\ Len(t) \in Nat
  OBVIOUS
<1>1. PICK i \in T : \A j \in T : i <= j
  BY <1>0, LeastNumber
<1>2. i # 0
  BY <1>0 DEF Summed
<1>3. i - 1 \in 0..k /\ i - 1 \notin T /\ i \in 1..k /\ i \in 0..Len(s) /\ i \in 0..Len(t)
  BY <1>0, <1>1, <1>2
<1> QED BY <1>2, <1>3 DEF Summed

LEMMA TotalIsSum ==
  ASSUME NEW s \in Seq(Entry), NEW g, Summed(s, Len(s), g) PROVE Total(s) = g[Len(s)] /\ Total(s) \in Nat
<1> DEFINE F(f) == f = [i \in 0..Len(s) |-> IF i = 0 THEN 0 ELSE f[i - 1] + s[i].used]
           c    == CHOOSE f : F(f)
<1>1. F(g)
  BY DEF Summed
<1>2. F(c)
  BY <1>1
<1>3. Total(s) = c[Len(s)]
  BY DEF Total
<1> HIDE DEF c
<1>4. \A i \in 0..Len(s) : c[i] = IF i = 0 THEN 0 ELSE c[i - 1] + s[i].used
  BY <1>2
<1> DEFINE T == {i \in 0..Len(s) : g[i] # c[i]}
<1>5. T = {}
  <2> SUFFICES ASSUME T # {} PROVE FALSE
    OBVIOUS
  <2>0. T \subseteq Nat
    OBVIOUS
  <2>1. PICK i \in T : \A j \in T : i <= j
    BY <2>0, LeastNumber
  <2>2. i # 0
    BY <1>4 DEF Summed
  <2>3. i - 1 \in 0..Len(s) /\ i - 1 \notin T
    BY <2>1, <2>2
  <2> QED BY <1>4, <2>2, <2>3 DEF Summed
<1>6. Len(s) \in 0..Len(s)
  OBVIOUS
<1> QED BY <1>3, <1>5, <1>6 DEF Summed

LEMMA TotalType == ASSUME NEW s \in Seq(Entry) PROVE Total(s) \in Nat
<1>1. Len(s) \in 0..Len(s) /\ ByteLimit \in Nat
  BY TrafficAssumption
<1>2. PICK g : Summed(s, Len(s), g)
  BY <1>1, SumsExist
<1> QED BY <1>2, TotalIsSum

LEMMA TotalEmpty == Total(<<>>) = 0
<1>1. <<>> \in Seq(Entry) /\ Len(<<>>) = 0 /\ 0 \in 0..Len(<<>>) /\ ByteLimit \in Nat
  BY TrafficAssumption
<1>2. PICK g : Summed(<<>>, 0, g)
  BY <1>1, SumsExist
<1>3. Total(<<>>) = g[0]
  BY <1>1, <1>2, TotalIsSum
<1> QED BY <1>2, <1>3 DEF Summed

LEMMA TotalSame ==
  ASSUME NEW s \in Seq(Entry), NEW t \in Seq(Entry), Len(s) = Len(t),
         \A i \in 1..Len(s) : s[i].used = t[i].used
  PROVE  Total(s) = Total(t)
<1>1. Len(s) \in Nat /\ Len(s) \in 0..Len(s) /\ Len(t) \in 0..Len(t) /\ ByteLimit \in Nat
  BY TrafficAssumption
<1>2. PICK g : Summed(s, Len(s), g)
  BY <1>1, SumsExist
<1>3. PICK h : Summed(t, Len(t), h)
  BY <1>1, SumsExist
<1>4. g[Len(s)] = h[Len(s)]
  BY <1>1, <1>2, <1>3, SumsAgree
<1> QED BY <1>2, <1>3, <1>4, TotalIsSum

LEMMA TotalLast ==
  ASSUME NEW s \in Seq(Entry), NEW t \in Seq(Entry), NEW n \in Nat \ {0}, Len(s) = n,
         Len(t) \in {n - 1, n}, \A i \in 1..(n - 1) : s[i].used = t[i].used
  PROVE  Total(s) = Total(t) + (IF Len(t) = n THEN s[n].used - t[n].used ELSE s[n].used)
<1>1. Len(s) \in 0..Len(s) /\ Len(t) \in 0..Len(t) /\ ByteLimit \in Nat /\ n - 1 \in Nat
  BY TrafficAssumption
<1>2. PICK g : Summed(s, Len(s), g)
  BY <1>1, SumsExist
<1>3. PICK h : Summed(t, Len(t), h)
  BY <1>1, SumsExist
<1>4. g[n - 1] = h[n - 1]
  <2>1. n - 1 <= n /\ n - 1 <= Len(t) /\ Len(t) \in Nat
    BY <1>1
  <2> QED BY <1>1, <1>2, <1>3, <2>1, SumsAgree
<1>5. Total(s) = g[n] /\ Total(t) = h[Len(t)]
  BY <1>2, <1>3, TotalIsSum
<1>6. g[n] = g[n - 1] + s[n].used /\ g[n - 1] \in Nat
  <2>1. n \in 0..n /\ n - 1 \in 0..n
    OBVIOUS
  <2> QED BY <1>2, <2>1 DEF Summed
<1>7. s[n].used \in Nat
  <2>1. s[n] \in Entry
    OBVIOUS
  <2>2. s[n].used \in 0..ByteLimit
    BY <2>1 DEF Entry
  <2> QED BY <1>1, <2>2
<1>8. CASE Len(t) = n
  <2>1. h[n] = h[n - 1] + t[n].used
    <3>1. n \in 0..n
      OBVIOUS
    <3> QED BY <1>3, <1>8, <3>1 DEF Summed
  <2>2. t[n].used \in Nat
    <3>1. t[n] \in Entry
      BY <1>8
    <3>2. t[n].used \in 0..ByteLimit
      BY <3>1 DEF Entry
    <3> QED BY <1>1, <3>2
  <2> QED BY <1>4, <1>5, <1>6, <1>7, <1>8, <2>1, <2>2
<1>9. CASE Len(t) = n - 1
  BY <1>4, <1>5, <1>6, <1>7, <1>9
<1> QED BY <1>8, <1>9

-----------------------------------------------------------------------------
(* The history of traffic.  The session that counts is the last; the text of *)
(* a session is kept when it has ended and then says what the session says.  *)
EndedIn(a, b) == \A i \in DOMAIN a : a[i].ended => i \in DOMAIN b /\ b[i] = a[i]

Counting ==
  counting # 0 => counting = Len(history) /\ ~history[counting].ended

Frozen ==
  \A i \in Slots : frozen[i] # None => i \in DOMAIN history /\ history[i].ended /\ frozen[i] = {history[i]}

Lengths == Len(history) <= MaxTraffic /\ Len(text) <= MaxTraffic /\ Len(record) <= MaxTraffic

TrafficInv ==
  /\ TrafficTypeOK /\ DailyAgrees /\ Counting /\ Frozen /\ Lengths
  /\ EndedIn(record, text) /\ EndedIn(text, history)

TrafficSpec == TrafficInit /\ [][TrafficNext]_trafficVars

LEMMA EntryType == ASSUME NEW e \in Entry PROVE e.used \in 0..ByteLimit /\ e.ended \in BOOLEAN /\ e.used \in Nat
BY TrafficAssumption DEF Entry

LEMMA EntryOf == ASSUME NEW u \in 0..ByteLimit PROVE [used |-> u, ended |-> FALSE] \in Entry
BY DEF Entry

LEMMA EndedInTransitive ==
  ASSUME NEW a, NEW b, NEW c, EndedIn(a, b), EndedIn(b, c) PROVE EndedIn(a, c)
BY DEF EndedIn

LEMMA TrafficAtStart == ASSUME TrafficInit PROVE TrafficInv
<1>1. history = <<>> /\ text = <<>> /\ record = <<>> /\ counting = 0 /\ daily = 0 /\ restarts = 0
  BY DEF TrafficInit
<1>2. <<>> \in Seq(Entry) /\ Len(<<>>) = 0 /\ DOMAIN <<>> = {}
  OBVIOUS
<1>3. frozen \in [Slots -> {None} \cup {{e} : e \in Entry}] /\ \A i \in Slots : frozen[i] = None
  BY DEF TrafficInit
<1>4. DailyAgrees
  BY <1>1, TotalEmpty DEF DailyAgrees
<1> QED BY <1>1, <1>2, <1>3, <1>4, TrafficAssumption
  DEF TrafficInv, TrafficTypeOK, Counting, Frozen, Lengths, EndedIn

(* What end_session leaves: the same sessions, the last one ended.           *)
LEMMA EndedFacts ==
  ASSUME TrafficInv
  PROVE  /\ Ended \in Seq(Entry) /\ Len(Ended) = Len(history) /\ DOMAIN Ended = DOMAIN history
         /\ \A i \in 1..Len(history) : Ended[i].used = history[i].used
         /\ EndedIn(history, Ended)
         /\ \A i \in Slots : frozen[i] # None => i \in DOMAIN Ended /\ Ended[i] = history[i] /\ Ended[i].ended
         /\ DayTotal = Total(Ended) /\ DayTotal \in Nat
<1>1. history \in Seq(Entry) /\ Len(history) \in Nat /\ DOMAIN history = 1..Len(history) /\ daily \in Nat
  BY DEF TrafficInv, TrafficTypeOK
<1>2. CASE counting = 0
  <2>1. Ended = history /\ DayTotal = daily
    BY <1>2 DEF Ended, DayTotal
  <2>2. daily = Total(history)
    BY <1>2 DEF TrafficInv, DailyAgrees
  <2> QED BY <1>1, <2>1, <2>2 DEF TrafficInv, Frozen, EndedIn
<1>3. CASE counting # 0
  <2>1. counting = Len(history) /\ counting \in 1..Len(history) /\ ~history[counting].ended
    BY <1>1, <1>3 DEF TrafficInv, Counting, TrafficTypeOK
  <2>2. history[counting] \in Entry
    BY <1>1, <2>1
  <2>3. [history[counting] EXCEPT !.ended = TRUE] \in Entry
        /\ [history[counting] EXCEPT !.ended = TRUE].used = history[counting].used
    BY <2>2 DEF Entry
  <2>4. Ended = [history EXCEPT ![counting] = [history[counting] EXCEPT !.ended = TRUE]]
    BY <1>3 DEF Ended
  <2>5. /\ Ended \in Seq(Entry) /\ Len(Ended) = Len(history) /\ DOMAIN Ended = DOMAIN history
        /\ \A i \in 1..Len(history) : Ended[i] = IF i = counting THEN [history[counting] EXCEPT !.ended = TRUE] ELSE history[i]
    BY <1>1, <2>1, <2>3, <2>4
  <2>6. \A i \in 1..Len(history) : Ended[i].used = history[i].used
    BY <2>3, <2>5
  <2>7. EndedIn(history, Ended)
    BY <1>1, <2>1, <2>5 DEF EndedIn
  <2>8. \A i \in Slots : frozen[i] # None => i \in DOMAIN Ended /\ Ended[i] = history[i] /\ Ended[i].ended
    BY <1>1, <2>1, <2>5 DEF TrafficInv, Frozen
  <2>9. DayTotal = Total(Ended) /\ DayTotal \in Nat
    <3> DEFINE before == [history EXCEPT ![counting].used = 0]
    <3>1. [history[counting] EXCEPT !.used = 0] \in Entry /\ [history[counting] EXCEPT !.used = 0].used = 0
      BY <2>2, TrafficAssumption DEF Entry
    <3>2. before \in Seq(Entry) /\ Len(before) = Len(history) /\ before[counting].used = 0
          /\ \A i \in 1..(counting - 1) : before[i] = history[i]
      BY <1>1, <2>1, <3>1
    <3>3. daily = Total(before)
      BY <1>3 DEF TrafficInv, DailyAgrees
    <3> HIDE DEF before
    <3>4. Total(Ended) = Total(before) + (Ended[counting].used - before[counting].used)
      BY <1>1, <2>1, <2>5, <2>6, <3>2, TotalLast
    <3>5. history[counting].used \in Nat /\ Ended[counting].used = history[counting].used
      BY <2>1, <2>2, <2>6, EntryType
    <3>6. DayTotal = daily + history[counting].used
      BY <1>3 DEF DayTotal
    <3> QED BY <1>1, <3>2, <3>3, <3>4, <3>5, <3>6
  <2> QED BY <1>1, <2>5, <2>6, <2>7, <2>8, <2>9
<1> QED BY <1>2, <1>3

LEMMA SavedFacts ==
  ASSUME TrafficTypeOK, NEW s \in Seq(Entry), Len(s) <= MaxTraffic, SaveHistory(s),
         \A i \in Slots : frozen[i] # None => i \in DOMAIN s /\ frozen[i] = {s[i]}
  PROVE  /\ text' = s /\ frozen' \in [Slots -> {None} \cup {{e} : e \in Entry}]
         /\ \A i \in Slots : frozen'[i] # None => i \in DOMAIN s /\ s[i].ended /\ frozen'[i] = {s[i]}
<1>1. \A i \in DOMAIN s : i \in Slots /\ s[i] \in Entry
  BY TrafficAssumption DEF Slots
<1>2. \A i \in DOMAIN s : Encoded(s, i) = s[i]
  <2> TAKE i \in DOMAIN s
  <2>1. CASE s[i].ended /\ frozen[i] # None
    <3>1. frozen[i] = {s[i]}
      BY <1>1, <2>1
    <3> QED BY <2>1, <3>1 DEF Encoded
  <2>2. CASE ~(s[i].ended /\ frozen[i] # None)
    BY <2>2 DEF Encoded
  <2> QED BY <2>1, <2>2
<1>3. text' = [i \in DOMAIN s |-> s[i]]
  BY <1>2 DEF SaveHistory
<1>4. text' = s
  BY <1>3
<1>5. \A i \in Slots : frozen'[i] = IF i \in DOMAIN s /\ s[i].ended THEN {s[i]} ELSE None
  BY <1>2 DEF SaveHistory
<1>6. \A i \in Slots : frozen'[i] \in {None} \cup {{e} : e \in Entry}
  BY <1>1, <1>5
<1>7. frozen' = [i \in Slots |-> frozen'[i]]
  BY DEF SaveHistory
<1>8. frozen' \in [Slots -> {None} \cup {{e} : e \in Entry}]
  BY <1>6, <1>7
<1> QED BY <1>4, <1>5, <1>8

LEMMA SelfIn == ASSUME NEW a PROVE EndedIn(a, a)
BY DEF EndedIn

LEMMA StartSessionKept == ASSUME TrafficInv, StartSession PROVE TrafficInv'
<1> DEFINE new == [used |-> 0, ended |-> FALSE]
<1>1. new \in Entry /\ new.used = 0 /\ ~new.ended
  BY TrafficAssumption DEF Entry
<1> HIDE DEF new
<1>2. /\ Ended \in Seq(Entry) /\ Len(Ended) = Len(history) /\ DOMAIN Ended = DOMAIN history
      /\ EndedIn(history, Ended) /\ DayTotal = Total(Ended) /\ DayTotal \in Nat
      /\ \A i \in Slots : frozen[i] # None => i \in DOMAIN Ended /\ Ended[i] = history[i] /\ Ended[i].ended
  BY EndedFacts
<1>3. history' = Append(Ended, new) /\ counting' = Len(history) + 1 /\ daily' = DayTotal
          /\ SaveHistory(history')
      /\ UNCHANGED <<record, restarts>> /\ Len(history) < MaxTraffic
  BY DEF StartSession, new
<1>4. /\ history' \in Seq(Entry) /\ Len(history') = Len(history) + 1 /\ Len(history) \in Nat
      /\ Len(history') <= MaxTraffic /\ Len(history') # 0
      /\ history'[Len(history) + 1] = new /\ \A i \in DOMAIN Ended : i \in DOMAIN history'
             /\ history'[i] = Ended[i]
  BY <1>1, <1>2, <1>3, TrafficAssumption
<1>5. \A i \in Slots : frozen[i] # None => i \in DOMAIN history' /\ frozen[i] = {history'[i]}
  BY <1>2, <1>4 DEF TrafficInv, Frozen
<1>6. /\ text' = history' /\ frozen' \in [Slots -> {None} \cup {{e} : e \in Entry}]
      /\ \A i \in Slots : frozen'[i] # None => i \in DOMAIN history' /\ history'[i].ended
             /\ frozen'[i] = {history'[i]}
  BY <1>3, <1>4, <1>5, SavedFacts DEF TrafficInv
<1>7. EndedIn(Ended, history')
  BY <1>4 DEF EndedIn
<1>8. EndedIn(record, history')
  BY <1>2, <1>7, EndedInTransitive DEF TrafficInv
<1>9. DailyAgrees'
  <2> DEFINE before == [history' EXCEPT ![counting'].used = 0]
  <2> DEFINE n == Len(history)
  <2>0. n \in Nat /\ Len(Ended) = n /\ Len(history') = n + 1 /\ counting' = n + 1 /\ DOMAIN Ended = 1..n
    BY <1>2, <1>3, <1>4
  <2>1. /\ counting' \in DOMAIN history' /\ history'[counting'] = new
        /\ [new EXCEPT !.used = 0] \in Entry /\ [new EXCEPT !.used = 0].used = 0
    BY <1>1, <1>2, <1>3, <1>4, TrafficAssumption DEF Entry
  <2>2. before = [history' EXCEPT ![counting'] = [new EXCEPT !.used = 0]]
    BY <2>1
  <2> HIDE DEF before, n
  <2>3. /\ before \in Seq(Entry) /\ Len(before) = n + 1 /\ before[n + 1].used = 0
        /\ \A i \in DOMAIN history' : i # n + 1 => before[i] = history'[i]
    <3>1. PICK e \in Entry : e = [new EXCEPT !.used = 0] /\ e.used = 0
      BY <2>1
    <3>2. before = [history' EXCEPT ![counting'] = e] /\ history' \in Seq(Entry)
              /\ counting' \in DOMAIN history'
      BY <1>4, <2>1, <2>2, <3>1
    <3>3. /\ before \in Seq(Entry) /\ Len(before) = Len(history') /\ before[counting'] = e
          /\ \A i \in DOMAIN history' : i # counting' => before[i] = history'[i]
      <4> DEFINE b(s, k) == [s EXCEPT ![k] = e]
      <4>1. \A s \in Seq(Entry) : \A k \in DOMAIN s :
              /\ b(s, k) \in Seq(Entry) /\ Len(b(s, k)) = Len(s) /\ b(s, k)[k] = e
              /\ \A i \in DOMAIN s : i # k => b(s, k)[i] = s[i]
        OBVIOUS
      <4> HIDE DEF b
      <4>2. before = b(history', counting')
        BY <3>2 DEF b
      <4> QED BY <3>2, <4>1, <4>2
    <3> QED BY <2>0, <3>1, <3>3
  <2>7. \A i \in 1..n : before[i].used = Ended[i].used
    BY <1>4, <2>0, <2>3
  <2>8. Total(before) = Total(Ended) + before[n + 1].used
    <3>1. n + 1 \in Nat \ {0} /\ n = (n + 1) - 1 /\ n # n + 1
      BY <2>0
    <3> QED BY <1>2, <2>0, <2>3, <2>7, <3>1, TotalLast
  <2>4. Total(Ended) \in Nat
    BY <1>2
  <2>5. Total(before) = daily'
    BY <1>2, <1>3, <2>3, <2>4, <2>8
  <2>6. counting' # 0
    BY <1>3, <1>4
  <2> QED BY <2>5, <2>6 DEF DailyAgrees, before
<1>10. TrafficTypeOK'
  BY <1>2, <1>3, <1>4, <1>6 DEF TrafficInv, TrafficTypeOK
<1>11. Counting' /\ Frozen' /\ Lengths'
  BY <1>1, <1>3, <1>4, <1>6 DEF Counting, Frozen, Lengths, TrafficInv
<1> QED BY <1>3, <1>6, <1>8, <1>9, <1>10, <1>11, SelfIn DEF TrafficInv

LEMMA EndSessionKept == ASSUME TrafficInv, EndSession PROVE TrafficInv'
<1>2. /\ Ended \in Seq(Entry) /\ Len(Ended) = Len(history) /\ DOMAIN Ended = DOMAIN history
      /\ EndedIn(history, Ended) /\ DayTotal = Total(Ended) /\ DayTotal \in Nat
      /\ \A i \in Slots : frozen[i] # None => i \in DOMAIN Ended /\ Ended[i] = history[i] /\ Ended[i].ended
  BY EndedFacts
<1>3. history' = Ended /\ counting' = 0 /\ daily' = DayTotal /\ SaveHistory(history')
          /\ UNCHANGED <<record, restarts>>
  BY DEF EndSession
<1>4. history' \in Seq(Entry) /\ Len(history') <= MaxTraffic
  BY <1>2, <1>3 DEF TrafficInv, Lengths
<1>5. \A i \in Slots : frozen[i] # None => i \in DOMAIN history' /\ frozen[i] = {history'[i]}
  BY <1>2, <1>3 DEF TrafficInv, Frozen
<1>6. /\ text' = history' /\ frozen' \in [Slots -> {None} \cup {{e} : e \in Entry}]
      /\ \A i \in Slots : frozen'[i] # None => i \in DOMAIN history' /\ history'[i].ended
             /\ frozen'[i] = {history'[i]}
  BY <1>3, <1>4, <1>5, SavedFacts DEF TrafficInv
<1>7. EndedIn(record, history')
  BY <1>2, <1>3, EndedInTransitive DEF TrafficInv
<1>8. DailyAgrees'
  BY <1>2, <1>3 DEF DailyAgrees
<1>9. TrafficTypeOK'
  BY <1>2, <1>3, <1>4, <1>6, TrafficAssumption DEF TrafficInv, TrafficTypeOK
<1>10. Counting' /\ Frozen' /\ Lengths'
  BY <1>3, <1>4, <1>6 DEF Counting, Frozen, Lengths, TrafficInv
<1> QED BY <1>3, <1>6, <1>7, <1>8, <1>9, <1>10, SelfIn DEF TrafficInv

LEMMA SavePeriodicKept == ASSUME TrafficInv, SavePeriodic PROVE TrafficInv'
<1>1. history \in Seq(Entry) /\ Len(history) <= MaxTraffic
  BY DEF TrafficInv, TrafficTypeOK, Lengths
<1>2. UNCHANGED <<history, counting, daily, record, restarts>> /\ SaveHistory(history)
  BY DEF SavePeriodic
<1>3. /\ text' = history /\ frozen' \in [Slots -> {None} \cup {{e} : e \in Entry}]
      /\ \A i \in Slots : frozen'[i] # None => i \in DOMAIN history /\ history[i].ended
             /\ frozen'[i] = {history[i]}
  BY <1>1, <1>2, SavedFacts DEF TrafficInv, Frozen
<1>4. EndedIn(record, history)
  BY EndedInTransitive DEF TrafficInv
<1>5. TrafficTypeOK'
  BY <1>1, <1>2, <1>3 DEF TrafficInv, TrafficTypeOK
<1> QED BY <1>1, <1>2, <1>3, <1>4, <1>5, SelfIn DEF TrafficInv, DailyAgrees, Counting, Frozen, Lengths

LEMMA UpdateSessionKept == ASSUME TrafficInv, UpdateSession PROVE TrafficInv'
<1>1. PICK bytes \in Usage : history' = [history EXCEPT ![counting].used = Sane(bytes)]
  BY DEF UpdateSession
<1>2. UNCHANGED <<counting, daily, frozen, text, record, restarts>> /\ counting # 0
  BY DEF UpdateSession
<1>3. history \in Seq(Entry) /\ counting = Len(history) /\ counting \in DOMAIN history
          /\ ~history[counting].ended
  BY <1>2 DEF TrafficInv, TrafficTypeOK, Counting
<1>4. Sane(bytes) \in 0..ByteLimit
  BY TrafficAssumption DEF Sane, Usage
<1>5. history[counting] \in Entry
  BY <1>3
<1>6. [history[counting] EXCEPT !.used = Sane(bytes)] \in Entry
      /\ ~[history[counting] EXCEPT !.used = Sane(bytes)].ended
      /\ [[history[counting] EXCEPT !.used = Sane(bytes)] EXCEPT !.used = 0] = [history[counting] EXCEPT !.used = 0]
  BY <1>3, <1>4, <1>5 DEF Entry
<1>7. /\ history' \in Seq(Entry) /\ Len(history') = Len(history) /\ DOMAIN history' = DOMAIN history
      /\ \A i \in DOMAIN history : i # counting => history'[i] = history[i]
      /\ history'[counting] = [history[counting] EXCEPT !.used = Sane(bytes)]
  BY <1>1, <1>3, <1>6
<1>8. [history' EXCEPT ![counting].used = 0] = [history EXCEPT ![counting].used = 0]
  <2>1. [history' EXCEPT ![counting].used = 0] = [i \in DOMAIN history |-> IF i = counting THEN [history'[counting] EXCEPT !.used = 0] ELSE history'[i]]
    BY <1>3, <1>7
  <2>2. [history EXCEPT ![counting].used = 0] = [i \in DOMAIN history |-> IF i = counting THEN [history[counting] EXCEPT !.used = 0] ELSE history[i]]
    BY <1>3
  <2>3. \A i \in DOMAIN history :
          (IF i = counting THEN [history'[counting] EXCEPT !.used = 0] ELSE history'[i])
            = (IF i = counting THEN [history[counting] EXCEPT !.used = 0] ELSE history[i])
    BY <1>6, <1>7
  <2> QED BY <2>1, <2>2, <2>3
<1>9. DailyAgrees'
  BY <1>2, <1>8 DEF TrafficInv, DailyAgrees
<1>10. EndedIn(text, history)'
  BY <1>2, <1>3, <1>7 DEF TrafficInv, EndedIn
<1>11. EndedIn(record, text)'
  BY <1>2 DEF TrafficInv
<1>12. TrafficTypeOK'
  BY <1>2, <1>7 DEF TrafficInv, TrafficTypeOK
<1>13. Counting' /\ Frozen' /\ Lengths'
  BY <1>2, <1>3, <1>6, <1>7 DEF TrafficInv, Counting, Frozen, Lengths
<1> QED BY <1>9, <1>10, <1>11, <1>12, <1>13 DEF TrafficInv

LEMMA WriteHistoryKept == ASSUME TrafficInv, WriteHistory PROVE TrafficInv'
<1>1. TrafficTypeOK'
  BY DEF TrafficInv, TrafficTypeOK, WriteHistory
<1> QED BY <1>1, SelfIn DEF TrafficInv, DailyAgrees, Counting, Frozen, Lengths, WriteHistory

LEMMA ReloadKept == ASSUME TrafficInv, Reload PROVE TrafficInv'
<1>1. history' = record /\ counting' = 0 /\ daily' = Total(record) /\ text' = record /\ record' = record
  BY DEF Reload
<1>2. \A i \in Slots : frozen'[i] = None
  BY DEF Reload
<1>3. frozen' \in [Slots -> {None} \cup {{e} : e \in Entry}]
  BY DEF Reload
<1>4. record \in Seq(Entry) /\ Total(record) \in Nat /\ Len(record) <= MaxTraffic
  BY TotalType DEF TrafficInv, TrafficTypeOK, Lengths
<1>5. restarts' \in 0..MaxRestarts
  BY TrafficAssumption DEF Reload, TrafficInv, TrafficTypeOK
<1>6. TrafficTypeOK'
  BY <1>1, <1>3, <1>4, <1>5 DEF TrafficTypeOK
<1> QED BY <1>1, <1>2, <1>4, <1>6, SelfIn DEF TrafficInv, DailyAgrees, Counting, Frozen, Lengths

LEMMA TrafficStep == ASSUME TrafficInv, TrafficNext PROVE TrafficInv'
BY StartSessionKept, UpdateSessionKept, EndSessionKept, SavePeriodicKept, WriteHistoryKept, ReloadKept
DEF TrafficNext

LEMMA TrafficStays == ASSUME TrafficInv, UNCHANGED trafficVars PROVE TrafficInv'
<1>1. TrafficTypeOK'
  BY DEF TrafficInv, TrafficTypeOK, trafficVars
<1> QED BY <1>1 DEF TrafficInv, DailyAgrees, Counting, Frozen, Lengths, EndedIn, trafficVars

LEMMA TrafficInvImplies == ASSUME TrafficInv PROVE TrafficTypeOK /\ DailyAgrees /\ FrozenFresh
<1>1. \A i \in DOMAIN history : i \in Slots
  BY TrafficAssumption DEF TrafficInv, TrafficTypeOK, Lengths, Slots
<1> QED BY <1>1 DEF TrafficInv, Frozen, FrozenFresh

LEMMA TrafficEndedKept ==
  ASSUME TrafficInv, [TrafficNext]_trafficVars
  PROVE  [\A i \in DOMAIN record : record[i].ended => i \in DOMAIN record'
            /\ record'[i] = record[i]]_trafficVars
<1>1. TrafficNext => record' \in {record, text}
  BY DEF TrafficNext, StartSession, UpdateSession, EndSession, SavePeriodic, WriteHistory, Reload
<1> QED BY <1>1 DEF TrafficInv, EndedIn, trafficVars

-----------------------------------------------------------------------------
(* The system proxy.  The queue: one call is waited for, and it is the last; *)
(* a start and an exit have one call to give the proxy back.                 *)
LastOp(q) == q[Len(q)].op
PrevOp(q) == q[Len(q) - 1].op
NoneWaits(q) == \A i \in 1..Len(q) : ~q[i].waits
LastWaits(q) == q # <<>> /\ q[Len(q)].waits /\ \A i \in 1..Len(q) : i # Len(q) => ~q[i].waits

Queued ==
  /\ flow = "idle" => NoneWaits(jobs)
  /\ flow # "idle" => program = "up" /\ LastWaits(jobs)
  /\ program # "up" => ~session
  /\ program = "off" => jobs = <<>>
  /\ program \in {"recovering", "leaving"} => jobs \in {<<>>, <<Nowait("release")>>}

(* The thread: where it stands tells what it has done for the first call.    *)
PutBack == IF target = NoCopy THEN Off ELSE CHOOSE s \in target : TRUE

InCall ==
  /\ jobs = <<>> => at = "start"
  /\ at = "start" => target = NoCopy
  /\ jobs # <<>> /\ jobs[1].op = "enable" =>
       /\ at \in {"start", "persist", "copy", "flag", "server"} /\ target = NoCopy
       /\ at # "start" => backup # NoCopy
       /\ at = "server" => windows.on
  /\ jobs # <<>> /\ jobs[1].op # "enable" =>
       /\ at \in {"start", "flag", "server", "forget", "unlink"}
       /\ at = "server" => windows.on = PutBack.on
       /\ at \in {"forget", "unlink"} => windows = PutBack
       /\ at = "unlink" => backup = NoCopy

(* The program never takes its own address for the user's.                   *)
Owning == program \in {"up", "closing"}

NeverOurs ==
  Written =>
    /\ backup # {Ours} /\ backupFile # {Ours} /\ target # {Ours}
    /\ Owning /\ backup = NoCopy /\ at = "start" => windows # Ours
    /\ program \in {"recovering", "leaving"} /\ jobs = <<>> => windows # Ours

(* What the user had is in the registry or on the disk, until a `disable`    *)
(* that finds no copy switches it off.                                       *)
Found ==
  CopyKept =>
    /\ \A s \in backup \cup backupFile \cup target : Home(s)
    /\ Home(windows) \/ backupFile # NoCopy
    /\ at \in {"persist", "copy"} => Home(windows)
    /\ backup # NoCopy /\ at \notin {"persist", "copy"} => backupFile # NoCopy
    /\ Owning /\ backup = NoCopy => Home(windows)
    /\ program \in {"recovering", "leaving"} /\ jobs = <<>> => Home(windows)
    /\ target = NoCopy /\ jobs # <<>> /\ jobs[1].op # "enable" /\ at # "start" =>
         /\ backup = NoCopy /\ backupFile = NoCopy
         /\ wiped \/ (jobs[1].op = "disable" /\ at = "flag")

(* What the queue will leave: the last call is the one the state asks for,   *)
(* and a call that a deadline drops leaves one before it that is.            *)
Serving == session /\ wanted

Settling ==
  InTime /\ program = "up" =>
    /\ flow = "idle" /\ jobs = <<>> => IF Serving THEN windows = Ours ELSE backup = NoCopy
    /\ flow = "idle" /\ jobs # <<>> => (LastOp(jobs) = "enable" <=> Serving)
    /\ flow = "connecting" => ~session /\ (LastOp(jobs) = "enable" <=> wanted)
    /\ flow = "applying" => (LastOp(jobs) = "enable" <=> Serving)
    /\ flow = "stopping" => LastOp(jobs) = "disable"
    /\ flow # "idle" /\ ~(session /\ flow = "applying") /\ Len(jobs) > 1 => PrevOp(jobs) # "enable"
    /\ session /\ proxyFaults["slow"] = 0 =>
         /\ flow = "idle" => jobs = <<>>
         /\ flow = "applying" => Len(jobs) = 1

ProxyInv == ProxyTypeOK /\ Queued /\ InCall /\ NeverOurs /\ Found /\ Settling

-----------------------------------------------------------------------------
(* The queue: what a call added or ended leaves of it.                       *)
LEMMA CallsAre ==
  /\ \A w \in BOOLEAN : \A o \in {"enable", "disable", "release"} : [op |-> o, waits |-> w] \in Call
  /\ \A c \in Call : c.waits \in BOOLEAN /\ c.op \in {"enable", "disable", "release"}
BY DEF Call

LEMMA AddOne ==
  ASSUME NEW q \in Seq(Call), NEW c \in Call
  PROVE  /\ q \o <<c>> \in Seq(Call) /\ Len(q \o <<c>>) = Len(q) + 1
         /\ (q \o <<c>>)[Len(q) + 1] = c /\ \A i \in 1..Len(q) : (q \o <<c>>)[i] = q[i]
         /\ q \o <<c>> # <<>>
OBVIOUS

LEMMA AddTwo ==
  ASSUME NEW q \in Seq(Call), NEW c \in Call, NEW d \in Call
  PROVE  /\ q \o <<c, d>> \in Seq(Call) /\ Len(q \o <<c, d>>) = Len(q) + 2
         /\ (q \o <<c, d>>)[Len(q) + 1] = c /\ (q \o <<c, d>>)[Len(q) + 2] = d
         /\ \A i \in 1..Len(q) : (q \o <<c, d>>)[i] = q[i]
         /\ q \o <<c, d>> # <<>>
OBVIOUS

LEMMA AddNone ==
  ASSUME NEW q \in Seq(Call)
  PROVE  q \o <<>> = q
OBVIOUS

LEMMA OneAlone ==
  /\ \A c \in Call : <<>> \o <<c>> = <<c>> /\ <<c>> \in Seq(Call) /\ Len(<<c>>) = 1 /\ <<c>>[1] = c
  /\ \A q \in Seq(Call) : Len(q) = 0 => q = <<>>
OBVIOUS

LEMMA TakeOne ==
  ASSUME NEW q \in Seq(Call), q # <<>>
  PROVE  /\ Tail(q) \in Seq(Call) /\ Len(Tail(q)) = Len(q) - 1 /\ Len(q) \in Nat \ {0}
         /\ \A i \in 1..(Len(q) - 1) : Tail(q)[i] = q[i + 1]
         /\ Head(q) = q[1] /\ q[1] \in Call
OBVIOUS

LEMMA FirstLeft ==
  ASSUME NEW q \in Seq(Call), q # <<>>
  PROVE  /\ [q EXCEPT ![1].waits = FALSE] \in Seq(Call)
         /\ Len([q EXCEPT ![1].waits = FALSE]) = Len(q)
         /\ [q EXCEPT ![1].waits = FALSE][1].op = q[1].op
         /\ ~[q EXCEPT ![1].waits = FALSE][1].waits
         /\ \A i \in 2..Len(q) : [q EXCEPT ![1].waits = FALSE][i] = q[i]
         /\ [q EXCEPT ![1].waits = FALSE] # <<>>
<1> DEFINE Put(e) == [q EXCEPT ![1] = e]
<1>1. 1 \in 1..Len(q) /\ q[1] \in Call /\ Len(q) \in Nat
  OBVIOUS
<1>2. [q[1] EXCEPT !.waits = FALSE] \in Call /\ [q[1] EXCEPT !.waits = FALSE].op = q[1].op
        /\ ~[q[1] EXCEPT !.waits = FALSE].waits
  BY <1>1 DEF Call
<1>3. \A e \in Call : Put(e) \in Seq(Call) /\ Len(Put(e)) = Len(q) /\ Put(e)[1] = e
                      /\ \A i \in 2..Len(q) : Put(e)[i] = q[i]
  BY <1>1
<1>4. [q EXCEPT ![1].waits = FALSE] = Put([q[1] EXCEPT !.waits = FALSE])
  OBVIOUS
<1> HIDE DEF Put
<1> QED BY <1>1, <1>2, <1>3, <1>4

LEMMA LastDropped ==
  ASSUME NEW q \in Seq(Call), q # <<>>
  PROVE  SubSeq(q, 1, Len(q) - 1) \o SubSeq(q, Len(q) + 1, Len(q)) = SubSeq(q, 1, Len(q) - 1)
<1>1. Len(q) \in Nat /\ Len(q) # 0
  OBVIOUS
<1>2. SubSeq(q, Len(q) + 1, Len(q)) = <<>>
  BY <1>1
<1>3. SubSeq(q, 1, Len(q) - 1) \in Seq(Call)
  BY <1>1
<1> QED BY <1>2, <1>3, AddNone

LEMMA AllButLast ==
  ASSUME NEW q \in Seq(Call), q # <<>>
  PROVE  /\ SubSeq(q, 1, Len(q) - 1) \in Seq(Call)
         /\ Len(SubSeq(q, 1, Len(q) - 1)) = Len(q) - 1
         /\ \A i \in 1..(Len(q) - 1) : SubSeq(q, 1, Len(q) - 1)[i] = q[i]
<1>1. \A n \in 0..Len(q) : SubSeq(q, 1, n) \in Seq(Call)
  OBVIOUS
<1>2. \A n \in 0..Len(q) : Len(SubSeq(q, 1, n)) = n
  OBVIOUS
<1>3. \A n \in 0..Len(q) : \A i \in 1..n : SubSeq(q, 1, n)[i] = q[i]
  OBVIOUS
<1>4. Len(q) - 1 \in 0..Len(q)
  OBVIOUS
<1> QED BY <1>1, <1>2, <1>3, <1>4

(* --- Failures are counted and never taken back. --------------------------- *)
FaultsGrow ==
  /\ proxyFaults' \in [ProxyFaults -> Nat]
  /\ \A f \in ProxyFaults : proxyFaults[f] <= proxyFaults'[f]

LEMMA FailureGrows ==
  ASSUME proxyFaults \in [ProxyFaults -> Nat], NEW f \in ProxyFaults, MayFail(f)
  PROVE  FaultsGrow /\ proxyFaults'[f] # 0
BY DEF MayFail, FaultsGrow

LEMMA NoneGrows ==
  ASSUME proxyFaults \in [ProxyFaults -> Nat], proxyFaults' = proxyFaults
  PROVE  FaultsGrow
BY DEF FaultsGrow

LEMMA GoodBefore ==
  ASSUME proxyFaults \in [ProxyFaults -> Nat], FaultsGrow
  PROVE  (Written' => Written) /\ (CopyKept' => CopyKept) /\ (InTime' => InTime)
BY DEF FaultsGrow, Written, CopyKept, InTime, ProxyFaults

LEMMA ThreadGrows ==
  ASSUME ProxyTypeOK, Thread
  PROVE  FaultsGrow
<1>0. proxyFaults \in [ProxyFaults -> Nat] /\ {"persist", "write"} \subseteq ProxyFaults
  BY DEF ProxyTypeOK, ProxyFaults
<1>1. CASE proxyFaults' = proxyFaults
  BY <1>0, <1>1, NoneGrows
<1>2. CASE MayFail("persist") \/ MayFail("write")
  BY <1>0, <1>2, FailureGrows
<1> QED BY <1>1, <1>2 DEF Thread, EnableBegins, Persist, PersistDone, EnableWrites, DisableBegins,
      ReleaseNothing, DisableWrites, DisableForgets, DisableUnlinks, WriteFails

(* --- The end of a call. --------------------------------------------------- *)
Dropped == ~jobs[1].waits /\ jobs' = Tail(jobs) /\ flow' = flow /\ session' = session

Answered(ok) ==
  /\ jobs[1].waits /\ Len(jobs) = 1 /\ flow # "idle" /\ flow' = "idle"
  /\ session' = CASE flow = "connecting" -> ok [] flow = "stopping" -> FALSE [] OTHER -> session
  /\ \/ jobs' = <<>> /\ (ok \/ flow # "connecting" \/ ~wanted)
     \/ jobs' = <<Nowait("disable")>> /\ flow = "connecting" /\ wanted /\ ~ok

LEMMA ReturnLeaves ==
  ASSUME ProxyTypeOK, Queued, jobs # <<>>, NEW ok \in BOOLEAN, Return(ok)
  PROVE  at' = "start" /\ target' = NoCopy /\ (Dropped \/ Answered(ok))
<1>1. jobs \in Seq(Call) /\ Head(jobs) = jobs[1] /\ Tail(jobs) \in Seq(Call) /\ Len(jobs) \in Nat \ {0}
  BY TakeOne DEF ProxyTypeOK
<1>2. at' = "start" /\ target' = NoCopy
  BY DEF Return
<1>3. CASE ~jobs[1].waits
  <2>1. jobs' = Tail(jobs)
    BY <1>1, <1>3, AddNone DEF Return
  <2>2. flow' = flow /\ session' = session
    BY <1>1, <1>3, Zenon DEF Return, Answer
  <2> QED BY <1>2, <1>3, <2>1, <2>2 DEF Dropped
<1>4. CASE jobs[1].waits
  <2>1. 1 \in 1..Len(jobs) /\ flow # "idle" /\ LastWaits(jobs)
    BY <1>1, <1>4 DEF Queued, NoneWaits
  <2>2. Len(jobs) = 1
    BY <1>4, <2>1 DEF LastWaits
  <2>3. Tail(jobs) = <<>>
    <3>1. Len(Tail(jobs)) = 0
      BY <1>1, <2>2, TakeOne
    <3> QED BY <1>1, <3>1, OneAlone
  <2>4. flow' = "idle"
        /\ session' = CASE flow = "connecting" -> ok [] flow = "stopping" -> FALSE [] OTHER -> session
    BY <1>1, <1>4, Zenon DEF Return, Answer
  <2>7. \/ jobs' = <<>> /\ (ok \/ flow # "connecting" \/ ~wanted)
        \/ jobs' = <<Nowait("disable")>> /\ flow = "connecting" /\ wanted /\ ~ok
    <3>1. CASE flow = "connecting" /\ ~ok /\ wanted
      <4>1. jobs' = <<Nowait("disable")>>
        <5>1. jobs' = <<>> \o <<Nowait("disable")>>
          BY <1>1, <1>4, <2>3, <3>1 DEF Return
        <5>2. Nowait("disable") \in Call
          BY DEF Nowait, Call
        <5> QED BY <5>1, <5>2, OneAlone
      <4> QED BY <3>1, <4>1
    <3>2. CASE ~(flow = "connecting" /\ ~ok /\ wanted)
      <4>1. jobs' = <<>>
        BY <1>1, <1>4, <2>3, <3>2 DEF Return
      <4> QED BY <3>2, <4>1
    <3> QED BY <3>1, <3>2
  <2> QED BY <1>2, <1>4, <2>1, <2>2, <2>4, <2>7 DEF Answered
<1> QED BY <1>3, <1>4

LEMMA ReturnType ==
  ASSUME ProxyTypeOK, Queued, jobs # <<>>, NEW ok \in BOOLEAN, Dropped \/ Answered(ok)
  PROVE  /\ jobs' \in Seq(Call) /\ session' \in BOOLEAN
         /\ flow' \in {"idle", "connecting", "applying", "stopping"}
<1>1. Tail(jobs) \in Seq(Call)
  BY TakeOne DEF ProxyTypeOK
<1>2. Nowait("disable") \in Call
  BY DEF Nowait, Call
<1>3. jobs' \in Seq(Call)
  <2>1. <<Nowait("disable")>> \in Seq(Call) /\ <<>> \in Seq(Call)
    BY <1>2, OneAlone
  <2> QED BY <1>1, <2>1 DEF Dropped, Answered
<1>4. session' \in BOOLEAN
  BY Zenon DEF Dropped, Answered, ProxyTypeOK
<1>5. flow' \in {"idle", "connecting", "applying", "stopping"}
  BY DEF Dropped, Answered, ProxyTypeOK
<1> QED BY <1>3, <1>4, <1>5

(* --- A step of the thread. ------------------------------------------------ *)
LEMMA ThreadWorks ==
  ASSUME ProxyTypeOK, Queued, Thread
  PROVE  /\ jobs # <<>> /\ jobs \in Seq(Call) /\ Head(jobs) = jobs[1] /\ jobs[1] \in Call
         /\ \/ jobs' = jobs /\ flow' = flow /\ session' = session
            \/ Return(TRUE) /\ at' = "start" /\ target' = NoCopy /\ (Dropped \/ Answered(TRUE))
            \/ WriteFails /\ ~Written' /\ at' = "start" /\ target' = NoCopy /\ (Dropped \/ Answered(FALSE))
<1>1. jobs # <<>>
  BY DEF Thread, EnableBegins, Persist, PersistDone, EnableWrites, DisableBegins, Running, Disabling,
      ReleaseNothing, DisableWrites, DisableForgets, DisableUnlinks, WriteFails
<1>2. jobs \in Seq(Call) /\ Head(jobs) = jobs[1] /\ jobs[1] \in Call
  BY <1>1, TakeOne DEF ProxyTypeOK
<1>3. CASE Return(TRUE)
  BY <1>1, <1>2, <1>3, ReturnLeaves
<1>4. CASE WriteFails
  <2>1. Return(FALSE) /\ MayFail("write") /\ "write" \in ProxyFaults
    BY <1>4 DEF WriteFails, ProxyFaults
  <2>2. ~Written'
    BY <2>1, FailureGrows DEF Written, ProxyTypeOK
  <2> QED BY <1>1, <1>2, <1>4, <2>1, <2>2, ReturnLeaves
<1>5. CASE jobs' = jobs /\ flow' = flow /\ session' = session
  BY <1>1, <1>2, <1>5
<1> QED BY <1>1, <1>2, <1>3, <1>4, <1>5
  DEF Thread, EnableBegins, Persist, PersistDone, EnableWrites, DisableBegins, Go,
      ReleaseNothing, DisableWrites, DisableForgets, DisableUnlinks

LEMMA CopiesAre ==
  /\ NoCopy \in Copies /\ \A s \in Setting : {s} \in Copies
  /\ \A c \in Copies : c # NoCopy => \E s \in Setting : c = {s}
  /\ Off \in Setting /\ Ours \in Setting /\ Ours # Off /\ Off.on \in BOOLEAN
  /\ \A s \in Setting : {s} # NoCopy
BY DEF Copies, NoCopy, Setting, Off, Ours

LEMMA PutBackIsSetting ==
  ASSUME target \in Copies
  PROVE  /\ PutBack \in Setting /\ (target = NoCopy => PutBack = Off)
         /\ \A s \in Setting : target = {s} => PutBack = s
<1>1. CASE target = NoCopy
  BY <1>1, CopiesAre DEF PutBack
<1>2. CASE target # NoCopy
  <2>1. PICK s \in Setting : target = {s}
    BY <1>2, CopiesAre
  <2>2. (CHOOSE t \in target : TRUE) = s
    BY <2>1
  <2>3. \A t \in Setting : target = {t} => t = s
    BY <2>1
  <2> QED BY <1>2, <2>1, <2>2, <2>3 DEF PutBack
<1> QED BY <1>1, <1>2

(* What the thread writes.                                                   *)
LEMMA WritesAre ==
  ASSUME ProxyTypeOK, Thread
  PROVE  /\ windows' \in Setting /\ backup' \in Copies /\ backupFile' \in Copies /\ target' \in Copies
         /\ at' \in {"start", "persist", "copy", "flag", "server", "forget", "unlink"}
<1>1. NoCopy \in Copies /\ {windows} \in Copies /\ Copy \in Copies /\ PutBack \in Setting
      /\ PutBack = (IF target = NoCopy THEN Off ELSE CHOOSE s \in target : TRUE)
  BY CopiesAre, PutBackIsSetting DEF ProxyTypeOK, Copy, PutBack
<1>2. /\ [windows EXCEPT !.on = TRUE] \in Setting /\ [windows EXCEPT !.server = "ours"] \in Setting
      /\ [windows EXCEPT !.on = PutBack.on] \in Setting
             /\ [windows EXCEPT !.server = PutBack.server] \in Setting
  BY <1>1 DEF ProxyTypeOK, Setting
<1>3. windows' \in Setting
  BY <1>1, <1>2
  DEF ProxyTypeOK, Thread, EnableBegins, Persist, PersistDone, EnableWrites, DisableBegins,
      ReleaseNothing, DisableWrites, DisableForgets, DisableUnlinks, WriteFails
<1>4. backup' \in Copies /\ backupFile' \in Copies /\ target' \in Copies
  BY <1>1
  DEF ProxyTypeOK, Thread, EnableBegins, Persist, PersistDone, EnableWrites, DisableBegins, Return,
      ReleaseNothing, DisableWrites, DisableForgets, DisableUnlinks, WriteFails
<1>5. at' \in {"start", "persist", "copy", "flag", "server", "forget", "unlink"}
  BY DEF ProxyTypeOK, Thread, EnableBegins, Persist, PersistDone, EnableWrites, DisableBegins, Go, Return,
      ReleaseNothing, DisableWrites, DisableForgets, DisableUnlinks, WriteFails
<1> QED BY <1>3, <1>4, <1>5

LEMMA ThreadType == ASSUME ProxyTypeOK, Queued, Thread PROVE ProxyTypeOK'
<1>1. /\ jobs' \in Seq(Call) /\ session' \in BOOLEAN
      /\ flow' \in {"idle", "connecting", "applying", "stopping"}
  BY ThreadWorks, ReturnType DEF ProxyTypeOK
<1>2. wanted' \in BOOLEAN /\ own' \in OwnProxy /\ sessions' \in 0..MaxSessions
      /\ program' \in {"off", "recovering", "up", "closing", "leaving"}
  BY Zenon DEF ProxyTypeOK, Thread
<1>3. wiped' \in BOOLEAN
  <2>1. wiped \in BOOLEAN /\ (wiped' = wiped \/ wiped' = (wiped \/ (Head(jobs).op = "disable" /\ target = NoCopy)))
    BY DEF ProxyTypeOK, Thread, DisableWrites
  <2> QED BY <2>1, Zenon
<1> QED BY <1>1, <1>2, <1>3, WritesAre, ThreadGrows DEF ProxyTypeOK, FaultsGrow

(* One call less leaves the queue as it was.                                 *)
LEMMA TailQueued ==
  ASSUME NEW q \in Seq(Call), q # <<>>, ~q[1].waits
  PROVE  /\ NoneWaits(q) => NoneWaits(Tail(q))
         /\ LastWaits(q) => LastWaits(Tail(q)) /\ Len(q) > 1
         /\ Len(q) = 1 => Tail(q) = <<>>
         /\ Len(q) > 1 => Tail(q) # <<>> /\ LastOp(Tail(q)) = LastOp(q)
         /\ Len(q) > 2 => PrevOp(Tail(q)) = PrevOp(q)
<1>1. /\ Tail(q) \in Seq(Call) /\ Len(Tail(q)) = Len(q) - 1 /\ Len(q) \in Nat \ {0}
      /\ \A i \in 1..(Len(q) - 1) : Tail(q)[i] = q[i + 1]
  BY TakeOne
<1>2. NoneWaits(q) => NoneWaits(Tail(q))
  BY <1>1 DEF NoneWaits
<1>3. Len(q) = 1 => Tail(q) = <<>>
  <2>1. Len(q) = 1 => Len(Tail(q)) = 0
    BY <1>1
  <2> QED BY <1>1, <2>1, OneAlone
<1>4. Len(q) > 1 => Tail(q) # <<>>
  <2>1. Len(<<>>) = 0
    OBVIOUS
  <2>2. Len(q) > 1 => Len(Tail(q)) # 0
    BY <1>1
  <2> QED BY <2>1, <2>2
<1>5. LastWaits(q) => Len(q) > 1
  <2>1. LastWaits(q) => Len(q) # 1
    BY DEF LastWaits
  <2> QED BY <1>1, <2>1
<1>6. ASSUME LastWaits(q) PROVE LastWaits(Tail(q))
  <2>1. Len(q) > 1 /\ Tail(q) # <<>>
    BY <1>4, <1>5, <1>6
  <2>2. Tail(q)[Len(Tail(q))].waits
    <3>1. q[Len(q)].waits
      BY <1>6 DEF LastWaits
    <3>2. Len(q) - 1 \in 1..(Len(q) - 1) /\ (Len(q) - 1) + 1 = Len(q)
      BY <1>1, <2>1
    <3> QED BY <1>1, <3>1, <3>2
  <2>3. ASSUME NEW i \in 1..Len(Tail(q)), i # Len(Tail(q)) PROVE ~Tail(q)[i].waits
    <3>0. i \in 1..(Len(q) - 1) /\ i # Len(q) - 1
      BY <1>1, <2>3, Zenon
    <3>1. i + 1 \in 1..Len(q) /\ i + 1 # Len(q)
      <4>1. \A n \in Nat \ {0} : \A k \in 1..(n - 1) : k # n - 1 => k + 1 \in 1..n /\ k + 1 # n
        OBVIOUS
      <4>2. Len(q) \in Nat \ {0}
        BY <1>1
      <4> QED BY <3>0, <4>1, <4>2, Zenon
    <3>2. ~q[i + 1].waits
      BY <1>6, <3>1 DEF LastWaits
    <3> QED BY <1>1, <3>0, <3>1, <3>2
  <2> QED BY <2>1, <2>2, <2>3 DEF LastWaits
<1>7. Len(q) > 1 => LastOp(Tail(q)) = LastOp(q)
  BY <1>1 DEF LastOp
<1>8. Len(q) > 2 => PrevOp(Tail(q)) = PrevOp(q)
  BY <1>1 DEF PrevOp
<1> QED BY <1>2, <1>3, <1>4, <1>5, <1>6, <1>7, <1>8

LEMMA ThreadQueued == ASSUME ProxyTypeOK, Queued, Thread PROVE Queued'
<1>1. program' = program
  BY DEF Thread
<1>2. CASE jobs' = jobs /\ flow' = flow /\ session' = session
  BY <1>1, <1>2 DEF Queued
<1>3. CASE Dropped
  <2>1. jobs \in Seq(Call) /\ jobs # <<>>
    BY ThreadWorks
  <2>2. Len(<<Nowait("release")>>) = 1
    OBVIOUS
  <2> QED BY <1>1, <1>3, <2>1, <2>2, TailQueued DEF Dropped, Queued
<1>4. ASSUME NEW ok \in BOOLEAN, Answered(ok) PROVE Queued'
  <2>1. NoneWaits(<<>>) /\ NoneWaits(<<Nowait("disable")>>)
    BY DEF NoneWaits, Nowait
  <2>2. flow' = "idle" /\ program = "up" /\ (jobs' = <<>> \/ jobs' = <<Nowait("disable")>>)
    BY <1>4 DEF Answered, Queued
  <2> QED BY <1>1, <2>1, <2>2 DEF Queued
<1> QED BY <1>2, <1>3, <1>4, ThreadWorks

LEMMA AtStart ==
  ASSUME at' = "start", target' = NoCopy
  PROVE  InCall'
BY DEF InCall

LEMMA FirstIs ==
  ASSUME ProxyTypeOK, Thread
  PROVE  /\ Head(jobs) = jobs[1]
         /\ (EnableBegins \/ Persist \/ PersistDone \/ EnableWrites) => jobs[1].op = "enable"
         /\ (DisableBegins \/ ReleaseNothing \/ DisableWrites \/ DisableForgets \/ DisableUnlinks) =>
               jobs[1].op # "enable"
<1>1. jobs # <<>>
  BY DEF Thread, EnableBegins, Persist, PersistDone, EnableWrites, DisableBegins, Running, Disabling,
      ReleaseNothing, DisableWrites, DisableForgets, DisableUnlinks, WriteFails
<1>2. Head(jobs) = jobs[1]
  BY <1>1, TakeOne DEF ProxyTypeOK
<1> QED BY <1>2 DEF EnableBegins, Persist, PersistDone, EnableWrites, DisableBegins, Running, Disabling,
      ReleaseNothing, DisableWrites, DisableForgets, DisableUnlinks

(* Only a program that runs sets the proxy.                                  *)
LEMMA EnableIsOwning ==
  ASSUME ProxyTypeOK, Queued, jobs # <<>>, jobs[1].op = "enable"
  PROVE  Owning
<1>1. <<Nowait("release")>>[1] = Nowait("release")
  OBVIOUS
<1>2. <<Nowait("release")>>[1].op = "release"
  BY <1>1 DEF Nowait
<1>3. jobs # <<Nowait("release")>>
  BY <1>2
<1> QED BY <1>3 DEF Owning, Queued, ProxyTypeOK

LEMMA ThreadInCall == ASSUME ProxyTypeOK, Queued, InCall, Thread PROVE InCall'
<1>0. Head(jobs) = jobs[1] /\ jobs # <<>> /\ jobs[1].op \in {"enable", "disable", "release"}
          /\ windows \in Setting
  BY FirstIs, ThreadWorks, CallsAre DEF ProxyTypeOK
<1>1. CASE at' = "start" /\ target' = NoCopy
  BY <1>1, AtStart
<1>2. CASE EnableBegins /\ jobs' = jobs
  <2>1. {windows} # NoCopy
    BY DEF NoCopy
  <2> QED BY <1>0, <1>2, <2>1, FirstIs DEF EnableBegins, Running, InCall, Go
<1>3. CASE Persist /\ jobs' = jobs
  BY <1>0, <1>3, FirstIs DEF Persist, Running, InCall, Go
<1>4. CASE PersistDone /\ jobs' = jobs
  BY <1>0, <1>4, FirstIs DEF PersistDone, Running, InCall, Go
<1>5. CASE EnableWrites /\ Running("enable", "flag") /\ windows' = [windows EXCEPT !.on = TRUE] /\ Go("server")
  BY <1>0, <1>5, FirstIs DEF EnableWrites, Running, InCall, Go, Setting
<1>6. CASE DisableBegins
  BY <1>0, <1>6, FirstIs DEF DisableBegins, InCall, Go
<1>7. CASE DisableWrites
  <2>1. (IF target = NoCopy THEN Off ELSE CHOOSE s \in target : TRUE) = PutBack /\ PutBack \in Setting
        /\ PutBack' = PutBack
    BY <1>7, PutBackIsSetting DEF DisableWrites, PutBack, ProxyTypeOK
  <2>2. CASE Disabling("flag") /\ windows' = [windows EXCEPT !.on = PutBack.on] /\ Go("server")
    <3>1. windows'.on = PutBack'.on
      BY <1>0, <2>1, <2>2 DEF Setting
    <3> QED BY <1>0, <1>7, <2>2, <3>1, FirstIs DEF InCall, Go
  <2>3. CASE Disabling("server") /\ windows' = [windows EXCEPT !.server = PutBack.server] /\ Go("forget")
    <3>1. windows.on = PutBack.on
      BY <1>0, <1>7, <2>3, FirstIs DEF InCall, Disabling
    <3>2. windows' = PutBack'
      BY <1>0, <2>1, <2>3, <3>1 DEF Setting
    <3> QED BY <1>0, <1>7, <2>3, <3>2, FirstIs DEF InCall, Go
  <2> QED BY <1>7, <2>1, <2>2, <2>3 DEF DisableWrites
<1>8. CASE DisableForgets
  <2>1. PutBack' = PutBack
    BY <1>8 DEF PutBack, DisableForgets
  <2> QED BY <1>0, <1>8, <2>1, FirstIs DEF DisableForgets, Disabling, InCall, Go
<1>9. CASE Return(TRUE) \/ WriteFails
  BY <1>9, <1>1 DEF Return, WriteFails
<1> QED BY <1>2, <1>3, <1>4, <1>5, <1>6, <1>7, <1>8, <1>9
  DEF Thread, EnableBegins, Persist, PersistDone, EnableWrites, Go, ReleaseNothing, DisableUnlinks

LEMMA ThreadNeverOurs == ASSUME ProxyTypeOK, Queued, InCall, NeverOurs, Thread PROVE NeverOurs'
<1> SUFFICES ASSUME Written' PROVE NeverOurs'
  BY DEF NeverOurs
<1>0. Head(jobs) = jobs[1] /\ jobs # <<>> /\ jobs[1].op \in {"enable", "disable", "release"}
          /\ windows \in Setting
  BY FirstIs, ThreadWorks, CallsAre DEF ProxyTypeOK
<1>1. Written /\ ~WriteFails /\ program' = program
  BY ThreadGrows, GoodBefore, ThreadWorks, FailureGrows
  DEF Thread, WriteFails, Written, ProxyTypeOK, ProxyFaults
<1>2. backup # {Ours} /\ backupFile # {Ours} /\ target # {Ours} /\ NoCopy # {Ours}
  BY <1>1 DEF NeverOurs, NoCopy
<1>3. PutBack # Ours /\ PutBack \in Setting
  BY <1>2, PutBackIsSetting, CopiesAre DEF ProxyTypeOK
<1>4. jobs[1].op = "enable" => Owning
  BY <1>0, EnableIsOwning
<1>5. CASE EnableBegins
  <2>1. backup = NoCopy => windows # Ours
    BY <1>1, <1>4, <1>5, FirstIs DEF EnableBegins, Running, NeverOurs
  <2> QED BY <1>0, <1>1, <1>2, <1>5, <2>1 DEF EnableBegins, NeverOurs, Go
<1>6. CASE Persist
  BY <1>0, <1>1, <1>2, <1>6 DEF Persist, NeverOurs, Go
<1>7. CASE PersistDone
  BY <1>0, <1>1, <1>2, <1>7 DEF PersistDone, NeverOurs, Go
<1>8. CASE EnableWrites
  <2>1. jobs[1].op = "enable" /\ Owning /\ at # "start" /\ backup # NoCopy
    BY <1>0, <1>4, <1>8, FirstIs DEF EnableWrites, InCall, Running
  <2>2. program \in {"up", "closing"}
    BY <2>1 DEF Owning
  <2> QED BY <1>1, <1>2, <1>8, <2>1, <2>2 DEF EnableWrites, NeverOurs
<1>9. CASE DisableBegins
  BY <1>0, <1>1, <1>2, <1>9 DEF DisableBegins, NeverOurs, Go, Copy
<1>10. CASE ReleaseNothing
  <2>1. windows # Ours
    BY <1>10 DEF ReleaseNothing, IsOurs, Ours
  <2> QED BY <1>1, <1>2, <1>10, <2>1 DEF ReleaseNothing, NeverOurs, Return
<1>11. CASE DisableWrites
  BY <1>0, <1>1, <1>2, <1>11 DEF DisableWrites, NeverOurs, Go
<1>12. CASE DisableForgets
  BY <1>0, <1>1, <1>2, <1>12 DEF DisableForgets, NeverOurs, Go
<1>13. CASE DisableUnlinks
  <2>1. windows = PutBack
    BY <1>0, <1>13, FirstIs DEF DisableUnlinks, Disabling, InCall
  <2> QED BY <1>1, <1>2, <1>3, <1>13, <2>1 DEF DisableUnlinks, NeverOurs, Return
<1> QED BY <1>1, <1>5, <1>6, <1>7, <1>8, <1>9, <1>10, <1>11, <1>12, <1>13 DEF Thread

LEMMA HomeKept ==
  ASSUME ProxyTypeOK
  PROVE  /\ UNCHANGED <<own, wiped>> => \A s : Home(s)' <=> Home(s)
         /\ own # Ours /\ own.server # "ours"
         /\ \A s \in Setting : Home(s) => ~(s.on /\ s.server = "ours")
         /\ \A s \in Setting, t \in Setting : Home(s) /\ Home(t) => Home([t EXCEPT !.on = s.on])
         /\ \A s \in Setting, t \in Setting : Home(s) /\ Home(t) => Home([t EXCEPT !.server = s.server])
<1>1. own \in [on : BOOLEAN, server : {"none", "user"}] /\ own \in Setting
  BY SystemProxyAssumption DEF ProxyTypeOK, Setting
<1> QED BY <1>1 DEF Home, Setting, Ours

(* What has been put back is what the user has, or nothing at all.           *)
LEMMA DoneIsHome ==
  ASSUME windows = PutBack, target \in Copies, \A s \in target : Home(s), target = NoCopy => wiped
  PROVE  Home(windows)
<1>1. CASE target = NoCopy
  BY <1>1, PutBackIsSetting DEF Home, Off
<1>2. CASE target # NoCopy
  <2>1. PICK s \in Setting : target = {s}
    BY <1>2, CopiesAre
  <2> QED BY <2>1, PutBackIsSetting
<1> QED BY <1>1, <1>2

LEMMA ThreadFound == ASSUME ProxyTypeOK, Queued, InCall, Found, Thread PROVE Found'
<1> SUFFICES ASSUME CopyKept' PROVE Found'
  BY DEF Found
<1>0. Head(jobs) = jobs[1] /\ jobs # <<>> /\ jobs[1].op \in {"enable", "disable", "release"}
      /\ windows \in Setting /\ backup \in Copies /\ backupFile \in Copies /\ target \in Copies
      /\ NoCopy = {}
  BY FirstIs, ThreadWorks, CallsAre DEF ProxyTypeOK, NoCopy
<1>1. CopyKept /\ ~WriteFails /\ ~MayFail("persist") /\ program' = program
  BY ThreadGrows, GoodBefore, FailureGrows
  DEF Thread, WriteFails, Written, CopyKept, ProxyTypeOK, ProxyFaults
<1>2. /\ \A s \in backup \cup backupFile \cup target : Home(s)
      /\ Home(windows) \/ backupFile # NoCopy
      /\ at \in {"persist", "copy"} => Home(windows)
      /\ backup # NoCopy /\ at \notin {"persist", "copy"} => backupFile # NoCopy
      /\ Owning /\ backup = NoCopy => Home(windows)
      /\ target = NoCopy /\ jobs[1].op # "enable" /\ at # "start" =>
           /\ backup = NoCopy /\ backupFile = NoCopy
           /\ wiped \/ (jobs[1].op = "disable" /\ at = "flag")
  BY <1>0, <1>1 DEF Found
<1>3. jobs[1].op = "enable" => Owning
  BY <1>0, EnableIsOwning
<1>4. Owning' = Owning /\ (jobs' = jobs \/ at' = "start")
  BY <1>1, ThreadWorks DEF Owning
<1>5. CASE EnableBegins /\ UNCHANGED wiped
  <2>1. UNCHANGED <<own, wiped, windows, backupFile, target, jobs>> /\ at = "start" /\ jobs[1].op = "enable"
    BY <1>0, <1>5, FirstIs DEF EnableBegins, Running, Go, Thread
  <2>2. CASE backup = NoCopy
    <3>1. backup' = {windows} /\ at' = "persist" /\ Home(windows)
      BY <1>2, <1>3, <1>5, <2>1, <2>2 DEF EnableBegins, Go
    <3> QED BY <1>0, <1>2, <1>4, <2>1, <2>2, <3>1, HomeKept DEF Found
  <2>3. CASE backup # NoCopy
    <3>1. backup' = backup /\ at' = "flag"
      BY <1>5, <2>3 DEF EnableBegins, Go
    <3> QED BY <1>0, <1>1, <1>2, <1>4, <2>1, <2>3, <3>1, HomeKept DEF Found, Owning
  <2> QED BY <2>2, <2>3
<1>6. CASE Persist /\ UNCHANGED wiped
  <2>1. Home(windows) /\ backupFile' = NoCopy /\ at' = "copy" /\ backup # NoCopy
        /\ UNCHANGED <<own, wiped, windows, backup, target, jobs>> /\ jobs[1].op = "enable"
    BY <1>0, <1>1, <1>2, <1>6, FirstIs DEF Persist, Running, Go, InCall, Thread
  <2> QED BY <1>0, <1>2, <1>4, <2>1, HomeKept DEF Found
<1>7. CASE PersistDone /\ UNCHANGED wiped
  <2>1. Home(windows) /\ backupFile' = backup /\ at' = "flag" /\ backup # NoCopy
        /\ UNCHANGED <<own, wiped, windows, backup, target, jobs>> /\ jobs[1].op = "enable"
    BY <1>0, <1>1, <1>2, <1>7, FirstIs DEF PersistDone, Running, Go, InCall, Thread
  <2> QED BY <1>0, <1>1, <1>2, <1>3, <1>4, <2>1, HomeKept DEF Found, Owning
<1>8. CASE EnableWrites /\ UNCHANGED wiped
  <2>1. backup # NoCopy /\ at \in {"flag", "server"} /\ Owning /\ at' \in {"server", "start"}
        /\ UNCHANGED <<own, wiped, backup, backupFile>> /\ target' = NoCopy /\ jobs[1].op = "enable"
        /\ (at' = "start" \/ jobs' = jobs)
    BY <1>0, <1>1, <1>3, <1>8, FirstIs DEF EnableWrites, Running, InCall, Go, Return, Thread
  <2>2. backupFile # NoCopy /\ program \notin {"recovering", "leaving"}
    BY <1>2, <2>1 DEF Owning
  <2> QED BY <1>0, <1>1, <1>2, <1>4, <2>1, <2>2, HomeKept DEF Found
<1>9. CASE DisableBegins /\ UNCHANGED wiped
  <2>1. target' = Copy /\ at' = "flag" /\ UNCHANGED <<own, wiped, windows, backup, backupFile, jobs>>
        /\ (jobs[1].op = "disable" \/ (jobs[1].op = "release" /\ (IsOurs \/ Copy # NoCopy))) /\ at = "start"
    BY <1>0, <1>9 DEF DisableBegins, Go, Thread
  <2>2. Copy = NoCopy => ~IsOurs
    BY <1>0, <1>2, HomeKept DEF Copy, IsOurs
  <2> QED BY <1>0, <1>1, <1>2, <1>4, <2>1, <2>2, HomeKept DEF Found, Copy, Owning
<1>10. CASE ReleaseNothing /\ UNCHANGED wiped
  <2>1. backupFile = NoCopy /\ backup = NoCopy /\ Home(windows)
    BY <1>0, <1>2, <1>10 DEF ReleaseNothing, Copy
  <2>2. at' = "start" /\ target' = NoCopy /\ UNCHANGED <<own, wiped, windows, backup, backupFile>>
    BY <1>10 DEF ReleaseNothing, Return, Thread
  <2> QED BY <1>0, <2>1, <2>2, HomeKept DEF Found
<1>11. CASE DisableWrites
  <2>1. /\ at' \in {"server", "forget"} /\ jobs' = jobs /\ at \in {"flag", "server"} /\ jobs[1].op # "enable"
        /\ UNCHANGED <<own, backup, backupFile, target>>
        /\ windows' \in {[windows EXCEPT !.on = PutBack.on], [windows EXCEPT !.server = PutBack.server]}
        /\ at = "flag" => windows' = [windows EXCEPT !.on = PutBack.on]
    BY <1>0, <1>11 DEF DisableWrites, Disabling, Go, Thread, PutBack
  <2>2. /\ at = "flag" => wiped' = (wiped \/ (jobs[1].op = "disable" /\ target = NoCopy))
        /\ at = "server" => wiped' = wiped
    BY <1>0, <1>11 DEF DisableWrites, Disabling
  <2>3. PutBack \in Setting /\ (target = NoCopy => PutBack = Off) /\ \A s \in Setting : target = {s} => PutBack = s
    BY <1>0, PutBackIsSetting
  <2>4. CASE target # NoCopy
    <3>1. Home(PutBack) /\ wiped' = wiped
      <4>1. PICK s \in Setting : target = {s}
        BY <1>0, <2>4, CopiesAre
      <4>2. wiped' = wiped
        BY <2>1, <2>2, <2>4 DEF ProxyTypeOK
      <4> QED BY <1>2, <2>3, <4>1, <4>2
    <3>2. Home(windows) => Home(windows')
      BY <1>0, <2>1, <2>3, <3>1, HomeKept
    <3> QED BY <1>0, <1>1, <1>2, <1>4, <2>1, <2>4, <3>1, <3>2, HomeKept DEF Found
  <2>5. CASE target = NoCopy
    <3>0. backup = NoCopy /\ backupFile = NoCopy /\ (wiped \/ (jobs[1].op = "disable" /\ at = "flag"))
      BY <1>2, <2>1, <2>5
    <3>1. backup = NoCopy /\ backupFile = NoCopy /\ wiped' /\ (at = "server" => wiped)
      <4>1. CASE at = "flag"
        <5>1. wiped' = (wiped \/ (jobs[1].op = "disable" /\ target = NoCopy))
          BY <2>2, <4>1
        <5> QED BY <2>5, <3>0, <4>1, <5>1
      <4>2. CASE at = "server"
        BY <2>2, <3>0, <4>2
      <4> QED BY <2>1, <4>1, <4>2
    <3>2. PutBack.on = FALSE
      BY <2>3, <2>5 DEF Off
    <3>3. ~windows'.on
      <4>1. CASE at = "flag"
        BY <1>0, <2>1, <3>2, <4>1 DEF Setting
      <4>2. CASE at = "server"
        <5>1. ~windows.on
          BY <1>2, <3>1, <4>2 DEF Home
        <5> QED BY <1>0, <2>1, <3>2, <5>1 DEF Setting
      <4> QED BY <2>1, <4>1, <4>2
    <3>4. Home(windows)'
      BY <3>1, <3>3 DEF Home
    <3> QED BY <1>0, <1>4, <2>1, <2>5, <3>1, <3>4 DEF Found
  <2> QED BY <2>4, <2>5
<1>12. CASE DisableForgets /\ UNCHANGED wiped
  <2>1. windows = PutBack /\ at = "forget" /\ jobs[1].op # "enable"
        /\ backup' = NoCopy /\ at' = "unlink" /\ UNCHANGED <<own, wiped, windows, backupFile, target, jobs>>
    BY <1>0, <1>12, FirstIs DEF DisableForgets, Disabling, InCall, Go, Thread
  <2>2. Home(windows)
    BY <1>0, <1>2, <2>1, DoneIsHome
  <2> QED BY <1>0, <1>2, <1>4, <2>1, <2>2, HomeKept DEF Found
<1>13. CASE DisableUnlinks /\ UNCHANGED wiped
  <2>1. windows = PutBack /\ at = "unlink" /\ jobs[1].op # "enable" /\ backup = NoCopy
        /\ backupFile' = NoCopy /\ at' = "start" /\ target' = NoCopy /\ UNCHANGED <<own, wiped, windows, backup>>
    BY <1>0, <1>1, <1>13, FirstIs DEF DisableUnlinks, Disabling, InCall, Return, Thread
  <2>2. Home(windows)
    BY <1>0, <1>2, <2>1, DoneIsHome
  <2> QED BY <1>0, <1>2, <1>4, <2>1, <2>2, HomeKept DEF Found
<1> QED BY <1>1, <1>5, <1>6, <1>7, <1>8, <1>9, <1>10, <1>11, <1>12, <1>13 DEF Thread

(* A call that ends well has done what it was for.                           *)
LEMMA CallDone ==
  ASSUME ProxyTypeOK, Queued, InCall, Thread, Return(TRUE), Written'
  PROVE  /\ jobs[1].op = "enable" => windows' = Ours
         /\ jobs[1].op # "enable" => backup' = NoCopy
<1>0. Head(jobs) = jobs[1] /\ jobs # <<>> /\ windows \in Setting
  BY FirstIs, ThreadWorks DEF ProxyTypeOK
<1>1. at' = "start" /\ ~WriteFails
  BY ThreadWorks, FailureGrows DEF Return, WriteFails, Written, ProxyTypeOK, ProxyFaults
<1>2. CASE EnableWrites
  <2>1. Running("enable", "server") /\ windows' = [windows EXCEPT !.server = "ours"] /\ windows.on
    BY <1>0, <1>1, <1>2, FirstIs DEF EnableWrites, Go, InCall, Running
  <2>2. windows' = Ours
    BY <1>0, <2>1 DEF Setting, Ours
  <2> QED BY <2>2, <1>2, FirstIs
<1>3. CASE ReleaseNothing
  <2>1. backup' = NoCopy
    BY <1>3 DEF ReleaseNothing, Copy
  <2> QED BY <2>1, <1>3, FirstIs
<1>4. CASE DisableUnlinks
  <2>1. backup' = NoCopy
    BY <1>0, <1>4, FirstIs DEF DisableUnlinks, Disabling, InCall
  <2> QED BY <2>1, <1>4, FirstIs
<1> QED BY <1>1, <1>2, <1>3, <1>4
  DEF Thread, EnableBegins, Persist, PersistDone, DisableBegins, Go, DisableWrites, DisableForgets

LEMMA ThreadSettles == ASSUME ProxyTypeOK, Queued, InCall, Settling, Thread PROVE Settling'
<1> SUFFICES ASSUME InTime', program' = "up" PROVE Settling'
  BY DEF Settling
<1>0. /\ jobs # <<>> /\ jobs \in Seq(Call) /\ jobs[1] \in Call /\ Len(jobs) \in Nat \ {0}
      /\ session \in BOOLEAN /\ wanted \in BOOLEAN /\ flow \in {"idle", "connecting", "applying", "stopping"}
  BY ThreadWorks, TakeOne DEF ProxyTypeOK
<1>1. /\ InTime /\ program = "up" /\ wanted' = wanted /\ Written'
      /\ (proxyFaults'["slow"] = 0 => proxyFaults["slow"] = 0)
  BY ThreadGrows, GoodBefore DEF Thread, InTime, FaultsGrow, ProxyTypeOK, ProxyFaults
<1>2. /\ flow = "idle" => (LastOp(jobs) = "enable" <=> Serving)
      /\ flow = "connecting" => ~session /\ (LastOp(jobs) = "enable" <=> wanted)
      /\ flow = "applying" => (LastOp(jobs) = "enable" <=> Serving)
      /\ flow = "stopping" => LastOp(jobs) = "disable"
      /\ flow # "idle" /\ ~(session /\ flow = "applying") /\ Len(jobs) > 1 => PrevOp(jobs) # "enable"
      /\ session /\ proxyFaults["slow"] = 0 => flow # "idle" /\ (flow = "applying" => Len(jobs) = 1)
  BY <1>0, <1>1 DEF Settling
<1>3. CASE jobs' = jobs /\ flow' = flow /\ session' = session
  BY <1>0, <1>1, <1>2, <1>3 DEF Settling, LastOp, PrevOp, Serving
<1>4. Len(jobs) = 1 => LastOp(jobs) = jobs[1].op
  BY DEF LastOp
<1>5. ASSUME Return(TRUE), Dropped PROVE Settling'
  <2>1. ~jobs[1].waits /\ jobs' = Tail(jobs) /\ flow' = flow /\ session' = session /\ Serving' = Serving
    BY <1>1, <1>5 DEF Dropped, Serving
  <2>2. CASE Len(jobs) = 1
    <3>1. jobs' = <<>> /\ flow = "idle"
      <4>1. ~LastWaits(jobs)
        BY <2>1, <2>2 DEF LastWaits
      <4> QED BY <1>0, <2>1, <2>2, <4>1, TailQueued DEF Queued
    <3>2. IF Serving THEN windows' = Ours ELSE backup' = NoCopy
      BY <1>1, <1>2, <1>4, <1>5, <2>2, <3>1, CallDone
    <3> QED BY <2>1, <3>1, <3>2 DEF Settling
  <2>3. CASE Len(jobs) > 1
    <3>1. /\ jobs' # <<>> /\ LastOp(jobs)' = LastOp(jobs)
          /\ Len(jobs') = Len(jobs) - 1 /\ (Len(jobs) > 2 => PrevOp(jobs)' = PrevOp(jobs))
      BY <1>0, <2>1, <2>3, TailQueued, TakeOne DEF LastOp, PrevOp
    <3>2. ~(session /\ proxyFaults["slow"] = 0 /\ flow \in {"idle", "applying"})
      <4>1. Len(jobs) # 1
        BY <2>3
      <4> QED BY <1>2, <4>1, Zenon
    <3>3. Len(jobs') > 1 => Len(jobs) > 2
      BY <1>0, <3>1
    <3> QED BY <1>0, <1>1, <1>2, <2>1, <2>3, <3>1, <3>2, <3>3 DEF Settling
  <2>4. Len(jobs) \in Nat \ {0}
    BY <1>0
  <2>5. Len(jobs) = 1 \/ Len(jobs) > 1
    BY <2>4
  <2> QED BY <2>2, <2>3, <2>5
<1>6. ASSUME Return(TRUE), Answered(TRUE) PROVE Settling'
  <2>1. Len(jobs) = 1 /\ flow # "idle" /\ flow' = "idle" /\ jobs' = <<>>
        /\ session' = CASE flow = "connecting" -> TRUE [] flow = "stopping" -> FALSE [] OTHER -> session
    BY <1>6 DEF Answered
  <2>2. Serving' <=> jobs[1].op = "enable"
    BY <1>0, <1>1, <1>2, <1>4, <2>1 DEF Serving
  <2>3. IF Serving' THEN windows' = Ours ELSE backup' = NoCopy
    BY <1>1, <1>6, <2>2, CallDone
  <2> QED BY <2>1, <2>3 DEF Settling
<1> QED BY <1>1, <1>3, <1>5, <1>6, ThreadWorks

(* --- A step of the program. ----------------------------------------------- *)
(* A program that is up and stays in charge writes nothing itself: what was  *)
(* true of the registry and of the running call stays so.                    *)
LEMMA UpKeeps ==
  ASSUME ProxyTypeOK, InCall, NeverOurs, Found, FaultsGrow,
         program = "up", program' \in {"up", "closing"},
         UNCHANGED <<windows, backup, backupFile, at, target, own, wiped>>,
         jobs # <<>> => jobs' # <<>> /\ jobs'[1].op = jobs[1].op
  PROVE  InCall' /\ NeverOurs' /\ Found'
<1>1. (Written' => Written) /\ (CopyKept' => CopyKept)
  BY GoodBefore DEF ProxyTypeOK
<1>2. InCall'
  <2>1. CASE jobs = <<>>
    BY <2>1, AtStart DEF InCall
  <2>2. CASE jobs # <<>>
    <3>1. jobs' # <<>> /\ jobs'[1].op = jobs[1].op /\ PutBack' = PutBack
      BY <2>2 DEF PutBack
    <3> QED BY <2>2, <3>1 DEF InCall
  <2> QED BY <2>1, <2>2
<1>3. NeverOurs'
  BY <1>1 DEF NeverOurs, Owning
<1>4. Found'
  <2>1. jobs = <<>> => at = "start"
    BY DEF InCall
  <2> QED BY <1>1, <2>1 DEF Found, Owning, Home
<1> QED BY <1>2, <1>3, <1>4

LEMMA JoinNone ==
  ASSUME NEW q \in Seq(Call), NEW c \in Seq(Call)
  PROVE  /\ q \o c \in Seq(Call)
         /\ NoneWaits(q) /\ NoneWaits(c) => NoneWaits(q \o c)
         /\ q # <<>> => q \o c # <<>> /\ (q \o c)[1] = q[1]
<1>1. q \o c \in Seq(Call) /\ Len(q \o c) = Len(q) + Len(c) /\ Len(q) \in Nat /\ Len(c) \in Nat
  OBVIOUS
<1>2. \A i \in 1..Len(q) : (q \o c)[i] = q[i]
  OBVIOUS
<1>3. \A i \in 1..(Len(q) + Len(c)) : i \notin 1..Len(q) => (q \o c)[i] = c[i - Len(q)]
          /\ i - Len(q) \in 1..Len(c)
  OBVIOUS
<1>4. ASSUME NoneWaits(q), NoneWaits(c) PROVE NoneWaits(q \o c)
  BY <1>1, <1>2, <1>3, <1>4 DEF NoneWaits
<1>5. ASSUME q # <<>> PROVE q \o c # <<>> /\ (q \o c)[1] = q[1]
  <2>1. 1 \in 1..Len(q)
    BY <1>5
  <2>2. Len(q \o c) # 0 /\ Len(<<>>) = 0
    BY <1>1, <2>1
  <2> QED BY <1>2, <2>1, <2>2
<1> QED BY <1>1, <1>4, <1>5

LEMMA WaitAdded ==
  ASSUME NEW q \in Seq(Call), NEW c \in Call, NoneWaits(q)
  PROVE  /\ c.waits => LastWaits(q \o <<c>>)
         /\ ~c.waits => NoneWaits(q \o <<c>>)
         /\ LastOp(q \o <<c>>) = c.op
         /\ Len(q \o <<c>>) > 1 => q # <<>> /\ PrevOp(q \o <<c>>) = LastOp(q)
         /\ q = <<>> => Len(q \o <<c>>) = 1
<1> DEFINE r == q \o <<c>>
<1>0. Len(q) \in Nat /\ Len(<<>>) = 0
  OBVIOUS
<1>1. /\ r \in Seq(Call) /\ Len(r) = Len(q) + 1 /\ r # <<>>
      /\ r[Len(q) + 1] = c /\ \A i \in 1..Len(q) : r[i] = q[i]
  BY AddOne
<1> HIDE DEF r
<1>2. r[Len(r)] = c
  BY <1>1
<1>3. \A i \in 1..Len(r) : i # Len(r) => i \in 1..Len(q)
  BY <1>0, <1>1
<1>4. \A i \in 1..Len(r) : i # Len(r) => ~r[i].waits
  BY <1>1, <1>3 DEF NoneWaits
<1>5. c.waits => LastWaits(r)
  BY <1>1, <1>2, <1>4 DEF LastWaits
<1>6. ~c.waits => NoneWaits(r)
  BY <1>2, <1>4 DEF NoneWaits
<1>7. LastOp(r) = c.op
  BY <1>2 DEF LastOp
<1>8. ASSUME Len(r) > 1 PROVE q # <<>> /\ PrevOp(r) = LastOp(q)
  <2>1. Len(r) - 1 = Len(q) /\ Len(q) \in 1..Len(q)
    BY <1>0, <1>1, <1>8
  <2>2. r[Len(r) - 1] = q[Len(q)]
    BY <1>1, <2>1
  <2>3. q # <<>>
    BY <1>0, <2>1
  <2> QED BY <2>2, <2>3 DEF PrevOp, LastOp
<1>9. q = <<>> => Len(r) = 1
  BY <1>0, <1>1
<1> QED BY <1>5, <1>6, <1>7, <1>8, <1>9 DEF r

LEMMA TwoAdded ==
  ASSUME NEW q \in Seq(Call), NEW c \in Call, NEW d \in Call, NoneWaits(q), ~c.waits
  PROVE  /\ d.waits => LastWaits(q \o <<c, d>>)
         /\ ~d.waits => NoneWaits(q \o <<c, d>>)
         /\ LastOp(q \o <<c, d>>) = d.op /\ PrevOp(q \o <<c, d>>) = c.op
<1> DEFINE r == q \o <<c, d>>
<1>0. Len(q) \in Nat
  OBVIOUS
<1>1. /\ r \in Seq(Call) /\ Len(r) = Len(q) + 2 /\ r # <<>>
      /\ r[Len(q) + 1] = c /\ r[Len(q) + 2] = d /\ \A i \in 1..Len(q) : r[i] = q[i]
  BY AddTwo
<1> HIDE DEF r
<1>2. r[Len(r)] = d /\ r[Len(r) - 1] = c
  <2>1. Len(r) - 1 = Len(q) + 1
    BY <1>0, <1>1
  <2> QED BY <1>1, <2>1
<1>3. \A i \in 1..Len(r) : i # Len(r) => i \in 1..Len(q) \/ i = Len(q) + 1
  BY <1>0, <1>1
<1>4. \A i \in 1..Len(r) : i # Len(r) => ~r[i].waits
  BY <1>1, <1>3 DEF NoneWaits
<1> QED BY <1>1, <1>2, <1>4 DEF r, LastWaits, NoneWaits, LastOp, PrevOp

(* What Queued and Settling say once the program is idle.                    *)
LEMMA IdleQueue ==
  ASSUME ProxyTypeOK, Queued, Idle
  PROVE  /\ jobs \in Seq(Call) /\ NoneWaits(jobs) /\ program = "up" /\ flow = "idle"
         /\ session \in BOOLEAN /\ wanted \in BOOLEAN /\ proxyFaults \in [ProxyFaults -> Nat]
         /\ Settling /\ InTime /\ jobs # <<>> => (LastOp(jobs) = "enable" <=> Serving)
         /\ Settling /\ InTime /\ jobs = <<>> => IF Serving THEN windows = Ours ELSE backup = NoCopy
         /\ Settling /\ InTime /\ session /\ proxyFaults["slow"] = 0 => jobs = <<>>
BY DEF ProxyTypeOK, Queued, Idle, Settling

(* A step that leaves the thread alone keeps what is known of it.            *)
LEMMA IdleKeeps ==
  ASSUME ProxyInv, Idle, FaultsGrow, program' \in {"up", "closing"},
         UNCHANGED <<windows, backup, backupFile, at, target, own, wiped>>,
         NEW c \in Seq(Call), jobs' = jobs \o c \/ jobs' = jobs
  PROVE  InCall' /\ NeverOurs' /\ Found' /\ (InTime' => InTime) /\ jobs' \in Seq(Call)
<1>1. jobs \in Seq(Call) /\ program = "up"
  BY IdleQueue DEF ProxyInv
<1>2. (jobs # <<>> => jobs' # <<>> /\ jobs'[1].op = jobs[1].op) /\ jobs' \in Seq(Call)
  BY <1>1, JoinNone
<1> QED BY <1>1, <1>2, UpKeeps, GoodBefore DEF ProxyInv, ProxyTypeOK

LEMMA ConnectKept == ASSUME ProxyInv, Connect PROVE ProxyInv'
<1> DEFINE c == Await(IF wanted THEN "enable" ELSE "disable")
<1>1. /\ Idle /\ ~session /\ jobs' = jobs \o <<c>> /\ flow' = "connecting"
             /\ UNCHANGED <<writer, program, session, wanted>>
      /\ sessions' = sessions + 1 /\ sessions < MaxSessions
  BY DEF Connect, Submit
<1>2. c \in Call /\ c.waits /\ (c.op = "enable" <=> wanted) /\ <<c>> \in Seq(Call)
  BY DEF Await, Call
<1> HIDE DEF c
<1>3. FaultsGrow
  BY <1>1, NoneGrows DEF writer, ProxyInv, ProxyTypeOK
<1>4. InCall' /\ NeverOurs' /\ Found' /\ (InTime' => InTime) /\ jobs' \in Seq(Call)
  BY <1>1, <1>2, <1>3, IdleKeeps DEF writer, Idle
<1>5. /\ LastWaits(jobs') /\ LastOp(jobs') = c.op
      /\ Len(jobs') > 1 => jobs # <<>> /\ PrevOp(jobs') = LastOp(jobs)
  BY <1>1, <1>2, WaitAdded, IdleQueue DEF ProxyInv
<1>6. Queued'
  BY <1>1, <1>5 DEF Queued, Idle
<1>7. Settling'
  <2>1. jobs # <<>> /\ InTime => LastOp(jobs) # "enable"
    BY <1>1, IdleQueue DEF ProxyInv, Serving
  <2> QED BY <1>1, <1>2, <1>4, <1>5, <2>1 DEF Settling
<1>8. ProxyTypeOK'
  BY <1>1, <1>4, SystemProxyAssumption DEF ProxyInv, ProxyTypeOK, writer
<1> QED BY <1>4, <1>6, <1>7, <1>8 DEF ProxyInv

LEMMA ConnectTunKept == ASSUME ProxyInv, ConnectTun PROVE ProxyInv'
<1> DEFINE c == Await("release")
<1>1. /\ Idle /\ ~session /\ jobs' = jobs \o <<c>> /\ flow' = "applying"
             /\ UNCHANGED <<writer, program, session, wanted>>
      /\ sessions' = sessions + 1 /\ sessions < MaxSessions
  BY DEF ConnectTun, Submit
<1>2. c \in Call /\ c.waits /\ c.op # "enable" /\ <<c>> \in Seq(Call)
  BY DEF Await, Call
<1> HIDE DEF c
<1>3. FaultsGrow
  BY <1>1, NoneGrows DEF writer, ProxyInv, ProxyTypeOK
<1>4. InCall' /\ NeverOurs' /\ Found' /\ (InTime' => InTime) /\ jobs' \in Seq(Call)
  BY <1>1, <1>2, <1>3, IdleKeeps DEF writer, Idle
<1>5. /\ LastWaits(jobs') /\ LastOp(jobs') = c.op
      /\ Len(jobs') > 1 => jobs # <<>> /\ PrevOp(jobs') = LastOp(jobs)
  BY <1>1, <1>2, WaitAdded, IdleQueue DEF ProxyInv
<1>6. Queued'
  BY <1>1, <1>5 DEF Queued, Idle
<1>7. Settling'
  <2>1. jobs # <<>> /\ InTime => LastOp(jobs) # "enable"
    BY <1>1, IdleQueue DEF ProxyInv, Serving
  <2> QED BY <1>1, <1>2, <1>4, <1>5, <2>1 DEF Settling, Serving
<1>8. ProxyTypeOK'
  BY <1>1, <1>4, SystemProxyAssumption DEF ProxyInv, ProxyTypeOK, writer
<1> QED BY <1>4, <1>6, <1>7, <1>8 DEF ProxyInv

LEMMA DisconnectKept == ASSUME ProxyInv, Disconnect PROVE ProxyInv'
<1> DEFINE c == Nowait("disable")
           d == Await("disable")
<1>0. Idle /\ session /\ UNCHANGED <<writer, program, wanted, sessions>>
  BY DEF Disconnect
<1>1. c \in Call /\ ~c.waits /\ c.op = "disable" /\ d \in Call /\ d.waits /\ d.op = "disable"
          /\ <<c, d>> \in Seq(Call)
  BY DEF Await, Nowait, Call
<1>2. \/ wanted /\ flow' = "stopping" /\ session' = session /\ jobs' = jobs \o <<c, d>>
      \/ ~wanted /\ session' = FALSE /\ flow' = flow /\ jobs' = jobs
  BY DEF Disconnect, Submit
<1> HIDE DEF c, d
<1>3. FaultsGrow
  BY <1>0, NoneGrows DEF writer, ProxyInv, ProxyTypeOK
<1>4. InCall' /\ NeverOurs' /\ Found' /\ (InTime' => InTime) /\ jobs' \in Seq(Call)
  BY <1>0, <1>1, <1>2, <1>3, IdleKeeps DEF writer, Idle
<1>5. ASSUME wanted PROVE LastWaits(jobs') /\ LastOp(jobs') = "disable" /\ PrevOp(jobs') = "disable"
  <2>1. jobs' = jobs \o <<c, d>> /\ jobs \in Seq(Call) /\ NoneWaits(jobs)
    BY <1>0, <1>2, <1>5, IdleQueue DEF ProxyInv
  <2> QED BY <1>1, <2>1, TwoAdded
<1>6. Queued'
  BY <1>0, <1>2, <1>5 DEF Queued, Idle, ProxyInv
<1>7. Settling'
  <2>1. CASE wanted
    BY <1>0, <1>2, <1>5, <2>1 DEF Settling
  <2>2. CASE ~wanted
    BY <1>0, <1>2, <1>4, <2>2, IdleQueue DEF Settling, Serving, ProxyInv, writer
  <2> QED BY <2>1, <2>2
<1>8. ProxyTypeOK'
  <2>1. session' \in BOOLEAN /\ flow' \in {"idle", "connecting", "applying", "stopping"}
    BY <1>2, Zenon DEF ProxyInv, ProxyTypeOK
  <2> QED BY <1>0, <1>4, <2>1 DEF ProxyInv, ProxyTypeOK, writer
<1> QED BY <1>4, <1>6, <1>7, <1>8 DEF ProxyInv

LEMMA CoreDiesKept == ASSUME ProxyInv, CoreDies PROVE ProxyInv'
<1> DEFINE c == Nowait("disable")
<1>0. /\ Idle /\ session /\ session' = FALSE /\ MayFail("core") /\ "core" \in ProxyFaults
      /\ UNCHANGED <<windows, backup, backupFile, at, target, own, wiped, program, wanted, flow, sessions>>
  BY DEF CoreDies, ProxyFaults
<1>1. c \in Call /\ ~c.waits /\ c.op = "disable" /\ <<c, c>> \in Seq(Call)
  BY DEF Nowait, Call
<1>2. \/ wanted /\ jobs' = jobs \o <<c, c>>
      \/ ~wanted /\ jobs' = jobs
  <2>1. jobs \o <<>> = jobs
    BY AddNone DEF ProxyInv, ProxyTypeOK
  <2>2. CASE wanted
    <3>1. jobs' = jobs \o <<c, c>>
      BY <2>2, Zenon DEF CoreDies, Submit
    <3> QED BY <2>2, <3>1
  <2>3. CASE ~wanted
    BY <2>1, <2>3 DEF CoreDies, Submit
  <2> QED BY <2>2, <2>3
<1> HIDE DEF c
<1>3. FaultsGrow
  BY <1>0, FailureGrows DEF ProxyInv, ProxyTypeOK
<1>4. InCall' /\ NeverOurs' /\ Found' /\ (InTime' => InTime) /\ jobs' \in Seq(Call)
  BY <1>0, <1>1, <1>2, <1>3, IdleKeeps DEF Idle
<1>5. ASSUME wanted PROVE NoneWaits(jobs') /\ LastOp(jobs') = "disable" /\ jobs' # <<>>
  <2>1. jobs' = jobs \o <<c, c>> /\ jobs \in Seq(Call) /\ NoneWaits(jobs)
    BY <1>0, <1>2, <1>5, IdleQueue DEF ProxyInv
  <2> QED BY <1>1, <2>1, TwoAdded, AddTwo
<1>6. Queued'
  BY <1>0, <1>2, <1>5 DEF Queued, Idle, ProxyInv
<1>7. Settling'
  <2>1. CASE wanted
    BY <1>0, <1>2, <1>5, <2>1 DEF Settling, Idle, Serving
  <2>2. CASE ~wanted
    BY <1>0, <1>2, <1>4, <2>2, IdleQueue DEF Settling, Serving, ProxyInv, Idle
  <2> QED BY <2>1, <2>2
<1>8. ProxyTypeOK'
  BY <1>0, <1>3, <1>4 DEF ProxyInv, ProxyTypeOK, FaultsGrow
<1> QED BY <1>4, <1>6, <1>7, <1>8 DEF ProxyInv

LEMMA TogglesKept == ASSUME ProxyInv, ToggleProxy PROVE ProxyInv'
<1> DEFINE c == Await(IF wanted THEN "disable" ELSE "enable")
<1>0. /\ Idle /\ wanted' = ~wanted /\ UNCHANGED <<writer, program, session>>
      /\ sessions' = sessions + 1 /\ sessions < MaxSessions
  BY DEF ToggleProxy
<1>1. c \in Call /\ c.waits /\ (c.op = "enable" <=> ~wanted) /\ <<c>> \in Seq(Call)
  BY DEF Await, Call
<1>2. \/ session /\ flow' = "applying" /\ jobs' = jobs \o <<c>>
      \/ ~session /\ flow' = flow /\ jobs' = jobs
  BY DEF ToggleProxy, Submit
<1> HIDE DEF c
<1>3. FaultsGrow
  BY <1>0, NoneGrows DEF writer, ProxyInv, ProxyTypeOK
<1>4. InCall' /\ NeverOurs' /\ Found' /\ (InTime' => InTime) /\ jobs' \in Seq(Call)
  BY <1>0, <1>1, <1>2, <1>3, IdleKeeps DEF writer, Idle
<1>5. ASSUME session
      PROVE  /\ LastWaits(jobs') /\ LastOp(jobs') = c.op /\ jobs' # <<>>
             /\ jobs = <<>> => Len(jobs') = 1
  <2>1. jobs' = jobs \o <<c>> /\ jobs \in Seq(Call) /\ NoneWaits(jobs)
    BY <1>0, <1>2, <1>5, IdleQueue DEF ProxyInv
  <2> QED BY <1>1, <2>1, WaitAdded, AddOne
<1>6. Queued'
  BY <1>0, <1>2, <1>5 DEF Queued, Idle, ProxyInv
<1>7. Settling'
  <2>1. CASE session
    <3>1. InTime /\ proxyFaults["slow"] = 0 => jobs = <<>>
      BY <1>0, <2>1, IdleQueue DEF ProxyInv
    <3> QED BY <1>0, <1>1, <1>2, <1>4, <1>5, <2>1, <3>1 DEF Settling, Serving, writer
  <2>2. CASE ~session
    BY <1>0, <1>2, <1>4, <2>2, IdleQueue DEF Settling, Serving, ProxyInv, Idle, writer
  <2> QED BY <2>1, <2>2
<1>8. ProxyTypeOK'
  <2>1. wanted' \in BOOLEAN /\ flow' \in {"idle", "connecting", "applying", "stopping"}
    BY <1>0, <1>2, Zenon DEF ProxyInv, ProxyTypeOK
  <2> QED BY <1>0, <1>4, <2>1, SystemProxyAssumption DEF ProxyInv, ProxyTypeOK, writer
<1> QED BY <1>4, <1>6, <1>7, <1>8 DEF ProxyInv

LEMMA LastIsAwaited ==
  ASSUME jobs \in Seq(Call), LastWaits(jobs)
  PROVE  Awaited = Len(jobs)
<1>1. Len(jobs) \in DOMAIN jobs /\ DOMAIN jobs = 1..Len(jobs)
  BY DEF LastWaits
<1>2. \A i \in DOMAIN jobs : jobs[i].waits <=> i = Len(jobs)
  BY <1>1 DEF LastWaits
<1> QED BY <1>1, <1>2 DEF Awaited

(* The queue after a deadline: the call that runs is left to finish, one     *)
(* that has not begun is dropped.                                            *)
LEMMA DeadlineLeaves ==
  ASSUME ProxyInv, ProxyDeadline
  PROVE  \E left \in Seq(Call) :
           /\ jobs' = left \o (IF flow = "connecting" /\ wanted THEN <<Nowait("disable")>> ELSE <<>>)
           /\ NoneWaits(left) /\ left # <<>> /\ left[1].op = jobs[1].op
           /\ \/ Len(jobs) = 1 /\ LastOp(left) = LastOp(jobs)
              \/ Len(jobs) > 1 /\ LastOp(left) = PrevOp(jobs)
<1>1. jobs \in Seq(Call) /\ LastWaits(jobs) /\ Awaited = Len(jobs) /\ jobs # <<>> /\ Len(jobs) \in Nat \ {0}
  <2>1. jobs \in Seq(Call) /\ LastWaits(jobs)
    BY DEF ProxyInv, ProxyTypeOK, Queued, ProxyDeadline
  <2> QED BY <2>1, LastIsAwaited, TakeOne DEF LastWaits
<1>2. CASE Len(jobs) = 1
  <2> DEFINE left == [jobs EXCEPT ![1].waits = FALSE]
  <2>1. jobs' = left \o (IF flow = "connecting" /\ wanted THEN <<Nowait("disable")>> ELSE <<>>)
    BY <1>1, <1>2 DEF ProxyDeadline
  <2>2. left \in Seq(Call) /\ left # <<>> /\ Len(left) = 1 /\ left[1].op = jobs[1].op /\ ~left[1].waits
    BY <1>1, <1>2, FirstLeft
  <2> HIDE DEF left
  <2>3. NoneWaits(left) /\ LastOp(left) = LastOp(jobs)
    BY <1>2, <2>2 DEF NoneWaits, LastOp
  <2> QED BY <1>2, <2>1, <2>2, <2>3
<1>3. CASE Len(jobs) > 1
  <2> DEFINE left == SubSeq(jobs, 1, Len(jobs) - 1)
  <2>1. jobs' = left \o (IF flow = "connecting" /\ wanted THEN <<Nowait("disable")>> ELSE <<>>)
    <3>1. Awaited # 1
      BY <1>1, <1>3
    <3>2. jobs' = (SubSeq(jobs, 1, Len(jobs) - 1) \o SubSeq(jobs, Len(jobs) + 1, Len(jobs)))
                  \o (IF flow = "connecting" /\ wanted THEN <<Nowait("disable")>> ELSE <<>>)
      BY <1>1, <3>1, Zenon DEF ProxyDeadline
    <3> QED BY <1>1, <3>2, LastDropped
  <2>2. /\ left \in Seq(Call) /\ Len(left) = Len(jobs) - 1
        /\ \A i \in 1..(Len(jobs) - 1) : left[i] = jobs[i]
    BY <1>1, AllButLast
  <2> HIDE DEF left
  <2>3. Len(jobs) - 1 \in 1..(Len(jobs) - 1) /\ 1 \in 1..(Len(jobs) - 1)
    BY <1>1, <1>3
  <2>4. left # <<>>
    <3>1. Len(<<>>) = 0 /\ Len(left) # 0
      BY <2>2, <2>3
    <3> QED BY <3>1
  <2>5. left[1].op = jobs[1].op /\ LastOp(left) = PrevOp(jobs)
    BY <2>2, <2>3 DEF LastOp, PrevOp
  <2>6. NoneWaits(left)
    <3>1. \A i \in 1..(Len(jobs) - 1) : i \in 1..Len(jobs) /\ i # Len(jobs)
      BY <1>1
    <3> QED BY <1>1, <2>2, <3>1 DEF NoneWaits, LastWaits
  <2> QED BY <1>3, <2>1, <2>2, <2>4, <2>5, <2>6
<1>4. Len(jobs) = 1 \/ Len(jobs) > 1
  BY <1>1
<1> QED BY <1>2, <1>3, <1>4

LEMMA DeadlineKept == ASSUME ProxyInv, ProxyDeadline PROVE ProxyInv'
<1> DEFINE c == Nowait("disable")
<1>0. /\ flow # "idle" /\ program = "up" /\ MayFail("slow") /\ "slow" \in ProxyFaults /\ flow' = "idle"
      /\ session' = (session /\ flow = "applying")
      /\ UNCHANGED <<windows, backup, backupFile, at, target, own, wiped, program, wanted, sessions>>
      /\ session \in BOOLEAN /\ wanted \in BOOLEAN /\ jobs \in Seq(Call) /\ jobs # <<>> /\ jobs[1] \in Call
  <2>1. jobs # <<>>
    BY DEF ProxyDeadline, ProxyInv, Queued, LastWaits
  <2> QED BY <2>1, TakeOne DEF ProxyDeadline, ProxyFaults, ProxyInv, ProxyTypeOK
<1>1. c \in Call /\ ~c.waits /\ c.op = "disable" /\ <<c>> \in Seq(Call)
  BY DEF Nowait, Call
<1>2. PICK left \in Seq(Call) :
           /\ jobs' = left \o (IF flow = "connecting" /\ wanted THEN <<c>> ELSE <<>>)
           /\ NoneWaits(left) /\ left # <<>> /\ left[1].op = jobs[1].op
           /\ \/ Len(jobs) = 1 /\ LastOp(left) = LastOp(jobs)
              \/ Len(jobs) > 1 /\ LastOp(left) = PrevOp(jobs)
  BY DeadlineLeaves
<1> HIDE DEF c
<1>3. FaultsGrow /\ proxyFaults'["slow"] # 0
  BY <1>0, FailureGrows DEF ProxyInv, ProxyTypeOK
<1>4. /\ jobs' \in Seq(Call) /\ NoneWaits(jobs') /\ jobs' # <<>> /\ jobs'[1].op = jobs[1].op
      /\ LastOp(jobs)' = IF flow = "connecting" /\ wanted THEN "disable" ELSE LastOp(left)
  <2>1. CASE flow = "connecting" /\ wanted
    <3>1. jobs' = left \o <<c>>
      BY <1>2, <2>1
    <3>2. NoneWaits(jobs') /\ LastOp(jobs') = "disable"
      BY <1>1, <1>2, <3>1, WaitAdded
    <3>3. jobs' \in Seq(Call) /\ jobs' # <<>> /\ jobs'[1] = left[1]
      BY <1>1, <1>2, <3>1, JoinNone
    <3> QED BY <1>2, <2>1, <3>2, <3>3 DEF LastOp
  <2>2. CASE ~(flow = "connecting" /\ wanted)
    <3>1. jobs' = left
      BY <1>2, <2>2, AddNone
    <3> QED BY <1>2, <2>2, <3>1 DEF LastOp
  <2> QED BY <2>1, <2>2
<1>5. InCall' /\ NeverOurs' /\ Found' /\ (InTime' => InTime /\ proxyFaults["slow"] = 0)
  <2>1. InCall' /\ NeverOurs' /\ Found'
    BY <1>0, <1>3, <1>4, UpKeeps DEF ProxyInv
  <2>2. InTime' => InTime
    BY <1>3, GoodBefore DEF ProxyInv, ProxyTypeOK
  <2>3. InTime' => proxyFaults["slow"] = 0
    <3>1. proxyFaults["slow"] \in Nat /\ proxyFaults'["slow"] = proxyFaults["slow"] + 1
      BY <1>0 DEF ProxyInv, ProxyTypeOK, MayFail
    <3> QED BY <3>1 DEF InTime
  <2> QED BY <2>1, <2>2, <2>3
<1>6. Queued'
  BY <1>0, <1>4 DEF Queued, ProxyInv
<1>7. Settling'
  <2> SUFFICES ASSUME InTime' PROVE LastOp(jobs)' = "enable" <=> Serving'
    BY <1>0, <1>3, <1>4 DEF Settling
  <2>1. /\ flow = "connecting" => ~session /\ (LastOp(jobs) = "enable" <=> wanted)
        /\ flow = "applying" => (LastOp(jobs) = "enable" <=> Serving)
        /\ flow = "stopping" => LastOp(jobs) = "disable"
        /\ ~(session /\ flow = "applying") /\ Len(jobs) > 1 => PrevOp(jobs) # "enable"
        /\ session /\ flow = "applying" => Len(jobs) = 1
    BY <1>0, <1>5 DEF Settling, ProxyInv
  <2>2. Serving' = (session /\ flow = "applying" /\ wanted)
    BY <1>0, Zenon DEF Serving
  <2>3. flow \in {"connecting", "applying", "stopping"}
    BY <1>0 DEF ProxyInv, ProxyTypeOK
  <2>4. CASE flow = "connecting"
    BY <1>2, <1>4, <2>1, <2>2, <2>4
  <2>5. CASE flow = "applying"
    <3>1. CASE session
      <4>1. LastOp(left) = LastOp(jobs)
        <5>1. Len(jobs) = 1
          BY <2>1, <2>5, <3>1
        <5>2. ~(Len(jobs) > 1)
          BY <5>1
        <5> QED BY <1>2, <5>2
      <4> QED BY <1>4, <2>1, <2>2, <2>5, <3>1, <4>1 DEF Serving
    <3>2. CASE ~session
      BY <1>2, <1>4, <2>1, <2>2, <2>5, <3>2 DEF Serving
    <3> QED BY <3>1, <3>2
  <2>6. CASE flow = "stopping"
    BY <1>2, <1>4, <2>1, <2>2, <2>6
  <2> QED BY <2>3, <2>4, <2>5, <2>6
<1>8. ProxyTypeOK'
  BY <1>0, <1>3, <1>4 DEF ProxyInv, ProxyTypeOK, FaultsGrow
<1> QED BY <1>4, <1>5, <1>6, <1>7, <1>8 DEF ProxyInv

LEMMA CloseKept == ASSUME ProxyInv, Close PROVE ProxyInv'
<1>0. Idle /\ program' = "closing" /\ session' = FALSE /\ UNCHANGED <<writer, wanted, flow, sessions>>
  BY DEF Close
<1>1. PICK c \in Seq(Call) : NoneWaits(c) /\ jobs' = jobs \o c
  <2> DEFINE first == IF session /\ wanted THEN <<Nowait("disable"), Nowait("disable")>> ELSE <<>>
             last == <<Nowait("release")>>
  <2>1. Nowait("disable") \in Call /\ Nowait("release") \in Call /\ ~Nowait("disable").waits
            /\ ~Nowait("release").waits
    BY DEF Nowait, Call
  <2>2. first \in Seq(Call) /\ last \in Seq(Call)
    BY <2>1
  <2>3. NoneWaits(<<>>) /\ NoneWaits(<<Nowait("disable"), Nowait("disable")>>) /\ NoneWaits(last)
    BY <2>1 DEF NoneWaits
  <2>4. NoneWaits(first)
    BY <2>3
  <2>5. jobs' = jobs \o (first \o last)
    BY DEF Close, Submit
  <2> HIDE DEF first, last
  <2> QED BY <2>2, <2>3, <2>4, <2>5, JoinNone
<1>2. FaultsGrow
  BY <1>0, NoneGrows DEF writer, ProxyInv, ProxyTypeOK
<1>3. InCall' /\ NeverOurs' /\ Found' /\ jobs' \in Seq(Call)
  BY <1>0, <1>1, <1>2, IdleKeeps DEF writer
<1>4. NoneWaits(jobs')
  BY <1>0, <1>1, JoinNone, IdleQueue DEF ProxyInv
<1>5. Queued' /\ Settling'
  BY <1>0, <1>4 DEF Queued, Settling, Idle
<1>6. ProxyTypeOK'
  BY <1>0, <1>3 DEF ProxyInv, ProxyTypeOK, writer
<1> QED BY <1>3, <1>5, <1>6 DEF ProxyInv

(* The call of a start and of an exit: the program is not up, and the queue  *)
(* holds that call alone.                                                    *)
LEMMA OneRelease ==
  ASSUME ProxyInv, jobs = <<>>, jobs' = jobs \o <<Nowait("release")>>,
         program' \in {"recovering", "leaving"}, flow = "idle", ~session,
         UNCHANGED <<windows, backupFile, at, target, own, wiped, session, wanted, flow, sessions, proxyFaults>>,
         backup' \in {backup, NoCopy}
  PROVE  ProxyInv'
<1>1. jobs' = <<Nowait("release")>> /\ jobs' # <<>> /\ jobs' \in Seq(Call) /\ NoneWaits(jobs')
  <2>1. Nowait("release") \in Call /\ ~Nowait("release").waits
    BY DEF Nowait, Call
  <2>2. jobs' = <<Nowait("release")>> /\ jobs' \in Seq(Call)
    BY <2>1, OneAlone
  <2>3. Len(jobs') = 1 /\ jobs'[1] = Nowait("release")
    BY <2>2
  <2>4. jobs' # <<>>
    BY <2>2, <2>3
  <2> QED BY <2>1, <2>2, <2>3, <2>4 DEF NoneWaits
<1>2. at = "start" /\ target = NoCopy
  BY DEF ProxyInv, InCall
<1>3. Queued' /\ Settling'
  BY <1>1 DEF Queued, Settling
<1>4. InCall'
  BY <1>2, AtStart
<1>5. NeverOurs'
  <2>1. NoCopy # {Ours}
    BY DEF NoCopy
  <2> QED BY <1>1, <1>2, <2>1 DEF ProxyInv, NeverOurs, Owning, Written
<1>6. Found'
  BY <1>1, <1>2 DEF ProxyInv, Found, Owning, CopyKept, Written, Home, NoCopy
<1>7. ProxyTypeOK'
  BY <1>1, CopiesAre DEF ProxyInv, ProxyTypeOK
<1> QED BY <1>3, <1>4, <1>5, <1>6, <1>7 DEF ProxyInv

LEMMA StartKept == ASSUME ProxyInv, StartProgram PROVE ProxyInv'
<1>1. jobs = <<>> /\ flow = "idle" /\ ~session
  BY DEF ProxyInv, Queued, StartProgram
<1> QED BY <1>1, OneRelease DEF StartProgram, Submit, writer

LEMMA LeaveKept == ASSUME ProxyInv, Leave PROVE ProxyInv'
<1>1. jobs = <<>> /\ flow = "idle" /\ ~session
  BY DEF ProxyInv, Queued, Leave
<1> QED BY <1>1, OneRelease DEF Leave, Submit

LEMMA StartedKept == ASSUME ProxyInv, ProgramStarted PROVE ProxyInv'
<1>1. jobs = <<>> /\ flow = "idle" /\ ~session /\ at = "start" /\ target = NoCopy
      /\ NoCopy # {Ours} /\ program' = "up" /\ backup' = NoCopy /\ jobs' = <<>> /\ program = "recovering"
  BY DEF ProxyInv, Queued, ProgramStarted, InCall, NoCopy
<1>2. Queued' /\ Settling' /\ InCall'
  <2>1. NoneWaits(<<>>)
    BY DEF NoneWaits
  <2> QED BY <1>1, <2>1, AtStart DEF ProgramStarted, Queued, Settling, Serving
<1>3. NeverOurs'
  BY <1>1 DEF ProxyInv, NeverOurs, ProgramStarted, Written, Owning
<1>4. Found'
  BY <1>1 DEF ProxyInv, Found, ProgramStarted, CopyKept, Written, Owning, Home, NoCopy
<1>5. ProxyTypeOK'
  BY <1>1, CopiesAre DEF ProxyInv, ProxyTypeOK, ProgramStarted
<1> QED BY <1>2, <1>3, <1>4, <1>5 DEF ProxyInv

(* The process is gone: what is left is the registry and the file.           *)
LEMMA GoneKept ==
  ASSUME ProxyInv, FaultsGrow, program' = "off", jobs' = <<>>, at' = "start", target' = NoCopy,
             backup' = NoCopy,
         flow' = "idle", session' = FALSE, UNCHANGED <<windows, backupFile, wanted, own, wiped, sessions>>
  PROVE  ProxyInv'
<1>1. NoneWaits(<<>>) /\ NoCopy # {Ours} /\ (Written' => Written) /\ (CopyKept' => CopyKept)
  BY GoodBefore DEF NoneWaits, NoCopy, ProxyInv, ProxyTypeOK
<1>2. Queued' /\ Settling' /\ InCall'
  BY <1>1, AtStart DEF Queued, Settling
<1>3. NeverOurs'
  BY <1>1 DEF ProxyInv, NeverOurs, Owning
<1>4. Found'
  BY <1>1 DEF ProxyInv, Found, Owning, Home, NoCopy
<1>5. ProxyTypeOK'
  <2>1. session' \in BOOLEAN /\ wanted' \in BOOLEAN
    BY Zenon DEF ProxyInv, ProxyTypeOK
  <2>2. <<>> \in Seq(Call)
    OBVIOUS
  <2> QED BY <2>1, <2>2, CopiesAre DEF ProxyInv, ProxyTypeOK, FaultsGrow
<1> QED BY <1>2, <1>3, <1>4, <1>5 DEF ProxyInv

LEMMA LeftKept == ASSUME ProxyInv, Left PROVE ProxyInv'
<1>1. jobs = <<>> /\ flow = "idle" /\ session = FALSE /\ at = "start" /\ target = NoCopy
  BY DEF ProxyInv, Queued, Left, InCall, ProxyTypeOK
<1>2. FaultsGrow
  BY NoneGrows DEF Left, ProxyInv, ProxyTypeOK
<1> QED BY <1>1, <1>2, GoneKept DEF Left

LEMMA KillKept == ASSUME ProxyInv, Kill PROVE ProxyInv'
<1>1. FaultsGrow
  BY FailureGrows DEF Kill, ProxyInv, ProxyTypeOK, ProxyFaults
<1> QED BY <1>1, GoneKept DEF Kill

LEMMA ThreadKept == ASSUME ProxyInv, Thread PROVE ProxyInv'
BY ThreadType, ThreadQueued, ThreadInCall, ThreadNeverOurs, ThreadFound, ThreadSettles DEF ProxyInv

LEMMA ProxyStays == ASSUME ProxyInv, UNCHANGED proxyVars PROVE ProxyInv'
<1>1. UNCHANGED <<windows, backup, backupFile, jobs, at, target, program, session, wanted, flow, own, wiped,
                  sessions, proxyFaults>>
  BY DEF proxyVars
<1>2. ProxyTypeOK' /\ Queued' /\ InCall'
  BY <1>1 DEF ProxyInv, ProxyTypeOK, Queued, InCall, PutBack, NoneWaits, LastWaits
<1>3. NeverOurs' /\ Found'
  BY <1>1 DEF ProxyInv, NeverOurs, Found, Owning, CopyKept, Written, Home
<1>4. Settling'
  BY <1>1 DEF ProxyInv, Settling, InTime, Written, Serving, LastOp, PrevOp
<1> QED BY <1>2, <1>3, <1>4 DEF ProxyInv

LEMMA ProxyStep == ASSUME ProxyInv, [ProxyNext]_proxyVars PROVE ProxyInv'
BY ThreadKept, StartKept, StartedKept, ConnectKept, ConnectTunKept, DisconnectKept, CoreDiesKept, TogglesKept,
   DeadlineKept, CloseKept, LeaveKept, LeftKept, KillKept, ProxyStays DEF ProxyNext

LEMMA ProxyAtStart == ASSUME ProxyInit PROVE ProxyInv
<1>1. /\ Setting = [on : BOOLEAN, server : {"none", "user", "ours"}]
      /\ windows \in Setting /\ own \in OwnProxy /\ windows # Ours /\ windows = own
  BY SystemProxyAssumption DEF ProxyInit, Setting, Ours
<1>2. ProxyTypeOK
  <2>1. wanted \in BOOLEAN /\ session \in BOOLEAN
    BY Zenon DEF ProxyInit
  <2>2. jobs \in Seq(Call) /\ proxyFaults \in [ProxyFaults -> Nat] /\ sessions \in 0..MaxSessions
    BY SystemProxyAssumption DEF ProxyInit
  <2> QED BY <1>1, <2>1, <2>2, CopiesAre DEF ProxyInit, ProxyTypeOK
<1>3. Queued /\ InCall /\ NeverOurs /\ Found /\ Settling
  BY <1>1 DEF ProxyInit, Queued, NoneWaits, InCall, NeverOurs, Found, Settling, NoCopy, Owning, Home
<1> QED BY <1>2, <1>3 DEF ProxyInv

(* What the invariant says of a program that rests.                          *)
LEMMA ProxyInvImplies ==
  ASSUME ProxyInv
  PROVE  /\ ProxyTypeOK /\ NothingLeft /\ ProxyFollowsSetting
         /\ OwnProxyKept /\ GivenBack
<1>1. windows \in Setting
  BY DEF ProxyInv, ProxyTypeOK
<1>2. IsOurs => windows = Ours
  BY <1>1 DEF IsOurs, Setting, Ours
<1>3. NothingLeft
  BY <1>2 DEF NothingLeft, ProxyInv, NeverOurs
<1>4. Quiet => at = "start" /\ Owning
  BY DEF Quiet, ProxyInv, InCall, Owning
<1>5. ProxyFollowsSetting
  BY <1>4
  DEF ProxyFollowsSetting, ProxyInv, NeverOurs, Settling, Serving, Quiet, InTime, ProxyTypeOK
<1>6. OwnProxyKept
  <2> SUFFICES ASSUME CopyKept, ~wiped PROVE {own} = {windows} \/ {own} = backupFile
    BY DEF OwnProxyKept
  <2>1. (\A s \in backupFile : s = own) /\ (windows = own \/ backupFile # NoCopy)
    BY DEF ProxyInv, Found, Home
  <2>2. backupFile # NoCopy => \E s \in Setting : backupFile = {s}
    BY CopiesAre DEF ProxyInv, ProxyTypeOK
  <2> QED BY <2>1, <2>2
<1>7. GivenBack
  BY <1>4 DEF ProxyInv, Found, GivenBack, Settling, Serving, Quiet
<1> QED BY <1>3, <1>5, <1>6, <1>7 DEF ProxyInv


-----------------------------------------------------------------------------
(* The changes of server the application makes by itself.  What the record   *)
(* of a check holds, and the workers that have not reported.                 *)
CheckRecord ==
  [phase : {"idle", "current", "candidates"}, low : BOOLEAN, of : Servers, worker : Nat, bps : Nat,
   cand : Servers, cool : Nat, hold : Nat, manual : Nat, slow : [Node -> Nat], times : SUBSET Nat,
   alarms : [Node -> 0..Len(Backoff)]]
Worker == [id : Nat \ {0}, kind : {"current", "candidate"}, node : Node]

SmartShape ==
  /\ smart \in CheckRecord /\ IsFiniteSet(smart.times)
  /\ flying \subseteq Worker /\ IsFiniteSet(flying)

(* A connection that stands is the one of the chosen server; a transition    *)
(* has ended the check.                                                      *)
Standing ==
  /\ Connected => line.served = line.chosen
  /\ line.act \notin {"none", "hot"} => smart.phase = "idle"

(* A check belongs to one moment and one worker: what it has measured is the *)
(* speed of its server now.                                                  *)
Judged ==
  smart.phase # "idle" =>
    /\ clock >= smart.hold
    /\ \A w \in flying : w.id = smart.worker =>
         w.node = IF smart.phase = "current" THEN smart.of ELSE smart.cand
    /\ smart.phase = "candidates" =>
         /\ smart.bps = Speed[smart.of][clock] /\ smart.bps # 0 /\ smart.bps < Threshold
         /\ smart.cand \in Node /\ clock >= smart.slow[smart.cand]

(* One pass: the attempts count the switches since the last cycle began, and *)
(* a cycle begins anew only at rest or with no connection.                   *)
Paced ==
  /\ auto.attempts <= Attempts /\ auto.count <= Attempts
  /\ auto.count <= auto.attempts \/ (~Connected /\ line.act = "none" /\ ~line.queued)
  /\ line.act # "none" \/ line.queued => auto.moving \/ auto.count = 0
  /\ line.act \notin {"none", "hot"} /\ line.queued => auto.count = 0

(* The switches made: in the order of time, each one after the pause, and    *)
(* what the pauses and the limit are reckoned from.                          *)
Recent(t) == {j \in 1..Len(moved) : t < moved[j].at + Hour}

Change == [from : Node, to : Node, at : Nat]

Past ==
  /\ moved \in Seq(Change)
  /\ \A i \in 1..Len(moved) :
       /\ moved[i].at <= clock /\ moved[i].at + Hold <= smart.hold
       /\ smart.slow[moved[i].from] >= moved[i].at + SlowMark
       /\ clock < moved[i].at + Hour => moved[i].at \in smart.times
       /\ \A j \in 1..(i - 1) : moved[j].at < moved[i].at
  /\ WorthIt /\ Unhurried

SmartInv == SmartTypeOK /\ SmartShape /\ Standing /\ Judged /\ Paced /\ Past

-----------------------------------------------------------------------------
(* A finite set has an element of the greatest weight.                       *)
LEMMA Heaviest ==
  ASSUME NEW S, IsFiniteSet(S), S # {}, NEW f, \A x \in S : f[x] \in Nat
  PROVE  \E x \in S : \A y \in S : f[x] >= f[y]
<1> DEFINE Bad(n) == \E R \in SUBSET S : /\ R # {} /\ Cardinality(R) = n
                                         /\ ~ \E x \in R : \A y \in R : f[x] >= f[y]
           T == {n \in Nat : Bad(n)}
<1>1. \A R \in SUBSET S : IsFiniteSet(R) /\ Cardinality(R) \in Nat
  BY FS_Subset, FS_CardinalityType
<1>2. SUFFICES ASSUME T # {} PROVE FALSE
  BY <1>1
<1>3. PICK n \in T : \A m \in T : n <= m
  <2>1. T \subseteq Nat
    OBVIOUS
  <2> HIDE DEF T
  <2> QED BY <1>2, <2>1, LeastNumber
<1>4. PICK R \in SUBSET S : R # {} /\ Cardinality(R) = n /\ ~ \E x \in R : \A y \in R : f[x] >= f[y]
  BY <1>3
<1>5. PICK e \in R : TRUE
  BY <1>4
<1>6. IsFiniteSet(R \ {e}) /\ Cardinality(R \ {e}) = n - 1 /\ n \in Nat /\ R \ {e} \in SUBSET S
  <2>1. IsFiniteSet(R) /\ Cardinality(R) = n
    BY <1>1, <1>4
  <2> QED BY <1>3, <1>5, <2>1, FS_RemoveElement
<1>7. CASE R \ {e} = {}
  <2>1. \A y \in R : y = e
    BY <1>7
  <2>2. f[e] \in Nat
    BY <1>5
  <2>3. f[e] >= f[e]
    BY <2>2
  <2> QED BY <1>4, <1>5, <2>1, <2>3
<1>8. CASE R \ {e} # {}
  <2>1. n - 1 \in Nat
    BY <1>1, <1>6
  <2>2. ~ Bad(n - 1)
    <3>1. n - 1 \notin T
      BY <1>3, <1>6
    <3> QED BY <2>1, <3>1
  <2>3. PICK b \in R \ {e} : \A y \in R \ {e} : f[b] >= f[y]
    BY <1>6, <1>8, <2>2
  <2>4. f[e] \in Nat /\ f[b] \in Nat /\ \A y \in R : f[y] \in Nat
    BY <1>5
  <2>5. CASE f[b] >= f[e]
    <3>1. \A y \in R : f[b] >= f[y]
      BY <2>3, <2>5
    <3> QED BY <1>4, <3>1
  <2>6. CASE ~(f[b] >= f[e])
    <3>1. \A y \in R : f[e] >= f[y]
      BY <2>3, <2>4, <2>6
    <3> QED BY <1>4, <1>5, <3>1
  <2> QED BY <2>5, <2>6
<1> QED BY <1>7, <1>8

LEMMA BestIsThere ==
  ASSUME NEW S \in SUBSET Node, S # {}
  PROVE  Best(S) \in S
<1>1. IsFiniteSet(S) /\ \A x \in S : Rank[x] \in Nat
  BY FS_Subset, SmartAssumption
<1>2. \E x \in S : \A y \in S : Rank[x] >= Rank[y]
  BY <1>1, Heaviest
<1> QED BY <1>2 DEF Best

LEMMA GreatestNumber ==
  ASSUME NEW S \in SUBSET Nat, IsFiniteSet(S), S # {}
  PROVE  Max(S) \in S /\ \A y \in S : Max(S) >= y
<1> DEFINE f == [x \in S |-> x]
<1>1. \A x \in S : f[x] \in Nat /\ f[x] = x
  OBVIOUS
<1>2. \E x \in S : \A y \in S : f[x] >= f[y]
  <2> HIDE DEF f
  <2> QED BY <1>1, Heaviest
<1>3. \E x \in S : \A y \in S : x >= y
  BY <1>1, <1>2
<1> QED BY <1>3 DEF Max

LEMMA TwoNumbers ==
  ASSUME NEW a \in Nat, NEW b \in Nat
  PROVE  /\ Max({a, b}) \in {a, b} /\ Max({a, b}) >= a /\ Max({a, b}) >= b
         /\ Min({a, b}) \in {a, b} /\ Min({a, b}) <= a /\ Min({a, b}) <= b
<1>1. \E x \in {a, b} : \A y \in {a, b} : x >= y
  OBVIOUS
<1>2. \E x \in {a, b} : \A y \in {a, b} : x <= y
  OBVIOUS
<1> QED BY <1>1, <1>2 DEF Max, Min

LEMMA ValuesAre ==
  /\ IsFiniteSet(Node) /\ NoNode \notin Node /\ Node # {} /\ Cardinality(Node) - 1 \in Nat
  /\ Threshold \in Nat /\ Factor \in Nat /\ Hold \in Nat /\ Hold > 0 /\ SlowMark \in Nat /\ ManualHold \in Nat
  /\ Hour \in Nat /\ MaxPerHour \in Nat
  /\ Len(Backoff) \in Nat /\ Len(Backoff) > 0 /\ \A k \in 1..Len(Backoff) : Backoff[k] \in Nat
  /\ \A n \in Node : \A t \in 0..MaxClock : Speed[n][t] \in Nat
  /\ MaxClock \in Nat
<1>1. Node # {} /\ Cardinality(Node) - 1 \in Nat
  <2>1. Cardinality(Node) \in Nat /\ Cardinality(Node) > 1
    BY SmartAssumption, FS_CardinalityType
  <2>2. Node # {}
    BY <2>1, FS_EmptySet
  <2> QED BY <2>1, <2>2
<1>2. /\ Threshold \in Nat /\ Factor \in Nat /\ Hold \in Nat /\ Hold > 0 /\ SlowMark \in Nat
             /\ ManualHold \in Nat
      /\ Hour \in Nat /\ MaxPerHour \in Nat /\ MaxClock \in Nat
  BY SmartAssumption
<1>3. Len(Backoff) \in Nat /\ Len(Backoff) > 0 /\ \A k \in 1..Len(Backoff) : Backoff[k] \in Nat
  BY SmartAssumption
<1>4. \A n \in Node : \A t \in 0..MaxClock : Speed[n][t] \in Nat
  BY SmartAssumption
<1> QED BY <1>1, <1>2, <1>3, <1>4, SmartAssumption

LEMMA AttemptsIs == Attempts \in Nat /\ Attempts >= 1
<1>1. Max({1, Cardinality(Node) - 1}) \in {1, Cardinality(Node) - 1} /\ Max({1, Cardinality(Node) - 1}) >= 1
  BY ValuesAre, TwoNumbers
<1> QED BY <1>1, ValuesAre DEF Attempts

LEMMA OtherServer ==
  ASSUME NEW n \in Node
  PROVE  Node \ {n} # {}
<1>1. Cardinality({n}) = 1
  BY FS_Singleton
<1>2. Cardinality(Node) > 1
  BY SmartAssumption
<1>3. Node # {n}
  BY <1>1, <1>2
<1> QED BY <1>3

LEMMA PausesAre ==
  ASSUME SmartShape, NEW n \in Node
  PROVE  /\ Paused(n) \in Nat
         /\ Min({smart.alarms[n] + 1, Len(Backoff)}) \in 0..Len(Backoff)
<1>1. smart.alarms[n] \in 0..Len(Backoff)
  BY DEF SmartShape, CheckRecord
<1>2. smart.alarms[n] + 1 \in Nat /\ smart.alarms[n] + 1 >= 1 /\ Len(Backoff) \in Nat /\ Len(Backoff) >= 1
  BY <1>1, ValuesAre
<1> DEFINE m == Min({smart.alarms[n] + 1, Len(Backoff)})
<1>3. m \in {smart.alarms[n] + 1, Len(Backoff)} /\ m <= Len(Backoff)
  BY <1>2, TwoNumbers
<1>4. m \in 1..Len(Backoff)
  BY <1>2, <1>3
<1> HIDE DEF m
<1>5. Backoff[m] \in Nat /\ m \in 0..Len(Backoff)
  BY <1>2, <1>4, ValuesAre
<1> QED BY <1>5 DEF Paused, m

LEMMA WorkerIsNew ==
  ASSUME SmartShape
  PROVE  NewWorker \in Nat \ {0} /\ \A w \in flying : w.id # NewWorker
<1> DEFINE ids == {w.id : w \in flying}
<1>1. IsFiniteSet(ids) /\ ids \subseteq Nat
  <2>1. IsFiniteSet(flying) /\ \A w \in flying : w.id \in Nat
    BY DEF SmartShape, Worker
  <2> DEFINE f == [w \in flying |-> w.id]
  <2>2. f \in Surjection(flying, ids)
    BY DEF Surjection
  <2>3. IsFiniteSet(ids)
    BY <2>1, <2>2, FS_Surjection
  <2> QED BY <2>1, <2>3
<1>2. IsFiniteSet({0} \cup ids) /\ {0} \cup ids \subseteq Nat /\ {0} \cup ids # {}
  <2> HIDE DEF ids
  <2>1. {0} \cup ids = ids \cup {0}
    OBVIOUS
  <2>2. IsFiniteSet(ids \cup {0})
    BY <1>1, FS_AddElement
  <2> QED BY <1>1, <2>1, <2>2
<1>3. Max({0} \cup ids) \in Nat /\ \A y \in {0} \cup ids : Max({0} \cup ids) >= y
  BY <1>2, GreatestNumber
<1>4. NewWorker = 1 + Max({0} \cup ids)
  BY DEF NewWorker
<1>5. \A w \in flying : w.id \in {0} \cup ids /\ w.id \in Nat
  BY DEF SmartShape, Worker
<1> HIDE DEF ids
<1> QED BY <1>3, <1>4, <1>5

(* A check that ends.                                                        *)
LEMMA ForgottenIs ==
  ASSUME smart \in CheckRecord, NEW p \in Nat, clock \in Nat
  PROVE  /\ Forgotten(smart) \in CheckRecord /\ MoveEnded(smart, p) \in CheckRecord
         /\ Forgotten(smart).phase = "idle" /\ MoveEnded(smart, p).phase = "idle"
         /\ Forgotten(smart).worker = 0 /\ MoveEnded(smart, p).worker = 0
         /\ Forgotten(smart).hold = smart.hold /\ MoveEnded(smart, p).hold = smart.hold
         /\ Forgotten(smart).slow = smart.slow /\ MoveEnded(smart, p).slow = smart.slow
         /\ Forgotten(smart).times = smart.times /\ MoveEnded(smart, p).times = smart.times
         /\ MoveEnded(smart, p).alarms = smart.alarms
<1>1. /\ Forgotten(smart) \in CheckRecord /\ Forgotten(smart).phase = "idle" /\ Forgotten(smart).worker = 0
      /\ Forgotten(smart).hold = smart.hold /\ Forgotten(smart).slow = smart.slow
      /\ Forgotten(smart).times = smart.times /\ Forgotten(smart).alarms = smart.alarms
  BY DEF Forgotten, CheckRecord, Servers
<1>2. \A s \in CheckRecord : \A c \in Nat : /\ [s EXCEPT !.cool = c] \in CheckRecord
         /\ [s EXCEPT !.cool = c].phase = s.phase /\ [s EXCEPT !.cool = c].worker = s.worker
         /\ [s EXCEPT !.cool = c].hold = s.hold /\ [s EXCEPT !.cool = c].slow = s.slow
         /\ [s EXCEPT !.cool = c].times = s.times /\ [s EXCEPT !.cool = c].alarms = s.alarms
  BY DEF CheckRecord
<1>3. (IF p > 0 THEN clock + p ELSE Forgotten(smart).cool) \in Nat
  BY <1>1 DEF CheckRecord
<1>4. MoveEnded(smart, p) = [Forgotten(smart) EXCEPT !.cool = IF p > 0 THEN clock + p ELSE Forgotten(smart).cool]
  BY DEF MoveEnded
<1> QED BY <1>1, <1>2, <1>3, <1>4

(* The line after a choice.                                                  *)
LineShape == [served : Servers, chosen : Node, aimed : Servers, wanted : BOOLEAN, queued : BOOLEAN, act : Acts]
AutoShape == [down : BOOLEAN, attempts : Nat, exhausted : BOOLEAN, moving : BOOLEAN,
              held : BOOLEAN, warm : BOOLEAN, tried : SUBSET Node, count : Nat]

LEMMA PickIs ==
  ASSUME line \in LineShape, NEW n \in Node
  PROVE  /\ Pick(n) \in LineShape /\ Pick(n).served = line.served
         /\ (Connected => Pick(n).chosen = line.chosen)
         /\ Pick(n).act \in {line.act, "hot"}
         /\ (line.act \notin {"none", "hot"} => Pick(n).act = line.act)
<1>1. CASE n = Aim(line)
  BY <1>1 DEF Pick
<1>2. CASE n # Aim(line) /\ ~Connected
  <2>1. (line.queued \/ line.wanted) \in BOOLEAN
    OBVIOUS
  <2>2. Pick(n) = [line EXCEPT !.chosen = n, !.aimed = NoNode, !.queued = line.queued \/ line.wanted]
    BY <1>2 DEF Pick
  <2> HIDE DEF Pick
  <2> QED BY <1>2, <2>1, <2>2 DEF LineShape, Servers
<1>3. CASE n # Aim(line) /\ Connected /\ n = line.chosen
  BY <1>3 DEF Pick, LineShape, Servers
<1>4. CASE n # Aim(line) /\ Connected /\ n # line.chosen
           /\ n \in PoolNode /\ line.served \in PoolNode /\ line.act \in {"none", "hot"}
  BY <1>4 DEF Pick, LineShape, Servers, Acts
<1>5. CASE n # Aim(line) /\ Connected /\ n # line.chosen
           /\ ~(n \in PoolNode /\ line.served \in PoolNode /\ line.act \in {"none", "hot"})
  BY <1>5 DEF Pick, LineShape, Servers
<1> QED BY <1>1, <1>2, <1>3, <1>4, <1>5

LEMMA AimIs == ASSUME line \in LineShape PROVE Aim(line) \in Node
BY DEF LineShape, Aim, Servers

(* The resets of the dead-link switch.                                       *)
LEMMA ResetIs ==
  ASSUME auto \in AutoShape, NEW cycle \in BOOLEAN
  PROVE  /\ ResetIf(auto, cycle) \in AutoShape
         /\ ResetIf(auto, cycle).moving = auto.moving /\ ResetIf(auto, cycle).count = auto.count
         /\ ResetIf(auto, cycle).attempts = IF cycle THEN 0 ELSE auto.attempts
<1>1. (auto.exhausted /\ ~cycle) \in BOOLEAN /\ (IF cycle THEN 0 ELSE auto.attempts) \in Nat
      /\ (IF cycle THEN {} ELSE auto.tried) \in SUBSET Node
  BY DEF AutoShape
<1>4. PICK x \in BOOLEAN : x = (auto.exhausted /\ ~cycle)
  BY <1>1
<1>5. PICK n \in Nat : n = IF cycle THEN 0 ELSE auto.attempts
  BY <1>1
<1>6. PICK S \in SUBSET Node : S = IF cycle THEN {} ELSE auto.tried
  BY <1>1
<1> DEFINE R(y, k, T) == [auto EXCEPT !.down = FALSE, !.attempts = k, !.exhausted = y, !.tried = T]
<1>2. ResetIf(auto, cycle) = R(x, n, S)
  BY <1>4, <1>5, <1>6 DEF ResetIf
<1>3. \A y \in BOOLEAN : \A k \in Nat : \A T \in SUBSET Node :
        R(y, k, T) \in AutoShape /\ R(y, k, T).moving = auto.moving /\ R(y, k, T).count = auto.count
        /\ R(y, k, T).attempts = k
  BY DEF AutoShape
<1> HIDE DEF R
<1>7. /\ ResetIf(auto, cycle) \in AutoShape /\ ResetIf(auto, cycle).moving = auto.moving
      /\ ResetIf(auto, cycle).count = auto.count /\ ResetIf(auto, cycle).attempts = n
  BY <1>2, <1>3
<1> QED BY <1>5, <1>7

LEMMA CycleIs ==
  ASSUME auto \in AutoShape
  PROVE  /\ ResetCycle(auto) \in AutoShape
         /\ ResetCycle(auto).moving = auto.moving /\ ResetCycle(auto).count = auto.count
         /\ ResetCycle(auto).attempts = IF auto.moving THEN auto.attempts ELSE 0
<1>1. (~auto.moving) \in BOOLEAN /\ auto.moving \in BOOLEAN
  BY DEF AutoShape
<1> DEFINE r == ResetIf(auto, ~auto.moving)
<1>2. r \in AutoShape /\ r.moving = auto.moving /\ r.count = auto.count
      /\ r.attempts = IF ~auto.moving THEN 0 ELSE auto.attempts
  BY <1>1, ResetIs
<1>3. ResetCycle(auto) = [r EXCEPT !.warm = FALSE]
  BY DEF ResetCycle
<1> HIDE DEF r
<1>4. [r EXCEPT !.warm = FALSE] \in AutoShape /\ [r EXCEPT !.warm = FALSE].moving = r.moving
      /\ [r EXCEPT !.warm = FALSE].count = r.count /\ [r EXCEPT !.warm = FALSE].attempts = r.attempts
  BY <1>2 DEF AutoShape
<1> QED BY <1>1, <1>2, <1>3, <1>4

(* --- What each part of the invariant reads. ------------------------------- *)
LEMMA TypeFrom ==
  ASSUME line' \in LineShape, auto' \in AutoShape, smart' \in CheckRecord,
         flying' \in SUBSET Worker, inWork' \in BOOLEAN, on' \in BOOLEAN, clock' \in 0..MaxClock,
         smart'.phase = "idle" <=> smart'.worker = 0,
         smart'.phase # "idle" => line'.served # NoNode /\ smart'.of \in Node
  PROVE  SmartTypeOK'
BY DEF SmartTypeOK, LineShape, AutoShape, CheckRecord, Worker, Connected

LEMMA TypeGives ==
  ASSUME SmartInv
  PROVE  /\ line \in LineShape /\ auto \in AutoShape /\ smart \in CheckRecord /\ flying \subseteq Worker
         /\ inWork \in BOOLEAN /\ on \in BOOLEAN /\ clock \in 0..MaxClock /\ clock \in Nat
         /\ line.act \in Acts /\ line.served \in Servers /\ line.chosen \in Node
         /\ (smart.phase = "idle" <=> smart.worker = 0)
         /\ (smart.phase # "idle" => Connected /\ smart.of \in Node)
<1>1. clock \in 0..MaxClock /\ clock \in Nat
  BY ValuesAre DEF SmartInv, SmartTypeOK
<1>2. line \in LineShape /\ auto \in AutoShape
  BY DEF SmartInv, SmartTypeOK, LineShape, AutoShape
<1>3. inWork \in BOOLEAN /\ on \in BOOLEAN
  BY DEF SmartInv, SmartTypeOK
<1> QED BY <1>1, <1>2, <1>3 DEF SmartInv, SmartTypeOK, SmartShape, LineShape

(* A check that has ended, or that nothing has touched.                      *)
LEMMA CheckOver ==
  ASSUME SmartInv, smart' \in CheckRecord, smart'.phase = "idle", smart'.worker = 0,
         smart'.times = smart.times, flying' \subseteq flying
  PROVE  SmartShape' /\ Judged'
<1>1. flying' \subseteq Worker /\ IsFiniteSet(flying')
  BY FS_Subset DEF SmartInv, SmartShape
<1> QED BY <1>1 DEF SmartInv, SmartShape, Judged

LEMMA CheckKept ==
  ASSUME SmartInv, smart' \in CheckRecord, smart'.phase = smart.phase, smart'.worker = smart.worker,
         smart'.of = smart.of, smart'.bps = smart.bps, smart'.cand = smart.cand, smart'.hold = smart.hold,
         smart'.slow = smart.slow, smart'.times = smart.times, flying' \subseteq flying, clock' = clock
  PROVE  SmartShape' /\ Judged'
<1>1. flying' \subseteq Worker /\ IsFiniteSet(flying')
  BY FS_Subset DEF SmartInv, SmartShape
<1> QED BY <1>1 DEF SmartInv, SmartShape, Judged

LEMMA PastKept ==
  ASSUME SmartInv, moved' = moved, smart'.hold = smart.hold, smart'.slow = smart.slow,
             smart'.times = smart.times,
         clock' \in Nat, clock' >= clock
  PROVE  Past'
<1>1. clock \in Nat
  BY TypeGives
<1>2. WorthIt' /\ Unhurried'
  BY DEF SmartInv, Past, WorthIt, Unhurried
<1>3. ASSUME NEW i \in 1..Len(moved)
      PROVE  moved[i].at <= clock' /\ (clock' < moved[i].at + Hour => moved[i].at \in smart.times)
  <2>1. moved[i].at \in Nat
    <3>1. moved \in Seq(Change)
      BY DEF SmartInv, Past
    <3>2. moved[i] \in Change
      BY <3>1
    <3> QED BY <3>2 DEF Change
  <2>2. moved[i].at <= clock /\ (clock < moved[i].at + Hour => moved[i].at \in smart.times)
    BY DEF SmartInv, Past
  <2> QED BY <1>1, <2>1, <2>2, ValuesAre
<1> QED BY <1>2, <1>3 DEF SmartInv, Past

(* --- The steps. ----------------------------------------------------------- *)
LEMMA LowIs ==
  ASSUME smart \in CheckRecord, NEW b \in BOOLEAN, smart' = [smart EXCEPT !.low = b]
  PROVE  /\ smart' \in CheckRecord /\ smart'.phase = smart.phase /\ smart'.worker = smart.worker
         /\ smart'.of = smart.of /\ smart'.bps = smart.bps /\ smart'.cand = smart.cand
         /\ smart'.hold = smart.hold /\ smart'.slow = smart.slow /\ smart'.times = smart.times
BY DEF CheckRecord

LEMMA BegunCheck ==
  ASSUME SmartInv, smart.phase = "idle", Connected, clock >= smart.hold, BeginCheck, clock' = clock
  PROVE  /\ SmartShape' /\ Judged' /\ smart'.worker # 0 /\ smart'.of \in Node
         /\ smart'.hold = smart.hold /\ smart'.slow = smart.slow /\ smart'.times = smart.times
<1> DEFINE n == NewWorker
           w == [id |-> n, kind |-> "current", node |-> line.served]
<1>1. n \in Nat \ {0} /\ \A u \in flying : u.id # n
  BY WorkerIsNew DEF SmartInv
<1>2. line.served \in Node /\ line.served = line.chosen /\ smart \in CheckRecord /\ flying \subseteq Worker
      /\ IsFiniteSet(flying)
  BY TypeGives DEF SmartInv, SmartShape, Standing, Connected, Servers
<1>3. smart' = [smart EXCEPT !.low = FALSE, !.phase = "current", !.worker = n, !.of = line.chosen]
      /\ flying' = flying \cup {w}
  BY DEF BeginCheck
<1>4. w \in Worker /\ w.id = n /\ w.node = line.served
  BY <1>1, <1>2 DEF Worker
<1> HIDE DEF n, w
<1>5. /\ smart' \in CheckRecord /\ smart'.phase = "current" /\ smart'.worker = n /\ smart'.of = line.chosen
      /\ smart'.hold = smart.hold /\ smart'.slow = smart.slow /\ smart'.times = smart.times
  BY <1>1, <1>2, <1>3 DEF CheckRecord, Servers
<1>6. IsFiniteSet(flying') /\ flying' \subseteq Worker
  BY <1>2, <1>3, <1>4, FS_AddElement
<1>7. SmartShape'
  BY <1>5, <1>6 DEF SmartInv, SmartShape
<1>8. Judged'
  BY <1>1, <1>2, <1>3, <1>4, <1>5 DEF Judged
<1> QED BY <1>1, <1>2, <1>5, <1>7, <1>8

LEMMA SmartChecked ==
  ASSUME SmartInv, NEW o \in {"slow", "idle"}, NEW late \in BOOLEAN, CheckSmart(o, late),
         clock' = clock, moved' = moved
  PROVE  /\ smart' \in CheckRecord /\ flying' \in SUBSET Worker /\ SmartShape' /\ Judged' /\ Past'
         /\ smart'.phase = "idle" <=> smart'.worker = 0
         /\ smart'.phase # "idle" => Connected /\ smart'.of \in Node
         /\ smart'.phase # "idle" => smart.phase # "idle" \/ (~Gated /\ o # "idle")
<1>0. smart \in CheckRecord /\ clock \in Nat /\ clock >= clock /\ flying \subseteq Worker
      /\ (smart.phase = "idle" <=> smart.worker = 0) /\ (smart.phase # "idle" => Connected /\ smart.of \in Node)
  BY TypeGives
<1>1. CASE smart' = Overdue /\ flying' = flying
  <2>1. Forgotten(smart) \in CheckRecord /\ Forgotten(smart).phase = "idle" /\ Forgotten(smart).worker = 0
        /\ Forgotten(smart).hold = smart.hold /\ Forgotten(smart).slow = smart.slow
        /\ Forgotten(smart).times = smart.times
    BY <1>0, ForgottenIs
  <2>2. clock + Backoff[1] \in Nat
    BY <1>0, ValuesAre
  <2>3. smart' = [Forgotten(smart) EXCEPT !.cool = clock + Backoff[1]]
    BY <1>1 DEF Overdue, Cancelled
  <2>4. smart' \in CheckRecord /\ smart'.phase = "idle" /\ smart'.worker = 0 /\ smart'.hold = smart.hold
        /\ smart'.slow = smart.slow /\ smart'.times = smart.times
    BY <2>1, <2>2, <2>3 DEF CheckRecord
  <2> QED BY <1>0, <1>1, <2>4, CheckOver, PastKept
<1>2. ASSUME NEW b \in BOOLEAN, smart' = smart \/ smart' = [smart EXCEPT !.low = b], flying' = flying
      PROVE  /\ smart' \in CheckRecord /\ SmartShape' /\ Judged' /\ Past'
             /\ smart'.phase = smart.phase /\ smart'.worker = smart.worker /\ smart'.of = smart.of
  <2>1. /\ smart' \in CheckRecord /\ smart'.phase = smart.phase /\ smart'.worker = smart.worker
        /\ smart'.of = smart.of /\ smart'.bps = smart.bps /\ smart'.cand = smart.cand
        /\ smart'.hold = smart.hold /\ smart'.slow = smart.slow /\ smart'.times = smart.times
    BY <1>0, <1>2, LowIs
  <2> QED BY <1>0, <1>2, <2>1, CheckKept, PastKept
<1>3. CASE smart.phase = "idle" /\ BeginCheck /\ ~Gated /\ clock >= smart.hold /\ o # "idle"
  <2>1. Connected
    BY <1>3 DEF Gated
  <2>2. smart'.phase = "current"
    BY <1>0, <1>3 DEF BeginCheck, CheckRecord
  <2>3. /\ SmartShape' /\ Judged' /\ smart'.worker # 0 /\ smart'.of \in Node
        /\ smart'.hold = smart.hold /\ smart'.slow = smart.slow /\ smart'.times = smart.times
    BY <1>3, <2>1, BegunCheck
  <2> QED BY <1>0, <1>3, <2>1, <2>2, <2>3, PastKept DEF SmartShape
<1>4. CASE smart.phase # "idle"
  BY <1>0, <1>1, <1>2, <1>4 DEF CheckSmart
<1>5. CASE smart.phase = "idle"
  <2>1. clock < smart.hold \/ clock >= smart.hold
    BY <1>0 DEF CheckRecord
  <2> QED BY <1>0, <1>2, <1>3, <1>5, <2>1 DEF CheckSmart
<1> QED BY <1>4, <1>5

LEMMA DeadSwitched ==
  ASSUME SmartInv, WatchesLink, SwitchDead
  PROVE  /\ line' \in LineShape /\ line'.served = line.served /\ line'.chosen = line.chosen
         /\ line'.act \in {"none", "hot"} /\ auto' \in AutoShape /\ Paced'
<1>0. /\ line \in LineShape /\ auto \in AutoShape /\ Connected /\ ~auto.moving /\ line.act = "none"
             /\ ~line.queued
      /\ auto.attempts \in Nat /\ auto.count \in Nat /\ auto.count <= auto.attempts /\ line.chosen \in Node
      /\ auto.attempts <= Attempts /\ auto.count <= Attempts
  BY TypeGives DEF WatchesLink, Moving, SmartInv, Paced, AutoShape
<1>1. CASE auto.attempts >= Attempts
  <2>1. auto' = [auto EXCEPT !.down = FALSE, !.exhausted = TRUE] /\ line' = line
    BY <1>1 DEF SwitchDead
  <2>2. auto' \in AutoShape /\ auto'.attempts = auto.attempts /\ auto'.count = auto.count
            /\ auto'.moving = auto.moving
    BY <1>0, <2>1 DEF AutoShape
  <2> QED BY <1>0, <2>1, <2>2 DEF Paced, Connected
<1>2. CASE ~(auto.attempts >= Attempts)
  <2> DEFINE n == Best(Node \ {line.chosen})
  <2>1. n \in Node
    BY <1>0, OtherServer, BestIsThere
  <2>2. line' = Pick(n) /\ auto' = [auto EXCEPT !.down = FALSE, !.attempts = auto.attempts + 1, !.moving = TRUE,
                               !.tried = auto.tried \cup {line.chosen, n}, !.count = auto.count + 1]
    BY <1>2 DEF SwitchDead
  <2> HIDE DEF n
  <2>3. /\ line' \in LineShape /\ line'.served = line.served /\ line'.chosen = line.chosen
        /\ line'.act \in {"none", "hot"}
    BY <1>0, <2>1, <2>2, PickIs
  <2>4. auto.tried \cup {line.chosen, n} \in SUBSET Node
    BY <1>0, <2>1 DEF AutoShape
  <2>5. /\ auto' \in AutoShape /\ auto'.attempts = auto.attempts + 1 /\ auto'.count = auto.count + 1
               /\ auto'.moving
    <3>1. PICK T \in SUBSET Node : T = auto.tried \cup {line.chosen, n}
      BY <2>4
    <3>2. auto' = [auto EXCEPT !.down = FALSE, !.attempts = auto.attempts + 1, !.moving = TRUE,
                               !.tried = T, !.count = auto.count + 1]
      BY <2>2, <3>1
    <3>3. auto.attempts + 1 \in Nat /\ auto.count + 1 \in Nat
      BY <1>0
    <3> QED BY <1>0, <3>2, <3>3 DEF AutoShape
  <2>6. auto'.attempts <= Attempts /\ auto'.count <= auto'.attempts /\ auto'.count <= Attempts
    BY <1>0, <1>2, <2>5, AttemptsIs
  <2> QED BY <2>3, <2>5, <2>6 DEF Paced
<1> QED BY <1>1, <1>2

LEMMA MetricsKept ==
  ASSUME SmartInv, NEW dead \in BOOLEAN, NEW late \in BOOLEAN, NEW o \in {"slow", "idle"}, Metrics(dead, o,
             late)
  PROVE  SmartInv'
<1>0. /\ line \in LineShape /\ auto \in AutoShape /\ smart \in CheckRecord /\ Connected
      /\ UNCHANGED <<inWork, on, clock, asked, drops, moved>> /\ clock \in Nat /\ clock \in 0..MaxClock
      /\ inWork \in BOOLEAN /\ on \in BOOLEAN /\ flying \subseteq Worker
      /\ (smart.phase = "idle" <=> smart.worker = 0) /\ (smart.phase # "idle" => smart.of \in Node)
  BY TypeGives DEF Metrics
<1>1. CASE WatchesLink /\ dead /\ auto.down
  <2>1. /\ line' \in LineShape /\ line'.served = line.served /\ line'.chosen = line.chosen
        /\ line'.act \in {"none", "hot"} /\ auto' \in AutoShape /\ Paced'
    BY <1>1, DeadSwitched DEF Metrics
  <2>2. /\ smart' \in CheckRecord /\ flying' \in SUBSET Worker /\ SmartShape' /\ Judged' /\ Past'
        /\ smart'.phase = "idle" <=> smart'.worker = 0
        /\ smart'.phase # "idle" => smart'.of \in Node
    <3>1. CASE smart.phase = "idle" /\ auto'.moving
      <4>1. smart' = [smart EXCEPT !.low = FALSE] /\ flying' = flying
        BY <1>1, <3>1 DEF Metrics
      <4>2. /\ smart' \in CheckRecord /\ smart'.phase = smart.phase /\ smart'.worker = smart.worker
            /\ smart'.of = smart.of /\ smart'.bps = smart.bps /\ smart'.cand = smart.cand
            /\ smart'.hold = smart.hold /\ smart'.slow = smart.slow /\ smart'.times = smart.times
        BY <1>0, <4>1, LowIs
      <4> QED BY <1>0, <4>1, <4>2, CheckKept, PastKept
    <3>2. CASE ~(smart.phase = "idle" /\ auto'.moving)
      <4>1. CheckSmart("idle", late)
        BY <1>1, <3>2 DEF Metrics
      <4> QED BY <1>0, <4>1, SmartChecked
    <3> QED BY <3>1, <3>2
  <2>3. Standing'
    BY <1>0, <2>1 DEF SmartInv, Standing, Connected
  <2>4. SmartTypeOK'
    BY <1>0, <2>1, <2>2, TypeFrom DEF Connected
  <2> QED BY <2>1, <2>2, <2>3, <2>4 DEF SmartInv
<1>2. CASE ~(WatchesLink /\ dead /\ auto.down)
  <2>1. CheckSmart(o, late) /\ line' = line
            /\ auto' = (IF WatchesLink THEN [auto EXCEPT !.down = dead] ELSE auto)
    BY <1>2 DEF Metrics
  <2>2. /\ smart' \in CheckRecord /\ flying' \in SUBSET Worker /\ SmartShape' /\ Judged' /\ Past'
        /\ smart'.phase = "idle" <=> smart'.worker = 0
        /\ smart'.phase # "idle" => smart'.of \in Node
        /\ smart'.phase # "idle" => smart.phase # "idle" \/ ~Gated
    BY <1>0, <2>1, SmartChecked
  <2>3. auto' \in AutoShape /\ auto'.moving = auto.moving /\ auto'.count = auto.count
            /\ auto'.attempts = auto.attempts
    BY <1>0, <2>1 DEF AutoShape
  <2>4. Paced'
    BY <2>1, <2>3 DEF SmartInv, Paced, Connected
  <2>5. Standing'
    BY <2>1, <2>2 DEF SmartInv, Standing, Connected, Gated, Moving
  <2>6. SmartTypeOK'
    BY <1>0, <2>1, <2>2, <2>3, TypeFrom DEF Connected
  <2> QED BY <2>2, <2>4, <2>5, <2>6 DEF SmartInv
<1> QED BY <1>1, <1>2

(* A step that leaves the check and the switches made as they are.           *)
LEMMA CheckStands ==
  ASSUME SmartInv, smart' = smart, moved' = moved, clock' = clock, flying' = flying
  PROVE  /\ smart' \in CheckRecord /\ flying' \in SUBSET Worker /\ SmartShape' /\ Judged' /\ Past'
         /\ smart'.phase = "idle" <=> smart'.worker = 0
         /\ smart'.phase # "idle" => smart'.of \in Node
<1>1. smart \in CheckRecord /\ flying \subseteq Worker /\ clock \in Nat /\ clock >= clock
      /\ (smart.phase = "idle" <=> smart.worker = 0) /\ (smart.phase # "idle" => smart.of \in Node)
  BY TypeGives
<1> QED BY <1>1, CheckKept, PastKept

LEMMA CheckCancelled ==
  ASSUME SmartInv, smart' = Cancelled(smart), moved' = moved, clock' = clock, flying' \subseteq flying
  PROVE  /\ smart' \in CheckRecord /\ flying' \in SUBSET Worker /\ SmartShape' /\ Judged' /\ Past'
         /\ smart'.phase = "idle" /\ smart'.worker = 0
<1>1. smart \in CheckRecord /\ flying \subseteq Worker /\ clock \in Nat /\ clock >= clock
  BY TypeGives
<1>2. smart' \in CheckRecord /\ smart'.phase = "idle" /\ smart'.worker = 0 /\ smart'.hold = smart.hold
      /\ smart'.slow = smart.slow /\ smart'.times = smart.times
  BY <1>1, ForgottenIs DEF Cancelled
<1> QED BY <1>1, <1>2, CheckOver, PastKept

(* The worker that measures the current server answers.                      *)
LEMMA ProbeKept == ASSUME SmartInv, ProbeMeasured PROVE SmartInv'
<1>1. PICK w \in flying, ok \in BOOLEAN : \E bps \in {0, Speed[w.node][clock]} : Probed(w, bps, ok)
  BY DEF ProbeMeasured
<1>2. PICK bps \in {0, Speed[w.node][clock]} : Probed(w, bps, ok)
  BY <1>1
<1>0. /\ line \in LineShape /\ auto \in AutoShape /\ smart \in CheckRecord /\ flying \subseteq Worker
      /\ UNCHANGED <<line, auto, inWork, on, clock, asked, drops, moved>> /\ clock \in Nat
             /\ clock \in 0..MaxClock
      /\ inWork \in BOOLEAN /\ on \in BOOLEAN /\ clock >= clock
      /\ (smart.phase = "idle" <=> smart.worker = 0) /\ (smart.phase # "idle" => Connected /\ smart.of \in Node)
  BY TypeGives DEF ProbeMeasured
<1>3. Paced'
  BY <1>0 DEF SmartInv, Paced, Connected
<1>4. SUFFICES /\ smart' \in CheckRecord /\ flying' \in SUBSET Worker /\ SmartShape' /\ Judged' /\ Past'
               /\ (smart'.phase = "idle" <=> smart'.worker = 0)
               /\ (smart'.phase # "idle" => Connected /\ smart'.of \in Node)
               /\ (smart'.phase # "idle" => smart.phase # "idle")
  <2>1. Standing'
    BY <1>0, <1>4 DEF SmartInv, Standing, Connected
  <2>2. SmartTypeOK'
    BY <1>0, <1>4, TypeFrom DEF Connected
  <2> QED BY <1>3, <1>4, <2>1, <2>2 DEF SmartInv
<1>5. CASE ~Measured(w)
  <2>1. smart' = smart /\ flying' = flying \ {w}
    BY <1>2, <1>5 DEF Probed
  <2> QED BY <1>0, <2>1, CheckKept, PastKept
<1>6. ASSUME smart' \in CheckRecord, smart'.phase = "idle", smart'.worker = 0, smart'.hold = smart.hold,
             smart'.slow = smart.slow, smart'.times = smart.times, flying' = flying \ {w}
      PROVE  /\ smart' \in CheckRecord /\ flying' \in SUBSET Worker /\ SmartShape' /\ Judged' /\ Past'
             /\ (smart'.phase = "idle" <=> smart'.worker = 0)
  BY <1>0, <1>6, CheckOver, PastKept
<1>7. ASSUME NEW p \in Nat, smart' = MoveEnded(smart, p), flying' = flying \ {w}
      PROVE  /\ smart' \in CheckRecord /\ flying' \in SUBSET Worker /\ SmartShape' /\ Judged' /\ Past'
             /\ (smart'.phase = "idle" <=> smart'.worker = 0) /\ smart'.phase = "idle"
  BY <1>0, <1>6, <1>7, ForgottenIs
<1>8. ASSUME NEW p \in Nat, NEW k \in 0..Len(Backoff), smart' = [MoveEnded(smart,
          p) EXCEPT !.alarms[smart.of] = k],
             flying' = flying \ {w}
      PROVE  /\ smart' \in CheckRecord /\ flying' \in SUBSET Worker /\ SmartShape' /\ Judged' /\ Past'
             /\ (smart'.phase = "idle" <=> smart'.worker = 0) /\ smart'.phase = "idle"
  <2> DEFINE m == MoveEnded(smart, p)
  <2>1. /\ m \in CheckRecord /\ m.phase = "idle" /\ m.worker = 0 /\ m.hold = smart.hold /\ m.slow = smart.slow
        /\ m.times = smart.times
    BY <1>0, ForgottenIs
  <2>2. smart' = [m EXCEPT !.alarms[smart.of] = k]
    BY <1>8
  <2> HIDE DEF m
  <2>3. [m.alarms EXCEPT ![smart.of] = k] \in [Node -> 0..Len(Backoff)]
    BY <2>1 DEF CheckRecord
  <2>4. \A a \in [Node -> 0..Len(Backoff)] : LET s == [m EXCEPT !.alarms = a]
         IN /\ s \in CheckRecord /\ s.phase = m.phase /\ s.worker = m.worker /\ s.hold = m.hold
                   /\ s.slow = m.slow
            /\ s.times = m.times
    BY <2>1 DEF CheckRecord
  <2>5. smart' = [m EXCEPT !.alarms = [m.alarms EXCEPT ![smart.of] = k]]
    BY <2>1, <2>2 DEF CheckRecord
  <2>6. /\ smart' \in CheckRecord /\ smart'.phase = m.phase /\ smart'.worker = m.worker /\ smart'.hold = m.hold
        /\ smart'.slow = m.slow /\ smart'.times = m.times
    BY <2>3, <2>4, <2>5
  <2> QED BY <1>6, <1>8, <2>1, <2>6
<1>9. CASE Measured(w) /\ Aborted
  <2>1. smart' = MoveEnded(smart, 0) /\ flying' = flying \ {w}
    BY <1>2, <1>9 DEF Probed
  <2> QED BY <1>7, <2>1
<1>10. CASE Measured(w) /\ ~Aborted /\ bps = 0
  <2>1. smart' = MoveEnded(smart, Backoff[1]) /\ flying' = flying \ {w}
    BY <1>2, <1>10 DEF Probed
  <2>2. Backoff[1] \in Nat
    BY ValuesAre
  <2> QED BY <1>7, <2>1, <2>2
<1>11. ASSUME Measured(w), ~Aborted, bps # 0
       PROVE  smart.of \in Node /\ smart.phase = "current" /\ bps = Speed[smart.of][clock] /\ bps \in Nat
              /\ Connected /\ clock >= smart.hold /\ w.id = smart.worker
  <2>1. smart.phase = "current" /\ w.id = smart.worker /\ smart.of \in Node /\ Connected
    BY <1>0, <1>11 DEF Measured
  <2>2. w.node = smart.of /\ clock >= smart.hold
    BY <2>1 DEF SmartInv, Judged
  <2>3. bps = Speed[smart.of][clock]
    BY <1>2, <1>11, <2>2
  <2> QED BY <1>0, <2>1, <2>2, <2>3, ValuesAre
<1>12. CASE Measured(w) /\ ~Aborted /\ bps # 0 /\ bps >= Threshold
  <2> DEFINE k == Min({smart.alarms[smart.of] + 1, Len(Backoff)})
  <2>1. smart' = [MoveEnded(smart, Paused(smart.of)) EXCEPT !.alarms[smart.of] = Min({@ + 1, Len(Backoff)})]
        /\ flying' = flying \ {w}
    BY <1>2, <1>12 DEF Probed
  <2>2. Paused(smart.of) \in Nat /\ k \in 0..Len(Backoff)
    BY <1>11, <1>12, PausesAre DEF SmartInv
  <2>3. MoveEnded(smart, Paused(smart.of)).alarms = smart.alarms
        /\ MoveEnded(smart, Paused(smart.of)) \in CheckRecord
    BY <1>0, <2>2, ForgottenIs
  <2>4. smart' = [MoveEnded(smart, Paused(smart.of)) EXCEPT !.alarms[smart.of] = k]
    BY <2>1, <2>3
  <2> HIDE DEF k
  <2> QED BY <1>8, <2>1, <2>2, <2>4
<1>13. CASE Measured(w) /\ ~Aborted /\ bps # 0 /\ ~(bps >= Threshold) /\ (Candidates = {} \/ ~ok)
  <2>1. smart' = [MoveEnded(smart, Backoff[1]) EXCEPT !.alarms[smart.of] = 0] /\ flying' = flying \ {w}
    BY <1>2, <1>13 DEF Probed
  <2>2. Backoff[1] \in Nat /\ 0 \in 0..Len(Backoff)
    BY ValuesAre
  <2> QED BY <1>8, <2>1, <2>2
<1>14. CASE Measured(w) /\ ~Aborted /\ bps # 0 /\ ~(bps >= Threshold) /\ ~(Candidates = {} \/ ~ok)
  <2> DEFINE n == Best(Candidates)
             id == NewWorker
             u == [id |-> id, kind |-> "candidate", node |-> n]
  <2>1. n \in Candidates /\ n \in Node /\ clock >= smart.slow[n]
    <3>1. Candidates \in SUBSET Node
      BY DEF Candidates
    <3>2. n \in Candidates
      BY <1>14, <3>1, BestIsThere
    <3> QED BY <3>1, <3>2 DEF Candidates
  <2>2. id \in Nat \ {0} /\ \A v \in flying : v.id # id
    BY WorkerIsNew DEF SmartInv
  <2>3. smart' = [smart EXCEPT !.phase = "candidates", !.bps = bps, !.cand = n, !.worker = id,
            !.alarms[smart.of] = 0]
        /\ flying' = (flying \ {w}) \cup {u}
    BY <1>2, <1>14 DEF Probed
  <2>4. u \in Worker /\ u.id = id /\ u.node = n
    BY <2>1, <2>2 DEF Worker
  <2> HIDE DEF n, id, u
  <2>5. /\ smart.of \in Node /\ smart.phase = "current" /\ bps = Speed[smart.of][clock] /\ bps \in Nat
        /\ Connected /\ clock >= smart.hold /\ bps < Threshold
    BY <1>11, <1>14, ValuesAre
  <2>6. PICK a \in [Node -> 0..Len(Backoff)] : a = [smart.alarms EXCEPT ![smart.of] = 0]
    <3>1. smart.alarms \in [Node -> 0..Len(Backoff)] /\ 0 \in 0..Len(Backoff)
      BY <1>0, ValuesAre DEF CheckRecord
    <3> QED BY <3>1
  <2>7. smart' = [smart EXCEPT !.phase = "candidates", !.bps = bps, !.cand = n, !.worker = id, !.alarms = a]
    BY <1>0, <2>3, <2>6 DEF CheckRecord
  <2>8. /\ smart' \in CheckRecord /\ smart'.phase = "candidates" /\ smart'.bps = bps /\ smart'.cand = n
        /\ smart'.worker = id /\ smart'.of = smart.of
        /\ smart'.hold = smart.hold /\ smart'.slow = smart.slow /\ smart'.times = smart.times
    BY <1>0, <2>1, <2>2, <2>5, <2>7 DEF CheckRecord, Servers
  <2>9. flying' \subseteq Worker /\ IsFiniteSet(flying')
    <3>1. IsFiniteSet(flying \ {w})
      BY FS_Subset DEF SmartInv, SmartShape
    <3>2. IsFiniteSet((flying \ {w}) \cup {u})
      BY <3>1, FS_AddElement
    <3> QED BY <1>0, <2>3, <2>4, <3>2
  <2>10. SmartShape'
    BY <2>8, <2>9 DEF SmartInv, SmartShape
  <2>11. \A v \in flying' : v.id = smart'.worker => v = u
    BY <2>2, <2>3, <2>8
  <2>12. Judged'
    <3>1. \A v \in flying' : v.id = smart'.worker => v.node = smart'.cand
      BY <2>4, <2>8, <2>11
    <3>2. clock' >= smart'.hold /\ smart'.bps = Speed[smart'.of][clock'] /\ smart'.bps # 0
              /\ smart'.bps < Threshold
          /\ smart'.cand \in Node /\ clock' >= smart'.slow[smart'.cand] /\ smart'.phase = "candidates"
      BY <1>0, <1>14, <2>1, <2>5, <2>8
    <3> QED BY <3>1, <3>2 DEF Judged
  <2>13. Past'
    BY <1>0, <2>8, PastKept
  <2> QED BY <2>2, <2>5, <2>8, <2>9, <2>10, <2>12, <2>13
<1> QED BY <1>5, <1>9, <1>10, <1>12, <1>13, <1>14

(* The pass from a slow server: what it records.                             *)
LEMMA LeavePassIs ==
  ASSUME smart \in CheckRecord, IsFiniteSet(smart.times), smart.of \in Node, clock \in Nat
  PROVE  LET s == LeavePass(smart)
         IN /\ s \in CheckRecord /\ s.phase = "idle" /\ s.worker = 0 /\ s.hold = clock + Hold
            /\ s.slow = [smart.slow EXCEPT ![smart.of] = clock + SlowMark]
            /\ s.times = Within(smart.times) \cup {clock} /\ IsFiniteSet(s.times)
<1> DEFINE m == MoveEnded(smart, 0)
<1>1. m \in CheckRecord /\ m.phase = "idle" /\ m.worker = 0 /\ m.slow = smart.slow /\ m.times = smart.times
  BY ForgottenIs
<1>2. clock + Hold \in Nat /\ clock + SlowMark \in Nat /\ 0 \in 0..Len(Backoff)
  BY ValuesAre
<1>3. PICK f \in [Node -> Nat] : f = [smart.slow EXCEPT ![smart.of] = clock + SlowMark]
  <2>1. smart.slow \in [Node -> Nat]
    BY DEF CheckRecord
  <2> QED BY <1>2, <2>1
<1>4. PICK T \in SUBSET Nat : T = Within(smart.times) \cup {clock} /\ IsFiniteSet(T)
  <2>1. Within(smart.times) \subseteq smart.times /\ smart.times \subseteq Nat
    BY DEF CheckRecord, Within
  <2>2. IsFiniteSet(Within(smart.times))
    BY <2>1, FS_Subset
  <2>3. IsFiniteSet(Within(smart.times) \cup {clock})
    BY <2>2, FS_AddElement
  <2> QED BY <2>1, <2>3
<1>5. PICK a \in [Node -> 0..Len(Backoff)] : a = [n \in Node |-> 0]
  BY <1>2
<1>6. LeavePass(smart) = [m EXCEPT !.slow = f, !.hold = clock + Hold, !.times = T, !.alarms = a]
  BY <1>1, <1>3, <1>4, <1>5 DEF LeavePass, CheckRecord
<1> HIDE DEF m
<1>7. LET s == [m EXCEPT !.slow = f, !.hold = clock + Hold, !.times = T, !.alarms = a]
      IN /\ s \in CheckRecord /\ s.phase = "idle" /\ s.worker = 0 /\ s.hold = clock + Hold
         /\ s.slow = f /\ s.times = T
  BY <1>1, <1>2 DEF CheckRecord
<1> QED BY <1>3, <1>4, <1>6, <1>7

(* The switches of the last hour are among the times that are remembered.    *)
LEMMA RecentAreRemembered ==
  ASSUME SmartInv
  PROVE  /\ IsFiniteSet(Recent(clock))
         /\ Cardinality(Recent(clock)) \in Nat /\ Cardinality(Within(smart.times)) \in Nat
         /\ Cardinality(Recent(clock)) <= Cardinality(Within(smart.times))
<1>1. moved \in Seq(Change) /\ clock \in Nat /\ smart.times \subseteq Nat /\ IsFiniteSet(smart.times)
  BY TypeGives DEF SmartInv, Past, SmartShape, CheckRecord
<1>2. \A i \in 1..Len(moved) : moved[i].at \in Nat
          /\ (clock < moved[i].at + Hour => moved[i].at \in smart.times)
      /\ \A j \in 1..(i - 1) : moved[j].at < moved[i].at
  <2>1. \A i \in 1..Len(moved) : moved[i] \in Change
    BY <1>1
  <2> QED BY <2>1 DEF SmartInv, Past, Change
<1>3. IsFiniteSet(Within(smart.times))
  BY <1>1, FS_Subset DEF Within
<1> DEFINE f == [j \in Recent(clock) |-> moved[j].at]
<1>4. f \in [Recent(clock) -> Within(smart.times)]
  BY <1>1, <1>2 DEF Recent, Within
<1>5. \A i, j \in Recent(clock) : f[i] = f[j] => i = j
  <2> SUFFICES ASSUME NEW i \in Recent(clock), NEW j \in Recent(clock), i # j PROVE moved[i].at # moved[j].at
    OBVIOUS
  <2>1. i \in 1..Len(moved) /\ j \in 1..Len(moved) /\ Len(moved) \in Nat
    BY <1>1 DEF Recent
  <2>2. CASE i < j
    <3>1. i \in 1..(j - 1)
      BY <2>1, <2>2
    <3> QED BY <1>2, <2>1, <3>1
  <2>3. CASE j < i
    <3>1. j \in 1..(i - 1)
      BY <2>1, <2>3
    <3> QED BY <1>2, <2>1, <3>1
  <2> QED BY <2>1, <2>2, <2>3
<1>6. f \in Injection(Recent(clock), Within(smart.times))
  <2> HIDE DEF f
  <2> QED BY <1>4, <1>5 DEF Injection, IsInjective
<1>7. IsFiniteSet(Recent(clock)) /\ Cardinality(Recent(clock)) <= Cardinality(Within(smart.times))
  BY <1>3, <1>6, FS_Injection
<1> QED BY <1>3, <1>7, FS_CardinalityType

(* A server that gives nothing is never worth it while there is a threshold. *)
LEMMA NothingIsNotWorthIt ==
  ASSUME NEW old \in Nat, Threshold # 0 PROVE ~Worth(0, old)
BY ValuesAre DEF Worth

(* The switch away from a slow server: all that led to it holds now.         *)
LEMMA SlowSwitched ==
  ASSUME SmartInv, ~Aborted, smart.phase = "candidates", NEW w \in flying, w.id = smart.worker,
         NEW bps \in {0, Speed[w.node][clock]}, Worth(bps, smart.bps),
         Cardinality(Within(smart.times)) < MaxPerHour, SwitchSlow(bps),
         flying' = flying \ {w}, UNCHANGED <<inWork, on, clock, asked, drops>>
  PROVE  SmartInv'
<1> DEFINE c == [from |-> line.served, to |-> smart.cand, at |-> clock]
           L == Len(moved)
<1>0. /\ line \in LineShape /\ auto \in AutoShape /\ smart \in CheckRecord /\ flying \subseteq Worker
      /\ clock \in Nat /\ clock \in 0..MaxClock /\ inWork \in BOOLEAN /\ on \in BOOLEAN
      /\ smart.of \in Node /\ Connected /\ IsFiniteSet(smart.times) /\ moved \in Seq(Change)
  BY TypeGives DEF SmartInv, SmartShape, Past
<1>1. /\ line.served = smart.of /\ line.act = "none" /\ w.node = smart.cand /\ clock >= smart.hold
      /\ smart.bps = Speed[smart.of][clock] /\ smart.bps # 0 /\ smart.bps < Threshold
      /\ smart.cand \in Node /\ clock >= smart.slow[smart.cand]
  BY <1>0 DEF SmartInv, Standing, Judged, Aborted, Gated, Moving
<1>2. Worth(Speed[smart.cand][clock], Speed[smart.of][clock])
  <2>1. smart.bps \in Nat /\ Threshold # 0
    BY <1>0, <1>1, ValuesAre
  <2>2. bps # 0
    BY <2>1, NothingIsNotWorthIt
  <2> QED BY <1>1, <2>2
<1>3. /\ smart' = LeavePass(smart) /\ line' = Pick(smart.cand) /\ auto' = [auto EXCEPT !.count = 0]
      /\ moved' = Append(moved, c)
  BY DEF SwitchSlow
<1>4. /\ smart' \in CheckRecord /\ smart'.phase = "idle" /\ smart'.worker = 0 /\ smart'.hold = clock + Hold
      /\ smart'.slow = [smart.slow EXCEPT ![smart.of] = clock + SlowMark]
      /\ smart'.times = Within(smart.times) \cup {clock} /\ IsFiniteSet(smart'.times)
  BY <1>0, <1>3, LeavePassIs
<1>5. c \in Change /\ c.from = smart.of /\ c.to = smart.cand /\ c.at = clock
  BY <1>0, <1>1 DEF Change
<1> HIDE DEF c
<1>6. /\ moved' \in Seq(Change) /\ L \in Nat /\ Len(moved') = L + 1 /\ moved'[L + 1] = c
      /\ \A i \in 1..L : moved'[i] = moved[i]
  BY <1>0, <1>3, <1>5
<1> HIDE DEF L
<1>7. \A i \in 1..L : /\ moved[i] \in Change /\ moved[i].at \in Nat /\ moved[i].from \in Node
                      /\ moved[i].at <= clock /\ moved[i].at + Hold <= smart.hold
                      /\ smart.slow[moved[i].from] >= moved[i].at + SlowMark
                      /\ clock < moved[i].at + Hour => moved[i].at \in smart.times
                      /\ \A j \in 1..(i - 1) : moved[j].at < moved[i].at
  <2>1. \A i \in 1..L : moved[i] \in Change
    BY <1>0 DEF L
  <2> QED BY <2>1 DEF SmartInv, Past, L, Change
<1>8. WorthIt'
  <2> SUFFICES ASSUME NEW i \in 1..(L + 1)
               PROVE  Worth(Speed[moved'[i].to][moved'[i].at], Speed[moved'[i].from][moved'[i].at])
    BY <1>6 DEF WorthIt
  <2>1. CASE i = L + 1
    BY <1>2, <1>5, <1>6, <2>1
  <2>2. CASE i # L + 1
    <3>1. i \in 1..L
      BY <1>6, <2>2
    <3> QED BY <1>6, <3>1 DEF SmartInv, Past, WorthIt, L
  <2> QED BY <2>1, <2>2
<1>9. \A j \in 1..L : /\ clock >= moved[j].at + Hold /\ moved[j].at < clock
                      /\ (moved[j].from = smart.cand => clock >= moved[j].at + SlowMark)
  <2> TAKE j \in 1..L
  <2>1. moved[j].at + Hold <= smart.hold /\ smart.hold \in Nat /\ moved[j].at \in Nat
    BY <1>0, <1>7 DEF CheckRecord
  <2>2. clock >= moved[j].at + Hold /\ moved[j].at < clock
    BY <1>0, <1>1, <2>1, ValuesAre
  <2>3. ASSUME moved[j].from = smart.cand PROVE clock >= moved[j].at + SlowMark
    <3>1. smart.slow[smart.cand] >= moved[j].at + SlowMark /\ smart.slow[smart.cand] \in Nat
      BY <1>0, <1>1, <1>7, <2>3 DEF CheckRecord
    <3>2. clock >= smart.slow[smart.cand] /\ clock \in Nat
      BY <1>0, <1>1
    <3>3. moved[j].at + SlowMark \in Nat
      BY <2>1, ValuesAre
    <3> QED BY <3>1, <3>2, <3>3
  <2> QED BY <2>2, <2>3
<1>10. Cardinality({j \in 1..(L + 1) : clock < moved'[j].at + Hour}) <= MaxPerHour
  <2> DEFINE R == {j \in 1..(L + 1) : clock < moved'[j].at + Hour}
  <2>1. R \subseteq Recent(clock) \cup {L + 1}
    <3> SUFFICES ASSUME NEW j \in R, j # L + 1 PROVE j \in Recent(clock)
      OBVIOUS
    <3>1. j \in 1..L
      BY <1>6
    <3> QED BY <1>6, <3>1 DEF Recent, L
  <2>2. /\ IsFiniteSet(Recent(clock)) /\ Cardinality(Recent(clock)) \in Nat
        /\ Cardinality(Within(smart.times)) \in Nat
        /\ Cardinality(Recent(clock)) <= Cardinality(Within(smart.times))
    BY RecentAreRemembered
  <2>3. L + 1 \notin Recent(clock)
    BY <1>6 DEF Recent, L
  <2>4. /\ IsFiniteSet(Recent(clock) \cup {L + 1})
        /\ Cardinality(Recent(clock) \cup {L + 1}) = Cardinality(Recent(clock)) + 1
    BY <2>2, <2>3, FS_AddElement
  <2> HIDE DEF R
  <2>5. Cardinality(R) \in Nat /\ Cardinality(R) <= Cardinality(Recent(clock) \cup {L + 1})
    BY <2>1, <2>4, FS_Subset, FS_CardinalityType
  <2>6. Cardinality(R) <= MaxPerHour
    BY <2>2, <2>4, <2>5, ValuesAre
  <2> QED BY <2>6 DEF R
<1>11. Unhurried'
  <2> SUFFICES ASSUME NEW i \in 1..(L + 1)
        PROVE /\ \A j \in 1..(i - 1) : moved'[i].at >= moved'[j].at + Hold
              /\ Cardinality({j \in 1..i : moved'[i].at < moved'[j].at + Hour}) <= MaxPerHour
              /\ \A j \in 1..(i - 1) : moved'[j].from = moved'[i].to => moved'[i].at >= moved'[j].at + SlowMark
    BY <1>6 DEF Unhurried
  <2>1. CASE i = L + 1
    <3>1. \A j \in 1..(i - 1) : j \in 1..L
      BY <1>6, <2>1
    <3>2. moved'[i].at = clock /\ moved'[i].to = smart.cand
      BY <1>5, <1>6, <2>1
    <3>3. \A j \in 1..(i - 1) : moved'[j] = moved[j]
      BY <1>6, <3>1
    <3>4. {j \in 1..i : moved'[i].at < moved'[j].at + Hour} = {j \in 1..(L + 1) : clock < moved'[j].at + Hour}
      BY <2>1, <3>2
    <3> QED BY <1>9, <1>10, <3>1, <3>2, <3>3, <3>4
  <2>2. CASE i # L + 1
    <3>1. i \in 1..L /\ \A j \in 1..i : j \in 1..L
      BY <1>6, <2>2
    <3>2. \A j \in 1..i : moved'[j] = moved[j]
      BY <1>6, <3>1
    <3>3. moved'[i] = moved[i] /\ \A j \in 1..(i - 1) : moved'[j] = moved[j]
      BY <1>6, <3>1
    <3>4. {j \in 1..i : moved'[i].at < moved'[j].at + Hour} = {j \in 1..i : moved[i].at < moved[j].at + Hour}
      BY <3>2, <3>3
    <3>5. /\ \A j \in 1..(i - 1) : moved[i].at >= moved[j].at + Hold
          /\ Cardinality({j \in 1..i : moved[i].at < moved[j].at + Hour}) <= MaxPerHour
          /\ \A j \in 1..(i - 1) : moved[j].from = moved[i].to => moved[i].at >= moved[j].at + SlowMark
      BY <3>1 DEF SmartInv, Past, Unhurried, L
    <3> QED BY <3>3, <3>4, <3>5
  <2> QED BY <2>1, <2>2
<1>12. Past'
  <2> SUFFICES ASSUME NEW i \in 1..(L + 1)
        PROVE /\ moved'[i].at <= clock' /\ moved'[i].at + Hold <= smart'.hold
              /\ smart'.slow[moved'[i].from] >= moved'[i].at + SlowMark
              /\ clock' < moved'[i].at + Hour => moved'[i].at \in smart'.times
              /\ \A j \in 1..(i - 1) : moved'[j].at < moved'[i].at
    BY <1>6, <1>8, <1>11 DEF Past
  <2>1. CASE i = L + 1
    <3>1. \A j \in 1..(i - 1) : j \in 1..L
      BY <1>6, <2>1
    <3>2. moved'[i].at = clock /\ moved'[i].from = smart.of /\ \A j \in 1..(i - 1) : moved'[j] = moved[j]
      BY <1>5, <1>6, <2>1, <3>1
    <3>3. smart'.slow[smart.of] = clock + SlowMark
      BY <1>0, <1>4 DEF CheckRecord
    <3> QED BY <1>0, <1>4, <1>9, <3>1, <3>2, <3>3, ValuesAre
  <2>2. CASE i # L + 1
    <3>1. i \in 1..L /\ \A j \in 1..(i - 1) : j \in 1..L
      BY <1>6, <2>2
    <3>2. moved'[i] = moved[i] /\ \A j \in 1..(i - 1) : moved'[j] = moved[j]
      BY <1>6, <3>1
    <3>3. moved[i].at \in Nat /\ moved[i].from \in Node /\ moved[i].at <= clock
      BY <1>7, <3>1
    <3>4. moved[i].at + Hold <= clock + Hold
      BY <1>0, <3>3, ValuesAre
    <3>5. smart'.slow[moved[i].from] >= moved[i].at + SlowMark
      <4>1. CASE moved[i].from = smart.of
        <5>1. smart'.slow[moved[i].from] = clock + SlowMark
          BY <1>0, <1>4, <4>1 DEF CheckRecord
        <5> QED BY <1>0, <3>3, <5>1, ValuesAre
      <4>2. CASE moved[i].from # smart.of
        <5>1. smart'.slow[moved[i].from] = smart.slow[moved[i].from]
          BY <1>0, <1>4, <3>3, <4>2 DEF CheckRecord
        <5> QED BY <1>7, <3>1, <5>1
      <4> QED BY <4>1, <4>2
    <3>6. clock < moved[i].at + Hour => moved[i].at \in smart'.times
      BY <1>4, <1>7, <3>1 DEF Within
    <3> QED BY <1>0, <1>4, <1>7, <3>1, <3>2, <3>3, <3>4, <3>5, <3>6
  <2> QED BY <2>1, <2>2
<1>13. /\ line' \in LineShape /\ line'.served = line.served /\ line'.chosen = line.chosen
       /\ line'.act \in {"none", "hot"}
  BY <1>0, <1>1, <1>3, PickIs
<1>14. auto' \in AutoShape /\ auto'.count = 0 /\ auto'.attempts = auto.attempts /\ auto'.attempts \in Nat
  BY <1>0, <1>3 DEF AutoShape
<1>15. Paced'
  BY <1>14, AttemptsIs DEF SmartInv, Paced
<1>16. Standing'
  BY <1>0, <1>4, <1>13 DEF SmartInv, Standing, Connected
<1>17. SmartShape' /\ Judged'
  <2>1. flying' \subseteq Worker /\ IsFiniteSet(flying')
    BY <1>0, FS_Subset DEF SmartInv, SmartShape
  <2> QED BY <1>4, <2>1 DEF SmartShape, Judged
<1>18. SmartTypeOK'
  BY <1>0, <1>4, <1>13, <1>14, <1>17, TypeFrom DEF Connected, SmartShape
<1> QED BY <1>12, <1>15, <1>16, <1>17, <1>18 DEF SmartInv

LEMMA CandidateKept == ASSUME SmartInv, CandidateMeasured PROVE SmartInv'
<1>1. PICK w \in flying : \E bps \in {0, Speed[w.node][clock]} :
    /\ w.kind = "candidate"
    /\ flying' = flying \ {w}
    /\ UNCHANGED <<inWork, on, clock, asked, drops>>
    /\ \/ /\ ~(smart.phase = "candidates" /\ w.id = smart.worker)
          /\ UNCHANGED <<line, auto, smart, moved>>
       \/ /\ smart.phase = "candidates" /\ w.id = smart.worker
          /\ \/ /\ Aborted
                /\ smart' = MoveEnded(smart, 0) /\ UNCHANGED <<line, auto, moved>>
             \/ /\ ~Aborted
                /\ \/ ~Worth(bps, smart.bps)
                   \/ Cardinality(Within(smart.times)) >= MaxPerHour
                /\ smart' = MoveEnded(smart, Backoff[1]) /\ UNCHANGED <<line, auto, moved>>
             \/ /\ ~Aborted /\ Worth(bps, smart.bps)
                /\ Cardinality(Within(smart.times)) < MaxPerHour
                /\ SwitchSlow(bps)
  BY DEF CandidateMeasured
<1>0. /\ line \in LineShape /\ auto \in AutoShape /\ smart \in CheckRecord /\ flying \subseteq Worker
      /\ UNCHANGED <<inWork, on, clock, asked, drops>> /\ flying' = flying \ {w}
      /\ clock \in Nat /\ clock \in 0..MaxClock /\ inWork \in BOOLEAN /\ on \in BOOLEAN /\ clock >= clock
      /\ (smart.phase = "idle" <=> smart.worker = 0) /\ (smart.phase # "idle" => Connected /\ smart.of \in Node)
  BY <1>1, TypeGives
<1>2. ASSUME UNCHANGED <<line, auto, moved>>, smart' = smart \/ \E p \in Nat : smart' = MoveEnded(smart, p)
      PROVE  SmartInv'
  <2>1. /\ smart' \in CheckRecord /\ flying' \in SUBSET Worker /\ SmartShape' /\ Judged' /\ Past'
        /\ (smart'.phase = "idle" <=> smart'.worker = 0)
        /\ (smart'.phase # "idle" => Connected /\ smart'.of \in Node /\ smart.phase # "idle")
    <3>1. CASE smart' = smart
      BY <1>0, <1>2, <3>1, CheckKept, PastKept
    <3>2. CASE \E p \in Nat : smart' = MoveEnded(smart, p)
      <4>1. PICK p \in Nat : smart' = MoveEnded(smart, p)
        BY <3>2
      <4>2. /\ smart' \in CheckRecord /\ smart'.phase = "idle" /\ smart'.worker = 0 /\ smart'.hold = smart.hold
            /\ smart'.slow = smart.slow /\ smart'.times = smart.times
        BY <1>0, <4>1, ForgottenIs
      <4> QED BY <1>0, <1>2, <4>2, CheckOver, PastKept
    <3> QED BY <1>2, <3>1, <3>2
  <2>2. Standing'
    BY <1>0, <1>2, <2>1 DEF SmartInv, Standing, Connected
  <2>3. Paced'
    BY <1>0, <1>2 DEF SmartInv, Paced, Connected
  <2>4. SmartTypeOK'
    BY <1>0, <1>2, <2>1, TypeFrom DEF Connected
  <2> QED BY <2>1, <2>2, <2>3, <2>4 DEF SmartInv
<1>3. 0 \in Nat /\ Backoff[1] \in Nat
  BY ValuesAre
<1>4. CASE UNCHANGED <<line, auto, moved>> /\ (smart' = smart \/ \E p \in Nat : smart' = MoveEnded(smart, p))
  BY <1>2, <1>4
<1>5. ASSUME NEW bps \in {0, Speed[w.node][clock]}, smart.phase = "candidates" /\ w.id = smart.worker, ~Aborted,
             Worth(bps, smart.bps), Cardinality(Within(smart.times)) < MaxPerHour, SwitchSlow(bps)
      PROVE  SmartInv'
  BY <1>0, <1>5, SlowSwitched
<1> QED BY <1>1, <1>3, <1>4, <1>5

(* The transition: it begins and ends without touching what was measured.    *)
CheckFine ==
  /\ smart' \in CheckRecord /\ flying' \in SUBSET Worker /\ SmartShape' /\ Judged' /\ Past'
  /\ (smart'.phase = "idle" <=> smart'.worker = 0)
  /\ (smart'.phase # "idle" => smart'.of \in Node)

LEMMA Together ==
  ASSUME SmartInv, CheckFine, line' \in LineShape, auto' \in AutoShape, inWork' \in BOOLEAN, on' \in BOOLEAN,
         clock' \in 0..MaxClock, Standing', Paced', smart'.phase # "idle" => line'.served # NoNode
  PROVE  SmartInv'
<1>1. SmartTypeOK'
  BY TypeFrom DEF CheckFine, Connected
<1> QED BY <1>1 DEF SmartInv, CheckFine

LEMMA StandsFine == ASSUME SmartInv, smart' = smart, moved' = moved, clock' = clock,
          flying' = flying PROVE CheckFine
BY CheckStands DEF CheckFine

LEMMA CancelledFine ==
  ASSUME SmartInv, smart' = Cancelled(smart), moved' = moved, clock' = clock, flying' = flying
  PROVE  CheckFine /\ smart'.phase = "idle"
BY CheckCancelled DEF CheckFine

LEMMA MarkedFine ==
  ASSUME SmartInv, NEW k \in Nat, smart' = [smart EXCEPT !.manual = k], moved' = moved, clock' = clock,
             flying' = flying
  PROVE  CheckFine /\ smart'.phase = smart.phase
<1>1. smart \in CheckRecord /\ clock \in Nat /\ flying \subseteq Worker /\ clock >= clock
      /\ (smart.phase = "idle" <=> smart.worker = 0) /\ (smart.phase # "idle" => smart.of \in Node)
  BY TypeGives
<1>2. /\ smart' \in CheckRecord /\ smart'.phase = smart.phase /\ smart'.worker = smart.worker
      /\ smart'.of = smart.of /\ smart'.bps = smart.bps /\ smart'.cand = smart.cand
      /\ smart'.hold = smart.hold /\ smart'.slow = smart.slow /\ smart'.times = smart.times
  BY <1>1 DEF CheckRecord
<1> QED BY <1>1, <1>2, CheckKept, PastKept DEF CheckFine

(* With no switch to count, one pass is one pass.                            *)
LEMMA NothingCounted ==
  ASSUME auto' \in AutoShape, auto'.count = 0, auto'.attempts <= Attempts
  PROVE  Paced'
<1>1. auto'.attempts \in Nat
  BY DEF AutoShape
<1> QED BY <1>1, AttemptsIs DEF Paced

LEMMA PacedIs ==
  ASSUME SmartInv
  PROVE  /\ auto.attempts \in Nat /\ auto.count \in Nat /\ auto.moving \in BOOLEAN /\ line.queued \in BOOLEAN
         /\ auto.attempts <= Attempts /\ auto.count <= Attempts /\ 0 <= Attempts
         /\ (line.act # "none" \/ line.queued => auto.count <= auto.attempts /\ (auto.moving \/ auto.count = 0))
         /\ (line.act \notin {"none", "hot"} /\ line.queued => auto.count = 0)
<1>1. /\ auto.attempts \in Nat /\ auto.count \in Nat /\ auto.moving \in BOOLEAN /\ line.queued \in BOOLEAN
  BY TypeGives DEF AutoShape, LineShape
<1>2. 0 <= Attempts
  BY AttemptsIs
<1> QED BY <1>1, <1>2 DEF SmartInv, Paced

LEMMA BeginMoveKept == ASSUME SmartInv, BeginMove PROVE SmartInv'
<1>0. /\ line \in LineShape /\ auto \in AutoShape /\ inWork \in BOOLEAN /\ on \in BOOLEAN
             /\ clock \in 0..MaxClock
      /\ UNCHANGED <<flying, inWork, on, clock, asked, drops, moved>> /\ line.queued
      /\ (smart.phase # "idle" => Connected)
  BY TypeGives DEF BeginMove
<1>1. /\ auto.attempts \in Nat /\ auto.count \in Nat /\ auto.moving \in BOOLEAN /\ 0 <= Attempts
      /\ auto.attempts <= Attempts /\ auto.count <= Attempts
      /\ auto.count <= auto.attempts /\ (auto.moving \/ auto.count = 0)
  BY <1>0, PacedIs
<1>2. /\ ResetCycle(auto) \in AutoShape
      /\ ResetCycle(auto).moving = auto.moving /\ ResetCycle(auto).count = auto.count
      /\ ResetCycle(auto).attempts = IF auto.moving THEN auto.attempts ELSE 0
  BY <1>0, CycleIs
<1>3. ASSUME NEW a \in Acts, line' = [Drained EXCEPT !.act = a]
      PROVE  line' \in LineShape /\ line'.act = a /\ ~line'.queued /\ line'.served = line.served
             /\ line'.chosen = line.chosen
  BY <1>0, <1>3 DEF Drained, LineShape
<1>4. CASE line' = [Drained EXCEPT !.act = "none"] /\ UNCHANGED <<auto, smart>>
  <2>1. line' \in LineShape /\ line'.act = "none" /\ ~line'.queued /\ line'.served = line.served
        /\ line'.chosen = line.chosen
    BY <1>3, <1>4 DEF Acts
  <2>2. CheckFine
    BY <1>0, <1>4, StandsFine
  <2>3. Paced'
    BY <1>1, <1>4, <2>1 DEF Paced
  <2>4. Standing'
    BY <2>1 DEF SmartInv, Standing, Connected
  <2> QED BY <1>0, <1>4, <2>1, <2>2, <2>3, <2>4, Together DEF Connected
<1>5. ASSUME auto' = ResetCycle(auto), ~line'.queued, line'.act # "none"
      PROVE  Paced'
  <2>1. CASE auto.moving
    BY <1>1, <1>2, <1>5, <2>1 DEF Paced
  <2>2. CASE ~auto.moving
    BY <1>1, <1>2, <1>5, <2>2 DEF Paced
  <2> QED BY <2>1, <2>2
<1>6. CASE ~Connected /\ line' = [Drained EXCEPT !.act = "connect"] /\ auto' = ResetCycle(auto)
          /\ UNCHANGED smart
  <2>1. line' \in LineShape /\ line'.act = "connect" /\ ~line'.queued /\ line'.served = line.served
        /\ line'.chosen = line.chosen
    BY <1>3, <1>6 DEF Acts
  <2>2. CheckFine /\ smart'.phase = "idle"
    BY <1>0, <1>6, StandsFine
  <2>3. Standing'
    BY <1>6, <2>1, <2>2 DEF Standing, Connected
  <2> QED BY <1>0, <1>2, <1>5, <1>6, <2>1, <2>2, <2>3, Together
<1>7. CASE /\ Connected /\ auto' = ResetCycle(auto) /\ smart' = Cancelled(smart)
           /\ line' = [Drained EXCEPT !.act = IF line.wanted THEN "reconnect" ELSE "disconnect"]
  <2>1. PICK a \in {"reconnect", "disconnect"} : a = IF line.wanted THEN "reconnect" ELSE "disconnect"
    OBVIOUS
  <2>2. line' \in LineShape /\ line'.act = a /\ ~line'.queued /\ line'.served = line.served
        /\ line'.chosen = line.chosen
    BY <1>3, <1>7, <2>1 DEF Acts
  <2>3. CheckFine /\ smart'.phase = "idle"
    BY <1>0, <1>7, CancelledFine
  <2>4. Standing'
    BY <2>2, <2>3 DEF SmartInv, Standing, Connected
  <2> QED BY <1>0, <1>2, <1>5, <1>7, <2>1, <2>2, <2>3, <2>4, Together
<1> QED BY <1>4, <1>6, <1>7 DEF BeginMove

LEMMA ServesIs ==
  ASSUME line \in LineShape
  PROVE  /\ Serves \in LineShape /\ Serves.act = "none" /\ Serves.queued = line.queued
         /\ Serves.served = Serves.chosen /\ Serves.served # NoNode
         /\ Lost \in LineShape /\ Lost.act = "none" /\ Lost.queued = line.queued /\ Lost.served = NoNode
<1>1. Aim(line) \in Node /\ Aim(line) # NoNode
  BY AimIs, ValuesAre
<1> QED BY <1>1 DEF Serves, Lost, LineShape, Servers, Acts

LEMMA ClearedIs ==
  ASSUME NEW a \in AutoShape
  PROVE  /\ Cleared(a) \in AutoShape /\ Cleared(a).count = a.count /\ Cleared(a).attempts = a.attempts
         /\ \A w, d \in BOOLEAN : LET b == [a EXCEPT !.down = d, !.warm = w]
              IN b \in AutoShape /\ b.count = a.count /\ b.attempts = a.attempts
BY DEF Cleared, AutoShape

LEMMA ConnectEndsKept == ASSUME SmartInv, ConnectEnds PROVE SmartInv'
<1> DEFINE a == IF line.act = "reconnect" THEN Cleared(auto) ELSE auto
<1>0. /\ line \in LineShape /\ auto \in AutoShape /\ inWork \in BOOLEAN /\ on \in BOOLEAN
             /\ clock \in 0..MaxClock
      /\ UNCHANGED <<smart, flying, inWork, on, clock, asked, moved>> /\ line.act \in {"connect", "reconnect"}
      /\ smart.phase = "idle"
  BY TypeGives DEF ConnectEnds, SmartInv, Standing
<1>1. /\ auto.attempts \in Nat /\ auto.count \in Nat /\ 0 <= Attempts
      /\ auto.attempts <= Attempts /\ auto.count <= Attempts /\ auto.count <= auto.attempts
      /\ (line.queued => auto.count = 0)
  BY <1>0, PacedIs
<1>2. a \in AutoShape /\ a.count = auto.count /\ a.attempts = auto.attempts
  BY <1>0, ClearedIs
<1>3. CheckFine /\ smart'.phase = "idle"
  BY <1>0, StandsFine
<1> HIDE DEF a
<1>4. CASE ~line.queued /\ line' = Serves /\ auto' = [a EXCEPT !.warm = TRUE]
  <2>1. auto' \in AutoShape /\ auto'.count = auto.count /\ auto'.attempts = auto.attempts
    BY <1>2, <1>4 DEF AutoShape
  <2>2. Paced'
    BY <1>0, <1>1, <1>4, <2>1, ServesIs DEF Paced
  <2>3. Standing'
    BY <1>0, <1>4, ServesIs DEF Standing
  <2> QED BY <1>0, <1>3, <1>4, <2>1, <2>2, <2>3, ServesIs, Together
<1>5. CASE ~line.queued /\ line' = Lost /\ auto' = a
  <2>1. Paced'
    BY <1>0, <1>1, <1>2, <1>5, ServesIs DEF Paced
  <2>2. Standing'
    BY <1>0, <1>5, ServesIs DEF Standing, Connected
  <2> QED BY <1>0, <1>2, <1>3, <1>5, <2>1, <2>2, ServesIs, Together
<1>6. CASE line.queued /\ line' = [line EXCEPT !.served = NoNode, !.act = "none"] /\ auto' = a
  <2>1. line' \in LineShape /\ line'.act = "none" /\ line'.served = NoNode
    BY <1>0, <1>6 DEF LineShape, Servers, Acts
  <2>2. Paced'
    BY <1>1, <1>2, <1>6, NothingCounted
  <2>3. Standing'
    BY <2>1 DEF Standing, Connected
  <2> QED BY <1>0, <1>2, <1>3, <1>6, <2>1, <2>2, <2>3, Together
<1> QED BY <1>4, <1>5, <1>6 DEF ConnectEnds, a

LEMMA DisconnectedKept == ASSUME SmartInv, Disconnected PROVE SmartInv'
<1>0. /\ line \in LineShape /\ auto \in AutoShape /\ inWork \in BOOLEAN /\ on \in BOOLEAN
             /\ clock \in 0..MaxClock
      /\ UNCHANGED <<auto, smart, flying, inWork, on, clock, asked, drops, moved>> /\ line.act = "disconnect"
      /\ smart.phase = "idle" /\ line' = [line EXCEPT !.served = NoNode, !.act = "none"]
  BY TypeGives DEF Disconnected, SmartInv, Standing
<1>1. /\ auto.attempts \in Nat /\ auto.count \in Nat /\ 0 <= Attempts
      /\ auto.attempts <= Attempts /\ auto.count <= Attempts /\ auto.count <= auto.attempts
      /\ (line.queued => auto.count = 0)
  BY <1>0, PacedIs
<1>2. line' \in LineShape /\ line'.act = "none" /\ line'.served = NoNode /\ line'.queued = line.queued
  BY <1>0 DEF LineShape, Servers, Acts
<1>3. Paced'
  BY <1>0, <1>1, <1>2 DEF Paced
<1>4. Standing'
  BY <1>2 DEF Standing, Connected
<1>5. CheckFine /\ smart'.phase = "idle"
  BY <1>0, StandsFine
<1> QED BY <1>0, <1>2, <1>3, <1>4, <1>5, Together

LEMMA HotEndsKept == ASSUME SmartInv, HotEnds PROVE SmartInv'
<1>0. /\ line \in LineShape /\ auto \in AutoShape /\ inWork \in BOOLEAN /\ on \in BOOLEAN
             /\ clock \in 0..MaxClock
      /\ UNCHANGED <<smart, flying, inWork, on, clock, asked, moved>> /\ line.act = "hot" /\ ~line.queued
      /\ (smart.phase # "idle" => line.served # NoNode)
  BY TypeGives DEF HotEnds, Connected
<1>1. /\ auto.attempts \in Nat /\ auto.count \in Nat /\ 0 <= Attempts
      /\ auto.attempts <= Attempts /\ auto.count <= Attempts /\ auto.count <= auto.attempts
      /\ (auto.moving \/ auto.count = 0)
  BY <1>0, PacedIs
<1>2. CheckFine /\ smart'.phase = smart.phase
  BY <1>0, StandsFine
<1>3. CASE line' = Serves /\ auto' = [Cleared(auto) EXCEPT !.down = FALSE, !.warm = TRUE]
  <2>1. auto' \in AutoShape /\ auto'.count = auto.count /\ auto'.attempts = auto.attempts
    BY <1>0, <1>3, ClearedIs
  <2>2. Paced'
    BY <1>0, <1>1, <1>3, <2>1, ServesIs DEF Paced
  <2>3. Standing'
    BY <1>0, <1>3, ServesIs DEF Standing
  <2> QED BY <1>0, <1>2, <1>3, <2>1, <2>2, <2>3, ServesIs, Together
<1>4. CASE line' = [line EXCEPT !.act = "none", !.queued = TRUE] /\ UNCHANGED auto
  <2>1. line' \in LineShape /\ line'.act = "none" /\ line'.served = line.served /\ line'.chosen = line.chosen
    BY <1>0, <1>4 DEF LineShape, Acts
  <2>2. Paced'
    BY <1>1, <1>4, <2>1 DEF Paced
  <2>3. Standing'
    BY <2>1 DEF SmartInv, Standing, Connected
  <2> QED BY <1>0, <1>2, <1>4, <2>1, <2>2, <2>3, Together
<1> QED BY <1>3, <1>4 DEF HotEnds

LEMMA CoreEndsKept == ASSUME SmartInv, CoreEnds PROVE SmartInv'
<1>0. /\ line \in LineShape /\ auto \in AutoShape /\ inWork \in BOOLEAN /\ on \in BOOLEAN
             /\ clock \in 0..MaxClock
      /\ UNCHANGED <<flying, inWork, on, clock, asked, moved>> /\ ~line.queued
      /\ line' = Lost /\ auto' = Cleared(ResetCycle(auto)) /\ smart' = Cancelled(smart)
  BY TypeGives DEF CoreEnds
<1>1. auto.count <= Attempts /\ auto.attempts <= Attempts /\ 0 <= Attempts
  BY PacedIs
<1>2. auto' \in AutoShape /\ auto'.count = auto.count
          /\ auto'.attempts = IF auto.moving THEN auto.attempts ELSE 0
  BY <1>0, CycleIs, ClearedIs
<1>3. Paced'
  <2>1. auto'.attempts <= Attempts
    BY <1>1, <1>2
  <2> QED BY <1>0, <1>1, <1>2, <2>1, ServesIs DEF Paced, Connected
<1>4. Standing'
  BY <1>0, ServesIs DEF Standing, Connected
<1>5. CheckFine /\ smart'.phase = "idle"
  BY <1>0, CancelledFine
<1> QED BY <1>0, <1>2, <1>3, <1>4, <1>5, ServesIs, Together

(* The user: what he does begins the count anew.                             *)
LEMMA AutoAnew ==
  ASSUME NEW a \in AutoShape, NEW h \in BOOLEAN, NEW w \in BOOLEAN
  PROVE  LET b == [a EXCEPT !.count = 0]
             c == [a EXCEPT !.held = h, !.count = 0]
             d == [a EXCEPT !.held = h, !.count = 0, !.warm = w]
         IN /\ b \in AutoShape /\ b.count = 0 /\ b.attempts = a.attempts
            /\ c \in AutoShape /\ c.count = 0 /\ c.attempts = a.attempts
            /\ d \in AutoShape /\ d.count = 0 /\ d.attempts = a.attempts
BY DEF AutoShape

LEMMA SmartTogglesKept == ASSUME SmartInv, Toggles PROVE SmartInv'
<1> DEFINE goal == IF line.queued \/ line.act \notin {"none", "hot"} THEN line.wanted ELSE Connected
<1>0. /\ line \in LineShape /\ auto \in AutoShape /\ inWork \in BOOLEAN /\ on \in BOOLEAN
             /\ clock \in 0..MaxClock
      /\ UNCHANGED <<smart, flying, inWork, on, clock, drops, moved>> /\ auto' = [auto EXCEPT !.count = 0]
      /\ line' = [line EXCEPT !.wanted = ~goal, !.queued = TRUE, !.aimed = IF goal THEN NoNode ELSE line.aimed]
      /\ (smart.phase # "idle" => line.served # NoNode)
  BY TypeGives DEF Toggles, Connected
<1>1. (~goal) \in BOOLEAN
  OBVIOUS
<1>2. PICK x \in BOOLEAN : x = ~goal
  BY <1>1
<1>3. PICK m \in Servers : m = IF goal THEN NoNode ELSE line.aimed
  BY <1>0 DEF LineShape, Servers
<1>4. line' = [line EXCEPT !.wanted = x, !.queued = TRUE, !.aimed = m]
  BY <1>0, <1>2, <1>3
<1> HIDE DEF goal
<1>5. line' \in LineShape /\ line'.act = line.act /\ line'.served = line.served /\ line'.chosen = line.chosen
  BY <1>0, <1>4 DEF LineShape
<1>6. auto' \in AutoShape /\ auto'.count = 0 /\ auto'.attempts = auto.attempts
  BY <1>0, AutoAnew
<1>7. CheckFine /\ smart'.phase = smart.phase
  BY <1>0, StandsFine
<1>8. Paced'
  BY <1>6, PacedIs, NothingCounted
<1>9. Standing'
  BY <1>5, <1>7 DEF SmartInv, Standing, Connected
<1> QED BY <1>0, <1>5, <1>6, <1>7, <1>8, <1>9, Together

LEMMA PickedKept ==
  ASSUME SmartInv, NEW n \in Node, line' = Pick(n), auto' \in AutoShape, auto'.count = 0,
         auto'.attempts <= Attempts, CheckFine, smart'.phase = smart.phase, UNCHANGED <<inWork, on, clock>>
  PROVE  SmartInv'
<1>0. /\ line \in LineShape /\ inWork \in BOOLEAN /\ on \in BOOLEAN /\ clock \in 0..MaxClock
      /\ (smart.phase # "idle" => line.served # NoNode)
  BY TypeGives DEF Connected
<1>1. /\ line' \in LineShape /\ line'.served = line.served /\ (Connected => line'.chosen = line.chosen)
      /\ line'.act \in {line.act, "hot"} /\ (line.act \notin {"none", "hot"} => line'.act = line.act)
  BY <1>0, PickIs
<1>2. Standing'
  BY <1>1 DEF SmartInv, Standing, Connected
<1> QED BY <1>0, <1>1, <1>2, NothingCounted, Together

LEMMA ChoosesKept == ASSUME SmartInv, NEW n \in Node, Chooses(n) PROVE SmartInv'
<1>1. /\ line' = Pick(n) /\ auto' = [ResetIf(auto, TRUE) EXCEPT !.held = TRUE, !.count = 0]
      /\ smart' = [smart EXCEPT !.manual = clock + ManualHold]
      /\ UNCHANGED <<flying, inWork, on, clock, drops, moved>> /\ auto \in AutoShape /\ clock \in Nat
  BY TypeGives DEF Chooses
<1>2. ResetIf(auto, TRUE) \in AutoShape /\ ResetIf(auto, TRUE).attempts = 0
  BY <1>1, ResetIs
<1>3. auto' \in AutoShape /\ auto'.count = 0 /\ auto'.attempts = 0
  BY <1>1, <1>2, AutoAnew
<1>4. CheckFine /\ smart'.phase = smart.phase
  <2>1. PICK k \in Nat : k = clock + ManualHold
    BY <1>1, ValuesAre
  <2>2. smart' = [smart EXCEPT !.manual = k]
    BY <1>1, <2>1
  <2>3. moved' = moved /\ clock' = clock /\ flying' = flying
    BY <1>1
  <2> QED BY <2>1, <2>2, <2>3, MarkedFine
<1>5. auto'.attempts <= Attempts
  BY <1>3, AttemptsIs
<1> QED BY <1>1, <1>3, <1>4, <1>5, PickedKept

LEMMA RotatesKept == ASSUME SmartInv, NEW n \in Node, Rotates(n) PROVE SmartInv'
<1>1. /\ line' = Pick(n) /\ auto' = [auto EXCEPT !.count = 0] /\ auto \in AutoShape
      /\ UNCHANGED <<smart, flying, inWork, on, clock, drops, moved>>
  BY TypeGives DEF Rotates
<1>2. auto' \in AutoShape /\ auto'.count = 0 /\ auto'.attempts = auto.attempts
  BY <1>1, AutoAnew
<1>3. CheckFine /\ smart'.phase = smart.phase
  BY <1>1, StandsFine
<1> QED BY <1>1, <1>2, <1>3, PacedIs, PickedKept

LEMMA SettingKept == ASSUME SmartInv, SwitchesSetting PROVE SmartInv'
<1>1. /\ line \in LineShape /\ auto \in AutoShape /\ inWork \in BOOLEAN /\ on \in BOOLEAN
             /\ clock \in 0..MaxClock
      /\ UNCHANGED <<line, flying, inWork, clock, drops, moved>> /\ on' = ~on
      /\ (smart.phase # "idle" => line.served # NoNode)
  BY TypeGives DEF SwitchesSetting, Connected
<1> DEFINE r == ResetIf(auto, TRUE)
<1>2. r \in AutoShape /\ r.attempts = 0 /\ r.warm \in BOOLEAN
  BY <1>1, ResetIs DEF AutoShape
<1>3. auto' \in AutoShape /\ auto'.count = 0 /\ auto'.attempts = 0
  <2>1. PICK x \in BOOLEAN : x = (r.warm \/ Connected)
    BY Zenon
  <2>2. \/ auto' = [r EXCEPT !.count = 0]
        \/ auto' = [r EXCEPT !.held = FALSE, !.count = 0, !.warm = r.warm \/ Connected]
    BY DEF SwitchesSetting
  <2> HIDE DEF r
  <2>3. CASE auto' = [r EXCEPT !.count = 0]
    BY <1>2, <2>3, AutoAnew
  <2>4. CASE auto' = [r EXCEPT !.held = FALSE, !.count = 0, !.warm = r.warm \/ Connected]
    <3>1. auto' = [r EXCEPT !.held = FALSE, !.count = 0, !.warm = x]
      BY <2>1, <2>4
    <3> QED BY <1>2, <3>1, AutoAnew
  <2> QED BY <2>2, <2>3, <2>4
<1>4. CheckFine /\ (smart'.phase = "idle" \/ smart'.phase = smart.phase)
  <2>1. CASE on
    <3>1. smart' = Cancelled(smart)
      BY <2>1 DEF SwitchesSetting
    <3> QED BY <1>1, <3>1, CancelledFine
  <2>2. CASE ~on
    <3>1. smart' = [smart EXCEPT !.manual = 0]
      BY <2>2 DEF SwitchesSetting
    <3> QED BY <1>1, <3>1, MarkedFine
  <2> QED BY <2>1, <2>2
<1>5. Paced'
  BY <1>3, AttemptsIs, NothingCounted
<1>6. Standing'
  BY <1>1, <1>4 DEF SmartInv, Standing, Connected
<1>7. on' \in BOOLEAN
  BY <1>1
<1> QED BY <1>1, <1>3, <1>4, <1>5, <1>6, <1>7, Together

LEMMA TestsKept == ASSUME SmartInv, TestsServers \/ TestEnds PROVE SmartInv'
<1>1. /\ line \in LineShape /\ auto \in AutoShape /\ on \in BOOLEAN /\ clock \in 0..MaxClock
      /\ UNCHANGED <<line, auto, flying, on, clock, drops, moved>> /\ inWork' \in BOOLEAN
      /\ (smart' = smart \/ smart' = Cancelled(smart)) /\ (smart.phase # "idle" => line.served # NoNode)
  BY TypeGives DEF TestsServers, TestEnds, Connected
<1>2. CheckFine /\ (smart'.phase = "idle" \/ smart'.phase = smart.phase)
  BY <1>1, StandsFine, CancelledFine
<1>3. Paced'
  BY <1>1 DEF SmartInv, Paced, Connected
<1>4. Standing'
  BY <1>1, <1>2 DEF SmartInv, Standing, Connected
<1> QED BY <1>1, <1>2, <1>3, <1>4, Together

LEMMA TickKept == ASSUME SmartInv, Tick PROVE SmartInv'
<1>1. /\ line \in LineShape /\ auto \in AutoShape /\ inWork \in BOOLEAN /\ on \in BOOLEAN
             /\ clock \in 0..MaxClock
      /\ smart \in CheckRecord /\ flying \subseteq Worker /\ smart.phase = "idle" /\ smart.worker = 0
      /\ UNCHANGED <<line, smart, flying, inWork, on, asked, drops, moved>> /\ clock < MaxClock
      /\ clock' = clock + 1 /\ auto' = [auto EXCEPT !.warm = FALSE]
  BY TypeGives DEF Tick
<1>2. clock' \in 0..MaxClock /\ clock' \in Nat /\ clock' >= clock
  BY <1>1, ValuesAre
<1>3. auto' \in AutoShape /\ auto'.count = auto.count /\ auto'.attempts = auto.attempts
          /\ auto'.moving = auto.moving
  BY <1>1 DEF AutoShape
<1>4. CheckFine
  BY <1>1, <1>2, CheckOver, PastKept DEF CheckFine
<1>5. Paced'
  BY <1>1, <1>3 DEF SmartInv, Paced, Connected
<1>6. Standing'
  BY <1>1 DEF SmartInv, Standing, Connected
<1> QED BY <1>1, <1>2, <1>3, <1>4, <1>5, <1>6, Together

LEMMA SmartRests == ASSUME SmartInv, UNCHANGED smartVars PROVE SmartInv'
<1>1. /\ line \in LineShape /\ auto \in AutoShape /\ inWork \in BOOLEAN /\ on \in BOOLEAN
             /\ clock \in 0..MaxClock
      /\ UNCHANGED <<line, auto, smart, flying, inWork, on, clock, asked, drops, moved>>
      /\ (smart.phase # "idle" => line.served # NoNode)
  BY TypeGives DEF smartVars, Connected
<1>2. CheckFine
  BY <1>1, StandsFine
<1>3. Paced' /\ Standing'
  BY <1>1 DEF SmartInv, Paced, Standing, Connected
<1> QED BY <1>1, <1>2, <1>3, Together

LEMMA SmartStep == ASSUME SmartInv, [SmartNext]_smartVars PROVE SmartInv'
<1>1. CASE \E dead, late \in BOOLEAN, o \in {"slow", "idle"} : Metrics(dead, o, late)
  BY <1>1, MetricsKept
<1>2. CASE ProbeMeasured
  BY <1>2, ProbeKept
<1>3. CASE CandidateMeasured
  BY <1>3, CandidateKept
<1>4. CASE BeginMove \/ ConnectEnds \/ Disconnected \/ HotEnds \/ CoreEnds
  BY <1>4, BeginMoveKept, ConnectEndsKept, DisconnectedKept, HotEndsKept, CoreEndsKept
<1>5. CASE Toggles \/ SwitchesSetting \/ TestsServers \/ TestEnds
  BY <1>5, SmartTogglesKept, SettingKept, TestsKept
<1>6. CASE \E n \in Node : Chooses(n) \/ Rotates(n)
  BY <1>6, ChoosesKept, RotatesKept
<1>7. CASE Tick
  BY <1>7, TickKept
<1>8. CASE UNCHANGED smartVars
  BY <1>8, SmartRests
<1> QED BY <1>1, <1>2, <1>3, <1>4, <1>5, <1>6, <1>7, <1>8 DEF SmartNext

LEMMA SmartAtStart == ASSUME SmartInit PROVE SmartInv
<1>1. /\ line.served = NoNode /\ line.chosen \in Node /\ line.act = "none" /\ ~line.queued
      /\ line \in LineShape
  <2>1. (CHOOSE n \in Node : TRUE) \in Node
    BY ValuesAre
  <2> QED BY <2>1 DEF SmartInit, LineShape, Servers, Acts
<1>2. auto \in AutoShape /\ auto.attempts = 0 /\ auto.count = 0
  BY DEF SmartInit, AutoShape
<1>3. smart \in CheckRecord /\ smart.phase = "idle" /\ smart.worker = 0 /\ smart.times = {}
  <2>1. 0 \in 0..Len(Backoff)
    BY ValuesAre
  <2>2. [n \in Node |-> 0] \in [Node -> Nat] /\ [n \in Node |-> 0] \in [Node -> 0..Len(Backoff)]
    BY <2>1
  <2> QED BY <2>2 DEF SmartInit, CheckRecord, Servers
<1>4. flying = {} /\ inWork = FALSE /\ on = TRUE /\ clock = 0 /\ moved = <<>> /\ 0 \in 0..MaxClock
  BY ValuesAre DEF SmartInit
<1>5. SmartTypeOK
  <2>1. inWork \in BOOLEAN /\ on \in BOOLEAN
    BY <1>4
  <2> QED BY <1>1, <1>2, <1>3, <1>4, <2>1 DEF SmartTypeOK, LineShape, AutoShape
<1>6. SmartShape
  BY <1>3, <1>4, FS_EmptySet DEF SmartShape
<1>7. Standing /\ Judged
  BY <1>1, <1>3 DEF Standing, Judged, Connected
<1>8. Paced
  BY <1>1, <1>2, AttemptsIs DEF Paced
<1>9. Past
  BY <1>4 DEF Past, WorthIt, Unhurried
<1> QED BY <1>5, <1>6, <1>7, <1>8, <1>9 DEF SmartInv

(* A switch of its own: only while nothing else moves.                       *)
LEMMA SmartAtRest ==
  ASSUME SmartInv, [SmartNext]_smartVars
  PROVE  [moved' # moved => /\ ~line.queued /\ line.act = "none" /\ ~auto.moving
                            /\ ~inWork /\ on /\ clock >= smart.manual]_smartVars
<1>1. SUFFICES ASSUME moved' # moved
               PROVE  ~line.queued /\ line.act = "none" /\ ~auto.moving /\ ~inWork /\ on
                         /\ clock >= smart.manual
  OBVIOUS
<1>2. CASE CandidateMeasured
  <2>1. ~Aborted
    BY <1>1, <1>2 DEF CandidateMeasured
  <2>2. clock \in Nat /\ smart.manual \in Nat
    BY TypeGives DEF CheckRecord
  <2> QED BY <2>1, <2>2 DEF Aborted, Gated, Moving
<1> QED BY <1>1, <1>2 DEF SmartNext, smartVars, Metrics, ProbeMeasured, BeginMove, ConnectEnds, Disconnected,
           HotEnds, CoreEnds, Toggles, SwitchesSetting, TestsServers, TestEnds, Chooses, Rotates, Tick

LEMMA SmartInvImplies == ASSUME SmartInv PROVE SmartTypeOK /\ WorthIt /\ Unhurried /\ OnePass
BY DEF SmartInv, Past, Paced, OnePass

-----------------------------------------------------------------------------
(* The watch over the link.  While one thread asks, or is about to be made,  *)
(* the flag that keeps a second one away is up.                              *)
WatchedHost == {HostOf[s] : s \in Watched} \cup {Unset}
WatchRecord == [host : WatchedHost, verdict : Verdicts, about : Watched \cup {Unset}, since : 0..Suspect,
                confirming : BOOLEAN, pause : 0..Cooldown]
LookRecord  == [pc : {"sleep", "verdict", "count", "start"}, saw : {"answers", "silence", "idle"}]
AskRecord   == [pc : {"none", "asks", "checks", "writes", "leaves"}, host : WatchedHost,
                of : Watched \cup {Unset}, says : Verdicts]

WatchInv ==
  /\ serving \in Watched /\ broken \subseteq Watched /\ aim \in {"host", "verdict", "since", "done"}
  /\ watch \in WatchRecord /\ look \in LookRecord /\ asker \in AskRecord
  /\ asker.pc # "none" => watch.confirming /\ look.pc # "start" /\ asker.of \in Watched
  /\ look.pc = "start" => watch.confirming

LEMMA SampleCounts == Suspect \in Nat /\ Suspect > 0 /\ Cooldown \in Nat /\ 0 \in 0..Suspect
          /\ 0 \in 0..Cooldown
                      /\ Cooldown \in 0..Cooldown
<1>1. Suspect \in Nat /\ Suspect > 0 /\ Cooldown \in Nat
  BY WatchAssumption
<1> QED BY <1>1

LEMMA WatchAtStart == ASSUME WatchInit PROVE WatchInv
<1>1. watch \in WatchRecord /\ look.pc # "start"
  BY SampleCounts, WatchAssumption DEF WatchInit, WatchRecord, WatchedHost, Verdicts
<1>2. look \in LookRecord /\ asker \in AskRecord /\ asker.pc = "none"
  BY DEF WatchInit, LookRecord, AskRecord, NoAsker, WatchedHost, Verdicts
<1> QED BY <1>1, <1>2, WatchAssumption DEF WatchInit, WatchInv

LEMMA WatchStep == ASSUME WatchInv, [WatchNext]_watchVars PROVE WatchInv'
<1>0. /\ serving \in Watched /\ broken \subseteq Watched /\ aim \in {"host", "verdict", "since", "done"}
      /\ watch \in WatchRecord /\ look \in LookRecord /\ asker \in AskRecord
      /\ (asker.pc # "none" => watch.confirming /\ look.pc # "start" /\ asker.of \in Watched)
      /\ (look.pc = "start" => watch.confirming)
  BY DEF WatchInv
<1>1. ASSUME NEW s \in Watched, Switches(s) \/ Breaks(s) PROVE WatchInv'
  BY <1>0, <1>1 DEF Switches, Breaks, WatchInv
<1>2. CASE Aims
  <2>1. \/ watch' = [watch EXCEPT !.host = HostOf[serving]]
        \/ watch' = [watch EXCEPT !.verdict = "unknown", !.about = Unset]
        \/ watch' = [watch EXCEPT !.since = 0]
    BY <1>2 DEF Aims
  <2>2. watch' \in WatchRecord /\ watch'.confirming = watch.confirming
    <3>1. HostOf[serving] \in WatchedHost /\ Unset \in Watched \cup {Unset} /\ "unknown" \in Verdicts
      BY <1>0 DEF WatchedHost, Verdicts
    <3>2. CASE watch' = [watch EXCEPT !.host = HostOf[serving]]
      BY <1>0, <3>1, <3>2 DEF WatchRecord
    <3>3. CASE watch' = [watch EXCEPT !.verdict = "unknown", !.about = Unset]
      BY <1>0, <3>1, <3>3 DEF WatchRecord
    <3>4. CASE watch' = [watch EXCEPT !.since = 0]
      BY <1>0, <3>4, SampleCounts DEF WatchRecord
    <3> QED BY <2>1, <3>2, <3>3, <3>4
  <2>3. aim' \in {"host", "verdict", "since", "done"}
    BY <1>2 DEF Aims
  <2> QED BY <1>0, <1>2, <2>2, <2>3 DEF Aims, WatchInv
<1>3. ASSUME NEW saw \in {"answers", "silence", "idle"}, Samples(saw) PROVE WatchInv'
  <2>1. PICK p \in 0..Cooldown : p = IF watch.pause > 0 THEN watch.pause - 1 ELSE 0
    BY <1>0, SampleCounts DEF WatchRecord
  <2>2. watch' = [watch EXCEPT !.pause = p]
    BY <1>3, <2>1 DEF Samples
  <2>3. watch' \in WatchRecord /\ watch'.confirming = watch.confirming
    BY <1>0, <2>2 DEF WatchRecord
  <2>4. look' \in LookRecord /\ look'.pc = "verdict"
    BY <1>3 DEF Samples, LookRecord
  <2> QED BY <1>0, <1>3, <2>3, <2>4 DEF Samples, WatchInv
<1>4. CASE JudgesTraffic
  <2>1. watch' \in WatchRecord /\ watch'.confirming = watch.confirming
    BY <1>0, <1>4 DEF JudgesTraffic, WatchRecord, Verdicts
  <2>2. look' \in LookRecord /\ look'.pc = "count"
    BY <1>0, <1>4 DEF JudgesTraffic, LookRecord
  <2> QED BY <1>0, <1>4, <2>1, <2>2 DEF JudgesTraffic, WatchInv
<1>5. CASE Counts
  <2> DEFINE n == IF look.saw # "silence" THEN 0
                  ELSE IF Enough(watch.since) THEN watch.since ELSE watch.since + 1
             asks == n = watch.since /\ Enough(n) /\ ~watch.confirming /\ watch.pause = 0
  <2>1. n \in 0..Suspect
    BY <1>0, SampleCounts DEF WatchRecord, Enough
  <2>2. watch' = [watch EXCEPT !.since = n, !.confirming = watch.confirming \/ asks,
                               !.pause = IF asks THEN Cooldown ELSE watch.pause]
        /\ look' = [look EXCEPT !.pc = IF asks THEN "start" ELSE "sleep"]
        /\ UNCHANGED <<serving, broken, aim, asker, switches, breaks>>
    BY <1>5 DEF Counts
  <2>3. asks \in BOOLEAN /\ (asks => ~watch.confirming)
    BY Zenon
  <2> HIDE DEF n, asks
  <2>4. CASE asks
    <3>1. watch' = [watch EXCEPT !.since = n, !.confirming = TRUE, !.pause = Cooldown]
          /\ look' = [look EXCEPT !.pc = "start"]
      BY <2>2, <2>4
    <3>2. watch' \in WatchRecord /\ watch'.confirming /\ look' \in LookRecord
      BY <1>0, <2>1, <3>1, SampleCounts DEF WatchRecord, LookRecord
    <3> QED BY <1>0, <2>2, <2>3, <2>4, <3>2 DEF WatchInv
  <2>5. CASE ~asks
    <3>1. watch' = [watch EXCEPT !.since = n, !.confirming = watch.confirming, !.pause = watch.pause]
          /\ look' = [look EXCEPT !.pc = "sleep"]
      BY <1>0, <2>2, <2>3, <2>5 DEF WatchRecord
    <3>2. watch' \in WatchRecord /\ watch'.confirming = watch.confirming /\ look' \in LookRecord
              /\ look'.pc = "sleep"
      BY <1>0, <2>1, <3>1, SampleCounts DEF WatchRecord, LookRecord
    <3> QED BY <1>0, <2>2, <3>2 DEF WatchInv
  <2> QED BY <2>4, <2>5
<1>6. CASE StartsAsker
  <2>1. asker' \in AskRecord /\ asker'.of \in Watched /\ look' \in LookRecord /\ look'.pc = "sleep"
    BY <1>0, <1>6 DEF StartsAsker, AskRecord, WatchRecord, LookRecord, Verdicts
  <2> QED BY <1>0, <1>6, <2>1 DEF StartsAsker, WatchInv
<1>7. ASSUME NEW known \in BOOLEAN, AskerHears(known) PROVE WatchInv'
  <2>1. PICK v \in Verdicts : v = IF ~known THEN "unknown" ELSE IF asker.of \in broken THEN "dead" ELSE "alive"
    BY DEF Verdicts
  <2>2. asker' = [asker EXCEPT !.pc = "checks", !.says = v]
    BY <1>7, <2>1 DEF AskerHears
  <2>3. asker' \in AskRecord /\ asker'.of = asker.of
    BY <1>0, <2>2 DEF AskRecord
  <2> QED BY <1>0, <1>7, <2>3 DEF AskerHears, WatchInv
<1>8. CASE AskerChecks
  <2>1. asker' \in AskRecord /\ asker'.of = asker.of
    BY <1>0, <1>8 DEF AskerChecks, AskRecord
  <2> QED BY <1>0, <1>8, <2>1 DEF AskerChecks, WatchInv
<1>9. CASE AskerWrites
  <2>1. watch' \in WatchRecord /\ watch'.confirming = watch.confirming
    BY <1>0, <1>9 DEF AskerWrites, WatchRecord, AskRecord
  <2>2. asker' \in AskRecord /\ asker'.of = asker.of
    BY <1>0, <1>9 DEF AskerWrites, AskRecord
  <2> QED BY <1>0, <1>9, <2>1, <2>2 DEF AskerWrites, WatchInv
<1>10. CASE AskerLeaves
  <2>1. watch' \in WatchRecord /\ asker' \in AskRecord /\ asker'.pc = "none" /\ look.pc # "start"
    BY <1>0, <1>10 DEF AskerLeaves, WatchRecord, AskRecord, NoAsker, WatchedHost, Verdicts
  <2> QED BY <1>0, <1>10, <2>1 DEF AskerLeaves, WatchInv
<1>11. CASE UNCHANGED watchVars
  BY <1>0, <1>11 DEF watchVars, WatchInv
<1> QED BY <1>1, <1>2, <1>3, <1>4, <1>5, <1>6, <1>7, <1>8, <1>9, <1>10, <1>11 DEF WatchNext

LEMMA WatchInvImplies == ASSUME WatchInv PROVE WatchTypeOK /\ (look.pc = "start" => asker.pc = "none")
BY DEF WatchInv, WatchTypeOK, WatchRecord, LookRecord, AskRecord

-----------------------------------------------------------------------------
(* The services side by side: a step of one is a step of it, and the others  *)
(* stand still.                                                              *)
LEMMA OneMoves ==
  ASSUME [ServicesNext]_servicesVars
  PROVE  [StoreNext]_storeVars /\ [TemplateNext]_templateVars /\ [TrafficNext]_trafficVars
         /\ [ProxyNext]_proxyVars /\ [SmartNext]_smartVars /\ [WatchNext]_watchVars
BY DEF ServicesNext, servicesVars, dataVars, backVars

(* What the program keeps for the user: the state on disk is the newest at   *)
(* an exit and never goes back, and a torn file is never written over, a     *)
(* foreign one only by a start that took it for none (storage.py,            *)
(* background_workers.py); a release changes the sections that are its own and none of the user's      *)
(* (template_sync.py); the total of the day is the sum of its sessions, and  *)
(* a session that has ended reaches the file and stays as it ended           *)
(* (traffic_history.py).                                                     *)
THEOREM DataIsKept == ServicesSpec => DataKept
<1>1. ServicesInit => StoreInv /\ TemplateInv /\ TrafficInv
  BY StoreAtStart, TemplateAtStart, TrafficAtStart DEF ServicesInit
<1>2. StoreInv /\ [ServicesNext]_servicesVars => StoreInv'
  BY OneMoves, StoreStep, StoreStays
<1>3. TemplateInv /\ [ServicesNext]_servicesVars => TemplateInv'
  BY OneMoves, TemplateStep, TemplateStays
<1>4. TrafficInv /\ [ServicesNext]_servicesVars => TrafficInv'
  BY OneMoves, TrafficStep, TrafficStays
<1>5. StoreInv /\ [ServicesNext]_servicesVars => [form # "foreign" => disk'.state >= disk.state]_storeVars
  BY OneMoves, StoreNeverBack
<1>11. StoreInv /\ [ServicesNext]_servicesVars =>
         [form # "whole" /\ <<disk, form>>' # <<disk, form>>
            => form = "foreign" /\ life \in {"up", "closing"}]_storeVars
  BY OneMoves, StoreUnread
<1>6. TemplateInv /\ [ServicesNext]_servicesVars =>
        [Syncing /\ IsDocument(active) /\ active # active' =>
           IsDocument(active') /\ \A s \in touched : Same(active, active', s)]_templateVars
  BY OneMoves, TemplateKeepsSections
<1>7. TrafficInv /\ [ServicesNext]_servicesVars =>
        [\A i \in DOMAIN record : record[i].ended => i \in DOMAIN record' /\ record'[i] = record[i]]_trafficVars
  BY OneMoves, TrafficEndedKept
<1>8. StoreInv => StoreTypeOK /\ NothingLostAtExit /\ SavedWhenIdle
  BY StoreInvImplies
<1>9. TemplateInv => TemplateTypeOK /\ StockFollows
  BY TemplateFollows DEF TemplateInv
<1>10. TrafficInv => TrafficTypeOK /\ DailyAgrees /\ FrozenFresh
  BY TrafficInvImplies
<1> QED BY <1>1, <1>2, <1>3, <1>4, <1>5, <1>6, <1>7, <1>8, <1>9, <1>10, <1>11, PTL
  DEF ServicesSpec, DataKept, StoreKept, NeverBack, UnreadNotReplaced, TemplatesKept, UserSectionsKept, TrafficKept, EndedKept

(* The proxy of Windows (proxy_manager.py): what the user had set can be     *)
(* found again, and is back when nothing uses it, whatever was killed when,  *)
(* unless a `disable` that had no copy switched it off, which leaves no      *)
(* proxy; with a session at rest Windows points at the program exactly when  *)
(* the setting says so, and never once a program leaves and before the next  *)
(* one starts.                                                               *)
THEOREM ProxyIsSafe == ServicesSpec => []ProxySafe
<1>1. ServicesInit => ProxyInv
  BY ProxyAtStart DEF ServicesInit
<1>2. ProxyInv /\ [ServicesNext]_servicesVars => ProxyInv'
  BY OneMoves, ProxyStep
<1>3. ProxyInv => ProxySafe
  BY ProxyInvImplies DEF ProxySafe
<1> QED BY <1>1, <1>2, <1>3, PTL DEF ServicesSpec

(* The switches the application makes by itself (smart_switch_service.py,    *)
(* auto_switch_service.py): each one is from a server that is slow now to    *)
(* one that carries enough and enough more, whatever late answers arrive;    *)
(* the pauses and the hourly limit hold between any two of them; the dead    *)
(* link takes at most one pass over the servers; and nothing else moves      *)
(* while one is made.                                                        *)
THEOREM SmartSwitchIsSafe == ServicesSpec => SmartSafe
<1>1. ServicesInit => SmartInv
  BY SmartAtStart DEF ServicesInit
<1>2. SmartInv /\ [ServicesNext]_servicesVars => SmartInv'
  BY OneMoves, SmartStep
<1>3. SmartInv => SmartTypeOK /\ WorthIt /\ Unhurried /\ OnePass
  BY SmartInvImplies
<1>4. SmartInv /\ [ServicesNext]_servicesVars =>
        [moved' # moved => /\ ~line.queued /\ line.act = "none" /\ ~auto.moving
                           /\ ~inWork /\ on /\ clock >= smart.manual]_smartVars
  BY OneMoves, SmartAtRest
<1> QED BY <1>1, <1>2, <1>3, <1>4, PTL DEF ServicesSpec, SmartSafe, OnlyAtRest

(* The watch over the link (live_metrics_worker.py): one thread asks at a    *)
(* time, and none is made while one still asks.                              *)
THEOREM OneAsksAtATime == ServicesSpec => [](WatchTypeOK /\ (look.pc = "start" => asker.pc = "none"))
<1>1. ServicesInit => WatchInv
  BY WatchAtStart DEF ServicesInit
<1>2. WatchInv /\ [ServicesNext]_servicesVars => WatchInv'
  BY OneMoves, WatchStep
<1>3. WatchInv => WatchTypeOK /\ (look.pc = "start" => asker.pc = "none")
  BY WatchInvImplies
<1> QED BY <1>1, <1>2, <1>3, PTL DEF ServicesSpec

-----------------------------------------------------------------------------
(* The runner of steps, for any number of steps: its types, one delivery of  *)
(* each result, one report of the end, no work begun after the end, and that *)
(* it keeps the contract its transitions rely on.                            *)

(* --- The inductive invariant ---------------------------------------------- *)

(* The run is over exactly when its generator is.                            *)
Ends == done <=> gen \in {"ended", "closed"}

(* A generator that waits, waits for a step; a new one has asked for none.   *)
Waits == (gen = "waiting" => seq >= 1) /\ (gen = "new" => seq = 0)

(* Whatever has reported was asked for.                                      *)
AskedFor == \A e \in events : e.of <= seq

(* The steps before the last one were answered, the last one was not while   *)
(* it is waited for, and no later one ever was.                              *)
Answers ==
  \A s \in Step : /\ s < seq => delivered[s] = 1
                  /\ s > seq => delivered[s] = 0
                  /\ s = seq => delivered[s] <= 1 /\ (gen = "waiting" => delivered[s] = 0)

(* A call that has not begun belongs to the step waited for, which has not   *)
(* been answered in any way.                                                 *)
QueuedWaited ==
  \A s \in Step :
    work[s] = "queued" =>
      /\ s = seq /\ gen = "waiting" /\ kind[s] = "worker"
      /\ s \notin reported \cup cancelled \cup checking
      /\ \A e \in events : e.of # s

(* A step not yet asked for has left no mark.                                *)
Ahead ==
  \A s \in Step : s > seq => s \notin reported \cup cancelled \cup checking \cup armed /\ work[s] = "none"

Progress  == Ends /\ Waits /\ ToldOnce /\ Answers
Marks     == AskedFor /\ QueuedWaited /\ Ahead
RunnerInv == RunnerTypeOK /\ Progress /\ Marks

(* --- The runner ----------------------------------------------------------- *)

(* A run begins with nothing asked for.                                      *)
LEMMA RunnerStarts == RunnerInit => RunnerInv
<1> SUFFICES ASSUME RunnerInit PROVE RunnerInv
  OBVIOUS
<1> USE StepRunnerAssumption DEF StepRunnerAssumption, RunnerInit, Step
<1>1. RunnerTypeOK
  <2>1. seq \in 0..MaxSteps /\ finished \in Nat
    OBVIOUS
  <2>2. kind \in [Step -> Kind] /\ work \in [Step -> Work] /\ delivered \in [Step -> Nat]
    BY DEF Kind, Work
  <2> QED
    BY <2>1, <2>2 DEF RunnerTypeOK
<1>2. Progress
  BY DEF Progress, Ends, Waits, ToldOnce, Answers
<1>3. Marks
  BY DEF Marks, AskedFor, QueuedWaited, Ahead
<1> QED
  BY <1>1, <1>2, <1>3 DEF RunnerInv

(* The generator goes on, ends or is closed, once no call waits in the queue *)
(* and the results up to the step it waited for are delivered.               *)
LEMMA AdvanceKeeps ==
  ASSUME RunnerInv, ~done, NEW left \in SUBSET events, Advance(left),
         \A s \in Step : work[s] # "queued",
         delivered' \in [Step -> Nat],
         current => \A s \in Step : delivered'[s] = IF s <= seq THEN 1 ELSE 0,
         ~current => delivered' = delivered
  PROVE  RunnerInv'
<1> USE StepRunnerAssumption DEF StepRunnerAssumption, RunnerInv, Step
<1>1. seq \in Nat /\ MaxSteps \in Nat /\ finished = 0 /\ gen \in {"new", "waiting"}
  BY DEF RunnerTypeOK, Progress, Ends, ToldOnce
<1>2. ASSUME current, seq < MaxSteps, NEW k \in Kind, NEW at_once \in BOOLEAN,
             StartStep(seq + 1, k, at_once, left), seq' = seq + 1, gen' = "waiting",
             current' \in {current, FALSE}, UNCHANGED <<done, finished>>
      PROVE  RunnerInv'
  <2>1. seq + 1 \in Step
    BY <1>1, <1>2
  <2>2. events' \subseteq [of : Step, says : Says] /\ \A e \in events' : e \in left \/ (at_once /\ e.of = seq + 1)
    <3>1. PICK w \in Says : events' = IF at_once THEN left \cup {[of |-> seq + 1, says |-> w]} ELSE left
      BY <1>2 DEF StartStep
    <3>2. left \subseteq [of : Step, says : Says] /\ [of |-> seq + 1, says |-> w] \in [of : Step, says : Says]
      BY <2>1 DEF RunnerTypeOK
    <3> QED
      BY <3>1, <3>2
  <2>3. /\ kind' \in [Step -> Kind] /\ kind'[seq + 1] = k
        /\ work' \in [Step -> Work] /\ work'[seq + 1] = (IF k = "worker" /\ ~at_once THEN "queued" ELSE "none")
        /\ \A s \in Step : s # seq + 1 => work'[s] = work[s]
        /\ armed' \subseteq armed \cup {seq + 1}
        /\ UNCHANGED <<reported, cancelled, checking>>
    <3>1. /\ kind' = [kind EXCEPT ![seq + 1] = k]
          /\ work' = [work EXCEPT ![seq + 1] = IF k = "worker" /\ ~at_once THEN "queued" ELSE "none"]
          /\ armed' = (IF at_once THEN armed ELSE armed \cup {seq + 1})
          /\ UNCHANGED <<reported, cancelled, checking>>
      BY <1>2 DEF StartStep
    <3>2. kind \in [Step -> Kind] /\ work \in [Step -> Work] /\ {"queued", "none"} \subseteq Work
      BY DEF RunnerTypeOK, Work
    <3> HIDE DEF Step
    <3>3. kind' \in [Step -> Kind] /\ kind'[seq + 1] = k
      BY <2>1, <3>1, <3>2
    <3>4. work' \in [Step -> Work] /\ work'[seq + 1] = (IF k = "worker" /\ ~at_once THEN "queued" ELSE "none")
      BY <2>1, <3>1, <3>2
    <3>5. \A s \in Step : s # seq + 1 => work'[s] = work[s]
      BY <2>1, <3>1, <3>2
    <3>6. armed' \subseteq armed \cup {seq + 1}
      BY <3>1
    <3> QED
      BY <3>1, <3>3, <3>4, <3>5, <3>6
  <2>4. RunnerTypeOK'
    <3>1. seq' \in 0..MaxSteps
      BY <1>1, <1>2
    <3>2. current' \in BOOLEAN /\ done' = done /\ finished' = finished
      BY <1>2, Zenon DEF RunnerTypeOK
    <3>3. armed' \subseteq Step /\ reported' \subseteq Step /\ cancelled' \subseteq Step
              /\ checking' \subseteq Step
      BY <2>1, <2>3 DEF RunnerTypeOK
    <3> HIDE DEF Step
    <3> QED
      BY <1>2, <2>2, <2>3, <3>1, <3>2, <3>3 DEF RunnerTypeOK
  <2>5. Progress'
    BY <1>1, <1>2, <2>1 DEF Progress, Ends, Waits, ToldOnce, Answers, RunnerTypeOK
  <2>6. AskedFor'
    BY <1>1, <1>2, <2>2 DEF AskedFor, Marks, RunnerTypeOK
  <2>7. QueuedWaited'
    <3> SUFFICES ASSUME NEW s \in Step, work'[s] = "queued"
                 PROVE  /\ s = seq' /\ gen' = "waiting" /\ kind'[s] = "worker"
                        /\ s \notin reported' \cup cancelled' \cup checking'
                        /\ \A e \in events' : e.of # s
      BY DEF QueuedWaited
    <3>1. s = seq + 1 /\ k = "worker" /\ ~at_once
      BY <2>1, <2>3
    <3>2. \A e \in events' : e.of # s
      BY <1>1, <2>2, <3>1 DEF Marks, AskedFor, RunnerTypeOK
    <3>3. s \notin reported' \cup cancelled' \cup checking'
      BY <1>1, <2>1, <2>3, <3>1 DEF Marks, Ahead
    <3> QED
      BY <1>2, <2>3, <3>1, <3>2, <3>3
  <2>8. Ahead'
    BY <1>1, <1>2, <2>1, <2>3 DEF Marks, Ahead
  <2> QED
    BY <2>4, <2>5, <2>6, <2>7, <2>8 DEF Marks
<1>3. ASSUME current, Finish("ended"), current' \in {current, FALSE}, events' = left, UNCHANGED stepState
      PROVE  RunnerInv'
  <2>1. gen' = "ended" /\ done' = TRUE /\ finished' = 1 /\ seq' = seq
    BY <1>1, <1>3 DEF Finish
  <2>2. RunnerTypeOK'
    BY <1>1, <1>3, <2>1 DEF RunnerTypeOK, stepState
  <2>3. Progress'
    BY <1>1, <1>3, <2>1 DEF Progress, Ends, Waits, ToldOnce, Answers
  <2>4. Marks'
    BY <1>1, <1>3, <2>1 DEF Marks, AskedFor, QueuedWaited, Ahead, stepState
  <2> QED
    BY <2>2, <2>3, <2>4
<1>4. ASSUME ~current, CancelRun, events' = left, UNCHANGED current
      PROVE  RunnerInv'
  <2>1. gen' = "closed" /\ done' = TRUE /\ finished' = 1 /\ seq' = seq
    BY <1>1, <1>4 DEF CancelRun, Finish
  <2>2. gen = "waiting" => seq \in Step
    BY <1>1 DEF RunnerTypeOK, Progress, Waits
  <2>3. /\ work' \in [Step -> Work] /\ \A s \in Step : work'[s] = work[s]
        /\ kind' = kind /\ checking' = checking /\ armed' \subseteq armed
        /\ reported' \subseteq Step /\ cancelled' \subseteq Step
        /\ \A s \in Step : s > seq => s \notin reported' \cup cancelled'
    <3>1. CASE gen = "waiting"
      <4>1. work' = [work EXCEPT ![seq] = IF @ = "queued" THEN "dropped" ELSE @]
        BY <1>4, <3>1 DEF CancelRun
      <4>2. work' = work
        BY <2>2, <3>1, <4>1 DEF RunnerTypeOK
      <4>3. /\ cancelled' = cancelled \cup {seq} /\ armed' = armed \ {seq}
            /\ reported' \in {reported, reported \cup {seq}} /\ UNCHANGED <<kind, checking>>
        BY <1>4, <3>1 DEF CancelRun
      <4> QED
        BY <1>1, <2>2, <3>1, <4>2, <4>3 DEF RunnerTypeOK, Marks, Ahead
    <3>2. CASE gen # "waiting"
      BY <1>1, <1>4, <3>2 DEF CancelRun, stepState, RunnerTypeOK, Marks, Ahead
    <3> QED
      BY <3>1, <3>2
  <2>4. RunnerTypeOK'
    BY <1>1, <1>4, <2>1, <2>3 DEF RunnerTypeOK
  <2>5. Progress'
    BY <1>1, <1>4, <2>1 DEF Progress, Ends, Waits, ToldOnce, Answers
  <2>6. Marks'
    BY <1>1, <1>4, <2>1, <2>3 DEF Marks, AskedFor, QueuedWaited, Ahead
  <2> QED
    BY <2>4, <2>5, <2>6
<1> QED
  BY <1>2, <1>3, <1>4 DEF Advance

(* A cancelled run.                                                          *)
LEMMA CancelKeeps == RunnerInv /\ Cancel => RunnerInv'
<1> SUFFICES ASSUME RunnerInv, Cancel PROVE RunnerInv'
  OBVIOUS
<1> USE StepRunnerAssumption DEF StepRunnerAssumption, RunnerInv, Step
<1>1. seq \in Nat /\ gen' = "closed" /\ done' = TRUE /\ finished' = 1 /\ seq' = seq /\ ~done
  BY DEF Cancel, CancelRun, Finish, RunnerTypeOK, Progress, ToldOnce
<1>2. gen = "waiting" => seq \in Step
  BY DEF RunnerTypeOK, Progress, Waits
<1>3. /\ work' \in [Step -> Work] /\ \A s \in Step : work'[s] # "queued" /\ (s > seq => work'[s] = work[s])
      /\ kind' = kind /\ checking' = checking /\ armed' \subseteq armed
      /\ reported' \subseteq Step /\ cancelled' \subseteq Step
      /\ \A s \in Step : s > seq => s \notin reported' \cup cancelled'
  <2>1. CASE gen = "waiting"
    <3>1. work' = [work EXCEPT ![seq] = IF @ = "queued" THEN "dropped" ELSE @]
      BY <2>1 DEF Cancel, CancelRun
    <3>2. work \in [Step -> Work] /\ "dropped" \in Work
      BY DEF RunnerTypeOK, Work
    <3>3. work' \in [Step -> Work] /\ \A s \in Step : work'[s] # "queued" /\ (s > seq => work'[s] = work[s])
      BY <1>1, <1>2, <2>1, <3>1, <3>2 DEF Marks, QueuedWaited
    <3>4. /\ cancelled' = cancelled \cup {seq} /\ armed' = armed \ {seq}
          /\ reported' \in {reported, reported \cup {seq}} /\ UNCHANGED <<kind, checking>>
      BY <2>1 DEF Cancel, CancelRun
    <3> QED
      BY <1>1, <1>2, <2>1, <3>3, <3>4 DEF RunnerTypeOK, Marks, Ahead
  <2>2. CASE gen # "waiting"
    BY <1>1, <2>2 DEF Cancel, CancelRun, stepState, RunnerTypeOK, Marks, QueuedWaited, Ahead
  <2> QED
    BY <2>1, <2>2
<1>4. RunnerTypeOK'
  BY <1>1, <1>3 DEF RunnerTypeOK, Cancel
<1>5. Progress'
  BY <1>1 DEF Progress, Ends, Waits, ToldOnce, Answers, Cancel
<1>6. Marks'
  BY <1>1, <1>3 DEF Marks, AskedFor, QueuedWaited, Ahead, Cancel
<1> QED
  BY <1>4, <1>5, <1>6

(* The result of the step that is waited for is delivered.                   *)
LEMMA ResumeKeeps == RunnerInv /\ Resume => RunnerInv'
<1> SUFFICES ASSUME RunnerInv, NEW e \in events, ~Stale(e),
                    delivered' = IF current THEN [delivered EXCEPT ![e.of] = @ + 1] ELSE delivered,
                    Advance(events \ {e})
             PROVE  RunnerInv'
  BY DEF Resume
<1> USE StepRunnerAssumption DEF StepRunnerAssumption, RunnerInv, Step
<1>1. ~done /\ e.of = seq /\ seq \in Step /\ gen = "waiting"
  BY DEF Stale, RunnerTypeOK, Progress, Ends, Waits
<1>2. delivered \in [Step -> Nat] /\ delivered' \in [Step -> Nat] /\ delivered[seq] = 0
  BY <1>1 DEF RunnerTypeOK, Progress, Answers
<1>3. current => \A s \in Step : delivered'[s] = IF s <= seq THEN 1 ELSE 0
  BY <1>1, <1>2 DEF Progress, Answers
<1>4. \A s \in Step : work[s] # "queued"
  BY <1>1 DEF Marks, QueuedWaited
<1> QED
  BY <1>1, <1>2, <1>3, <1>4, AdvanceKeeps

(* The first step is asked for, or the generator ends at once.               *)
LEMMA BeginKeeps == RunnerInv /\ Begin => RunnerInv'
<1> SUFFICES ASSUME RunnerInv, gen = "new", ~done, Advance(events), UNCHANGED delivered PROVE RunnerInv'
  BY DEF Begin
<1> USE StepRunnerAssumption DEF StepRunnerAssumption, RunnerInv, Step
<1>1. seq = 0
  BY DEF Progress, Waits
<1>2. delivered \in [Step -> Nat] /\ \A s \in Step : delivered[s] = 0
  BY <1>1 DEF RunnerTypeOK, Progress, Answers
<1>3. \A s \in Step : work[s] # "queued"
  BY DEF Marks, QueuedWaited
<1> QED
  BY <1>1, <1>2, <1>3, AdvanceKeeps

(* --- The steps ------------------------------------------------------------ *)

(* What workers and timers do leaves the runner alone: of the invariant only *)
(* the types and the marks can change.                                       *)
LEMMA StepKeeps ==
  ASSUME RunnerInv, NEW s \in Step,
         WorkerBegins(s) \/ WorkerEnds(s) \/ WorkerReports(s) \/ Deadline(s) \/ TimerFires(s)
  PROVE  RunnerInv'
<1> USE StepRunnerAssumption DEF StepRunnerAssumption, RunnerInv, Step, Runner, Report
<1>1. seq \in Nat /\ UNCHANGED Runner
  BY DEF RunnerTypeOK, WorkerBegins, WorkerEnds, WorkerReports, Deadline, TimerFires
<1>2. Progress'
  BY <1>1 DEF Progress, Ends, Waits, ToldOnce, Answers
<1>3. s <= seq
  BY <1>1 DEF Marks, Ahead, WorkerBegins, WorkerEnds, WorkerReports, Deadline, TimerFires
<1>4. CASE WorkerBegins(s)
  BY <1>1, <1>2, <1>4 DEF WorkerBegins, RunnerTypeOK, Work, Marks, AskedFor, QueuedWaited, Ahead
<1>5. CASE WorkerEnds(s)
  BY <1>1, <1>2, <1>3, <1>5 DEF WorkerEnds, RunnerTypeOK, Work, Marks, AskedFor, QueuedWaited, Ahead
<1>6. CASE WorkerReports(s)
  <2>1. \A e \in events' : e \in events \/ e.of = s
    BY <1>6 DEF WorkerReports
  <2>2. events' \subseteq [of : Step, says : Says]
    BY <1>6 DEF WorkerReports, RunnerTypeOK
  <2>3. work[s] # "queued"
    BY <1>6 DEF WorkerReports, Marks, QueuedWaited
  <2>4. RunnerTypeOK'
    BY <1>1, <1>6, <2>2 DEF WorkerReports, RunnerTypeOK
  <2>5. Marks'
    BY <1>1, <1>3, <1>6, <2>1, <2>3 DEF WorkerReports, Marks, AskedFor, QueuedWaited, Ahead
  <2> QED
    BY <1>2, <2>4, <2>5
<1>7. CASE Deadline(s)
  <2>1. \A e \in events' : e \in events \/ e.of = s
    BY <1>7 DEF Deadline
  <2>2. events' \subseteq [of : Step, says : Says] /\ work' \in [Step -> Work]
    BY <1>7 DEF Deadline, RunnerTypeOK, Says, Work
  <2>3. work'[s] # "queued" /\ \A t \in Step : t # s => work'[t] = work[t]
    BY <1>7 DEF Deadline, RunnerTypeOK, Marks, QueuedWaited
  <2>4. RunnerTypeOK'
    BY <1>1, <1>7, <2>2 DEF Deadline, RunnerTypeOK
  <2>5. Marks'
    BY <1>1, <1>3, <1>7, <2>1, <2>3 DEF Deadline, Marks, AskedFor, QueuedWaited, Ahead
  <2> QED
    BY <1>2, <2>4, <2>5
<1>8. CASE TimerFires(s)
  <2>1. \A e \in events' : e \in events \/ e.of = s
    BY <1>8 DEF TimerFires
  <2>2. events' \subseteq [of : Step, says : Says]
    BY <1>8 DEF TimerFires, RunnerTypeOK, Says
  <2>3. work[s] # "queued"
    BY <1>8 DEF TimerFires, Marks, QueuedWaited
  <2>4. RunnerTypeOK'
    BY <1>1, <1>8, <2>2 DEF TimerFires, RunnerTypeOK
  <2>5. Marks'
    BY <1>1, <1>3, <1>8, <2>1, <2>3 DEF TimerFires, Marks, AskedFor, QueuedWaited, Ahead
  <2> QED
    BY <1>2, <2>4, <2>5
<1> QED
  BY <1>4, <1>5, <1>6, <1>7, <1>8

(* Every step of the runner, of its workers and timers.                      *)
LEMMA RunnerKeeps == RunnerInv /\ [RunnerNext]_runnerVars => RunnerInv'
<1> SUFFICES ASSUME RunnerInv, [RunnerNext]_runnerVars PROVE RunnerInv'
  OBVIOUS
<1>1. CASE Begin
  BY <1>1, BeginKeeps
<1>2. CASE Ignore
  BY <1>2 DEF Ignore, RunnerInv, RunnerTypeOK, Progress, Ends, Waits, ToldOnce, Answers, Marks, AskedFor,
      QueuedWaited, Ahead, stepState
<1>3. CASE Resume
  BY <1>3, ResumeKeeps
<1>4. CASE Cancel
  BY <1>4, CancelKeeps
<1>5. CASE Supersede
  BY <1>5 DEF Supersede, RunnerInv, RunnerTypeOK, Progress, Ends, Waits, ToldOnce, Answers, Marks, AskedFor,
      QueuedWaited, Ahead, stepState
<1>6. ASSUME NEW s \in Step,
             WorkerBegins(s) \/ WorkerEnds(s) \/ WorkerReports(s) \/ Deadline(s) \/ TimerFires(s)
      PROVE  RunnerInv'
  BY <1>6, StepKeeps
<1>7. CASE UNCHANGED runnerVars
  BY <1>7 DEF runnerVars, RunnerInv, RunnerTypeOK, Progress, Ends, Waits, ToldOnce, Answers, Marks, AskedFor,
      QueuedWaited, Ahead
<1> QED
  BY <1>1, <1>2, <1>3, <1>4, <1>5, <1>6, <1>7 DEF RunnerNext

(* --- What follows ---------------------------------------------------------- *)

(* The invariant holds in every behaviour.                                   *)
LEMMA RunnerInvariant == RunnerSpec => []RunnerInv
<1>1. RunnerInit => RunnerInv
  BY RunnerStarts
<1>2. RunnerInv /\ [RunnerNext]_runnerVars => RunnerInv'
  BY RunnerKeeps
<1> QED
  BY <1>1, <1>2, PTL DEF RunnerSpec

(* Whatever deadlines, late calls, double reports and cancellations do, no   *)
(* result reaches the generator twice and the owner hears of the end once.   *)
THEOREM RunnerIsSafe == RunnerSpec => []RunnerSafe
<1>1. RunnerInv => RunnerSafe
  BY StepRunnerAssumption
  DEF RunnerInv, RunnerSafe, Progress, Answers, DeliveredOnce, RunnerTypeOK, Step, StepRunnerAssumption
<1> QED
  BY <1>1, RunnerInvariant, PTL

(* --- The contract ---------------------------------------------------------- *)

(* A step of the runner is what the contract lets happen, or nothing that it *)
(* speaks of.                                                                *)
LEMMA ContractStep ==
  RunnerInv /\ RunnerInv' /\ [RunnerNext]_runnerVars => [Contract!ContractNext]_(Contract!contractVars)
<1> SUFFICES ASSUME RunnerInv, RunnerInv', [RunnerNext]_runnerVars
             PROVE  Contract!ContractNext \/ UNCHANGED <<seq, Given, done, finished>>
  BY DEF Contract!contractVars
<1> USE StepRunnerAssumption DEF StepRunnerAssumption, RunnerInv, Step
<1>1. seq \in Nat /\ seq' \in Nat /\ seq <= MaxSteps /\ seq' <= MaxSteps /\ finished \in Nat
  BY DEF RunnerTypeOK
<1>2. ASSUME ~done, seq' = seq + 1, UNCHANGED <<done, finished>>, Given' = seq
      PROVE  Contract!ContractNext
  BY <1>1, <1>2 DEF Contract!ContractNext, Contract!Ask, Contract!Deliver
<1>3. ASSUME NEW g, ~done, Finish(g), Given' = seq \/ Given' = Given
      PROVE  Contract!ContractNext
  BY <1>3 DEF Finish, Contract!ContractNext, Contract!End, Contract!Deliver
(* What the delivery of a result makes of what was given.                    *)
<1>4. ASSUME NEW left, Advance(left), ~done, current => Given' = seq, ~current => delivered' = delivered
      PROVE  Contract!ContractNext
  <2>1. CASE current /\ seq' = seq + 1 /\ UNCHANGED <<done, finished>>
    BY <1>2, <1>4, <2>1
  <2>2. CASE current /\ Finish("ended")
    BY <1>3, <1>4, <2>2
  <2>3. CASE ~current /\ CancelRun
    <3>1. Finish("closed") /\ seq' = seq
      BY <2>3 DEF CancelRun, Finish
    <3> QED
      BY <1>3, <1>4, <2>3, <3>1 DEF Given
  <2> QED
    BY <1>4, <2>1, <2>2, <2>3 DEF Advance
<1>5. CASE Begin
  <2>1. seq = 0 /\ ~done /\ delivered' = delivered /\ Advance(events)
    BY <1>5 DEF Begin, Progress, Waits
  <2>2. seq' \in {seq, seq + 1}
    BY <2>1 DEF Advance, CancelRun, Finish
  <2>3. CASE seq' = 0
    BY <1>4, <2>1, <2>3 DEF Given
  <2>4. CASE seq' = 1
    <3>1. 1 \in Step /\ delivered[1] = 0
      BY <1>1, <2>1, <2>4 DEF Progress, Answers
    <3> QED
      BY <1>4, <2>1, <2>4, <3>1 DEF Given
  <2> QED
    BY <2>1, <2>2, <2>3, <2>4
<1>6. CASE Resume
  <2>1. PICK e \in events :
          /\ ~Stale(e)
          /\ delivered' = IF current THEN [delivered EXCEPT ![e.of] = @ + 1] ELSE delivered
          /\ Advance(events \ {e})
    BY <1>6 DEF Resume
  <2>2. ~done /\ e.of = seq /\ seq \in Step /\ delivered \in [Step -> Nat] /\ delivered[seq] = 0
    BY <2>1 DEF Stale, RunnerTypeOK, Progress, Ends, Waits, Answers
  <2>3. seq' \in {seq, seq + 1}
    BY <2>1 DEF Advance, CancelRun, Finish
  <2>4. current => Given' = seq
    BY <1>1, <2>1, <2>2, <2>3 DEF Given, Progress, Answers
  <2> QED
    BY <1>4, <2>1, <2>2, <2>4
<1>7. CASE Cancel
  BY <1>3, <1>7 DEF Cancel, CancelRun, Finish, Given
<1>8. CASE Ignore \/ Supersede
  BY <1>8 DEF Ignore, Supersede, Given
<1>9. ASSUME NEW s \in Step,
             WorkerBegins(s) \/ WorkerEnds(s) \/ WorkerReports(s) \/ Deadline(s) \/ TimerFires(s)
      PROVE  UNCHANGED <<seq, Given, done, finished>>
  BY <1>9 DEF WorkerBegins, WorkerEnds, WorkerReports, Deadline, TimerFires, Runner, Given
<1>10. CASE UNCHANGED runnerVars
  BY <1>10 DEF runnerVars, Given
<1> QED
  BY <1>5, <1>6, <1>7, <1>8, <1>9, <1>10 DEF RunnerNext

(* What a transition relies on: it is resumed once for each step it asked    *)
(* for and ends once; and a run that is over begins no call any more.        *)
THEOREM RunnerKeepsItsWord == RunnerSpec => RunnerKeepsWord
<1>1. RunnerInv => [\A s \in Step : done => ~WorkerBegins(s)]_runnerVars
  BY DEF RunnerInv, Progress, Ends, Marks, QueuedWaited, WorkerBegins
<1>2. RunnerInit => Contract!ContractInit
  BY DEF RunnerInit, Contract!ContractInit, Given
<1>3. RunnerInv /\ RunnerInv' /\ [RunnerNext]_runnerVars => [Contract!ContractNext]_(Contract!contractVars)
  BY ContractStep
<1> QED
  BY <1>1, <1>2, <1>3, RunnerInvariant, PTL
  DEF RunnerSpec, RunnerKeepsWord, NothingBeginsLate, KeepsContract, Contract!ContractSpec
=============================================================================
