--------------------------- MODULE Updates_proofs ---------------------------
(* What is proved of the updates: of the rounds of the window by themselves, *)
(* and of all the parts as they stand side by side in MCUpdates.  Each part  *)
(* has its inductive invariant and the lemmas XStarts, XStep, XHolds; the    *)
(* theorems about the whole are at the end.                                  *)
EXTENDS MCUpdates, SequenceTheorems, WellFoundedInduction, TLAPS

-----------------------------------------------------------------------------
(* Among numbers there is a least one.                                       *)
LEMMA LeastNumber == ASSUME NEW T, T \subseteq Nat, T # {} PROVE \E x \in T : \A y \in T : x <= y
<1> DEFINE R == {ss \in Nat \X Nat : ss[1] < ss[2]}
<1>1. R = OpToRel(<, Nat)
  BY Zenon DEF OpToRel
<1>2. IsWellFoundedOn(R, Nat)
  BY Zenon, <1>1, NatLessThanWellFounded
<1>3. \A x, y \in Nat : y < x => <<y, x>> \in R
  OBVIOUS
<1> HIDE DEF R
<1>4. PICK x \in T : \A y \in T : ~ (<<y, x>> \in R)
  BY Zenon, <1>2, WFMin
<1>5. \A y \in T : x <= y
  <2> TAKE y \in T
  <2>1. x \in Nat /\ y \in Nat
    OBVIOUS
  <2>2. ~ (y < x)
    BY <1>3, <1>4, <2>1
  <2> QED BY <2>1, <2>2
<1> QED BY <1>5

-----------------------------------------------------------------------------
(* The rounds of updates.  The record on disk counts what `launches` counts  *)
(* for the newest version tried; older ones are never fetched again.         *)
Record == [v : Version, n : Nat, at : Nat, back : BOOLEAN, due : BOOLEAN]
Loader == [v : Version, is : {"none", "runs", "ready"}]

RoundsTypes ==
  /\ RoundsTypeOK
  /\ attempt \in Record /\ loader \in Loader /\ offered \in Version /\ clock \in Nat
  /\ linked \in BOOLEAN
  /\ granted \in [Version -> Int] /\ launches \in [Version -> Nat]

(* What is fetched is newer than what runs and no older than what was tried. *)
NewerOnly ==
  /\ attempt.v <= latest
  /\ loader.is # "none" \/ setup \/ phase = "installing" => button \in {"grey", "gone"}
  /\ button = "open" => attempt.v <= offered /\ installed < offered /\ offered <= latest
  /\ loader.is # "none" /\ phase = "on" => loader.v > installed /\ loader.v >= attempt.v
  /\ phase = "installing" \/ (phase = "on" /\ setup) => attempt.v > installed

(* The record is not behind the history.                                     *)
Counted ==
  /\ \A v \in Version : launches[v] > 0 => v <= attempt.v \/ v <= installed
  /\ attempt.v > installed => launches[attempt.v] <= attempt.n
  /\ back /\ loader.is # "none" /\ ~setup /\ phase = "on" /\ attempt.v = loader.v
       => attempt.n < MaxAuto

RoundsInv == RoundsTypes /\ NewerOnly /\ Counted /\ Sparing

(* What the invariant speaks of, besides permissions and settings.           *)
roundsCore == <<installed, latest, attempt, phase, button, loader, back, setup, offered, launches>>

LEMMA PermissionsKept ==
  ASSUME RoundsInv, UNCHANGED roundsCore, clock' \in Nat, linked' \in BOOLEAN, wants' \in {"none", "ask",
             "all"},
         granted' \in [Version -> Int], urgent' \subseteq {v \in Version : granted'[v] >= 0}
  PROVE  RoundsInv'
BY DEF RoundsInv, roundsCore, RoundsTypes, RoundsTypeOK, NewerOnly, Counted, Sparing

LEMMA RoundsStay ==
  ASSUME RoundsInv, UNCHANGED roundsCore, UNCHANGED <<clock, linked, wants, granted, urgent>>
  PROVE  RoundsInv'
BY DEF RoundsInv, roundsCore, RoundsTypes, RoundsTypeOK, NewerOnly, Counted, Sparing

LEMMA RoundsAtStart == ASSUME RoundsInit PROVE RoundsInv
<1>1. 0 \in Version /\ \A v \in Version : v \in Nat
  BY RoundsAssumption DEF Version
<1>2. attempt \in Record /\ loader \in Loader
  BY <1>1, RoundsAssumption DEF RoundsInit, NoRecord, NoLoader, Record, Loader
<1>3. RoundsTypes
  BY <1>1, <1>2, RoundsAssumption
  DEF RoundsInit, RoundsTypes, RoundsTypeOK, NoRecord, NoLoader, Version
<1>4. NewerOnly /\ Counted /\ Sparing
  BY <1>1, RoundsAssumption DEF RoundsInit, NewerOnly, Counted, Sparing, NoRecord, NoLoader
<1> QED BY <1>3, <1>4 DEF RoundsInv

LEMMA RecordedType ==
  ASSUME RoundsTypes, NEW v \in Version, NEW b \in BOOLEAN, NEW d \in BOOLEAN
  PROVE  /\ Recorded(v, b, d) \in Record /\ Recorded(v, b, d).v = v
         /\ attempt.v = v => Recorded(v, b, d).n = attempt.n + 1
         /\ Recorded(v, b, d).n > 0
BY DEF Recorded, RoundsTypes, Record

(* The versions are ordered as numbers.                                      *)
LEMMA Versions ==
  ASSUME RoundsInv
  PROVE  /\ Version \subseteq Nat /\ installed \in Version /\ latest \in Version
         /\ attempt.v \in Version /\ offered \in Version /\ loader.v \in Version
         /\ attempt.n \in Nat /\ MaxAuto \in Nat /\ installed <= latest
         /\ \A v \in Version : launches[v] \in Nat
<1>1. MaxVersion \in Nat /\ MaxAuto \in Nat /\ Version \subseteq Nat
  BY RoundsAssumption DEF Version
<1>2. attempt.v \in Version /\ attempt.n \in Nat /\ offered \in Version /\ loader.v \in Version
      /\ \A v \in Version : launches[v] \in Nat
  BY DEF RoundsInv, RoundsTypes, Record, Loader
<1>3. installed \in Version /\ latest \in Version /\ installed <= latest
  BY <1>1 DEF RoundsInv, RoundsTypes, RoundsTypeOK, Version
<1> QED BY <1>1, <1>2, <1>3

LEMMA PublishKeeps == ASSUME RoundsInv, Publish PROVE RoundsInv'
<1>1. latest' = latest + 1 /\ latest' <= MaxVersion
  BY RoundsAssumption, Versions DEF Publish, Version
<1>2. /\ UNCHANGED <<installed, attempt, phase, wants, button, offered, loader, back, setup,
                     granted, urgent, launches, clock, linked>>
  BY DEF Publish, disk, page, listen
<1>3. RoundsTypes'
  BY <1>1, <1>2, Versions DEF RoundsInv, RoundsTypes, RoundsTypeOK
<1> QED BY <1>1, <1>2, <1>3, Versions DEF RoundsInv, NewerOnly, Counted, Sparing

LEMMA QuietStepsSafe ==
  ASSUME RoundsInv, Soon \/ HalfHour \/ AskCheck \/ Free \/ Plays \/ Connects \/ Retry
                    \/ (\E b \in BOOLEAN : Hears(b))
  PROVE  RoundsInv'
<1>1. CASE HalfHour
  <2>1. clock' \in Nat BY <1>1 DEF HalfHour, RoundsInv, RoundsTypes
  <2> QED BY <1>1, <2>1, PermissionsKept
    DEF HalfHour, roundsCore, disk, page, listen, counts, RoundsInv, RoundsTypes, RoundsTypeOK
<1>2. CASE Connects
  <2>1. linked' \in BOOLEAN BY <1>2, Zenon DEF Connects
  <2> QED BY <1>2, <2>1, PermissionsKept
    DEF Connects, roundsCore, disk, page, listen, counts, RoundsInv, RoundsTypes, RoundsTypeOK
<1>3. CASE ~HalfHour /\ ~Connects
  <2>1. UNCHANGED roundsCore /\ UNCHANGED <<clock, linked, wants, granted, urgent>>
    BY <1>3 DEF Soon, AskCheck, Free, Plays, Retry, Hears, roundsCore, disk, page, listen, world
  <2> QED BY <2>1, RoundsStay
<1> QED BY <1>1, <1>2, <1>3

LEMMA GrantSafe == ASSUME RoundsInv, NEW r \in BOOLEAN, Grant(r) PROVE RoundsInv'
<1>1. UNCHANGED roundsCore /\ UNCHANGED <<clock, linked, wants>>
  BY DEF Grant, roundsCore, disk, page, world
<1>2. /\ granted \in [Version -> Int] /\ latest \in Version /\ clock \in Nat
      /\ urgent \subseteq {v \in Version : granted[v] >= 0}
  BY Versions DEF RoundsInv, RoundsTypes, RoundsTypeOK
<1>3. /\ granted' = [granted EXCEPT ![latest] = clock]
      /\ urgent' \subseteq urgent \cup {latest}
  BY DEF Grant
<1>4. granted' \in [Version -> Int] BY <1>2, <1>3
<1>5. urgent' \subseteq {v \in Version : granted'[v] >= 0} BY <1>2, <1>3
<1> QED BY <1>1, <1>2, <1>4, <1>5, PermissionsKept DEF RoundsInv, RoundsTypes, RoundsTypeOK

LEMMA SetsSafe == ASSUME RoundsInv, NEW w \in {"none", "ask", "all"}, Sets(w) PROVE RoundsInv'
BY PermissionsKept
  DEF Sets, roundsCore, disk, page, listen, world, RoundsInv, RoundsTypes, RoundsTypeOK

LEMMA QuitsSafe == ASSUME RoundsInv, Quits PROVE RoundsInv'
BY DEF Quits, page, listen, world, RoundsInv, RoundsTypes, RoundsTypeOK, NewerOnly, Counted, Sparing

(* A download begins: of a version that is newer than what runs and, when it *)
(* is in the background, not blocked.                                        *)
LEMMA DownloadKeeps ==
  ASSUME RoundsInv, NEW v \in Version,
         \/ UNCHANGED <<back, loader, button>>
         \/ loader' = [v |-> v, is |-> "runs"] /\ button' = "grey"
            /\ (back' => attempt.v # v \/ attempt.n < MaxAuto),
         phase = "on", v > installed, v >= attempt.v, v <= latest, offered' \in Version,
         button = "open" => offered' >= attempt.v /\ offered' > installed /\ offered' <= latest,
         UNCHANGED <<installed, latest, attempt, phase, setup, launches, clock, linked, wants, granted,
                     urgent>>
  PROVE  RoundsInv'
<1>1. CASE UNCHANGED <<back, loader, button>>
  BY <1>1, Versions DEF RoundsInv, RoundsTypes, RoundsTypeOK, NewerOnly, Counted, Sparing
<1>2. CASE loader' = [v |-> v, is |-> "runs"] /\ button' = "grey"
           /\ (back' => attempt.v # v \/ attempt.n < MaxAuto)
  <2>1. loader' \in Loader /\ loader'.v = v BY <1>2 DEF Loader
  <2>2. RoundsTypes'
    BY <1>2, <2>1, Versions DEF RoundsInv, RoundsTypes, RoundsTypeOK
  <2> QED BY <1>2, <2>1, <2>2, Versions DEF RoundsInv, NewerOnly, Counted, Sparing
<1> QED BY <1>1, <1>2

LEMMA CheckEndsSafe == ASSUME RoundsInv, CheckEnds PROVE RoundsInv'
<1>1. /\ UNCHANGED <<installed, latest, attempt, phase, setup, launches, clock, linked, wants,
                   granted, urgent>>
      /\ phase = "on"
  BY DEF CheckEnds, disk, listen, world
<1>2. ASSUME UNCHANGED <<back, loader>>, offered' \in {offered, latest},
             \/ button' \in {button, Hidden} /\ UNCHANGED offered
             \/ button' = Shown /\ offered' = latest /\ latest > installed
      PROVE  RoundsInv'
  <2>1. button' \in {"hidden", "open", "grey", "gone"} /\ offered' \in Version
    BY <1>2, Versions DEF Hidden, Shown, RoundsInv, RoundsTypes, RoundsTypeOK
  <2>2. /\ attempt.v <= latest
        /\ button = "open" => attempt.v <= offered /\ installed < offered /\ offered <= latest
    BY DEF RoundsInv, NewerOnly
  <2>3. Hidden # "open" /\ (button \in {"grey", "gone"} => Hidden \in {"grey", "gone"})
                        /\ (button \in {"grey", "gone"} => Shown \in {"grey", "gone"})
    BY DEF Hidden, Shown
  <2>4. button \in {"grey", "gone"} => button' \in {"grey", "gone"}
    BY <1>2, <2>2, <2>3
  <2>5. latest <= latest
    BY Versions
  <2>6. button' = "open" => attempt.v <= offered' /\ installed < offered' /\ offered' <= latest
    BY <1>2, <2>2, <2>3, <2>5, Versions
  <2>7. RoundsTypes'
    BY <1>1, <1>2, <2>1 DEF RoundsInv, RoundsTypes, RoundsTypeOK
  <2> QED BY <1>1, <1>2, <2>4, <2>6, <2>7 DEF RoundsInv, NewerOnly, Counted, Sparing
<1>3. CASE /\ latest > installed /\ Installs(wants) /\ offered' = latest
           /\ ~(checker.silent /\ (Blocked(latest) \/ Waits(latest)))
           /\ Download(latest, checker.silent, FALSE)
  <2>1. checker.silent => ~Blocked(latest) BY <1>3
  <2>2. attempt.v = latest => attempt.n \in Nat /\ (attempt.n = 0 \/ ~(attempt.n >= MaxAuto) \/ Blocked(latest))
    BY Versions DEF Blocked
  <2>3. checker.silent => attempt.v # latest \/ attempt.n < MaxAuto
    BY <2>1, <2>2, Versions, RoundsAssumption
  <2>4. attempt.v <= latest BY DEF RoundsInv, NewerOnly
  <2>5. latest \in Version /\ latest > installed /\ latest >= attempt.v /\ latest <= latest
    BY <1>3, <2>4, Versions
  <2>0. offered' = latest BY <1>3
  <2>6. offered' \in Version /\ (button = "open" =>
          offered' >= attempt.v /\ offered' > installed /\ offered' <= latest)
    BY <2>0, <2>5, Versions
  <2>7. IF loader.is = "runs" THEN UNCHANGED <<back, loader, button>>
        ELSE loader' = [v |-> latest, is |-> "runs"] /\ button' = "grey" /\ back' = checker.silent
    BY <1>3, Zenon DEF Download
  <2>8. \/ UNCHANGED <<back, loader, button>>
        \/ loader' = [v |-> latest, is |-> "runs"] /\ button' = "grey"
           /\ (back' => attempt.v # latest \/ attempt.n < MaxAuto)
    BY <2>3, <2>7, Zenon
  <2> QED BY <1>1, <2>5, <2>6, <2>8, DownloadKeeps
<1> QED BY <1>1, <1>2, <1>3 DEF CheckEnds

LEMMA ClickSafe == ASSUME RoundsInv, Click PROVE RoundsInv'
<1>1. /\ UNCHANGED <<installed, latest, attempt, phase, setup, launches, clock, linked, wants,
                     granted, urgent, offered>>
      /\ phase = "on" /\ button = "open"
  BY DEF Click, disk, listen, world
<1>2. offered >= attempt.v /\ offered > installed /\ offered <= latest /\ offered \in Version
  BY <1>1, Versions DEF RoundsInv, NewerOnly
<1>3. CASE Installs(wants) /\ Download(offered, FALSE, busy)
  <2>1. \/ UNCHANGED <<back, loader, button>>
        \/ loader' = [v |-> offered, is |-> "runs"] /\ button' = "grey"
           /\ (back' => attempt.v # offered \/ attempt.n < MaxAuto)
    BY <1>3, Zenon DEF Download
  <2>2. offered' \in Version /\ offered' >= attempt.v /\ offered' > installed /\ offered' <= latest
    BY <1>1, <1>2
  <2> QED BY <1>1, <1>2, <2>1, <2>2, DownloadKeeps
<1>4. CASE button' = Hidden /\ UNCHANGED <<busy, back, loader>>
  <2>1. button' = "hidden" BY <1>1, <1>4 DEF Hidden
  <2>2. loader.is = "none" BY <1>1 DEF RoundsInv, NewerOnly
  <2> QED BY <1>1, <1>4, <2>1, <2>2 DEF RoundsInv, RoundsTypes, RoundsTypeOK, NewerOnly, Counted, Sparing
<1> QED BY <1>3, <1>4 DEF Click

(* A download or its installation is given up, written down or not.          *)
LEMMA GivenUp ==
  ASSUME RoundsInv, phase = "on", loader.is # "none", loader' = NoLoader, button' = Hidden,
         NEW b \in BOOLEAN, NEW d \in BOOLEAN, attempt' \in {attempt, Recorded(loader.v, b, d)},
         setup' \in {setup, FALSE},
         UNCHANGED <<installed, latest, phase, launches, clock, linked, wants, granted, urgent,
                     offered>>
  PROVE  RoundsInv'
<1>1. attempt'.v \in {attempt.v, loader.v} /\ attempt' \in Record /\ attempt'.n \in Nat
      /\ loader.v >= attempt.v /\ loader.v > installed /\ loader.v <= latest
  <2>1. loader.v >= attempt.v /\ loader.v > installed BY DEF RoundsInv, NewerOnly
  <2>2. loader.v <= latest BY Versions DEF RoundsInv, RoundsTypes, RoundsTypeOK, Version
  <2>3. attempt \in Record /\ Recorded(loader.v, b, d) \in Record
        /\ Recorded(loader.v, b, d).v = loader.v
    BY Versions, RecordedType DEF RoundsInv, RoundsTypes
  <2> QED BY <2>1, <2>2, <2>3 DEF Record
<1>2. button' = "gone"
  <2>1. button \in {"grey", "gone"} BY DEF RoundsInv, NewerOnly
  <2> QED BY <2>1 DEF Hidden
<1>3. loader' \in Loader /\ loader'.is = "none" /\ loader'.v \in 0..latest
  BY Versions, RoundsAssumption DEF NoLoader, Loader, Version
<1>4. RoundsTypes'
  <2>1. attempt'.v \in Version BY <1>1 DEF Record
  <2> QED BY <1>1, <1>2, <1>3, <2>1 DEF RoundsInv, RoundsTypes, RoundsTypeOK
<1>5. NewerOnly'
  <2>1. attempt'.v <= latest BY <1>1, Versions DEF RoundsInv, NewerOnly
  <2>2. attempt'.v > installed \/ attempt'.v = attempt.v BY <1>1, Versions
  <2>3. phase' = "installing" \/ (phase' = "on" /\ setup') => attempt'.v > installed'
    BY <2>2 DEF RoundsInv, NewerOnly
  <2> QED BY <1>2, <1>3, <2>1, <2>3 DEF NewerOnly
<1>6. Counted'
  <2>1. \A v \in Version : launches[v] > 0 => v <= attempt'.v \/ v <= installed
    BY <1>1, Versions DEF RoundsInv, Counted
  <2>2. attempt'.v > installed => launches[attempt'.v] <= attempt'.n
    <3>1. CASE attempt' = attempt BY <3>1 DEF RoundsInv, Counted
    <3>2. CASE attempt' = Recorded(loader.v, b, d)
      <4>1. attempt'.v = loader.v /\ attempt'.n > 0 /\ (attempt.v = loader.v => attempt'.n = attempt.n + 1)
        BY <3>2, RecordedType, Versions DEF RoundsInv
      <4>2. CASE attempt.v = loader.v
        BY <4>1, <4>2, <1>1, Versions DEF RoundsInv, Counted
      <4>3. CASE attempt.v # loader.v
        <5>1. loader.v > attempt.v /\ loader.v > installed BY <4>3, <1>1, Versions
        <5>2. ~(launches[loader.v] > 0) BY <5>1, Versions DEF RoundsInv, Counted
        <5> QED BY <4>1, <5>2, <1>1, Versions
      <4> QED BY <4>2, <4>3
    <3> QED BY <3>1, <3>2
  <2> QED BY <1>3, <2>1, <2>2 DEF Counted
<1> QED BY <1>4, <1>5, <1>6 DEF RoundsInv, Sparing

LEMMA DownloadEndsSafe == ASSUME RoundsInv, DownloadEnds PROVE RoundsInv'
<1>1. /\ UNCHANGED <<latest, setup, launches, clock, linked, wants, granted, urgent, back>>
      /\ phase = "on" /\ loader.is = "runs"
  BY DEF DownloadEnds, listen, world
<1>2. CASE loader' = [loader EXCEPT !.is = "ready"] /\ UNCHANGED <<busy, page, disk, counts>>
  <2>1. loader' \in Loader /\ loader'.v = loader.v /\ loader'.is = "ready"
    BY <1>2 DEF RoundsInv, RoundsTypes, Loader
  <2> QED BY <1>1, <1>2, <2>1
    DEF page, disk, RoundsInv, RoundsTypes, RoundsTypeOK, NewerOnly, Counted, Sparing
<1>3. CASE loader' = NoLoader /\ Failed(TRUE)
  <2>1. attempt' = Recorded(loader.v, FALSE, FALSE) /\ button' = Hidden
        /\ UNCHANGED <<offered, installed, phase>>
    BY <1>3 DEF Failed
  <2> QED BY <1>1, <1>3, <2>1, GivenUp
<1>4. CASE loader' = NoLoader /\ Failed(FALSE)
  <2>1. attempt' = attempt /\ button' = Hidden /\ UNCHANGED <<offered, installed, phase>>
    BY <1>4 DEF Failed
  <2> QED BY <1>1, <1>4, <2>1, GivenUp
<1> QED BY <1>2, <1>3, <1>4 DEF DownloadEnds

(* The installer is started: by itself no oftener than the record says.      *)
LEMMA ApplySafe == ASSUME RoundsInv, Apply PROVE RoundsInv'
<1>1. /\ UNCHANGED <<installed, latest, phase, clock, linked, wants, granted, urgent, back, offered>>
      /\ phase = "on" /\ loader.is # "none" /\ ~setup /\ linked \in BOOLEAN
  BY DEF Apply, listen, world, disk, page, RoundsInv, RoundsTypes
<1>2. CASE /\ button' = Hidden /\ loader' = NoLoader /\ UNCHANGED <<setup, launches>>
           /\ attempt' \in {attempt, Recorded(loader.v, linked, TRUE)}
  BY <1>1, <1>2, GivenUp
<1>3. CASE /\ attempt' = Recorded(loader.v, linked, TRUE) /\ setup' = TRUE
           /\ launches' = [launches EXCEPT ![loader.v] = IF back THEN @ + 1 ELSE @]
           /\ UNCHANGED <<button, loader>>
  <2>1. /\ attempt' = Recorded(loader.v, linked, TRUE) /\ UNCHANGED <<button, loader>>
        /\ launches' = [launches EXCEPT ![loader.v] = IF back THEN @ + 1 ELSE @]
        /\ setup' = TRUE
    BY <1>3
  <2>2. /\ attempt' \in Record /\ attempt'.v = loader.v /\ attempt'.n \in Nat /\ attempt'.n > 0
        /\ attempt.v = loader.v => attempt'.n = attempt.n + 1
    <3>1. loader.v \in Version /\ RoundsTypes BY Versions DEF RoundsInv
    <3>2. /\ Recorded(loader.v, linked, TRUE) \in Record /\ Recorded(loader.v, linked, TRUE).v = loader.v
          /\ attempt.v = loader.v => Recorded(loader.v, linked, TRUE).n = attempt.n + 1
          /\ Recorded(loader.v, linked, TRUE).n > 0
      BY <1>1, <3>1, RecordedType
    <3>3. attempt'.n \in Nat BY <2>1, <3>2 DEF Record
    <3> QED BY <2>1, <3>2, <3>3
  <2>3. loader.v >= attempt.v /\ loader.v > installed BY <1>1 DEF RoundsInv, NewerOnly
  <2>4. loader.v <= latest /\ loader.v \in Version
    BY Versions DEF RoundsInv, RoundsTypes, RoundsTypeOK, Version
  <2>5. /\ launches' \in [Version -> Nat]
        /\ \A v \in Version : v # loader.v => launches'[v] = launches[v]
        /\ launches'[loader.v] = launches[loader.v] \/ (back /\ launches'[loader.v] = launches[loader.v] + 1)
    BY <2>1, <2>4, Versions DEF RoundsInv, RoundsTypes
  <2>6. launches[loader.v] <= attempt'.n - 1
    <3>1. CASE attempt.v = loader.v
      BY <2>2, <2>3, <3>1, Versions DEF RoundsInv, Counted
    <3>2. CASE attempt.v # loader.v
      <4>1. loader.v > attempt.v BY <2>3, <3>2, Versions
      <4>2. ~(launches[loader.v] > 0) BY <2>3, <2>4, <4>1, Versions DEF RoundsInv, Counted
      <4> QED BY <2>2, <2>4, <4>2, Versions
    <3> QED BY <3>1, <3>2
  <2>7. launches'[loader.v] <= attempt'.n /\ launches'[loader.v] <= MaxAuto
    <3>1. back => attempt.v # loader.v \/ attempt.n < MaxAuto
      BY <1>1 DEF RoundsInv, Counted
    <3>2. launches'[loader.v] <= attempt'.n
      BY <2>2, <2>4, <2>5, <2>6, Versions
    <3>3. CASE launches'[loader.v] = launches[loader.v]
      BY <3>2, <3>3, <2>4 DEF RoundsInv, Sparing
    <3>4. CASE back /\ launches'[loader.v] = launches[loader.v] + 1
      <4>1. CASE attempt.v = loader.v
        BY <2>2, <2>6, <3>1, <3>2, <3>4, <4>1, <2>4, Versions
      <4>2. CASE attempt.v # loader.v
        <5>1. loader.v > attempt.v BY <2>3, <4>2, Versions
        <5>2. ~(launches[loader.v] > 0) BY <2>3, <2>4, <5>1, Versions DEF RoundsInv, Counted
        <5>3. launches[loader.v] = 0 BY <5>2, <2>4, Versions
        <5> QED BY <3>2, <3>4, <5>3, Versions, RoundsAssumption
      <4> QED BY <4>1, <4>2
    <3> QED BY <3>2, <3>3, <3>4, <2>5
  <2>8. RoundsTypes'
    BY <1>1, <2>1, <2>2, <2>4, <2>5 DEF RoundsInv, RoundsTypes, RoundsTypeOK
  <2>9. NewerOnly'
    <3>1. button \in {"grey", "gone"} BY <1>1 DEF RoundsInv, NewerOnly
    <3>2. attempt'.v <= latest BY <2>2, <2>4
    <3>3. button' \in {"grey", "gone"} BY <2>1, <3>1
    <3>4. loader'.v > installed /\ loader'.v >= attempt'.v /\ attempt'.v > installed
      <4>1. loader.v \in Nat /\ loader' = loader /\ attempt'.v = loader.v BY <2>1, <2>2, Versions
      <4> QED BY <4>1, <2>3
    <3> QED BY <1>1, <3>2, <3>3, <3>4 DEF NewerOnly
  <2>10. Sparing' BY <2>5, <2>7 DEF RoundsInv, Sparing
  <2>11. \A v \in Version : launches'[v] > 0 => v <= attempt'.v \/ v <= installed
    BY <2>2, <2>3, <2>4, <2>5, Versions DEF RoundsInv, Counted
  <2>12. Counted' BY <1>1, <2>1, <2>2, <2>7, <2>11 DEF Counted
  <2> QED BY <2>8, <2>9, <2>10, <2>12 DEF RoundsInv
<1> QED BY <1>2, <1>3 DEF Apply, page

LEMMA AwaitSafe == ASSUME RoundsInv, Await PROVE RoundsInv'
<1>1. /\ UNCHANGED <<latest, launches, clock, linked, wants, granted, urgent, back>>
      /\ phase = "on" /\ setup /\ setup' = FALSE
  BY DEF Await, listen, world
<1>2. CASE phase' = "installing"
          /\ UNCHANGED <<busy, button, offered, installed, attempt, restore, counts, loader>>
  BY <1>1, <1>2 DEF RoundsInv, RoundsTypes, RoundsTypeOK, NewerOnly, Counted, Sparing
<1>3. CASE Failed(FALSE) /\ loader' = NoLoader
  <2>1. button' = Hidden /\ attempt' = attempt /\ UNCHANGED <<offered, installed, phase>>
    BY <1>3 DEF Failed
  <2>2. CASE loader.is # "none" BY <1>1, <1>3, <2>1, <2>2, GivenUp
  <2>3. CASE loader.is = "none"
    <3>1. loader' \in Loader /\ loader'.is = "none" /\ loader'.v \in 0..latest
      BY <1>3, Versions, RoundsAssumption DEF NoLoader, Loader, Version
    <3>2. button' \in {"hidden", "gone"} BY <2>1 DEF Hidden
    <3> QED BY <1>1, <1>3, <2>1, <3>1, <3>2
      DEF RoundsInv, RoundsTypes, RoundsTypeOK, NewerOnly, Counted, Sparing
  <2> QED BY <2>2, <2>3
<1> QED BY <1>1, <1>2, <1>3 DEF Await

LEMMA InstallSafe == ASSUME RoundsInv, Install PROVE RoundsInv'
<1>1. /\ UNCHANGED <<latest, launches, clock, linked, wants, granted, urgent, back, attempt, setup,
                     button, offered, loader>>
      /\ phase = "installing" /\ phase' = "off" /\ installed' \in {installed, attempt.v}
  BY DEF Install, listen, world, page
<1>2. attempt.v > installed /\ attempt.v <= latest BY <1>1 DEF RoundsInv, NewerOnly
<1>3. installed' \in Version /\ installed' >= installed /\ installed' <= latest
  BY <1>1, <1>2, Versions
<1>4. RoundsTypes'
  <2>1. latest \in installed'..MaxVersion BY <1>3, Versions, RoundsAssumption DEF Version
  <2> QED BY <1>1, <1>3, <2>1 DEF RoundsInv, RoundsTypes, RoundsTypeOK
<1>5. button \in {"grey", "gone"} BY <1>1 DEF RoundsInv, NewerOnly
<1>6. Counted' BY <1>1, <1>2, <1>3, Versions DEF RoundsInv, Counted
<1> QED BY <1>1, <1>3, <1>4, <1>5, <1>6, Versions DEF RoundsInv, NewerOnly, Sparing

LEMMA StartSafe == ASSUME RoundsInv, Start PROVE RoundsInv'
<1>1. /\ UNCHANGED <<latest, installed, launches, clock, wants>> /\ phase' = "on"
      /\ loader' = NoLoader /\ setup' = FALSE /\ button' = "hidden" /\ offered' = 0
      /\ granted' = [v \in Version |-> -1] /\ urgent' = {} /\ back' = FALSE
      /\ attempt' = IF attempt.n > 0 /\ attempt.v <= installed THEN NoRecord
                    ELSE [attempt EXCEPT !.due = FALSE]
  BY DEF Start, Fresh
<1>2. linked' \in BOOLEAN
  <2>1. attempt.back \in BOOLEAN BY DEF RoundsInv, RoundsTypes, Record
  <2>2. linked' \in {attempt.back} \/ linked' \in BOOLEAN BY Zenon DEF Start
  <2> QED BY <2>1, <2>2
<1>3. NoRecord \in Record /\ NoLoader \in Loader /\ 0 \in Version /\ NoLoader.v \in 0..latest
  BY Versions, RoundsAssumption DEF NoRecord, NoLoader, Record, Loader, Version
<1>4. attempt' \in Record
      /\ (\/ attempt'.v = attempt.v /\ attempt'.n = attempt.n
          \/ attempt.v <= installed /\ attempt'.v = 0)
  <2>1. [attempt EXCEPT !.due = FALSE] \in Record
        /\ [attempt EXCEPT !.due = FALSE].v = attempt.v
        /\ [attempt EXCEPT !.due = FALSE].n = attempt.n
    BY DEF RoundsInv, RoundsTypes, Record
  <2>2. NoRecord.v = 0 BY DEF NoRecord
  <2> QED BY <1>1, <1>3, <2>1, <2>2
<1>5. RoundsTypes'
  <2>1. granted' \in [Version -> Int] BY <1>1
  <2>2. attempt'.v \in Version /\ attempt'.n \in Nat BY <1>4 DEF Record
  <2> QED BY <1>1, <1>2, <1>3, <1>4, <2>1, <2>2 DEF RoundsInv, RoundsTypes, RoundsTypeOK
<1>6. NewerOnly'
  <2>1. attempt'.v <= latest BY <1>4, Versions, RoundsAssumption DEF RoundsInv, NewerOnly
  <2> QED BY <1>1, <2>1 DEF NewerOnly, NoLoader
<1>7. Counted'
  <2>1. \A v \in Version : launches[v] > 0 => v <= attempt'.v \/ v <= installed
    BY <1>4, Versions DEF RoundsInv, Counted
  <2>2. attempt'.v > installed => launches[attempt'.v] <= attempt'.n
    BY <1>4, Versions DEF RoundsInv, Counted
  <2> QED BY <1>1, <2>1, <2>2 DEF Counted
<1> QED BY <1>1, <1>5, <1>6, <1>7 DEF RoundsInv, Sparing

LEMMA RoundsStep == ASSUME RoundsInv, [RoundsNext]_roundsVars PROVE RoundsInv'
<1>1. CASE UNCHANGED roundsVars BY <1>1, RoundsStay DEF roundsVars, roundsCore
<1>2. CASE RoundsNext
  BY <1>2, QuietStepsSafe, CheckEndsSafe, ClickSafe, DownloadEndsSafe, ApplySafe, AwaitSafe,
     InstallSafe, StartSafe, GrantSafe, PublishKeeps, SetsSafe, QuitsSafe DEF RoundsNext
<1> QED BY <1>1, <1>2

(* For every number of versions, attempts allowed and faults: the installer  *)
(* of one version is started by the program itself at most MAX_AUTO_ATTEMPTS *)
(* times, over restarts, rollbacks and failures (auto_update.py).            *)
THEOREM RoundsAreSafe == RoundsSpec => []RoundsSafe
<1>1. RoundsInv => RoundsSafe BY DEF RoundsInv, RoundsTypes, RoundsSafe
<1> QED BY <1>1, RoundsAtStart, RoundsStep, PTL DEF RoundsSpec

(* What the installer's restart has to bring back is what the record says.   *)
ReturnInv ==
  /\ attempt.due => attempt.n > 0
  /\ restore # "nothing" /\ attempt.due => attempt.back = (restore = "on")

LEMMA ReturnStep == ASSUME RoundsInv, ReturnInv, RoundsNext PROVE ReturnInv'
<1>1. /\ attempt \in Record /\ loader.v \in Version /\ linked \in BOOLEAN /\ RoundsTypes
      /\ \A b, d \in BOOLEAN : Recorded(loader.v, b, d).n > 0
  BY Versions, RecordedType DEF RoundsInv, RoundsTypes
<1>2. CASE UNCHANGED attempt /\ restore' \in {restore, "nothing"} BY <1>2 DEF ReturnInv
<1>3. CASE attempt' = Recorded(loader.v, FALSE, FALSE)
  BY <1>3 DEF ReturnInv, Recorded
<1>4. CASE Apply
  <2>1. CASE restore' = "nothing" /\ attempt' \in {attempt, Recorded(loader.v, linked, TRUE)}
    <3>1. attempt' = attempt \/ attempt'.n > 0 BY <1>1, <2>1
    <3> QED BY <2>1, <3>1 DEF ReturnInv
  <2>2. CASE attempt' = Recorded(loader.v, linked, TRUE) /\ restore' = IF linked THEN "on" ELSE "off"
    <3>1. attempt'.back = linked BY <2>2 DEF Recorded
    <3>2. attempt'.n > 0 BY <1>1, <2>2
    <3>3. (restore' = "on") = linked
      <4>1. CASE linked = TRUE BY <2>2, <4>1
      <4>2. CASE linked = FALSE BY <2>2, <4>2
      <4> QED BY <1>1, <4>1, <4>2
    <3> QED BY <3>1, <3>2, <3>3 DEF ReturnInv
  <2> QED BY <1>4, <2>1, <2>2, Zenon DEF Apply
<1>5. CASE DownloadEnds \/ Await
  BY <1>2, <1>3, <1>5 DEF DownloadEnds, Await, Failed, disk
<1>6. CASE Start
  <2>1. attempt' = NoRecord \/ attempt' = [attempt EXCEPT !.due = FALSE] BY <1>6 DEF Start
  <2>2. attempt'.due = FALSE BY <1>1, <2>1 DEF Record, NoRecord
  <2> QED BY <2>2 DEF ReturnInv
<1>7. ~(DownloadEnds \/ Await \/ Apply \/ Start) => UNCHANGED <<attempt, restore>>
  <2>1. Soon \/ HalfHour \/ AskCheck \/ CheckEnds \/ Free \/ Click \/ Install
          => UNCHANGED <<attempt, restore>>
    BY DEF Soon, HalfHour, AskCheck, CheckEnds, Free, Click, Install, disk
  <2>2. (\E b \in BOOLEAN : Hears(b) \/ Grant(b)) \/ Retry \/ Publish \/ Plays \/ Connects \/ Quits
          => UNCHANGED <<attempt, restore>>
    BY DEF Hears, Grant, Retry, Publish, Plays, Connects, Quits, disk
  <2>3. (\E w \in {"none", "ask", "all"} : Sets(w)) => UNCHANGED <<attempt, restore>>
    BY DEF Sets, disk
  <2> QED BY <2>1, <2>2, <2>3 DEF RoundsNext
<1> QED BY <1>2, <1>4, <1>5, <1>6, <1>7

LEMMA ReturnedStep ==
  ASSUME RoundsInv, ReturnInv, [RoundsNext]_roundsVars,
         phase = "off", phase' = "on", restore # "nothing", attempt.due, clock = attempt.at
  PROVE  linked' = (restore = "on")
<1>1. RoundsNext BY DEF roundsVars
<1>2. Start
  <2>1. ~(Soon \/ HalfHour \/ AskCheck \/ CheckEnds \/ Free \/ Click)
    BY DEF Soon, HalfHour, AskCheck, CheckEnds, Free, Click, disk
  <2>2. ~(DownloadEnds \/ Apply \/ Await \/ Install)
    BY DEF DownloadEnds, Apply, Await, Install
  <2>3. ~(\E b \in BOOLEAN : Hears(b) \/ Grant(b)) /\ ~(\E w \in {"none", "ask", "all"} : Sets(w))
    BY DEF Hears, Grant, Sets
  <2>4. ~(Retry \/ Publish \/ Plays \/ Connects \/ Quits)
    BY DEF Retry, Publish, Plays, Connects, Quits, disk
  <2> QED BY <1>1, <2>1, <2>2, <2>3, <2>4 DEF RoundsNext
<1>3. linked' = attempt.back
  <2>1. attempt.n > 0 BY DEF ReturnInv
  <2> QED BY <1>2, <2>1 DEF Start
<1> QED BY <1>3 DEF ReturnInv

(* A download that the program starts by itself was not blocked.             *)
LEMMA PausedStep ==
  ASSUME RoundsInv, [RoundsNext]_roundsVars, loader'.is = "runs", loader' # loader, back'
  PROVE  ~(attempt.n > 0 /\ attempt.v = loader'.v /\ clock - attempt.at < Pause(attempt.n))
<1>1. RoundsNext BY DEF roundsVars
<1>2. CheckEnds \/ Click
  <2>1. ~(Soon \/ HalfHour \/ AskCheck \/ Free \/ Install)
    BY DEF Soon, HalfHour, AskCheck, Free, Install
  <2>2. Apply \/ Await \/ Start \/ DownloadEnds
          => loader' \in {loader, NoLoader} \/ loader' = [loader EXCEPT !.is = "ready"]
    BY Zenon DEF Apply, Await, Start, Fresh, DownloadEnds
  <2>3. NoLoader.is # "runs" /\ [loader EXCEPT !.is = "ready"].is # "runs"
    BY DEF NoLoader, RoundsInv, RoundsTypes, Loader
  <2>4. ~(\E b \in BOOLEAN : Hears(b) \/ Grant(b)) /\ ~(\E w \in {"none", "ask", "all"} : Sets(w))
    BY DEF Hears, Grant, Sets
  <2>5. ~(Retry \/ Publish \/ Plays \/ Connects \/ Quits)
    BY DEF Retry, Publish, Plays, Connects, Quits
  <2> QED BY <1>1, <2>1, <2>2, <2>3, <2>4, <2>5 DEF RoundsNext
<1>3. ~Click
  <2>1. Click => UNCHANGED loader \/ back' = FALSE BY Zenon DEF Click, Download
  <2> QED BY <2>1
<1>4. loader'.v = latest /\ ~Blocked(latest)
  <2>1. CASE Download(latest, checker.silent, FALSE)
             /\ ~(checker.silent /\ (Blocked(latest) \/ Waits(latest)))
    <3>1. back' = checker.silent /\ loader' = [v |-> latest, is |-> "runs"]
      BY <2>1, Zenon DEF Download
    <3>2. checker.silent BY <3>1, Zenon
    <3> QED BY <2>1, <3>1, <3>2
  <2>2. CheckEnds => UNCHANGED loader \/ (Download(latest, checker.silent, FALSE)
                       /\ ~(checker.silent /\ (Blocked(latest) \/ Waits(latest))))
    BY DEF CheckEnds
  <2> QED BY <1>2, <1>3, <2>1, <2>2
<1> QED BY <1>4 DEF Blocked

(* An archive that failed is not fetched by the program before its pause is  *)
(* over, and a restart brings back the connection that was written down with *)
(* the attempt, however the installation ended.                              *)
LEMMA RoundsHoldTheirWord == RoundsInit /\ [][RoundsNext]_roundsVars => RoundsKept
<1>1. RoundsInit => ReturnInv BY DEF RoundsInit, ReturnInv, NoRecord
<1>2. RoundsInv /\ ReturnInv /\ [RoundsNext]_roundsVars => ReturnInv'
  BY ReturnStep DEF roundsVars, ReturnInv
<1>3. RoundsInv /\ ReturnInv /\ [RoundsNext]_roundsVars
        => [(phase = "off" /\ phase' = "on" /\ restore # "nothing" /\ attempt.due /\ clock = attempt.at)
             => linked' = (restore = "on")]_roundsVars
  BY ReturnedStep
<1>4. RoundsInv /\ [RoundsNext]_roundsVars
        => [(loader'.is = "runs" /\ loader' # loader /\ back')
             => ~(attempt.n > 0 /\ attempt.v = loader'.v /\ clock - attempt.at < Pause(attempt.n))]_roundsVars
  BY PausedStep
<1> QED BY <1>1, <1>2, <1>3, <1>4, RoundsAtStart, RoundsStep, PTL
  DEF RoundsKept, Paused, Resumed

(* The same of the rounds by themselves.                                     *)
THEOREM RoundsKeepTheirWord == RoundsSpec => RoundsKept
BY RoundsHoldTheirWord, PTL DEF RoundsSpec

-----------------------------------------------------------------------------
(* The rungs of a download.                                                  *)
Doors == {"github", "forgejo"}
DownloadInv ==
  /\ DownloadTypeOK
  /\ copies \in [Doors -> {"right", "wrong"}] /\ cuts \in Nat
  /\ tries \in Seq(Doors \X {"direct", "proxy"})
  /\ plan # NoPlan => tries # <<>> /\ rung \in {"delta", "ready"}
  /\ rung = "delta" => \A f \in File : tree[f] # "cut"
  /\ rung = "ready" => \A f \in File : tree[f] = "new"
  /\ rung = "unpack" => archive = "right"
  /\ via = "files" => Stored
  /\ via = "setup" => plan = NoPlan
  /\ rung \in {"store", "delta"} => via = "none"
  /\ rung = "verify" /\ archive # "right" => cuts > 0 \/ copies["forgejo"] = "wrong"
  /\ RightCopyServes

LEMMA PlaceOfTry == AllTries \in Seq(Doors \X {"direct", "proxy"})
<1>1. HasProxy \in BOOLEAN BY DownloadAssumption
<1>2. CASE HasProxy
  <2>1. Routes = <<"direct", "proxy">> /\ Len(Routes) = 2 BY <1>2 DEF Routes
  <2>2. \A i \in 1..4 : ((i - 1) \div 2) + 1 \in {1, 2} /\ ((i - 1) % 2) + 1 \in {1, 2} OBVIOUS
  <2>3. \A k \in {1, 2} : Places[k] \in Doors /\ <<"direct", "proxy">>[k] \in {"direct", "proxy"}
    BY DEF Places, Doors
  <2>4. AllTries = [i \in 1..4 |-> <<Places[((i - 1) \div 2) + 1], <<"direct", "proxy">>[((i - 1) % 2) + 1]>>]
    BY <2>1 DEF AllTries
  <2> QED BY <2>2, <2>3, <2>4
<1>3. CASE ~HasProxy
  <2>1. Routes = <<"direct">> /\ Len(Routes) = 1 BY <1>3 DEF Routes
  <2>2. \A i \in 1..2 : ((i - 1) \div 1) + 1 \in {1, 2} /\ ((i - 1) % 1) + 1 = 1 OBVIOUS
  <2>3. \A k \in {1, 2} : Places[k] \in Doors BY DEF Places, Doors
  <2>4. <<"direct">>[1] = "direct" OBVIOUS
  <2>5. AllTries = [i \in 1..2 |-> <<Places[((i - 1) \div 1) + 1], <<"direct">>[((i - 1) % 1) + 1]>>]
    BY <2>1 DEF AllTries
  <2> QED BY <2>2, <2>3, <2>4, <2>5
<1> QED BY <1>1, <1>2, <1>3

LEMMA ElsewhereTyped ==
  ASSUME tries \in Seq(Doors \X {"direct", "proxy"}) PROVE Elsewhere \in Seq(Doors \X {"direct", "proxy"})
<1> DEFINE others == {i \in DOMAIN tries : tries[i][1] # Head(tries)[1]}
           i == CHOOSE i \in others : \A j \in others : i <= j
<1>1. others \subseteq 1..Len(tries) /\ Len(tries) \in Nat /\ others \subseteq Nat OBVIOUS
<1>2. Elsewhere = IF others = {} THEN <<>> ELSE SubSeq(tries, i, Len(tries)) BY DEF Elsewhere
<1> HIDE DEF others
<1>3. CASE others # {}
  <2>1. \E x \in others : \A j \in others : x <= j BY <1>1, <1>3, LeastNumber
  <2>2. i \in others BY <2>1
  <2> HIDE DEF i
  <2>3. i \in 1..Len(tries) BY <1>1, <2>2
  <2>4. SubSeq(tries, i, Len(tries)) \in Seq(Doors \X {"direct", "proxy"}) BY <1>1, <2>3
  <2> QED BY <1>2, <1>3, <2>4
<1>4. CASE others = {} BY <1>2, <1>4
<1> QED BY <1>3, <1>4

LEMMA DownloadStarts == ASSUME DownloadInit PROVE DownloadInv
<1>1. tries \in Seq(Doors \X {"direct", "proxy"}) BY DEF DownloadInit
<1>2. tree \in [File -> {"none", "new", "cut"}] /\ \A f \in File : tree[f] # "cut" BY DEF DownloadInit, Empty
<1> QED BY <1>1, <1>2 DEF DownloadInit, DownloadInv, DownloadTypeOK, RightCopyServes, Doors

LEMMA MovesOn ==
  ASSUME DownloadInv
  PROVE  /\ Elsewhere \in Seq(Doors \X {"direct", "proxy"}) /\ AllTries \in Seq(Doors \X {"direct", "proxy"})
         /\ tries # <<>> => Tail(tries) \in Seq(Doors \X {"direct", "proxy"}) /\ Head(tries)[1] \in Doors
BY ElsewhereTyped, PlaceOfTry DEF DownloadInv

LEMMA PlanIs ==
  /\ NoPlan.fetch = {} /\ NoPlan.is = "none" /\ Listed # NoPlan
  /\ \A r, f : [is |-> "made", reuse |-> r, fetch |-> f] # NoPlan
BY DEF NoPlan, Listed

LEMMA RungsKept ==
  ASSUME DownloadInv, rung = "delta", UNCHANGED <<copies, rung, archive, kept, permanent, via>>,
         cuts' \in Nat, cuts' >= cuts,
         \/ UNCHANGED tries /\ (plan = NoPlan => plan' = NoPlan \/ tries # <<>>)
         \/ plan' = NoPlan /\ tries' \in Seq(Doors \X {"direct", "proxy"}),
         tree' \in [File -> {"none", "new", "cut"}], \A f \in File : tree'[f] # "cut"
  PROVE  DownloadInv'
BY DEF DownloadInv, DownloadTypeOK, RightCopyServes

LEMMA TryStoreSafe == ASSUME DownloadInv, TryStore PROVE DownloadInv'
<1>1. CASE via' = "files"
  <2>1. Stored /\ rung' = "ready" /\ tree' = [f \in File |-> "new"]
            /\ UNCHANGED <<tries, plan, copies, archive, kept, permanent, cuts>>
    BY <1>1 DEF TryStore, Down, DownloadInv
  <2> QED BY <1>1, <2>1 DEF TryStore, DownloadInv, DownloadTypeOK, RightCopyServes
<1>2. CASE Down("delta") /\ UNCHANGED via
  BY <1>2, MovesOn DEF TryStore, Down, Empty, DownloadInv, DownloadTypeOK, RightCopyServes
<1> QED BY <1>1, <1>2 DEF TryStore

LEMMA DeltaSafe ==
  ASSUME DownloadInv, ReadDirectory \/ PlanParts \/ (\E f \in File : Extract(f) \/ CopyReused(f) \/ Spoil(f))
  PROVE  DownloadInv'
<1>0. rung = "delta" /\ tree \in [File -> {"none", "new", "cut"}] /\ (\A f \in File : tree[f] # "cut")
          /\ cuts \in Nat
  BY DEF ReadDirectory, PlanParts, Extract, CopyReused, Spoil, DownloadInv, DownloadTypeOK
<1>1. CASE ReadDirectory
  <2>1. /\ UNCHANGED <<copies, rung, archive, kept, permanent, via, cuts, tree>> /\ tries # <<>>
               /\ plan = NoPlan
        /\ \/ plan' = Listed /\ UNCHANGED tries
           \/ tries' \in {Tail(tries), Elsewhere} /\ UNCHANGED plan
    BY <1>1 DEF ReadDirectory
  <2>2. CASE plan' = Listed /\ UNCHANGED tries BY <1>0, <2>1, <2>2, RungsKept
  <2>3. CASE tries' \in {Tail(tries), Elsewhere} /\ UNCHANGED plan
    <3>1. tries' \in Seq(Doors \X {"direct", "proxy"}) /\ plan' = NoPlan BY <2>1, <2>3, MovesOn
    <3> QED BY <1>0, <2>1, <3>1, RungsKept
  <2> QED BY <2>1, <2>2, <2>3
<1>2. CASE PlanParts
  <2>1. /\ UNCHANGED <<copies, rung, archive, kept, permanent, via, cuts, tree>> /\ plan = Listed
        /\ UNCHANGED tries \/ (tries' = Elsewhere /\ plan' = NoPlan)
    BY <1>2 DEF PlanParts
  <2> QED BY <1>0, <2>1, MovesOn, PlanIs, RungsKept
<1>3. ASSUME NEW f \in File, Extract(f) PROVE DownloadInv'
  <2>1. plan # NoPlan /\ tries # <<>> BY <1>3, PlanIs DEF Extract, DownloadInv
  <2>2. CASE tree' = [tree EXCEPT ![f] = "new"] /\ UNCHANGED <<tries, plan, cuts>>
    BY <1>0, <1>3, <2>2, RungsKept DEF Extract
  <2>3. CASE tree' = Empty
    <3>1. plan' = NoPlan /\ tries' \in {Tail(tries), Elsewhere} /\ cuts' \in {cuts, cuts + 1}
      BY <1>0, <1>3, <2>3 DEF Extract, Empty
    <3>2. tries' \in Seq(Doors \X {"direct", "proxy"}) BY <2>1, <3>1, MovesOn
    <3>3. tree' \in [File -> {"none", "new", "cut"}] /\ \A g \in File : tree'[g] # "cut" BY <2>3 DEF Empty
    <3>4. cuts' \in Nat /\ cuts' >= cuts /\ UNCHANGED <<copies, rung, archive, kept, permanent, via>>
      BY <1>0, <1>3, <3>1 DEF Extract
    <3> QED BY <1>0, <3>1, <3>2, <3>3, <3>4, RungsKept
  <2> QED BY <1>3, <2>2, <2>3 DEF Extract
<1>4. ASSUME NEW f \in File, CopyReused(f) PROVE DownloadInv'
  <2>1. CASE local[f] = "same" BY <1>0, <1>4, <2>1, RungsKept DEF CopyReused
  <2>2. CASE local[f] # "same" BY <1>0, <1>4, <2>2, MovesOn, RungsKept DEF CopyReused, Empty
  <2> QED BY <2>1, <2>2
<1>5. ASSUME NEW f \in File, Spoil(f) PROVE DownloadInv'
  BY <1>0, <1>5, RungsKept DEF Spoil
<1> QED BY <1>1, <1>2, <1>3, <1>4, <1>5

LEMMA RungsLeft == ASSUME DownloadInv, DeltaEnds \/ DeltaFails \/ NoWay \/ Verify PROVE DownloadInv'
<1>1. CASE DeltaEnds
  <2>1. \A f \in File : tree[f] = "new" BY <1>1 DEF DeltaEnds, DownloadInv, DownloadTypeOK
  <2> QED BY <1>1, <2>1 DEF DeltaEnds, DownloadInv, DownloadTypeOK, RightCopyServes
<1>2. CASE DeltaFails
  BY <1>2, MovesOn DEF DeltaFails, Down, Empty, DownloadInv, DownloadTypeOK, RightCopyServes
<1>3. CASE NoWay BY <1>3 DEF NoWay, Fails, DownloadInv, DownloadTypeOK, RightCopyServes
<1>4. CASE Verify
  <2>1. CASE archive = "right"
    BY <1>4, <2>1 DEF Verify, DownloadInv, DownloadTypeOK, RightCopyServes
  <2>2. CASE archive # "right"
    <3>1. cuts # 0 \/ copies["forgejo"] # "right"
      BY <1>4, <2>2 DEF Verify, DownloadInv
    <3>2. /\ rung' = "failed" /\ kept' = FALSE /\ permanent' = TRUE
          /\ UNCHANGED <<copies, local, tries, plan, tree, archive, via, cuts>>
      BY <1>4, <2>2 DEF Verify, Fails
    <3>3. plan = NoPlan BY <1>4 DEF Verify, DownloadInv
    <3> QED BY <3>1, <3>2, <3>3 DEF DownloadInv, DownloadTypeOK, RightCopyServes
  <2> QED BY <2>1, <2>2
<1> QED BY <1>1, <1>2, <1>3, <1>4

LEMMA FetchSafe1 == ASSUME DownloadInv, Fetch PROVE DownloadInv'
<1>0. /\ rung = "setup" /\ UNCHANGED <<copies, plan, tree, kept, permanent, via>> /\ tries # <<>>
      /\ Head(tries)[1] \in Doors
      /\ cuts \in Nat /\ copies \in [Doors -> {"right", "wrong"}]
  BY MovesOn DEF Fetch, DownloadInv
<1>1. CASE rung' = rung
  <2>1. tries' \in {Tail(tries), Elsewhere} /\ archive' = "none" /\ cuts' \in {cuts, cuts + 1}
    BY <1>0, <1>1 DEF Fetch
  <2>2. plan = NoPlan
    BY <1>0 DEF DownloadInv
  <2>3. tries' \in Seq(Doors \X {"direct", "proxy"})
    <3>1. tries' = Tail(tries) \/ tries' = Elsewhere BY <2>1
    <3> QED BY <1>0, <3>1, MovesOn
  <2>4. cuts' \in Nat /\ cuts' >= cuts
    BY <1>0, <2>1
  <2> QED BY <1>0, <1>1, <2>1, <2>2, <2>3, <2>4 DEF DownloadInv, DownloadTypeOK, RightCopyServes
<1>2. CASE rung' # rung
  <2>1. PICK got \in {"right", "wrong", "cut"} :
           /\ Whole(Head(tries)[1], got) /\ cuts' = (IF got = "cut" THEN cuts + 1 ELSE cuts)
           /\ ~(Head(tries)[1] = "github" /\ got # "right") /\ archive' = got /\ rung' = "verify"
                  /\ UNCHANGED tries
    BY <1>0, <1>2 DEF Fetch
  <2>2. got = "wrong" => copies["forgejo"] = "wrong"
    BY <1>0, <2>1 DEF Whole, Doors
  <2> QED BY <1>0, <2>1, <2>2 DEF DownloadInv, DownloadTypeOK, RightCopyServes
<1> QED BY <1>1, <1>2

LEMMA UnpackSafe == ASSUME DownloadInv, Unpack PROVE DownloadInv'
<1>1. CASE rung' = "ready"
  BY <1>1 DEF Unpack, Fails, DownloadInv, DownloadTypeOK, RightCopyServes
<1>2. CASE Fails(FALSE) /\ UNCHANGED <<tree, archive>>
  BY <1>2 DEF Unpack, Fails, DownloadInv, DownloadTypeOK, RightCopyServes
<1> QED BY <1>1, <1>2 DEF Unpack

LEMMA DownloadStep == ASSUME DownloadInv, [DownloadNext]_downloadVars PROVE DownloadInv'
<1>1. CASE DownloadNext
  BY <1>1, TryStoreSafe, DeltaSafe, RungsLeft, FetchSafe1, UnpackSafe DEF DownloadNext
<1>2. CASE UNCHANGED downloadVars BY <1>2 DEF downloadVars, DownloadInv, DownloadTypeOK, RightCopyServes
<1> QED BY <1>1, <1>2

LEMMA DownloadHolds == ASSUME DownloadInv PROVE DownloadSafe
BY DEF DownloadInv, DownloadSafe, OnlySigned

-----------------------------------------------------------------------------
(* The check for a release.  GitHub stands last; a name is asked, still to   *)
(* be asked, or left out when the budget is spent.                           *)
Addressees == ToSet(Mirrors) \cup {"github"}

StillToAsk ==
  /\ places \in Seq(Addressees) /\ offer = NoOffer /\ oddities = {} /\ outcome = "open"
  /\ \A i \in 1..Len(places) : places[i] = "github" <=> i = Len(places)
  /\ \A m \in ToSet(Mirrors) : m \in whomAsked \/ m \in ToSet(places) \/ spent >= RoundBudget

CheckInv ==
  /\ CheckTypeOK /\ spent \in Nat /\ OfferIsSigned /\ SilenceIsNoEnd
  /\ stage = "release" => StillToAsk
  /\ stage \in {"digest", "manifest", "signature"} => offer # NoOffer

LEMMA CheckConstants == RoundBudget \in Nat \ {0} /\ Attempts \in Nat \ {0} /\ RouteCount \in {1, 2}
BY CheckAssumption DEF RouteCount

LEMMA OneMore ==
  ASSUME NEW S, NEW s \in Seq(S), NEW e \in S
  PROVE  /\ s \o <<e>> \in Seq(S) /\ Len(s \o <<e>>) = Len(s) + 1
         /\ \A i \in 1..Len(s) + 1 : (s \o <<e>>)[i] = IF i <= Len(s) THEN s[i] ELSE e
OBVIOUS

LEMMA Retyped ==
  ASSUME NEW S, NEW T, NEW s \in Seq(S), \A i \in 1..Len(s) : s[i] \in T PROVE s \in Seq(T)
OBVIOUS

LEMMA TailOfOne == ASSUME NEW S, NEW s \in Seq(S), Len(s) = 1 PROVE Tail(s) = <<>>
<1>1. s # <<>> OBVIOUS
<1>2. Tail(s) \in Seq(S) /\ Len(Tail(s)) = 0 BY <1>1
<1> QED BY <1>2, EmptySeq

LEMMA CheckStarts == ASSUME CheckInit PROVE CheckInv
<1>1. Mirrors \in Seq(Addressees) /\ Mirrors # <<>> /\ \A i \in 1..Len(Mirrors) : Mirrors[i] # "github"
  <2>1. Mirrors \in Seq(STRING) /\ Mirrors # <<>> /\ \A i \in DOMAIN Mirrors : Mirrors[i] # "github"
    BY CheckAssumption
  <2>2. \A i \in 1..Len(Mirrors) : Mirrors[i] \in Addressees BY <2>1 DEF Addressees, ToSet
  <2> QED BY <2>1, <2>2, Retyped
<1>2. places = Mirrors \o <<"github">> /\ stage = "release" /\ route = 1 /\ tryNo = 1 /\ spent = 0
      /\ offer = NoOffer /\ outcome = "open" /\ whomAsked = {} /\ oddities = {} BY DEF CheckInit
<1> DEFINE all == Mirrors \o <<"github">>
<1>3. all \in Seq(Addressees) /\ Len(all) = Len(Mirrors) + 1
      /\ \A i \in 1..Len(Mirrors) + 1 : all[i] = IF i <= Len(Mirrors) THEN Mirrors[i] ELSE "github"
  <2>1. "github" \in Addressees BY DEF Addressees
  <2> QED BY <1>1, <2>1, OneMore
<1>4. places = all BY <1>2
<1> HIDE DEF all
<1>5. \A i \in 1..Len(places) : places[i] = "github" <=> i = Len(places) BY <1>1, <1>3, <1>4
<1>6. \A m \in ToSet(Mirrors) : m \in ToSet(places)
  <2>1. SUFFICES ASSUME NEW k \in 1..Len(Mirrors) PROVE \E i \in 1..Len(all) : Mirrors[k] = all[i]
    BY <1>1, <1>3, <1>4 DEF ToSet
  <2>2. k \in 1..Len(all) /\ all[k] = Mirrors[k] BY <1>1, <1>3
  <2> QED BY <2>2
<1>7. places # <<>> BY <1>1, <1>3, <1>4
<1>8. StillToAsk BY <1>2, <1>3, <1>4, <1>5, <1>6 DEF StillToAsk
<1> QED BY <1>2, <1>7, <1>8, CheckConstants DEF CheckInv, CheckTypeOK, OfferIsSigned, SilenceIsNoEnd

(* A step that leaves the places and the answers alone.                      *)
LEMMA CheckSame ==
  ASSUME CheckInv, stage # "over", UNCHANGED <<stage, places, offer, fallback, outcome, whomAsked, oddities>>,
         spent' \in Nat, spent' >= spent, route' \in 1..RouteCount, tryNo' \in 1..Attempts
  PROVE  CheckInv'
<1>1. CheckTypeOK' BY DEF CheckInv, CheckTypeOK, RouteCount
<1>2. outcome = "open" BY DEF CheckInv, CheckTypeOK
<1>3. OfferIsSigned' /\ SilenceIsNoEnd' BY <1>2 DEF OfferIsSigned, SilenceIsNoEnd
<1>4. stage = "release" => StillToAsk'
  <2>1. ASSUME spent >= RoundBudget PROVE spent' >= RoundBudget BY <2>1, CheckConstants DEF CheckInv
  <2> QED BY <2>1 DEF CheckInv, StillToAsk
<1> QED BY <1>1, <1>3, <1>4 DEF CheckInv

(* The check goes on with another place.                                     *)
LEMMA CheckAsks ==
  ASSUME CheckInv, stage # "over", NEW next \in {"release", "digest", "manifest", "signature"}, NEW to,
         Ask(next, to), to # <<>>, spent' \in Nat,
         next = "release" => StillToAsk', next # "release" => offer' # NoOffer
  PROVE  CheckInv'
<1>1. stage' = next /\ places' = to /\ route' = 1 /\ tryNo' = 1 /\ outcome' = outcome BY DEF Ask
<1>2. outcome' = "open" BY <1>1 DEF CheckInv, CheckTypeOK
<1>3. CheckTypeOK' BY <1>1, <1>2, CheckConstants DEF CheckTypeOK, RouteCount
<1>4. OfferIsSigned' /\ SilenceIsNoEnd' BY <1>2 DEF OfferIsSigned, SilenceIsNoEnd
<1> QED BY <1>1, <1>3, <1>4 DEF CheckInv

LEMMA CheckOver ==
  ASSUME NEW how \in {"none", "update", "error", "rejected"}, Ends(how), spent' \in Nat,
         how = "update" => OfferIsSigned', how = "error" => SilenceIsNoEnd'
  PROVE  CheckInv'
<1>1. stage' = "over" /\ outcome' = how /\ route' = 1 /\ tryNo' = 1 BY DEF Ends
<1>2. CheckTypeOK' BY <1>1, CheckConstants DEF CheckTypeOK, RouteCount
<1>3. OfferIsSigned' /\ SilenceIsNoEnd' BY <1>1 DEF OfferIsSigned, SilenceIsNoEnd
<1> QED BY <1>1, <1>2, <1>3 DEF CheckInv

(* A place has failed.                                                       *)
LEMMA GoesOn ==
  ASSUME CheckInv, stage # "over", NEW cost \in {0, 1}, Onwards(cost),
         spent' = IF stage = "release" /\ Head(places) # "github" THEN spent + cost ELSE spent,
         UNCHANGED <<offer, fallback, oddities>>
  PROVE  CheckInv'
<1> DEFINE rest == IF stage = "release" /\ spent + cost >= RoundBudget /\ Len(places) > 1
                     THEN <<"github">> ELSE Tail(places)
<1>0. spent \in Nat /\ spent' \in Nat /\ spent' >= spent /\ places # <<>> BY DEF CheckInv, CheckTypeOK
<1>1. Sent /\ IF rest = <<>> THEN Ends("error") ELSE Ask(stage, rest) BY DEF Onwards
<1>2. CASE stage # "release"
  <2>1. stage \in {"digest", "manifest", "signature"} /\ offer # NoOffer BY <1>2 DEF CheckInv, CheckTypeOK
  <2> HIDE DEF rest
  <2>2. CASE rest = <<>> BY <1>0, <1>1, <2>1, <2>2, CheckOver DEF SilenceIsNoEnd
  <2>3. CASE rest # <<>> BY <1>0, <1>1, <2>1, <2>3, CheckAsks
  <2> QED BY <2>2, <2>3
<1>3. CASE stage = "release"
  <2>1. StillToAsk BY <1>3 DEF CheckInv
  <2>2. places \in Seq(Addressees) /\ Len(places) \in Nat \ {0} BY <1>0, <2>1 DEF StillToAsk
  <2>3. whomAsked' = whomAsked \cup {places[1]} /\ Head(places) = places[1] BY <1>1, <1>3, <2>2 DEF Sent
  <2>4. CASE Len(places) = 1
    <3>1. rest = <<>> BY <2>2, <2>4, TailOfOne
    <3>2. places[1] = "github" BY <2>1, <2>4 DEF StillToAsk
    <3>3. \A m \in ToSet(places) : m = "github" BY <2>2, <2>4, <3>2 DEF ToSet
    <3>4. ToSet(Mirrors) \subseteq whomAsked' \/ spent' >= RoundBudget
      <4>1. \A m \in ToSet(Mirrors) : m \in whomAsked' \/ spent >= RoundBudget
        BY <2>1, <2>3, <3>2, <3>3 DEF StillToAsk
      <4> QED BY <1>0, <4>1, CheckConstants
    <3>5. SilenceIsNoEnd' BY <2>3, <3>2, <3>4 DEF SilenceIsNoEnd
    <3> HIDE DEF rest
    <3> QED BY <1>0, <1>1, <3>1, <3>5, CheckOver
  <2>5. CASE Len(places) > 1 /\ spent + cost >= RoundBudget
    <3>1. rest = <<"github">> /\ rest # <<>> BY <1>3, <2>5
    <3>2. places[1] # "github" BY <2>1, <2>2, <2>5 DEF StillToAsk
    <3>3. spent' >= RoundBudget BY <1>3, <2>3, <2>5, <3>2
    <3>4. Ask("release", <<"github">>) BY <1>1, <1>3, <3>1
    <3>5. places' = <<"github">> /\ outcome' = outcome BY <3>4 DEF Ask
    <3>6. <<"github">> \in Seq(Addressees) /\ Len(<<"github">>) = 1 /\ <<"github">>[1] = "github"
      BY DEF Addressees
    <3>7. StillToAsk' BY <2>1, <3>3, <3>5, <3>6 DEF StillToAsk
    <3> HIDE DEF rest
    <3> QED BY <1>0, <3>1, <3>4, <3>7, CheckAsks
  <2>6. CASE Len(places) > 1 /\ ~(spent + cost >= RoundBudget)
    <3>1. rest = Tail(places) BY <1>3, <2>6
    <3>2. rest \in Seq(Addressees) /\ Len(rest) = Len(places) - 1
              /\ \A i \in 1..Len(rest) : rest[i] = places[i + 1]
      BY <2>2, <2>6, <3>1
    <3>3. rest # <<>> BY <2>2, <2>6, <3>2
    <3> HIDE DEF rest
    <3>4. Ask("release", rest) BY <1>1, <1>3, <3>3
    <3>5. places' = rest /\ outcome' = outcome BY <3>4 DEF Ask
    <3>6. \A m \in ToSet(places) : m = places[1] \/ m \in ToSet(rest)
      <4>1. SUFFICES ASSUME NEW k \in 1..Len(places) PROVE places[k] = places[1] \/ \E i \in 1..Len(rest) : places[k] = rest[i]
        BY <2>2, <3>2 DEF ToSet
      <4>2. CASE k = 1 BY <4>2
      <4>3. CASE k # 1
        <5>1. k - 1 \in 1..Len(rest) /\ rest[k - 1] = places[k] BY <2>2, <3>2, <4>3
        <5> QED BY <5>1
      <4> QED BY <4>2, <4>3
    <3>7. \A i \in 1..Len(rest) : rest[i] = "github" <=> i = Len(rest)
      <4>1. TAKE i \in 1..Len(rest)
      <4>2. i + 1 \in 1..Len(places) /\ (i = Len(rest) <=> i + 1 = Len(places)) BY <2>2, <3>2
      <4> QED BY <2>1, <3>2, <4>2 DEF StillToAsk
    <3>8. \A m \in ToSet(Mirrors) : m \in whomAsked' \/ m \in ToSet(rest) \/ spent' >= RoundBudget
      <4>1. spent >= RoundBudget => spent' >= RoundBudget BY <1>0, CheckConstants
      <4> QED BY <2>1, <2>3, <3>6, <4>1 DEF StillToAsk
    <3>9. StillToAsk' BY <2>1, <3>2, <3>5, <3>7, <3>8 DEF StillToAsk
    <3> QED BY <1>0, <3>3, <3>4, <3>9, CheckAsks
  <2>7. Len(places) = 1 \/ Len(places) > 1
    <3>1. Len(places) \in Nat \ {0} BY <2>2
    <3>2. \A n \in Nat \ {0} : n = 1 \/ n > 1 OBVIOUS
    <3> QED BY ONLY <3>1, <3>2
  <2> HIDE DEF rest
  <2> QED BY <2>4, <2>5, <2>6, <2>7
<1> QED BY <1>2, <1>3

(* An answer.                                                                *)
LEMMA AnswerJudged ==
  ASSUME CheckInv, stage # "over", NEW o \in Offers, offer' = o, Judge(o), UNCHANGED spent
  PROVE  CheckInv'
<1>1. offer' # NoOffer
  <2>1. o.tag \in ReleaseNo BY DEF Offers
  <2> QED BY <2>1 DEF NoOffer, ReleaseNo
<1>2. spent' \in Nat BY DEF CheckInv
<1>3. FilePlaces' # <<>> BY DEF FilePlaces
<1>4. CASE \E how \in {"none", "rejected", "error"} : Ends(how)
  BY <1>1, <1>2, <1>4, CheckOver DEF SilenceIsNoEnd
<1>5. CASE \E next \in {"manifest", "digest"} : Ask(next, FilePlaces')
  BY <1>1, <1>2, <1>3, <1>5, CheckAsks
<1> QED BY <1>4, <1>5 DEF Judge

LEMMA AnsweredSafe == ASSUME CheckInv, Answered PROVE CheckInv'
<1>0. stage # "over" /\ UNCHANGED spent /\ spent' \in Nat /\ Sent
      /\ stage \in {"release", "digest", "manifest", "signature", "over"} BY DEF Answered, CheckInv, CheckTypeOK
<1>1. FilePlaces # <<>> BY DEF FilePlaces
<1>2. CASE stage = "release"
  <2>1. CASE \E o \in Offers : offer' = o /\ Judge(o) BY <1>0, <2>1, AnswerJudged
  <2>2. CASE Ends("error") /\ oddities' = oddities \cup {"address"}
    <3>1. oddities' # {} BY <2>2
    <3> QED BY <1>0, <2>2, <3>1, CheckOver DEF SilenceIsNoEnd
  <2> QED BY <1>2, <2>1, <2>2 DEF Answered
<1>3. CASE stage # "release"
  <2>0. UNCHANGED <<offer, fallback, oddities>> BY <1>0, <1>3 DEF Answered
  <2>1. offer' # NoOffer BY <1>0, <1>3, <2>0 DEF CheckInv
  <2>2. \/ Ends("rejected") \/ Ask("manifest", FilePlaces) \/ Ask("signature", FilePlaces)
        \/ Ends(IF ListHolds(offer) /\ ArchiveAgrees(offer) THEN "update" ELSE "rejected")
    BY <1>0, <1>3 DEF Answered
  <2>3. CASE Ask("manifest", FilePlaces) \/ Ask("signature", FilePlaces) BY <1>0, <1>1, <2>1, <2>3, CheckAsks
  <2>4. CASE Ends("rejected") BY <1>0, <2>4, CheckOver
  <2>5. CASE Ends("update") /\ ListHolds(offer) /\ ArchiveAgrees(offer)
    <3>1. OfferIsSigned' BY <2>0, <2>5 DEF OfferIsSigned, ListHolds, ArchiveAgrees, Newer
    <3> QED BY <1>0, <2>5, <3>1, CheckOver
  <2> QED BY <2>2, <2>3, <2>4, <2>5
<1> QED BY <1>2, <1>3

LEMMA CheckStep == ASSUME CheckInv, CheckNext PROVE CheckInv'
<1>0. spent \in Nat /\ route \in 1..RouteCount /\ tryNo \in 1..Attempts BY DEF CheckInv, CheckTypeOK
<1>1. CASE Passing
  <2>1. PICK cost \in {0, 1} :
          /\ spent' = IF stage = "release" /\ Head(places) # "github" THEN spent + cost ELSE spent
          /\ IF tryNo < Attempts
               THEN tryNo' = tryNo + 1 /\ UNCHANGED <<stage, places, route, outcome, whomAsked>>
             ELSE IF route < RouteCount
               THEN route' = route + 1 /\ tryNo' = 1 /\ UNCHANGED <<stage, places, outcome, whomAsked>>
             ELSE Onwards(cost)
    BY <1>1 DEF Passing
  <2>2. stage # "over" /\ UNCHANGED <<offer, fallback, oddities>> BY <1>1 DEF Passing
  <2>3. spent' \in Nat /\ spent' >= spent BY <1>0, <2>1
  <2>4. CASE Onwards(cost) BY <2>1, <2>2, <2>4, GoesOn
  <2>5. CASE /\ UNCHANGED <<stage, places, outcome, whomAsked>>
             /\ \/ tryNo < Attempts /\ tryNo' = tryNo + 1 /\ route' = route
                \/ route < RouteCount /\ route' = route + 1 /\ tryNo' = 1
    <3>1. route' \in 1..RouteCount /\ tryNo' \in 1..Attempts BY <1>0, <2>5, CheckConstants
    <3> QED BY <2>2, <2>3, <2>5, <3>1, CheckSame
  <2> QED BY <2>1, <2>4, <2>5
<1>2. CASE Policy
  <2>1. stage # "over" /\ UNCHANGED <<spent, offer, fallback, oddities>> BY <1>2 DEF Policy
  <2>2. CASE Onwards(0)
    <3>1. spent' = IF stage = "release" /\ Head(places) # "github" THEN spent + 0 ELSE spent BY <1>0, <2>1
    <3> QED BY <2>1, <2>2, <3>1, GoesOn
  <2>3. CASE route < RouteCount /\ route' = route + 1 /\ tryNo' = 1
            /\ UNCHANGED <<stage, places, outcome, whomAsked>>
    <3>1. route' \in 1..RouteCount /\ tryNo' \in 1..Attempts /\ spent' \in Nat /\ spent' >= spent
      BY <1>0, <2>1, <2>3, CheckConstants
    <3> QED BY <2>1, <2>3, <3>1, CheckSame
  <2> QED BY <1>2, <2>2, <2>3 DEF Policy
<1>3. CASE Odd
  <2>1. PICK kind \in {"network", "status"} : oddities' = oddities \cup {kind} BY <1>3 DEF Odd
  <2>2. oddities' # {} /\ Ends("error") /\ spent' \in Nat BY <1>0, <1>3, <2>1 DEF Odd
  <2> QED BY <2>2, CheckOver DEF SilenceIsNoEnd
<1> QED BY <1>1, <1>2, <1>3, AnsweredSafe DEF CheckNext

LEMMA CheckRests == ASSUME CheckInv, UNCHANGED checkVars PROVE CheckInv'
BY DEF CheckInv, CheckTypeOK, RouteCount, OfferIsSigned, SilenceIsNoEnd, StillToAsk, checkVars

LEMMA CheckHolds == ASSUME CheckInv PROVE CheckSafe
BY DEF CheckInv, CheckSafe

-----------------------------------------------------------------------------
(* The names of the server.  A winner, a name that is good and a name that a *)
(* list has as not blocked are vouched for.                                  *)

NamesTypes ==
  /\ NamesTypeOK /\ opens \subseteq SiteName /\ published \in Lists /\ entry \in Pages
  /\ listed \in BOOLEAN /\ nameClock \in Nat /\ expires \in Nat
  /\ race.winner \in SiteName \cup {NobodyWon} /\ race.order \in Seq(SiteName)

VouchedFor ==
  /\ good \in vouched \cup {NobodyWon}
  /\ race.winner \in vouched \cup {NobodyWon}
  /\ race.at # "settle" => race.winner = NobodyWon
  /\ race.winner # NobodyWon => \A i \in 1..Len(race.order) : race.order[i] \in blockedNames \cup vouched
  /\ race.at = "none" /\ listed => \A i \in 1..Len(hosts) : hosts[i] \in blockedNames \cup vouched

NamesInv == NamesTypes /\ VouchedFor /\ ListHasTerm

LEMMA NamesConstants ==
  /\ NobodyWon \notin SiteName /\ Boot \in Seq(SiteName) /\ ListTtl \in Nat /\ FallbackTtl \in Nat
         /\ GoodTtl \in Nat
  /\ \A l \in Lists : l.order \in Seq(SiteName) /\ l.blocked \subseteq SiteName
  /\ \A p \in Pages : p \in Seq(SiteName)
<1>1. /\ NobodyWon \notin SiteName /\ Boot \in Seq(SiteName) /\ ListTtl \in Nat /\ FallbackTtl \in Nat
             /\ GoodTtl \in Nat
      /\ Lists \subseteq [order : Seq(SiteName), blocked : SUBSET SiteName] /\ Pages \subseteq Seq(SiteName)
  BY NamesAssumption
<1> QED BY <1>1

(* A race that has nothing to show yet.                                      *)
Bare(r) == r.winner = NobodyWon /\ r.order = <<>>

LEMMA RacesBare ==
  /\ NoRace.at = "none" /\ Bare(NoRace)
  /\ \A n, r : r = [NoRace EXCEPT !.at = "race", !.names = n] => r.at = "race" /\ Bare(r)
  /\ \A n, r : r = [NoRace EXCEPT !.at = "entry", !.names = n] => r.at = "entry" /\ Bare(r)
  /\ \A r : r = [NoRace EXCEPT !.at = "settle"] => r.at = "settle" /\ Bare(r)
BY DEF NoRace, Bare

LEMMA NamesStarts == ASSUME NamesInit PROVE NamesInv
<1>1. /\ hosts = <<>> /\ listed = FALSE /\ blockedNames = {} /\ good = NobodyWon /\ expires = 0 /\ nameClock = 0
      /\ race = NoRace /\ trial = <<>> /\ opens \in SUBSET SiteName /\ published \in Lists /\ entry \in Pages
  BY DEF NamesInit
<1>2. race.at = "none" /\ race.winner = NobodyWon /\ race.order = <<>> BY <1>1, RacesBare DEF Bare
<1>3. <<>> \in Seq(SiteName) OBVIOUS
<1>4. listed \in BOOLEAN BY <1>1
<1> QED BY <1>1, <1>2, <1>3, <1>4 DEF NamesInv, NamesTypes, NamesTypeOK, VouchedFor, ListHasTerm

(* A step that leaves the list and the names vouched for alone.              *)
LEMMA ListSame ==
  ASSUME NamesInv, UNCHANGED <<hosts, listed, blockedNames, expires, vouched>>,
         nameClock' \in Nat, nameClock' >= nameClock, good' \in {good, NobodyWon},
         opens' \subseteq SiteName, published' \in Lists, entry' \in Pages,
         trial' # <<>> => met' = "waits",
         race' = race \/ (race'.at \in {"none", "race", "entry", "settle"} /\ Bare(race') /\ (race'.at = "none" => race.at = "none"))
  PROVE  NamesInv'
<1>1. race'.at \in {"none", "race", "entry", "settle"} /\ race'.winner \in SiteName \cup {NobodyWon}
          /\ race'.order \in Seq(SiteName)
      /\ (race'.at = "none" => race.at = "none")
  <2>1. <<>> \in Seq(SiteName) OBVIOUS
  <2> QED BY <2>1 DEF NamesInv, NamesTypes, NamesTypeOK, Bare
<1>2. NamesTypes' BY <1>1 DEF NamesInv, NamesTypes, NamesTypeOK
<1>3. VouchedFor' BY <1>1 DEF NamesInv, VouchedFor, Bare
<1>4. ListHasTerm'
  <2>1. nameClock \in Nat /\ expires \in Nat /\ ListTtl \in Nat BY NamesConstants DEF NamesInv, NamesTypes
  <2>2. expires <= nameClock + ListTtl => expires <= nameClock' + ListTtl
    <3>1. nameClock' \in Nat /\ nameClock' >= nameClock OBVIOUS
    <3>2. \A e, c, d, l \in Nat : e <= c + l /\ d >= c => e <= d + l OBVIOUS
    <3> QED BY ONLY <2>1, <3>1, <3>2
  <2> QED BY <2>2 DEF NamesInv, ListHasTerm
<1> QED BY <1>2, <1>3, <1>4 DEF NamesInv

LEMMA NamesQuiet ==
  ASSUME NamesInv, Choose \/ AskHosts \/ NoAnswer \/ NameTime \/ WorldTurns PROVE NamesInv'
<1>0. nameClock \in Nat /\ opens \subseteq SiteName /\ published \in Lists /\ entry \in Pages
          /\ (trial # <<>> => met = "waits")
  BY DEF NamesInv, NamesTypes, NamesTypeOK
<1>1. CASE Choose
  <2>1. race'.at \in {"none", "race"} /\ Bare(race') /\ race.at = "none" BY <1>1, RacesBare DEF Choose
  <2> QED BY <1>0, <1>1, <2>1, ListSame DEF Choose, worldOfNames
<1>2. CASE AskHosts
  <2>0. race' = race \/ race' = [NoRace EXCEPT !.at = "race", !.names = Candidates] BY <1>2 DEF AskHosts
  <2>1. race' = race \/ (race'.at = "race" /\ Bare(race')) BY <2>0, RacesBare
  <2> QED BY <1>0, <1>2, <2>1, ListSame DEF AskHosts, worldOfNames, keptNames
<1>3. CASE NoAnswer
  <2>1. trial # <<>>
    <3>1. Len(trial) > 1 BY <1>3 DEF NoAnswer
    <3>2. ~(Len(<<>>) > 1) OBVIOUS
    <3> QED BY <3>1, <3>2
  <2> QED BY <1>0, <1>3, <2>1, ListSame DEF NoAnswer, worldOfNames, keptNames
<1>4. CASE NameTime BY <1>0, <1>4, ListSame DEF NameTime, worldOfNames, keptNames
<1>5. CASE WorldTurns BY <1>0, <1>5, ListSame DEF WorldTurns, keptNames
<1> QED BY <1>1, <1>2, <1>3, <1>4, <1>5

(* A name has answered and its list is noted.                                *)
LEMMA WinsSafe ==
  ASSUME NamesInv, race.at # "none", NEW n \in opens, NEW pg \in Seq(SiteName), Wins(n, pg),
         UNCHANGED <<hosts, listed, good, expires, worldOfNames, nameClock, trial, met>>
  PROVE  NamesInv'
<1> DEFINE order == IF published.order = <<>> THEN pg ELSE published.order
           all == published.order \o pg
<1>1. opens \subseteq SiteName /\ published.order \in Seq(SiteName) /\ published.blocked \subseteq SiteName
  BY NamesConstants DEF NamesInv, NamesTypes
<1>2. race'.at = "settle" /\ race'.winner = n /\ race'.order = order BY DEF Wins, NoRace
<1>3. blockedNames' = published.blocked /\ vouched' = vouched \cup {n} \cup (ToSet(all) \ published.blocked)
  BY DEF Wins
<1>4. order \in Seq(SiteName) BY <1>1
<1>5. \A i \in 1..Len(order) : order[i] \in ToSet(all)
  <2>1. Len(all) = Len(published.order) + Len(pg) /\ Len(published.order) \in Nat /\ Len(pg) \in Nat
        /\ (\A i \in 1..Len(published.order) : all[i] = published.order[i])
        /\ (published.order = <<>> => all = pg)
    BY <1>1
  <2>2. DOMAIN all = 1..Len(all) BY <1>1
  <2>3. CASE published.order = <<>>
    <3>1. order = pg /\ all = pg BY <2>1, <2>3
    <3> QED BY <2>2, <3>1 DEF ToSet
  <2>4. CASE published.order # <<>>
    <3>1. order = published.order BY <2>4
    <3>2. SUFFICES ASSUME NEW i \in 1..Len(published.order) PROVE published.order[i] \in ToSet(all) BY <3>1
    <3>3. i \in 1..Len(all) /\ all[i] = published.order[i] BY <2>1
    <3> HIDE DEF all
    <3> QED BY <2>2, <3>3 DEF ToSet
  <2> QED BY <2>3, <2>4
<1>6. \A i \in 1..Len(order) : order[i] \in blockedNames' \cup vouched' BY <1>3, <1>5
<1> HIDE DEF order, all
<1>7. NamesTypes' BY <1>1, <1>2, <1>3, <1>4 DEF NamesInv, NamesTypes, NamesTypeOK, worldOfNames
<1>8. VouchedFor' BY <1>2, <1>3, <1>6 DEF NamesInv, VouchedFor
<1>9. ListHasTerm' BY DEF NamesInv, ListHasTerm
<1> QED BY <1>7, <1>8, <1>9 DEF NamesInv

LEMMA RaceSteps == ASSUME NamesInv, RaceNames \/ EntryNames PROVE NamesInv'
<1>0. /\ race.at \in {"race", "entry"}
             /\ UNCHANGED <<hosts, listed, good, expires, worldOfNames, nameClock, trial, met>>
      /\ nameClock \in Nat /\ opens \subseteq SiteName /\ published \in Lists /\ entry \in Pages
      /\ (trial # <<>> => met = "waits")
  BY DEF RaceNames, EntryNames, NamesInv, NamesTypes, NamesTypeOK
<1>1. CASE \E n \in opens : Wins(n, <<>>) \/ Wins(n, entry)
  <2>1. <<>> \in Seq(SiteName) /\ entry \in Seq(SiteName) BY <1>0, NamesConstants
  <2> QED BY <1>0, <1>1, <2>1, WinsSafe
<1>2. CASE /\ race' = [NoRace EXCEPT !.at = "entry", !.names = race.names] \/ race' = [NoRace EXCEPT !.at = "settle"]
           /\ UNCHANGED <<blockedNames, vouched>>
  <2>1. race'.at \in {"entry", "settle"} /\ Bare(race') BY <1>2, RacesBare
  <2> QED BY <1>0, <1>2, <2>1, ListSame DEF worldOfNames
<1> QED BY <1>1, <1>2 DEF RaceNames, EntryNames

LEMMA SettleSafe == ASSUME NamesInv, Settle PROVE NamesInv'
<1> DEFINE won == race.winner # NobodyWon
           learnt == won /\ race.order # <<>>
<1>0. /\ nameClock \in Nat /\ opens \subseteq SiteName /\ published \in Lists /\ entry \in Pages
      /\ (trial # <<>> => met = "waits") /\ race.winner \in SiteName \cup {NobodyWon}
             /\ race.order \in Seq(SiteName)
      /\ blockedNames \subseteq SiteName /\ good \in SiteName \cup {NobodyWon}
  BY DEF NamesInv, NamesTypes, NamesTypeOK
<1>1. /\ hosts' = IF learnt THEN race.order ELSE Boot
      /\ listed' = learnt /\ blockedNames' = IF learnt THEN blockedNames ELSE {}
      /\ expires' = nameClock + (IF learnt THEN ListTtl ELSE FallbackTtl)
      /\ race' = NoRace /\ UNCHANGED <<worldOfNames, nameClock, met, vouched>>
  BY DEF Settle
<1>2. good' \in {good, race.winner} BY DEF Settle
<1>3. trial' # <<>> => met' = "waits" BY <1>0 DEF Settle
<1>4. race'.at = "none" /\ race'.winner = NobodyWon /\ race'.order = <<>> BY <1>1, RacesBare DEF Bare
<1>5. hosts' \in Seq(SiteName) /\ blockedNames' \subseteq SiteName /\ expires' \in Nat
  BY <1>0, <1>1, NamesConstants
<1>6. listed' \in BOOLEAN
  <2>1. learnt \in BOOLEAN OBVIOUS
  <2> QED BY <1>1, <2>1
<1>7. NamesTypes'
  <2>1. <<>> \in Seq(SiteName) OBVIOUS
  <2> QED BY <1>0, <1>1, <1>2, <1>3, <1>4, <1>5, <1>6, <2>1 DEF NamesTypes, NamesTypeOK, worldOfNames
<1>8. listed' => \A i \in 1..Len(hosts') : hosts'[i] \in blockedNames' \cup vouched'
  BY <1>1 DEF NamesInv, VouchedFor
<1>9. good' \in vouched' \cup {NobodyWon} BY <1>1, <1>2 DEF NamesInv, VouchedFor
<1>10. VouchedFor' BY <1>4, <1>8, <1>9 DEF VouchedFor
<1>11. ListHasTerm'
  <2>1. CASE learnt BY <1>0, <1>1, <2>1, NamesConstants DEF ListHasTerm
  <2>2. CASE ~learnt BY <1>1, <2>2 DEF ListHasTerm
  <2> QED BY <2>1, <2>2
<1> QED BY <1>7, <1>10, <1>11 DEF NamesInv

LEMMA TrialEnds == ASSUME NamesInv, Remember \/ Forget PROVE NamesInv'
<1>1. CASE Remember
  <2>1. /\ good' = Head(trial) /\ good' \in opens /\ vouched' = vouched \cup {good'} /\ trial' = <<>>
        /\ UNCHANGED <<hosts, listed, blockedNames, expires, worldOfNames, nameClock, race>>
    BY <1>1 DEF Remember
  <2>2. NamesTypes' BY <2>1 DEF NamesInv, NamesTypes, NamesTypeOK, worldOfNames
  <2>3. VouchedFor' BY <2>1 DEF NamesInv, VouchedFor
  <2> QED BY <2>1, <2>2, <2>3 DEF NamesInv, ListHasTerm
<1>2. CASE Forget
  <2>1. /\ hosts' = <<>> /\ listed' = FALSE /\ blockedNames' = {} /\ good' = NobodyWon /\ trial' = <<>>
        /\ race.at = "none" /\ UNCHANGED <<expires, worldOfNames, nameClock, race, vouched>>
    BY <1>2 DEF Forget
  <2>2. <<>> \in Seq(SiteName) OBVIOUS
  <2>3. listed' \in BOOLEAN BY <2>1
  <2>4. NamesTypes' BY <2>1, <2>2, <2>3 DEF NamesInv, NamesTypes, NamesTypeOK, worldOfNames
  <2>5. race.winner = NobodyWon BY <2>1 DEF NamesInv, VouchedFor
  <2>6. VouchedFor' BY <2>1, <2>5 DEF NamesInv, VouchedFor
  <2> QED BY <2>1, <2>4, <2>6 DEF NamesInv, ListHasTerm
<1> QED BY <1>1, <1>2

LEMMA NamesStep == ASSUME NamesInv, NamesNext PROVE NamesInv'
BY NamesQuiet, RaceSteps, SettleSafe, TrialEnds DEF NamesNext, CheckSteps

LEMMA NamesRests == ASSUME NamesInv, UNCHANGED namesVars PROVE NamesInv'
BY DEF NamesInv, NamesTypes, NamesTypeOK, VouchedFor, ListHasTerm, namesVars

LEMMA NamesHolds == ASSUME NamesInv PROVE NamesSafe
<1>1. race.at = "none" => LinkName \in vouched \cup {NobodyWon}
  <2>1. CASE GoodHolds BY <2>1 DEF NamesInv, VouchedFor, LinkName
  <2>2. CASE ~GoodHolds /\ (~listed \/ Unblocked = {}) BY <2>2 DEF LinkName
  <2>3. CASE ~GoodHolds /\ listed /\ Unblocked # {} /\ race.at = "none"
    <3>1. hosts \in Seq(SiteName) BY DEF NamesInv, NamesTypes, NamesTypeOK
    <3>2. Unblocked \subseteq Nat /\ \A i \in Unblocked : i \in 1..Len(hosts) /\ hosts[i] \notin blockedNames
      BY <3>1 DEF Unblocked
    <3>3. Min(Unblocked) \in Unblocked
      <4>1. \E x \in Unblocked : \A y \in Unblocked : x <= y BY <2>3, <3>2, LeastNumber
      <4> QED BY <4>1 DEF Min
    <3>4. hosts[Min(Unblocked)] \in vouched BY <2>3, <3>2, <3>3 DEF NamesInv, VouchedFor
    <3> QED BY <2>3, <3>4 DEF LinkName
  <2> QED BY <2>1, <2>2, <2>3
<1> QED BY <1>1 DEF NamesInv, NamesTypes, NamesSafe, NoGuessedLink

-----------------------------------------------------------------------------
(* The script of a release.  Types first.                                    *)
Underway == [phase : 0..10, version : 1..MaxReleases, pin : Nat]
OnSite == [is : {"none", "draft", "published"}, commit : Nat, assets : Nat, of : Nat]
ScriptPlaces ==
  {"idle", "source", "commit", "push", "pin", "gates", "tag", "push_tag", "tag_mark", "draft", "store",
      "assets",
   "publish", "prune", "telegram", "posted", "final", "archive", "abandon"}

PublishTypes ==
  /\ file = NoRelease \/ file \in Underway
  /\ commits \in Seq(Releases) /\ head \in 1..Len(commits) /\ origin \in 1..Len(commits)
  /\ localTag \in [Releases -> 0..Len(commits)] /\ remoteTag \in [Releases -> 0..Len(commits)]
  /\ built \in [Releases -> Nat] /\ copied \in [Releases -> Nat] /\ site \in [Releases -> OnSite]
  /\ posting \in [Releases -> Nat] /\ stepAt \in ScriptPlaces
  /\ abandoned \subseteq Releases /\ ledger \subseteq Releases /\ storeFiles \subseteq Releases

(* What a phase of the state file vouches for.                               *)
PhaseKnown ==
  file # NoRelease =>
    /\ Done(1) => file.pin \in 1..Len(commits) /\ commits[file.pin] = ver
    /\ Done(3) => built[ver] = file.pin
    /\ Done(4) => copied[ver] = file.pin
    /\ Done(5) => remoteTag[ver] = file.pin
    /\ Done(6) => site[ver].is # "none"
    /\ Done(7) => site[ver].assets = AssetCount /\ StoreNames(ver) \subseteq storeFiles
    /\ Done(8) => site[ver].is = "published"
    /\ site[ver].is # "none" => Done(5) /\ site[ver].commit = file.pin /\ site[ver].of = file.pin
    /\ site[ver].is = "published" => Done(7)

(* What the script knows at each of its steps.                               *)
StepKnown ==
  /\ stepAt # "idle" => file # NoRelease
  /\ stepAt \in {"push", "pin"} => commits[head] = ver
  /\ stepAt \in {"commit", "push", "pin"} => file.phase = 0
  /\ stepAt = "gates" => Done(1)
  /\ stepAt = "tag" => Done(4)
  /\ stepAt \in {"push_tag", "tag_mark"} => file.phase = 4
  /\ stepAt = "tag_mark" => remoteTag[ver] = file.pin
  /\ stepAt = "draft" => Done(5)
  /\ stepAt \in {"store", "assets"} => Done(6)
  /\ stepAt \in {"assets", "publish"} => StoreNames(ver) \subseteq storeFiles
  /\ stepAt = "publish" => Done(7)
  /\ stepAt \in {"prune", "telegram"} => Done(8)
  /\ stepAt = "posted" => file.phase = 8
  /\ stepAt = "final" => Done(9)
  /\ stepAt = "archive" => Done(10)
  /\ stepAt = "abandon" => ver \in abandoned /\ site[ver].is = "none"

(* The versions: up to the one under way all are published or given up,      *)
(* above it nothing exists.                                                  *)
Settled(v) == site[v].is = "published" \/ v \in abandoned
Unheard(v) == localTag[v] = 0 /\ remoteTag[v] = 0 /\ site[v].is = "none" /\ v \notin abandoned
FrontAt(b) == \A w \in Releases : (w < b => Settled(w)) /\ (w > b => Unheard(w))
FrontInv ==
  /\ file # NoRelease => FrontAt(ver)
  /\ file = NoRelease => \E b \in Releases : FrontAt(b) /\ Settled(b)

(* What is out: whole, announced after its publication, with its files.      *)
OutInv ==
  /\ site[0].is = "published"
  /\ \A v \in Releases : site[v].is = "published" =>
       /\ site[v].commit = remoteTag[v] /\ site[v].of = site[v].commit /\ site[v].assets = AssetCount
       /\ remoteTag[v] # 0 /\ commits[remoteTag[v]] = v
  /\ \A v \in Releases : site[v].is = "draft" => v = ver /\ Done(5)
  /\ \A v \in Releases : posting[v] > 0 \/ v \in ledger => site[v].is = "published"
  /\ \A v \in Releases :
       site[v].is = "published"
           /\ (\A w \in Releases : w > v => site[w].is # "published") => StoreNames(v) \subseteq storeFiles

PubInv == PublishTypes /\ PhaseKnown /\ StepKnown /\ FrontInv /\ OutInv

LEMMA PublishConstants == MaxReleases \in Nat \ {0} /\ AssetCount \in Nat \ {0} /\ 0 \in Releases
          /\ Releases \subseteq Nat
BY ReleaseAssumption DEF Releases

(* The state file is there from the first phase on.                          *)
LEMMA FileIs ==
  ASSUME PublishTypes
  PROVE  /\ file = NoRelease => file.phase = -1 /\ ver = 0 /\ file.pin = 0
         /\ file # NoRelease => file \in Underway /\ file.phase \in 0..10 /\ ver \in Releases /\ ver > 0
                /\ file.pin \in Nat
<1>1. file = NoRelease => file.phase = -1 /\ ver = 0 /\ file.pin = 0 BY DEF NoRelease, ver
<1>2. ASSUME file \in Underway PROVE file.phase \in 0..10 /\ ver \in Releases /\ ver > 0 /\ file.pin \in Nat
  BY <1>2, PublishConstants DEF Underway, ver, Releases
<1> QED BY <1>1, <1>2 DEF PublishTypes

LEMMA UnderwayIs == ASSUME NEW f \in Underway PROVE f # NoRelease
BY DEF Underway, NoRelease

(* A step of the release under way: what becomes of the versions and of what *)
(* is out follows from what the phase vouches for.                           *)
LEMMA PubMoves ==
  ASSUME PubInv, file # NoRelease, file' \in Underway, file'.version = file.version,
         PublishTypes', PhaseKnown', StepKnown',
         \A v \in Releases \ {ver} : site'[v] = site[v] /\ localTag'[v] = localTag[v]
             /\ remoteTag'[v] = remoteTag[v],
         abandoned \subseteq abandoned', abandoned' \subseteq abandoned \cup {ver},
         \A i \in 1..Len(commits) : commits'[i] = commits[i],
         site[ver].is = "published" => site'[ver].is = "published",
         \A v \in Releases : posting'[v] > 0 \/ v \in ledger' => posting[v] > 0 \/ v \in ledger \/ site[v].is = "published",
         storeFiles \subseteq storeFiles' \/ site'[ver].is = "published"
  PROVE  PubInv'
<1>1. file' # NoRelease /\ ver' = ver /\ ver \in Releases /\ ver > 0 BY FileIs, UnderwayIs DEF PubInv, ver
<1>2. FrontAt(ver) BY DEF PubInv, FrontInv
<1>3. FrontAt(ver)' BY <1>1, <1>2, PublishConstants DEF FrontAt, Settled, Unheard
<1>4. FrontInv' BY <1>1, <1>3 DEF FrontInv
<1>5. site'[0].is = "published" BY <1>1, PublishConstants DEF PubInv, OutInv
<1>6. ASSUME NEW v \in Releases, site'[v].is = "published"
      PROVE  /\ site'[v].commit = remoteTag'[v] /\ site'[v].of = site'[v].commit /\ site'[v].assets = AssetCount
             /\ remoteTag'[v] # 0 /\ commits'[remoteTag'[v]] = v
  <2>1. CASE v = ver
    <3>0. file'.phase >= 7 /\ file'.phase \in 0..10 BY <1>1, <1>6, <2>1 DEF PhaseKnown, Done, Underway
    <3>1. site'[v].commit = file'.pin /\ site'[v].of = file'.pin BY <1>1, <1>6, <2>1 DEF PhaseKnown
    <3>2. remoteTag'[v] = file'.pin /\ site'[v].assets = AssetCount /\ file'.pin \in 1..Len(commits')
              /\ commits'[file'.pin] = v
      BY <1>1, <2>1, <3>0 DEF PhaseKnown, Done
    <3>3. Len(commits') \in Nat BY DEF PublishTypes
    <3>4. file'.pin # 0 BY <3>2, <3>3
    <3> QED BY <3>1, <3>2, <3>4
  <2>2. CASE v # ver
    <3>1. site'[v] = site[v] /\ remoteTag'[v] = remoteTag[v] BY <2>2
    <3>2. /\ site[v].commit = remoteTag[v] /\ site[v].of = site[v].commit /\ site[v].assets = AssetCount
          /\ remoteTag[v] # 0 /\ commits[remoteTag[v]] = v
      BY <1>6, <3>1 DEF PubInv, OutInv
    <3>3. remoteTag[v] \in 1..Len(commits) BY <3>2 DEF PubInv, PublishTypes
    <3> QED BY <3>1, <3>2, <3>3
  <2> QED BY <2>1, <2>2
<1>7. ASSUME NEW v \in Releases, site'[v].is = "draft" PROVE v = ver' /\ Done(5)'
  <2>1. CASE v = ver BY <1>1, <1>7, <2>1 DEF PhaseKnown
  <2>2. CASE v # ver BY <1>7, <2>2 DEF PubInv, OutInv
  <2> QED BY <2>1, <2>2
<1>8. ASSUME NEW v \in Releases, posting'[v] > 0 \/ v \in ledger' PROVE site'[v].is = "published"
  <2>1. site[v].is = "published" BY <1>8 DEF PubInv, OutInv
  <2> QED BY <2>1
<1>9. ASSUME NEW v \in Releases, site'[v].is = "published", \A w \in Releases : w > v
          => site'[w].is # "published"
      PROVE  StoreNames(v) \subseteq storeFiles'
  <2>1. CASE v = ver
    <3>1. file'.phase >= 7 BY <1>1, <1>9, <2>1 DEF PhaseKnown, Done
    <3> QED BY <1>1, <2>1, <3>1 DEF PhaseKnown, Done, StoreNames
  <2>2. CASE v # ver
    <3>1. site[v].is = "published" BY <1>9, <2>2
    <3>2. ~(v > ver) BY <1>2, <3>1 DEF FrontAt, Unheard
    <3>3. ver > v BY <1>1, <2>2, <3>2, PublishConstants
    <3>4. site'[ver].is # "published" BY <1>1, <1>9, <3>3
    <3>5. \A w \in Releases : w > v => site[w].is # "published" BY <1>9, <3>4
    <3>6. StoreNames(v) \subseteq storeFiles BY <3>1, <3>5 DEF PubInv, OutInv
    <3> QED BY <3>4, <3>6
  <2> QED BY <2>1, <2>2
<1>10. OutInv' BY <1>5, <1>6, <1>7, <1>8, <1>9 DEF OutInv, StoreNames
<1> QED BY <1>4, <1>10 DEF PubInv

(* A step of the script that only goes on, and writes the state file.        *)
LEMMA FileMoves ==
  ASSUME PubInv, file # NoRelease, file' \in Underway, file'.version = file.version, stepAt' \in ScriptPlaces,
         PhaseKnown', StepKnown', Stays
  PROVE  PubInv'
<1>1. UNCHANGED <<abandoned, commits, head, origin, localTag, remoteTag, built, copied, site, storeFiles,
          posting, ledger>>
  BY DEF Stays, gitVars, tgVars
<1>2. PublishTypes' BY <1>1 DEF PubInv, PublishTypes
<1> QED BY <1>1, <1>2, PubMoves

(* The state file stays as it is.                                            *)
LEMMA ScriptGoes ==
  ASSUME PubInv, file # NoRelease, UNCHANGED file, stepAt' \in ScriptPlaces, StepKnown', Stays
  PROVE  PubInv'
<1>1. file \in Underway BY DEF PubInv, PublishTypes
<1>2. UNCHANGED <<abandoned, commits, head, origin, localTag, remoteTag, built, copied, site, storeFiles,
          posting, ledger>>
  BY DEF Stays, gitVars, tgVars
<1>3. PhaseKnown' BY <1>2 DEF PubInv, PhaseKnown, Done, ver, StoreNames
<1> QED BY <1>1, <1>3, FileMoves

LEMMA MarkIs ==
  ASSUME file \in Underway, NEW n \in 0..10, Mark(n)
  PROVE  file' \in Underway /\ file'.phase = n /\ file'.version = file.version /\ file'.pin = file.pin
BY DEF Mark, Underway

(* A phase is written to the state file.                                     *)
LEMMA ScriptMarks ==
  ASSUME PubInv, file # NoRelease, NEW n \in {2, 5, 6, 7, 8, 9, 10}, Mark(n), file.phase \in {n - 1, n},
         n = 5 => remoteTag[ver] = file.pin,
         n = 6 => site[ver].is # "none",
         n = 7 => site[ver].assets = AssetCount /\ StoreNames(ver) \subseteq storeFiles,
         n = 8 => site[ver].is = "published",
         stepAt' \in ScriptPlaces, StepKnown', Stays
  PROVE  PubInv'
<1>1. file \in Underway /\ file.phase \in 0..10 BY FileIs DEF PubInv, PublishTypes
<1>2. UNCHANGED <<abandoned, commits, head, origin, localTag, remoteTag, built, copied, site, storeFiles,
          posting, ledger>>
  BY DEF Stays, gitVars, tgVars
<1>3. file' \in Underway /\ file'.phase = n /\ file'.version = file.version /\ file'.pin = file.pin
  BY <1>1, MarkIs
<1>4. file' # NoRelease /\ ver' = ver BY <1>3, UnderwayIs DEF ver
<1>5. PhaseKnown'
  <2>1. /\ Done(1) => file.pin \in 1..Len(commits) /\ commits[file.pin] = ver
        /\ Done(3) => built[ver] = file.pin
        /\ Done(4) => copied[ver] = file.pin
        /\ Done(5) => remoteTag[ver] = file.pin
        /\ Done(6) => site[ver].is # "none"
        /\ Done(7) => site[ver].assets = AssetCount /\ StoreNames(ver) \subseteq storeFiles
        /\ Done(8) => site[ver].is = "published"
        /\ site[ver].is # "none" => Done(5) /\ site[ver].commit = file.pin /\ site[ver].of = file.pin
        /\ site[ver].is = "published" => Done(7)
    BY DEF PubInv, PhaseKnown
  <2>2. \A k \in {1, 3, 4, 5, 6, 7, 8} : Done(k)' => k = n \/ Done(k) BY <1>1, <1>3 DEF Done
  <2>3. \A k \in {5, 7} : Done(k) => Done(k)' BY <1>1, <1>3 DEF Done
  <2>4. StoreNames(ver)' = StoreNames(ver) BY <1>4 DEF StoreNames
  <2> HIDE DEF Done
  <2> QED BY <1>2, <1>3, <1>4, <2>1, <2>2, <2>3, <2>4 DEF PhaseKnown
<1> QED BY <1>1, <1>3, <1>5, FileMoves

LEMMA SourceTaken == ASSUME PubInv, TakeSource \/ PinSource PROVE PubInv'
<1>0. file # NoRelease /\ file \in Underway /\ file.phase \in 0..10 /\ Stays /\ stepAt' = "gates"
          /\ head \in 1..Len(commits)
  BY FileIs DEF PubInv, StepKnown, TakeSource, PinSource, Goes, PublishTypes
<1>1. head \in Nat /\ stepAt' \in ScriptPlaces BY <1>0 DEF ScriptPlaces, PubInv, PublishTypes
<1>2. UNCHANGED <<abandoned, commits, head, origin, localTag, remoteTag, built, copied, site, storeFiles,
          posting, ledger>>
  BY <1>0 DEF Stays, gitVars, tgVars
<1>3. CASE UNCHANGED file /\ Done(1)
  <2>1. StepKnown' BY <1>0, <1>2, <1>3 DEF StepKnown, Done, ver
  <2> QED BY <1>0, <1>1, <1>3, <2>1, ScriptGoes
<1>4. CASE file' = [file EXCEPT !.phase = 1, !.pin = head] /\ commits[head] = ver /\ site[ver].is = "none"
  <2>1. file' \in Underway /\ file'.phase = 1 /\ file'.pin = head /\ file'.version = file.version
    <3>1. file.version \in 1..MaxReleases BY <1>0 DEF Underway
    <3>2. file' = [phase |-> 1, version |-> file.version, pin |-> head] BY <1>0, <1>4 DEF Underway
    <3> QED BY <1>1, <3>1, <3>2 DEF Underway
  <2>2. file' # NoRelease /\ ver' = ver BY <2>1, UnderwayIs DEF ver
  <2>3. PhaseKnown' BY <1>0, <1>2, <1>4, <2>1, <2>2 DEF PhaseKnown, Done
  <2>4. StepKnown' BY <1>0, <2>1, <2>2 DEF StepKnown, Done
  <2> QED BY <1>0, <1>1, <2>1, <2>3, <2>4, FileMoves
<1>5. (file.phase < 5 => site[ver].is = "none") BY <1>0 DEF PubInv, PhaseKnown, Done
<1>6. CASE TakeSource
  <2>1. \/ UNCHANGED file /\ (Done(5) \/ Done(1))
        \/ file' = [file EXCEPT !.phase = 1, !.pin = head] /\ commits[head] = ver /\ Untouched
    BY <1>6 DEF TakeSource
  <2>2. Done(5) => Done(1) BY <1>0 DEF Done
  <2> QED BY <1>3, <1>4, <2>1, <2>2 DEF Untouched
<1>7. CASE PinSource
  <2>1. stepAt = "pin" /\ file' = [file EXCEPT !.phase = 1, !.pin = head] BY <1>7 DEF PinSource
  <2>2. commits[head] = ver /\ file.phase < 5 BY <2>1 DEF PubInv, StepKnown
  <2> QED BY <1>4, <1>5, <2>1, <2>2
<1> QED BY <1>6, <1>7

(* The steps that compare and go on, or write their phase.                   *)
LEMMA GatesPassed == ASSUME PubInv, DevGate \/ AssetsReady \/ TagMark PROVE PubInv'
<1>0. file # NoRelease /\ file \in Underway /\ file.phase \in 0..10 /\ Stays
  BY FileIs DEF PubInv, StepKnown, DevGate, AssetsReady, TagMark, PublishTypes
<1>1. UNCHANGED <<abandoned, commits, head, origin, localTag, remoteTag, built, copied, site, storeFiles,
          posting, ledger>>
  BY <1>0 DEF Stays, gitVars, tgVars
<1>2. CASE DevGate
  <2>1. stepAt = "gates" /\ stepAt' = "gates" /\ Mark(2) /\ file.phase = 1
    BY <1>0, <1>2 DEF DevGate, Done, PubInv, StepKnown
  <2>2. file' \in Underway /\ file'.phase = 2 BY <1>0, <2>1, MarkIs
  <2>3. StepKnown' BY <2>1, <2>2, UnderwayIs DEF StepKnown, Done
  <2> QED BY <1>0, <2>1, <2>3, ScriptMarks DEF ScriptPlaces
<1>3. CASE AssetsReady
  <2>1. stepAt' = "tag" /\ UNCHANGED file /\ Done(4) BY <1>3 DEF AssetsReady, Goes
  <2>2. StepKnown' BY <1>0, <2>1 DEF StepKnown, Done
  <2> QED BY <1>0, <2>1, <2>2, ScriptGoes DEF ScriptPlaces
<1>4. CASE stepAt = "tag_mark" /\ Mark(5) /\ stepAt' = "draft"
  <2>1. file.phase = 4 /\ remoteTag[ver] = file.pin BY <1>4 DEF PubInv, StepKnown
  <2>2. file' \in Underway /\ file'.phase = 5 BY <1>0, <1>4, MarkIs
  <2>3. StepKnown' BY <1>4, <2>2, UnderwayIs DEF StepKnown, Done
  <2> QED BY <1>0, <1>4, <2>1, <2>3, ScriptMarks DEF ScriptPlaces
<1>5. CASE Done(5) /\ UNCHANGED file /\ stepAt' = "draft"
  <2>2. StepKnown' BY <1>0, <1>5 DEF StepKnown, Done
  <2> QED BY <1>0, <1>5, <2>2, ScriptGoes DEF ScriptPlaces
<1> QED BY <1>2, <1>3, <1>4, <1>5 DEF TagMark, Goes

LEMMA DraftPassed == ASSUME PubInv, DraftMark \/ StoreChecked \/ AssetsMark PROVE PubInv'
<1>0. file # NoRelease /\ file \in Underway /\ file.phase \in 0..10 /\ Stays
  BY FileIs DEF PubInv, StepKnown, DraftMark, StoreChecked, AssetsMark, PublishTypes
<1>1. UNCHANGED <<abandoned, commits, head, origin, localTag, remoteTag, built, copied, site, storeFiles,
          posting, ledger>>
  BY <1>0 DEF Stays, gitVars, tgVars
<1>2. CASE stepAt = "draft" /\ ~Done(6) /\ site[ver].is = "draft" /\ Mark(6) /\ stepAt' = "store"
  <2>1. file.phase = 5 BY <1>0, <1>2 DEF PubInv, StepKnown, Done
  <2>2. file' \in Underway /\ file'.phase = 6 BY <1>0, <1>2, MarkIs
  <2>3. StepKnown' BY <1>2, <2>2, UnderwayIs DEF StepKnown, Done
  <2> QED BY <1>0, <1>2, <2>1, <2>3, ScriptMarks DEF ScriptPlaces
<1>3. CASE Done(6) /\ UNCHANGED file /\ stepAt' = "store"
  <2>2. StepKnown' BY <1>0, <1>3 DEF StepKnown, Done
  <2> QED BY <1>0, <1>3, <2>2, ScriptGoes DEF ScriptPlaces
<1>4. CASE stepAt = "store" /\ (Done(7) \/ StoreNames(ver) \subseteq storeFiles) /\ UNCHANGED file /\ stepAt' = "assets"
  <2>1. Done(6) BY <1>4 DEF PubInv, StepKnown
  <2>2. StoreNames(ver) \subseteq storeFiles BY <1>0, <1>4 DEF PubInv, PhaseKnown
  <2>3. StepKnown' BY <1>0, <1>1, <1>4, <2>1, <2>2 DEF StepKnown, Done, StoreNames, ver
  <2> QED BY <1>0, <1>4, <2>3, ScriptGoes DEF ScriptPlaces
<1>5. CASE stepAt = "assets" /\ ~Done(7) /\ site[ver].assets = AssetCount /\ Mark(7) /\ stepAt' = "publish"
  <2>1. file.phase = 6 /\ StoreNames(ver) \subseteq storeFiles BY <1>0, <1>5 DEF PubInv, StepKnown, Done
  <2>2. file' \in Underway /\ file'.phase = 7 /\ file'.version = file.version BY <1>0, <1>5, MarkIs
  <2>3. StepKnown' BY <1>1, <1>5, <2>1, <2>2, UnderwayIs DEF StepKnown, Done, StoreNames, ver
  <2> QED BY <1>0, <1>5, <2>1, <2>3, ScriptMarks DEF ScriptPlaces
<1>6. CASE stepAt = "assets" /\ Done(7) /\ UNCHANGED file /\ stepAt' = "publish"
  <2>1. StoreNames(ver) \subseteq storeFiles BY <1>6 DEF PubInv, StepKnown
  <2>2. StepKnown' BY <1>0, <1>1, <1>6, <2>1 DEF StepKnown, Done, StoreNames, ver
  <2> QED BY <1>0, <1>6, <2>2, ScriptGoes DEF ScriptPlaces
<1> QED BY <1>2, <1>3, <1>4, <1>5, <1>6 DEF DraftMark, StoreChecked, AssetsMark, Goes

LEMMA EndPassed ==
  ASSUME PubInv, VerifyPublished \/ PruneSkipped \/ TelegramMark \/ Complete PROVE PubInv'
<1>0. file # NoRelease /\ file \in Underway /\ file.phase \in 0..10 /\ Stays
  BY FileIs
  DEF PubInv, StepKnown, VerifyPublished, PruneSkipped, TelegramMark, Complete, PublishTypes
<1>1. UNCHANGED <<abandoned, commits, head, origin, localTag, remoteTag, built, copied, site, storeFiles,
          posting, ledger>>
  BY <1>0 DEF Stays, gitVars, tgVars
<1>2. CASE stepAt = "publish" /\ site[ver].is = "published" /\ ~Done(8) /\ Mark(8) /\ stepAt' = "prune"
  <2>1. file.phase = 7 BY <1>0, <1>2 DEF PubInv, StepKnown, Done
  <2>2. file' \in Underway /\ file'.phase = 8 BY <1>0, <1>2, MarkIs
  <2>3. StepKnown' BY <1>2, <2>2, UnderwayIs DEF StepKnown, Done
  <2> QED BY <1>0, <1>2, <2>1, <2>3, ScriptMarks DEF ScriptPlaces
<1>3. CASE Done(8) /\ UNCHANGED file /\ stepAt' \in {"prune", "telegram"}
  <2>2. StepKnown' BY <1>0, <1>3 DEF StepKnown, Done
  <2> QED BY <1>0, <1>3, <2>2, ScriptGoes DEF ScriptPlaces
<1>4. CASE file.phase = 8 /\ Mark(9) /\ stepAt' = "final"
  <2>2. file' \in Underway /\ file'.phase = 9 BY <1>0, <1>4, MarkIs
  <2>3. StepKnown' BY <1>4, <2>2, UnderwayIs DEF StepKnown, Done
  <2> QED BY <1>0, <1>4, <2>3, ScriptMarks DEF ScriptPlaces
<1>5. CASE Done(9) /\ UNCHANGED file /\ stepAt' = "final"
  <2>2. StepKnown' BY <1>0, <1>5 DEF StepKnown, Done
  <2> QED BY <1>0, <1>5, <2>2, ScriptGoes DEF ScriptPlaces
<1>6. CASE Complete
  <2>1. stepAt = "final" /\ Mark(10) /\ stepAt' = "archive" BY <1>6 DEF Complete, Goes
  <2>2. file.phase \in {9, 10} BY <1>0, <2>1 DEF PubInv, StepKnown, Done
  <2>3. file' \in Underway /\ file'.phase = 10 BY <1>0, <2>1, MarkIs
  <2>4. StepKnown' BY <2>1, <2>3, UnderwayIs DEF StepKnown, Done
  <2> QED BY <1>0, <2>1, <2>2, <2>4, ScriptMarks DEF ScriptPlaces
<1>7. CASE VerifyPublished
  <2>1. stepAt = "publish" /\ site[ver].is = "published" /\ stepAt' = "prune"
        /\ ((Done(8) /\ UNCHANGED file) \/ (~Done(8) /\ Mark(8)))
    BY <1>7 DEF VerifyPublished, Goes
  <2> QED BY <1>2, <1>3, <2>1
<1>8. CASE PruneSkipped
  <2>1. stepAt = "prune" /\ stepAt' = "telegram" /\ UNCHANGED file BY <1>8 DEF PruneSkipped, Goes
  <2>2. Done(8) BY <2>1 DEF PubInv, StepKnown
  <2> QED BY <1>3, <2>1, <2>2
<1>9. CASE TelegramMark
  <2>1. stepAt' = "final" /\ ((stepAt = "posted" /\ Mark(9)) \/ (stepAt = "telegram" /\ ~Done(9) /\ Mark(9))
                               \/ (stepAt = "telegram" /\ Done(9) /\ UNCHANGED file))
    BY <1>9 DEF TelegramMark, Goes
  <2>2. (stepAt = "posted" => file.phase = 8) /\ (stepAt = "telegram" => file.phase >= 8)
    BY DEF PubInv, StepKnown, Done
  <2>3. stepAt = "telegram" /\ ~Done(9) => file.phase = 8 BY <1>0, <2>2 DEF Done
  <2> QED BY <1>4, <1>5, <2>1, <2>2, <2>3
<1> QED BY <1>6, <1>7, <1>8, <1>9

(* What the build machine built, what was copied.                            *)
LEMMA BuildsSafe == ASSUME PubInv, StableGate \/ CollectAssets PROVE PubInv'
<1>0. file # NoRelease /\ file \in Underway /\ file.phase \in 0..10 /\ ver \in Releases
          /\ file.pin \in Nat /\ stepAt = "gates"
      /\ built \in [Releases -> Nat] /\ copied \in [Releases -> Nat]
  BY FileIs DEF PubInv, StepKnown, StableGate, CollectAssets, PublishTypes
<1>1. UNCHANGED <<stepAt, abandoned, commits, head, origin, localTag, remoteTag, site, storeFiles, posting,
          ledger>>
  BY DEF StableGate, CollectAssets, gitVars, tgVars
<1>2. PICK n \in {3, 4} : /\ Mark(n) /\ file.phase = n - 1
                          /\ n = 3 => built' = [built EXCEPT ![ver] = file.pin] /\ copied' = copied
                          /\ n = 4 => copied' = [copied EXCEPT ![ver] = built[ver]] /\ built' = built
  <2>1. CASE StableGate
    <3>1. file.phase = 2 BY <1>0, <2>1 DEF StableGate, Done
    <3> QED BY <2>1, <3>1 DEF StableGate
  <2>2. CASE CollectAssets
    <3>1. file.phase = 3 BY <1>0, <2>2 DEF CollectAssets, Done
    <3> QED BY <2>2, <3>1 DEF CollectAssets
  <2> QED BY <2>1, <2>2
<1>3. file' \in Underway /\ file'.phase = n /\ file'.version = file.version /\ file'.pin = file.pin
  BY <1>0, <1>2, MarkIs
<1>4. file' # NoRelease /\ ver' = ver BY <1>3, UnderwayIs DEF ver
<1>5. built' \in [Releases -> Nat] /\ copied' \in [Releases -> Nat] BY <1>0, <1>2
<1>6. PublishTypes' BY <1>1, <1>3, <1>5 DEF PubInv, PublishTypes
<1>7. n = 4 => built[ver] = file.pin BY <1>0, <1>2 DEF PubInv, PhaseKnown, Done
<1>8. built'[ver] = file.pin /\ (n = 4 => copied'[ver] = file.pin) BY <1>0, <1>2, <1>7
<1>9. PhaseKnown'
  <2>1. Done(1) => file.pin \in 1..Len(commits) /\ commits[file.pin] = ver BY <1>0 DEF PubInv, PhaseKnown
  <2>2. site[ver].is = "none" BY <1>0, <1>2 DEF PubInv, PhaseKnown, Done
  <2>3. file.phase >= 1 BY <1>2
  <2> QED BY <1>1, <1>2, <1>3, <1>4, <1>8, <2>1, <2>2, <2>3 DEF PhaseKnown, Done
<1>10. StepKnown' BY <1>0, <1>1, <1>2, <1>3, <1>4 DEF StepKnown, Done
<1> QED BY <1>0, <1>1, <1>3, <1>6, <1>9, <1>10, PubMoves

(* git.                                                                      *)
LEMMA CommitsGrow ==
  ASSUME PublishTypes, NEW v \in Releases
  PROVE  /\ Append(commits, v) \in Seq(Releases) /\ Len(Append(commits, v)) = Len(commits) + 1
            /\ Len(commits) \in Nat
         /\ \A i \in 1..Len(commits) : Append(commits, v)[i] = commits[i]
         /\ Append(commits, v)[Len(commits) + 1] = v
         /\ localTag \in [Releases -> 0..Len(commits) + 1] /\ remoteTag \in [Releases -> 0..Len(commits) + 1]
<1>1. commits \in Seq(Releases) /\ localTag \in [Releases -> 0..Len(commits)]
          /\ remoteTag \in [Releases -> 0..Len(commits)]
  BY DEF PublishTypes
<1>2. Len(commits) \in Nat BY <1>1
<1>3. \A i \in 0..Len(commits) : i \in 0..Len(commits) + 1 BY <1>2
<1> QED BY <1>1, <1>2, <1>3

LEMMA SourceWritten == ASSUME PubInv, EditSource \/ CommitSource \/ PushSource PROVE PubInv'
<1>0. file # NoRelease /\ file \in Underway /\ file.phase \in 0..10 /\ ver \in Releases /\ UNCHANGED file
          /\ ver' = ver
  BY FileIs DEF PubInv, StepKnown, EditSource, CommitSource, PushSource, PublishTypes, ver
<1>1. UNCHANGED <<abandoned, localTag, remoteTag, built, copied, site, storeFiles, posting, ledger>>
  BY DEF EditSource, CommitSource, PushSource, gitVars, tgVars
<1>2. CASE EditSource
  <2>1. UNCHANGED <<commits, head, origin>> /\ stepAt' = "commit" /\ ~Done(1) BY <1>2 DEF EditSource, Goes
  <2>2. PublishTypes' BY <1>0, <1>1, <2>1 DEF PubInv, PublishTypes, ScriptPlaces
  <2>3. PhaseKnown' BY <1>0, <1>1, <2>1 DEF PubInv, PhaseKnown, Done, StoreNames
  <2>4. StepKnown' BY <1>0, <2>1 DEF StepKnown, Done
  <2> QED BY <1>0, <1>1, <2>1, <2>2, <2>3, <2>4, PubMoves
<1>3. CASE CommitSource
  <2>1. commits' = Append(commits, ver) /\ head' = Len(commits) + 1 /\ UNCHANGED origin
            /\ stepAt' = "push" /\ file.phase = 0
    BY <1>3 DEF CommitSource, Goes, PubInv, StepKnown
  <2>2. /\ commits' \in Seq(Releases) /\ Len(commits') = Len(commits) + 1 /\ Len(commits) \in Nat
        /\ \A i \in 1..Len(commits) : commits'[i] = commits[i]
        /\ commits'[head'] = ver
        /\ localTag' \in [Releases -> 0..Len(commits')] /\ remoteTag' \in [Releases -> 0..Len(commits')]
    BY <1>0, <1>1, <2>1, CommitsGrow DEF PubInv
  <2>3. head' \in 1..Len(commits') /\ origin' \in 1..Len(commits')
    <3>1. origin' \in 1..Len(commits) BY <2>1 DEF PubInv, PublishTypes
    <3>2. head' = Len(commits') BY <2>1, <2>2
    <3>3. \A n \in Nat : n + 1 \in 1..n + 1 /\ \A o \in 1..n : o \in 1..n + 1 OBVIOUS
    <3> QED BY <2>2, <3>1, <3>2, <3>3
  <2>4. PublishTypes' BY <1>0, <1>1, <2>1, <2>2, <2>3 DEF PubInv, PublishTypes, ScriptPlaces
  <2>5. PhaseKnown' BY <1>0, <1>1, <2>1 DEF PubInv, PhaseKnown, Done, StoreNames
  <2>6. StepKnown' BY <1>0, <2>1, <2>2 DEF StepKnown, Done
  <2> QED BY <1>0, <1>1, <2>2, <2>4, <2>5, <2>6, PubMoves
<1>4. CASE PushSource
  <2>1. UNCHANGED <<commits, head>> /\ origin' = head /\ stepAt' = "pin" /\ stepAt = "push"
    BY <1>4 DEF PushSource, Goes
  <2>2. commits[head] = ver /\ file.phase = 0 BY <2>1 DEF PubInv, StepKnown
  <2>3. PublishTypes' BY <1>0, <1>1, <2>1 DEF PubInv, PublishTypes, ScriptPlaces
  <2>4. PhaseKnown' BY <1>0, <1>1, <2>1 DEF PubInv, PhaseKnown, Done, StoreNames
  <2>5. StepKnown' BY <1>0, <2>1, <2>2 DEF StepKnown, Done
  <2> QED BY <1>0, <1>1, <2>1, <2>3, <2>4, <2>5, PubMoves
<1> QED BY <1>2, <1>3, <1>4

LEMMA TagsSafe == ASSUME PubInv, TagHere \/ PushTag PROVE PubInv'
<1>0. file # NoRelease /\ file \in Underway /\ file.phase = 4 /\ ver \in Releases /\ UNCHANGED file
          /\ ver' = ver
  <2>1. file # NoRelease /\ file.phase >= 4 /\ UNCHANGED file BY DEF PubInv, StepKnown, TagHere, PushTag, Done
  <2>2. file \in Underway /\ file.phase \in 0..10 /\ ver \in Releases BY <2>1, FileIs DEF PubInv
  <2>3. file.phase < 5
    <3>1. CASE TagHere BY <2>2, <3>1 DEF TagHere, Done
    <3>2. CASE PushTag BY <3>2 DEF PushTag, PubInv, StepKnown
    <3> QED BY <3>1, <3>2
  <2> QED BY <2>1, <2>2, <2>3 DEF ver
<1>1. UNCHANGED <<abandoned, commits, head, origin, built, copied, site, storeFiles, posting, ledger>>
  BY DEF TagHere, PushTag, tgVars
<1>2. file.pin \in 1..Len(commits) /\ commits[file.pin] = ver /\ site[ver].is = "none" /\ Len(commits) \in Nat
  <2>1. commits \in Seq(Releases) BY DEF PubInv, PublishTypes
  <2>2. Done(1) /\ ~Done(5) BY <1>0 DEF Done
  <2> QED BY <1>0, <2>1, <2>2 DEF PubInv, PhaseKnown
<1>3. file.pin \in 0..Len(commits) BY <1>2
<1>4. \/ localTag' = [localTag EXCEPT ![ver] = file.pin] /\ UNCHANGED remoteTag /\ stepAt' = "push_tag"
      \/ remoteTag' = [remoteTag EXCEPT ![ver] = file.pin] /\ UNCHANGED localTag /\ stepAt' = "tag_mark"
  BY DEF TagHere, PushTag, Goes
<1>5. localTag \in [Releases -> 0..Len(commits)] /\ remoteTag \in [Releases -> 0..Len(commits)]
  BY DEF PubInv, PublishTypes
<1>6. localTag' \in [Releases -> 0..Len(commits)] /\ remoteTag' \in [Releases -> 0..Len(commits)]
  BY <1>3, <1>4, <1>5
<1>7. \A v \in Releases \ {ver} : localTag'[v] = localTag[v] /\ remoteTag'[v] = remoteTag[v] BY <1>4, <1>5
<1>8. stepAt' = "tag_mark" => remoteTag'[ver] = file.pin BY <1>0, <1>4, <1>5
<1>9. stepAt' \in {"push_tag", "tag_mark"} BY <1>4
<1>10. PublishTypes' BY <1>0, <1>1, <1>6, <1>9 DEF PubInv, PublishTypes, ScriptPlaces
<1>11. PhaseKnown' BY <1>0, <1>1 DEF PubInv, PhaseKnown, Done, StoreNames
<1>12. StepKnown' BY <1>0, <1>8, <1>9 DEF StepKnown, Done
<1> QED BY <1>0, <1>1, <1>7, <1>10, <1>11, <1>12, PubMoves

(* A step beside the state file, the site and the tags.                      *)
LEMMA PubBeside ==
  ASSUME PubInv, UNCHANGED <<file, abandoned, localTag, remoteTag, built, copied, site, storeFiles>>,
         PublishTypes', StepKnown',
         Len(commits) \in Nat, Len(commits') \in Nat, Len(commits) <= Len(commits'),
         \A i \in 1..Len(commits) : commits'[i] = commits[i],
         \A v \in Releases : posting'[v] > 0 \/ v \in ledger' => posting[v] > 0 \/ v \in ledger \/ site[v].is = "published"
  PROVE  PubInv'
<1>1. ver' = ver BY DEF ver
<1>2. \A i \in 1..Len(commits) : i \in 1..Len(commits') /\ commits'[i] = commits[i] OBVIOUS
<1>3. PhaseKnown'
  <2> USE DEF PubInv, PhaseKnown, Done, StoreNames
  <2>1. file # NoRelease /\ file.phase >= 1 => file.pin \in 1..Len(commits') /\ commits'[file.pin] = ver BY <1>2
  <2> QED BY <1>1, <2>1
<1>4. FrontInv' BY <1>1 DEF PubInv, FrontInv, FrontAt, Settled, Unheard
<1>5. ASSUME NEW v \in Releases, site[v].is = "published" PROVE commits'[remoteTag[v]] = v
  <2>1. remoteTag[v] \in 0..Len(commits) /\ remoteTag[v] # 0 /\ commits[remoteTag[v]] = v
    BY <1>5 DEF PubInv, OutInv, PublishTypes
  <2>2. remoteTag[v] \in 1..Len(commits) BY <2>1
  <2> QED BY <1>2, <2>1, <2>2
<1>6. OutInv' BY <1>1, <1>5 DEF PubInv, OutInv, Done, StoreNames
<1> QED BY <1>3, <1>4, <1>6 DEF PubInv

LEMMA PeopleSafe == ASSUME PubInv, PeopleCommit \/ TidySource \/ BreakRelease PROVE PubInv'
<1>0. /\ commits \in Seq(Releases) /\ head \in 1..Len(commits) /\ origin \in 1..Len(commits)
             /\ Len(commits) \in Nat
      /\ UNCHANGED <<file, abandoned, localTag, remoteTag, built, copied, site, storeFiles, posting,
             ledger>> /\ ver' = ver
  <2>1. commits \in Seq(Releases) /\ head \in 1..Len(commits) /\ origin \in 1..Len(commits)
    BY DEF PubInv, PublishTypes
  <2>2. UNCHANGED <<file, abandoned, localTag, remoteTag, built, copied, site, storeFiles, posting, ledger>>
    BY DEF PeopleCommit, TidySource, BreakRelease, gitVars, tgVars
  <2>3. Len(commits) \in Nat BY <2>1
  <2> QED BY <2>1, <2>2, <2>3 DEF ver
<1>1. CASE PeopleCommit
  <2>1. commits' = Append(commits, commits[head]) /\ origin' = Len(commits) + 1 /\ UNCHANGED stepAt
        /\ ((stepAt = "idle" /\ head' = origin') \/ head' = head)
    BY <1>1 DEF PeopleCommit
  <2>2. commits[head] \in Releases BY <1>0
  <2>3. /\ commits' \in Seq(Releases) /\ Len(commits') = Len(commits) + 1
        /\ \A i \in 1..Len(commits) : commits'[i] = commits[i]
        /\ localTag' \in [Releases -> 0..Len(commits')] /\ remoteTag' \in [Releases -> 0..Len(commits')]
    BY <1>0, <2>1, <2>2, CommitsGrow DEF PubInv
  <2>4. head' \in 1..Len(commits') /\ origin' \in 1..Len(commits')
    <3>1. \A n \in Nat : n + 1 \in 1..n + 1 /\ \A o \in 1..n : o \in 1..n + 1 OBVIOUS
    <3> QED BY <1>0, <2>1, <2>3, <3>1
  <2>5. PublishTypes' BY <1>0, <2>1, <2>3, <2>4 DEF PubInv, PublishTypes
  <2>6. StepKnown'
    <3>1. stepAt \in {"push", "pin"} => commits'[head'] = ver BY <1>0, <2>1, <2>3 DEF PubInv, StepKnown
    <3> QED BY <1>0, <2>1, <3>1 DEF PubInv, StepKnown, Done, StoreNames
  <2>7. Len(commits') \in Nat /\ Len(commits) <= Len(commits') BY <1>0, <2>3
  <2> QED BY <1>0, <2>3, <2>5, <2>6, <2>7, PubBeside
<1>2. CASE TidySource \/ BreakRelease
  <2>1. UNCHANGED commits /\ head' \in {head, origin} /\ origin' \in {head, origin} /\ stepAt' = "idle"
    BY <1>2 DEF TidySource, BreakRelease, gitVars, Goes
  <2>2. PublishTypes' BY <1>0, <2>1 DEF PubInv, PublishTypes, ScriptPlaces
  <2>3. StepKnown' BY <2>1 DEF StepKnown
  <2> QED BY <1>0, <2>1, <2>2, <2>3, PubBeside
<1> QED BY <1>1, <1>2

LEMMA PostsSafe == ASSUME PubInv, AskPublisher \/ PublisherEnds PROVE PubInv'
<1>0. /\ commits \in Seq(Releases) /\ Len(commits) \in Nat /\ posting \in [Releases -> Nat]
             /\ ledger \subseteq Releases
      /\ UNCHANGED <<file, abandoned, commits, head, origin, localTag, remoteTag, built, copied, site,
             storeFiles>> /\ ver' = ver
  <2>1. commits \in Seq(Releases) /\ posting \in [Releases -> Nat] /\ ledger \subseteq Releases
    BY DEF PubInv, PublishTypes
  <2>2. UNCHANGED <<file, abandoned, commits, head, origin, localTag, remoteTag, built, copied, site,
            storeFiles>>
    BY DEF AskPublisher, PublisherEnds, gitVars
  <2>3. Len(commits) \in Nat BY <2>1
  <2> QED BY <2>1, <2>2, <2>3 DEF ver
<1>1. CASE AskPublisher
  <2>1. stepAt = "telegram" /\ ~Done(9) /\ posting' = [posting EXCEPT ![ver] = @ + 1]
            /\ stepAt' = "posted" /\ UNCHANGED ledger
    BY <1>1 DEF AskPublisher, Goes
  <2>2. file # NoRelease /\ Done(8) BY <2>1 DEF PubInv, StepKnown
  <2>3. ver \in Releases /\ file.phase \in 0..10 BY <2>2, FileIs DEF PubInv
  <2>4. file.phase = 8 BY <2>1, <2>2, <2>3 DEF Done
  <2>5. site[ver].is = "published" BY <2>2 DEF PubInv, PhaseKnown
  <2>6. posting' \in [Releases -> Nat] /\ \A v \in Releases \ {ver} : posting'[v] = posting[v]
    BY <1>0, <2>1, <2>3
  <2>7. PublishTypes' BY <1>0, <2>1, <2>6 DEF PubInv, PublishTypes, ScriptPlaces
  <2>8. StepKnown' BY <1>0, <2>1, <2>2, <2>4 DEF StepKnown
  <2>9. \A v \in Releases : posting'[v] > 0 \/ v \in ledger' => posting[v] > 0 \/ v \in ledger \/ site[v].is = "published"
    BY <2>1, <2>5, <2>6
  <2> QED BY <1>0, <2>7, <2>8, <2>9, PubBeside
<1>2. CASE PublisherEnds
  <2>1. PICK v \in Releases : /\ posting[v] > 0 /\ posting' = [posting EXCEPT ![v] = @ - 1]
            /\ ledger' = ledger \cup {v}
                              /\ UNCHANGED stepAt
    BY <1>2 DEF PublisherEnds
  <2>2. posting[v] - 1 \in Nat BY <1>0, <2>1
  <2>3. posting' \in [Releases -> Nat] /\ \A w \in Releases \ {v} : posting'[w] = posting[w] BY <1>0, <2>1, <2>2
  <2>4. PublishTypes' BY <1>0, <2>1, <2>3 DEF PubInv, PublishTypes
  <2>5. StepKnown' BY <1>0, <2>1 DEF PubInv, StepKnown, Done, StoreNames
  <2>6. \A w \in Releases : posting'[w] > 0 \/ w \in ledger' => posting[w] > 0 \/ w \in ledger \/ site[w].is = "published"
    BY <2>1, <2>3
  <2> QED BY <1>0, <2>4, <2>5, <2>6, PubBeside
<1> QED BY <1>1, <1>2

(* The site.                                                                 *)
LEMMA SiteMoves ==
  ASSUME PubInv, file # NoRelease, NEW new \in OnSite, site' = [site EXCEPT ![ver] = new],
         new.is # "none", Done(5), new.commit = file.pin, new.of = file.pin,
         new.is = "published" \/ ~Done(8), new.assets = AssetCount \/ ~Done(7),
         site[ver].is = "published" => new.is = "published",
         new.is = "published" => Done(7), stepAt # "abandon",
         UNCHANGED <<file, stepAt, abandoned, gitVars, built, copied, storeFiles, posting, ledger>>
  PROVE  PubInv'
<1>0. file \in Underway /\ ver \in Releases /\ ver' = ver BY FileIs DEF PubInv, ver
<1>1. UNCHANGED <<commits, head, origin, localTag, remoteTag>> BY DEF gitVars
<1>2. site \in [Releases -> OnSite] BY DEF PubInv, PublishTypes
<1>3. site' \in [Releases -> OnSite] /\ site'[ver] = new /\ \A v \in Releases \ {ver} : site'[v] = site[v]
  BY <1>0, <1>2
<1>4. PublishTypes' BY <1>1, <1>3 DEF PubInv, PublishTypes
<1>5. PhaseKnown'
  <2>1. /\ Done(1) => file.pin \in 1..Len(commits) /\ commits[file.pin] = ver
        /\ Done(3) => built[ver] = file.pin
        /\ Done(4) => copied[ver] = file.pin
        /\ Done(5) => remoteTag[ver] = file.pin
        /\ Done(7) => StoreNames(ver) \subseteq storeFiles
    BY DEF PubInv, PhaseKnown
  <2> QED BY <1>0, <1>1, <1>3, <2>1 DEF PhaseKnown, Done, StoreNames
<1>6. StepKnown' BY <1>0, <1>1 DEF PubInv, StepKnown, Done, StoreNames
<1> QED BY <1>0, <1>1, <1>3, <1>4, <1>5, <1>6, PubMoves

LEMMA SiteSafe == ASSUME PubInv, CreateDraft \/ UploadAsset \/ PublishDraft PROVE PubInv'
<1>0. /\ stepAt \in {"draft", "assets", "publish"} /\ file # NoRelease
      /\ UNCHANGED <<file, stepAt, abandoned, gitVars, built, copied, storeFiles, posting, ledger>>
  BY DEF CreateDraft, UploadAsset, PublishDraft, PubInv, StepKnown, tgVars
<1>1. file \in Underway /\ file.phase \in 0..10 /\ ver \in Releases /\ file.pin \in Nat
  BY <1>0, FileIs DEF PubInv
<1>2. site[ver] \in OnSite BY <1>1 DEF PubInv, PublishTypes
<1>3. CASE CreateDraft
  <2> DEFINE new == [is |-> "draft", commit |-> file.pin, assets |-> 0, of |-> copied[ver]]
  <2>1. Done(5) /\ ~Done(6) BY <1>3 DEF CreateDraft, PubInv, StepKnown
  <2>2. copied[ver] = file.pin /\ site[ver].is = "none" /\ ~Done(7) /\ ~Done(8)
    BY <1>0, <1>1, <1>3, <2>1 DEF CreateDraft, PubInv, PhaseKnown, Done
  <2>3. site' = [site EXCEPT ![ver] = new] BY <1>3 DEF CreateDraft
  <2>4. new \in OnSite /\ new.is = "draft" /\ new.commit = file.pin /\ new.of = file.pin
    BY <1>1, <2>2 DEF OnSite
  <2> HIDE DEF new
  <2> QED BY <1>0, <2>1, <2>2, <2>3, <2>4, SiteMoves
<1>4. CASE UploadAsset
  <2> DEFINE new == [site[ver] EXCEPT !.assets = @ + 1]
  <2>1. Done(6) /\ ~Done(7) BY <1>4 DEF UploadAsset, PubInv, StepKnown
  <2>2. ~Done(8) /\ Done(5) BY <1>1, <2>1 DEF Done
  <2>3. site[ver].is # "none" /\ site[ver].is # "published" /\ site[ver].commit = file.pin
            /\ site[ver].of = file.pin
    BY <1>0, <2>1 DEF PubInv, PhaseKnown
  <2>4. site' = [site EXCEPT ![ver] = new]
    <3>1. site \in [Releases -> OnSite] BY DEF PubInv, PublishTypes
    <3>2. site' = [site EXCEPT ![ver].assets = @ + 1] BY <1>4 DEF UploadAsset
    <3> QED BY <1>1, <3>1, <3>2
  <2>5. new \in OnSite /\ new.is = site[ver].is /\ new.commit = site[ver].commit /\ new.of = site[ver].of
    BY <1>2 DEF OnSite
  <2> HIDE DEF new
  <2> QED BY <1>0, <2>1, <2>2, <2>3, <2>4, <2>5, SiteMoves
<1>5. CASE PublishDraft
  <2> DEFINE new == [site[ver] EXCEPT !.is = "published"]
  <2>1. Done(7) /\ site[ver].is = "draft" BY <1>5 DEF PublishDraft, PubInv, StepKnown
  <2>2. Done(5) BY <1>1, <2>1 DEF Done
  <2>3. site[ver].assets = AssetCount /\ site[ver].commit = file.pin /\ site[ver].of = file.pin
    BY <1>0, <2>1 DEF PubInv, PhaseKnown
  <2>4. site' = [site EXCEPT ![ver] = new] BY <1>5 DEF PublishDraft
  <2>5. new \in OnSite /\ new.is = "published" /\ new.commit = site[ver].commit /\ new.of = site[ver].of
            /\ new.assets = site[ver].assets
    BY <1>2 DEF OnSite
  <2> HIDE DEF new
  <2> QED BY <1>0, <2>1, <2>2, <2>3, <2>4, <2>5, SiteMoves
<1> QED BY <1>3, <1>4, <1>5

(* The store.                                                                *)
LEMMA StoreSafe == ASSUME PubInv, UploadStore \/ PruneStore PROVE PubInv'
<1>0. /\ file # NoRelease /\ stepAt \in {"store", "prune"}
      /\ UNCHANGED <<file, abandoned, commits, head, origin, localTag, remoteTag, built, copied, site,
             posting, ledger>>
  BY DEF UploadStore, PruneStore, PubInv, StepKnown, gitVars, tgVars
<1>1. file \in Underway /\ ver \in Releases /\ ver' = ver BY <1>0, FileIs DEF PubInv, ver
<1>2. CASE UploadStore
  <2>1. storeFiles \subseteq storeFiles' /\ storeFiles' \subseteq storeFiles \cup StoreNames(ver)
            /\ UNCHANGED stepAt
    BY <1>2 DEF UploadStore
  <2>2. StoreNames(ver) \subseteq Releases BY DEF StoreNames
  <2>3. PublishTypes' BY <1>0, <2>1, <2>2 DEF PubInv, PublishTypes
  <2>4. PhaseKnown' BY <1>0, <1>1, <2>1 DEF PubInv, PhaseKnown, Done, StoreNames
  <2>5. StepKnown' BY <1>0, <1>1, <2>1 DEF PubInv, StepKnown, Done, StoreNames
  <2> QED BY <1>0, <1>1, <2>1, <2>3, <2>4, <2>5, PubMoves
<1>3. CASE PruneStore
  <2>1. storeFiles' \subseteq storeFiles /\ StoreNames(ver) \subseteq storeFiles' /\ stepAt = "prune"
            /\ stepAt' = "telegram"
    BY <1>3 DEF PruneStore, Goes
  <2>2. Done(8) /\ site[ver].is = "published" BY <1>0, <2>1 DEF PubInv, StepKnown, PhaseKnown
  <2>3. PublishTypes' BY <1>0, <2>1 DEF PubInv, PublishTypes, ScriptPlaces
  <2>4. PhaseKnown' BY <1>0, <1>1, <2>1 DEF PubInv, PhaseKnown, Done, StoreNames
  <2>5. StepKnown' BY <1>0, <1>1, <2>1, <2>2 DEF StepKnown, Done
  <2> QED BY <1>0, <1>1, <2>1, <2>2, <2>3, <2>4, <2>5, PubMoves
<1> QED BY <1>2, <1>3

(* A bounded set of numbers has a greatest one.                              *)
LEMMA GreatestNumber ==
  ASSUME NEW M \in Nat, NEW S, S \subseteq 0..M, S # {} PROVE \E x \in S : \A y \in S : y <= x
<1> DEFINE T == {n \in 0..M : M - n \in S}
<1>1. T \subseteq Nat OBVIOUS
<1>2. T # {}
  <2>1. PICK x \in S : TRUE OBVIOUS
  <2>2. M - x \in 0..M /\ M - (M - x) = x BY <2>1
  <2> QED BY <2>1, <2>2
<1>3. PICK n \in T : \A m \in T : n <= m
  <2> HIDE DEF T
  <2> QED BY <1>1, <1>2, LeastNumber
<1>4. M - n \in S /\ n \in 0..M OBVIOUS
<1>5. ASSUME NEW y \in S PROVE y <= M - n
  <2>1. y \in 0..M /\ M - y \in 0..M /\ M - (M - y) = y OBVIOUS
  <2>2. M - y \in T BY <2>1
  <2>3. n <= M - y BY <1>3, <2>2
  <2> QED BY <1>4, <2>1, <2>3
<1> QED BY <1>4, <1>5

LEMMA NewestIs ==
  ASSUME NEW S, S \subseteq Releases, S # {}
  PROVE  NewestOf(S) \in S /\ \A w \in S : w <= NewestOf(S)
<1>1. \E x \in S : \A y \in S : y <= x BY GreatestNumber, PublishConstants DEF Releases
<1> QED BY <1>1 DEF NewestOf

(* The next release follows the front.                                       *)
LEMMA BaseIs ==
  ASSUME PubInv, NEW b \in Releases, FrontAt(b), Settled(b) PROVE Base = b
<1> DEFINE t == NewestOf(TaggedHere)
<1>1. \A v \in Releases : site[v].is = "published" => v \in TaggedHere BY DEF PubInv, OutInv, TaggedHere
<1>2. TaggedHere \subseteq Releases /\ 0 \in TaggedHere BY <1>1, PublishConstants DEF PubInv, OutInv, TaggedHere
<1>3. t \in TaggedHere /\ \A w \in TaggedHere : w <= t BY <1>2, NewestIs
<1> HIDE DEF t
<1>4. t \in Releases BY <1>2, <1>3
<1>5. t <= b
  <2>1. localTag[t] # 0 \/ remoteTag[t] # 0 BY <1>3 DEF TaggedHere
  <2>2. ~(t > b) BY <1>4, <2>1 DEF FrontAt, Unheard
  <2> QED BY <1>4, <2>2, PublishConstants
<1>6. \A v \in Releases : v > t /\ v <= b => v \in abandoned
  <2>1. TAKE v \in Releases
  <2>2. ASSUME v > t, v <= b PROVE v \in abandoned
    <3>1. Settled(v) BY <2>2, PublishConstants DEF FrontAt
    <3>2. site[v].is # "published"
      <4>1. v \in TaggedHere => v <= t BY <1>3
      <4> QED BY <1>1, <1>4, <2>2, <4>1, PublishConstants
    <3> QED BY <3>1, <3>2 DEF Settled
  <2> QED BY <2>2
<1>7. b + 1 \notin abandoned
  <2>1. ASSUME b + 1 \in abandoned PROVE FALSE
    <3>1. b + 1 \in Releases BY <2>1 DEF PubInv, PublishTypes
    <3>2. b + 1 > b BY PublishConstants
    <3> QED BY <2>1, <3>1, <3>2 DEF FrontAt, Unheard
  <2> QED BY <2>1
<1> DEFINE Follows(x) == x >= t /\ (\A v \in t + 1 .. x : v \in abandoned) /\ x + 1 \notin abandoned
<1>8. Follows(b)
  <2>1. \A v \in t + 1 .. b : v \in Releases /\ v > t /\ v <= b BY <1>4, PublishConstants DEF Releases
  <2> QED BY <1>4, <1>5, <1>6, <1>7, <2>1, PublishConstants
<1>9. ASSUME NEW x \in Releases, Follows(x) PROVE x = b
  <2>0. x \in Nat /\ b \in Nat /\ t \in Nat BY <1>4, PublishConstants
  <2>1. CASE x < b
    <3>0. x >= t /\ x + 1 \notin abandoned BY <1>9
    <3>1. b \in 0..MaxReleases /\ MaxReleases \in Nat BY PublishConstants DEF Releases
    <3>2. x + 1 \in 0..MaxReleases /\ x + 1 > t /\ x + 1 <= b
      <4> HIDE DEF Follows
      <4> QED BY <2>0, <2>1, <3>0, <3>1
    <3> QED BY <1>6, <3>0, <3>2 DEF Releases
  <2>2. CASE x > b
    <3>1. b + 1 \in t + 1 .. x BY <1>5, <2>0, <2>2
    <3> QED BY <1>7, <1>9, <3>1
  <2> QED BY <2>0, <2>1, <2>2
<1>10. Base = CHOOSE x \in Releases : Follows(x) BY DEF Base, t
<1> HIDE DEF Follows
<1> QED BY <1>8, <1>9, <1>10

(* The state file is put aside.                                              *)
LEMMA FileOver ==
  ASSUME PubInv, file # NoRelease, file' = NoRelease, stepAt' = "idle", Settled(ver), site[ver].is # "draft",
             Stays
  PROVE  PubInv'
<1>0. UNCHANGED <<abandoned, commits, head, origin, localTag, remoteTag, built, copied, site, storeFiles,
          posting, ledger>>
  BY DEF Stays, gitVars, tgVars
<1>1. ver \in Releases BY FileIs DEF PubInv
<1>2. PublishTypes' BY <1>0 DEF PubInv, PublishTypes, ScriptPlaces
<1>3. PhaseKnown' /\ StepKnown' BY DEF PhaseKnown, StepKnown
<1>4. FrontAt(ver) /\ Settled(ver) BY DEF PubInv, FrontInv
<1>5. \E b \in Releases : FrontAt(b) /\ Settled(b) BY <1>1, <1>4
<1>6. FrontInv' BY <1>0, <1>5 DEF FrontInv, FrontAt, Settled, Unheard
<1>7. \A v \in Releases : site[v].is # "draft" BY DEF PubInv, OutInv
<1>8. OutInv' BY <1>0, <1>7 DEF PubInv, OutInv, StoreNames
<1> QED BY <1>2, <1>3, <1>6, <1>8 DEF PubInv

LEMMA ReleaseBegins ==
  ASSUME PubInv, file = NoRelease, Base < MaxReleases, file' = [phase |-> 0, version |-> Base + 1, pin |-> 0],
         stepAt' = "source", Stays
  PROVE  PubInv'
<1>0. UNCHANGED <<abandoned, commits, head, origin, localTag, remoteTag, built, copied, site, storeFiles,
          posting, ledger>>
  BY DEF Stays, gitVars, tgVars
<1>1. PICK b \in Releases : FrontAt(b) /\ Settled(b) BY DEF PubInv, FrontInv
<1>2. Base = b BY <1>1, BaseIs
<1>3. b \in Nat /\ b + 1 \in 1..MaxReleases /\ b + 1 \in Releases BY <1>2, PublishConstants DEF Releases
<1>4. file' \in Underway /\ file'.phase = 0 /\ ver' = b + 1 BY <1>2, <1>3 DEF Underway, ver
<1>5. file' # NoRelease BY <1>4, UnderwayIs
<1>6. PublishTypes' BY <1>0, <1>4 DEF PubInv, PublishTypes, ScriptPlaces
<1>7. Unheard(b + 1) BY <1>1, <1>3 DEF FrontAt
<1>8. PhaseKnown' BY <1>0, <1>4, <1>7 DEF PhaseKnown, Done, Unheard
<1>9. StepKnown' BY <1>5 DEF StepKnown
<1>10. FrontAt(b + 1)
  <2>1. ASSUME NEW w \in Releases PROVE (w < b + 1 => Settled(w)) /\ (w > b + 1 => Unheard(w))
    <3>1. w \in Nat BY PublishConstants
    <3>2. (w < b + 1 => w < b \/ w = b) /\ (w > b + 1 => w > b) BY <1>3, <3>1
    <3> QED BY <1>1, <3>2 DEF FrontAt
  <2> QED BY <2>1 DEF FrontAt
<1>11. FrontInv'
  <2>1. FrontAt(b + 1)' BY <1>0, <1>10 DEF FrontAt, Settled, Unheard
  <2> QED BY <1>4, <1>5, <2>1 DEF FrontInv, FrontAt, Settled, Unheard
<1>12. \A v \in Releases : site[v].is # "draft"
  <2>1. ~Done(5) BY FileIs DEF PubInv, Done
  <2> QED BY <2>1 DEF PubInv, OutInv
<1>13. OutInv' BY <1>0, <1>12 DEF PubInv, OutInv, StoreNames
<1> QED BY <1>6, <1>8, <1>9, <1>11, <1>13 DEF PubInv

LEMMA RunsSafe == ASSUME PubInv, BeginRelease \/ ArchiveState \/ AbandonEnds \/ Abandon PROVE PubInv'
<1>1. CASE BeginRelease
  <2>0. Stays /\ stepAt = "idle" BY <1>1 DEF BeginRelease
  <2>1. CASE file = NoRelease /\ Base < MaxReleases
            /\ file' = [phase |-> 0, version |-> Base + 1, pin |-> 0] /\ stepAt' = "source"
    BY <2>0, <2>1, ReleaseBegins
  <2>2. CASE file.phase = 10 /\ file' = NoRelease /\ stepAt' = stepAt
    <3>1. file # NoRelease BY <2>2 DEF NoRelease
    <3>2. site[ver].is = "published" BY <2>2, <3>1 DEF PubInv, PhaseKnown, Done
    <3> QED BY <2>0, <2>2, <3>1, <3>2, FileOver DEF Settled
  <2>3. CASE file.phase \in 0..9 /\ stepAt' = "source" /\ UNCHANGED file
    <3>1. file # NoRelease BY <2>3 DEF NoRelease
    <3>2. StepKnown' BY <2>3, <3>1 DEF StepKnown
    <3> QED BY <2>0, <2>3, <3>1, <3>2, ScriptGoes DEF ScriptPlaces
  <2> QED BY <1>1, <2>1, <2>2, <2>3 DEF BeginRelease, Goes
<1>2. CASE ArchiveState
  <2>1. stepAt = "archive" /\ file' = NoRelease /\ stepAt' = "idle" /\ Stays BY <1>2 DEF ArchiveState, Goes
  <2>2. file # NoRelease /\ Done(10) BY <2>1 DEF PubInv, StepKnown
  <2>3. site[ver].is = "published"
    <3>1. Done(8) BY <2>2, FileIs DEF PubInv, Done
    <3> QED BY <2>2, <3>1 DEF PubInv, PhaseKnown
  <2> QED BY <2>1, <2>2, <2>3, FileOver DEF Settled
<1>3. CASE AbandonEnds
  <2>1. stepAt = "abandon" /\ file' = NoRelease /\ stepAt' = "idle" /\ Stays BY <1>3 DEF AbandonEnds, Goes
  <2>2. file # NoRelease /\ ver \in abandoned /\ site[ver].is = "none" BY <2>1 DEF PubInv, StepKnown
  <2> QED BY <2>1, <2>2, FileOver DEF Settled
<1>4. CASE Abandon
  <2>1. /\ file # NoRelease /\ site[ver].is = "none" /\ abandoned' = abandoned \cup {ver} /\ stepAt' = "abandon"
        /\ UNCHANGED <<file, commits, head, origin, localTag, remoteTag, built, copied, site, storeFiles,
               posting, ledger>>
    BY <1>4 DEF Abandon, Goes, gitVars, tgVars
  <2>2. file \in Underway /\ ver \in Releases /\ ver' = ver BY <2>1, FileIs DEF PubInv, ver
  <2>3. PublishTypes' BY <2>1, <2>2 DEF PubInv, PublishTypes, ScriptPlaces
  <2>4. PhaseKnown' BY <2>1 DEF PubInv, PhaseKnown, Done, StoreNames, ver
  <2>5. StepKnown' BY <2>1, <2>2 DEF StepKnown
  <2> QED BY <2>1, <2>2, <2>3, <2>4, <2>5, PubMoves
<1> QED BY <1>1, <1>2, <1>3, <1>4

LEMMA PubStarts == ASSUME ReleaseInit PROVE PubInv
<1>1. MaxReleases \in Nat \ {0} /\ AssetCount \in Nat \ {0} /\ 0 \in Releases /\ Releases \subseteq Nat
  BY PublishConstants
<1>2. /\ file = NoRelease /\ abandoned = {} /\ commits = <<0>> /\ head = 1 /\ origin = 1 /\ stepAt = "idle"
      /\ storeFiles = StoreNames(0) /\ ledger = {}
  BY DEF ReleaseInit
<1>3. commits \in Seq(Releases) /\ Len(commits) = 1 /\ commits[1] = 0 BY <1>1, <1>2
<1>4. localTag = [v \in Releases |-> IF v = 0 THEN 1 ELSE 0] /\ remoteTag = localTag /\ built = localTag
          /\ copied = localTag
  BY DEF ReleaseInit
<1>5. localTag \in [Releases -> 0..1] /\ localTag[0] = 1 /\ \A v \in Releases \ {0} : localTag[v] = 0
  BY <1>1, <1>4
<1>6. posting \in [Releases -> Nat] /\ \A v \in Releases : posting[v] = 0 BY DEF ReleaseInit
<1>7. /\ site \in [Releases -> OnSite] /\ site[0].is = "published" /\ site[0].commit = 1 /\ site[0].of = 1
      /\ site[0].assets = AssetCount /\ \A v \in Releases \ {0} : site[v].is = "none"
  <2> DEFINE s0 == [is |-> "published", commit |-> 1, assets |-> AssetCount, of |-> 1]
  <2>1. s0 \in OnSite /\ Absent \in OnSite /\ Absent.is = "none" BY <1>1 DEF OnSite, Absent
  <2>2. s0.is = "published" /\ s0.commit = 1 /\ s0.of = 1 /\ s0.assets = AssetCount OBVIOUS
  <2>3. site = [v \in Releases |-> IF v = 0 THEN s0 ELSE Absent] BY DEF ReleaseInit
  <2> HIDE DEF s0
  <2> QED BY <1>1, <2>1, <2>2, <2>3
<1>8. StoreNames(0) \subseteq Releases BY DEF StoreNames
<1>9. PublishTypes
  <2>1. localTag \in [Releases -> 0..Len(commits)] /\ remoteTag \in [Releases -> 0..Len(commits)]
    BY <1>3, <1>4, <1>5
  <2>2. built \in [Releases -> Nat] /\ copied \in [Releases -> Nat] BY <1>4, <1>5
  <2>3. head \in 1..Len(commits) /\ origin \in 1..Len(commits) BY <1>2, <1>3
  <2> QED BY <1>2, <1>3, <1>6, <1>7, <1>8, <2>1, <2>2, <2>3 DEF PublishTypes, ScriptPlaces
<1>10. PhaseKnown /\ StepKnown BY <1>2 DEF PhaseKnown, StepKnown
<1>11. FrontAt(0) /\ Settled(0) BY <1>1, <1>2, <1>4, <1>5, <1>7 DEF FrontAt, Settled, Unheard
<1>12. FrontInv BY <1>1, <1>2, <1>11 DEF FrontInv
<1>13. OutInv BY <1>1, <1>2, <1>3, <1>4, <1>5, <1>6, <1>7 DEF OutInv
<1> QED BY <1>9, <1>10, <1>12, <1>13 DEF PubInv

LEMMA PubStep == ASSUME PubInv, ReleaseNext PROVE PubInv'
BY SourceTaken, GatesPassed, DraftPassed, EndPassed, BuildsSafe, SourceWritten, TagsSafe, PeopleSafe,
    PostsSafe, SiteSafe,
   StoreSafe, RunsSafe DEF ReleaseNext, ScriptSteps

LEMMA PubRests == ASSUME PubInv, UNCHANGED releaseVars PROVE PubInv'
<1>1. UNCHANGED <<file, abandoned, commits, head, origin, localTag, remoteTag, built, copied, site,
          storeFiles, posting, ledger, stepAt>>
  BY DEF releaseVars, gitVars, tgVars
<1>2. PublishTypes' BY <1>1 DEF PubInv, PublishTypes
<1>3. PhaseKnown' BY <1>1 DEF PubInv, PhaseKnown, Done, StoreNames, ver
<1>4. StepKnown' BY <1>1 DEF PubInv, StepKnown, Done, StoreNames, ver
<1>5. FrontInv' BY <1>1 DEF PubInv, FrontInv, FrontAt, Settled, Unheard, ver
<1>6. OutInv' BY <1>1 DEF PubInv, OutInv, Done, StoreNames, ver
<1> QED BY <1>2, <1>3, <1>4, <1>5, <1>6 DEF PubInv

LEMMA PubHolds == ASSUME PubInv PROVE PublishSafe
<1>1. PublishTypes BY DEF PubInv
<1>2. ReleaseTypeOK
  <2>1. file.phase \in -1..10 /\ file.version \in Releases BY <1>1, FileIs, PublishConstants DEF ver
  <2> QED BY <1>1, <2>1 DEF PublishTypes, ReleaseTypeOK
<1>3. Published \subseteq Releases /\ 0 \in Published
          /\ \A v \in Releases : v \in Published <=> site[v].is = "published"
  BY PublishConstants DEF PubInv, OutInv, Published
<1> DEFINE n == NewestOf(Published)
<1>4. n \in Published /\ \A w \in Published : w <= n BY <1>3, NewestIs
<1> HIDE DEF n
<1>5. StoreNames(n) \subseteq storeFiles
  <2>1. \A w \in Releases : w > n => site[w].is # "published"
    <3>1. \A w \in Releases : w \in Published => ~(w > n) BY <1>3, <1>4, PublishConstants
    <3> QED BY <1>3, <3>1
  <2> QED BY <1>3, <1>4, <2>1 DEF PubInv, OutInv
<1>6. PublishedWhole BY <1>3, <1>5 DEF PubInv, OutInv, PublishedWhole, n
<1>7. ASSUME NEW v \in 0..n PROVE v \in Published \cup abandoned
  <2>0. n \in Releases /\ n \in Nat /\ v \in Releases BY <1>3, <1>4, PublishConstants DEF Releases
  <2>1. ASSUME NEW b \in Releases, FrontAt(b), v # b PROVE v \in Published \cup abandoned
    <3>1. ~(n > b) BY <1>3, <1>4, <2>0, <2>1 DEF FrontAt, Unheard
    <3>2. v < b BY <2>0, <2>1, <3>1, PublishConstants
    <3> QED BY <1>3, <2>0, <2>1, <3>2 DEF FrontAt, Settled
  <2>2. CASE file = NoRelease
    <3>1. PICK b \in Releases : FrontAt(b) /\ Settled(b) BY <2>2 DEF PubInv, FrontInv
    <3> QED BY <1>3, <2>0, <2>1, <3>1 DEF Settled
  <2>3. CASE file # NoRelease
    <3>1. ver \in Releases /\ FrontAt(ver) BY <1>1, <2>3, FileIs DEF PubInv, FrontInv
    <3>2. CASE v # ver BY <2>1, <3>1, <3>2
    <3>3. CASE v = ver
      <4>1. ~(n > ver) BY <1>3, <1>4, <2>0, <3>1 DEF FrontAt, Unheard
      <4>2. n = v BY <2>0, <3>3, <4>1
      <4> QED BY <1>4, <4>2
    <3> QED BY <3>2, <3>3
  <2> QED BY <2>2, <2>3
<1>8. NothingStray
  <2>1. \A v \in 0..NewestOf(Published) : v \in Published \cup abandoned BY <1>7 DEF n
  <2>2. \A v \in Releases : site[v].is = "draft" => file.version = v /\ Done(5) BY DEF PubInv, OutInv, ver
  <2>3. {v \in Releases : posting[v] > 0} \cup ledger \subseteq Published
    BY <1>1, <1>3 DEF PubInv, OutInv, PublishTypes
  <2> QED BY <2>1, <2>2, <2>3 DEF NothingStray
<1>9. PinnedByTag
  <2>1. ASSUME Done(5) PROVE file.pin = remoteTag[ver] /\ built[ver] = file.pin /\ copied[ver] = file.pin
    <3>1. file # NoRelease BY <2>1 DEF Done, NoRelease
    <3>2. Done(3) /\ Done(4) BY <1>1, <2>1, <3>1, FileIs DEF Done
    <3> QED BY <2>1, <3>1, <3>2 DEF PubInv, PhaseKnown
  <2> QED BY <2>1 DEF PinnedByTag
<1> QED BY <1>2, <1>6, <1>8, <1>9 DEF PublishSafe

-----------------------------------------------------------------------------
(* The thread that listens: what it was told of is what it keeps.            *)
ListenerInv ==
  /\ ListenerTypeOK
  /\ known \in Nat /\ newest \in Nat /\ given \in Nat /\ ticket \in Nat /\ known >= Installed1
  /\ \A v \in grants : v \in Nat /\ v <= known
  /\ question.report \in {"none", report}

LEMMA ListenerStarts == ASSUME ListenerInit PROVE ListenerInv
BY DEF ListenerInit, ListenerInv, ListenerTypeOK, Installed1, NoQuestion

(* What a step does to what the invariant speaks of.                         *)
LEMMA AnswerMoves ==
  ASSUME ListenerInv, Answer
  PROVE  /\ question'.report = "none" /\ reachable' = "yes"
         /\ report = "outcome" /\ report' # "outcome" => "outcome" \in heard'
BY DEF Answer, Delivered, NoQuestion, ListenerInv

LEMMA ListenerStep ==
  ASSUME ListenerInv, [ListenerNext]_listenerVars
  PROVE  /\ ListenerInv'
         /\ report = "outcome" /\ report' # "outcome" => "outcome" \in heard'
         /\ ticket # 0 /\ ticket' # ticket => queuedVersion' # queuedVersion
         /\ \A v \in grants' \ grants : v > known /\ \A u \in grants : u < v
<1>1. CASE UNCHANGED listenerVars BY <1>1 DEF listenerVars, ListenerInv, ListenerTypeOK
<1>2. CASE SwitchedOff BY <1>2 DEF SwitchedOff, windowVars, serverVars, ListenerInv, ListenerTypeOK
<1>3. CASE AskServer BY <1>3 DEF AskServer, windowVars, serverVars, ListenerInv, ListenerTypeOK
<1>4. ASSUME NEW r \in BOOLEAN, Granted(r)
      PROVE  /\ ListenerInv'
             /\ report = "outcome" /\ report' # "outcome" => "outcome" \in heard'
             /\ ticket # 0 /\ ticket' # ticket => queuedVersion' # queuedVersion
             /\ \A v \in grants' \ grants : v > known /\ \A u \in grants : u < v
  <2>1. /\ Answer /\ newest > known /\ known' = newest /\ newest' = newest /\ given' = given
        /\ ticket' = 0 /\ queuedVersion' = 0 /\ at' = "top"
        /\ grants' = grants \union {newest} /\ revokedFor' \subseteq revokedFor \union {newest}
    BY <1>4 DEF Granted, serverVars
  <2>2. newest > Installed1 BY <2>1 DEF ListenerInv, Installed1
  <2>3. ticket # 0 => queuedVersion # 0 BY DEF ListenerInv, ListenerTypeOK, Installed1
  <2> QED BY <2>1, <2>2, <2>3, AnswerMoves DEF ListenerInv, ListenerTypeOK, Installed1
<1>5. CASE InQueue
  <2>1. /\ Answer /\ newest > known /\ UNCHANGED <<known, newest, grants, revokedFor>>
               /\ queuedVersion' = newest
        /\ given' = given + 1 /\ at' \in {"top", "pause"}
        /\ ticket' = given + 1 \/ (ticket' = ticket)
        /\ ticket # 0 /\ ticket' # ticket => queuedVersion # newest
    BY <1>5 DEF InQueue, serverVars
  <2> QED BY <2>1, AnswerMoves DEF ListenerInv, ListenerTypeOK
<1>6. CASE NoNews
  BY <1>6, AnswerMoves DEF NoNews, serverVars, ListenerInv, ListenerTypeOK
<1>7. CASE AskFails
  BY <1>7 DEF AskFails, windowVars, NoQuestion, ListenerInv, ListenerTypeOK
<1>8. CASE PauseEnds \/ Leave BY <1>8 DEF PauseEnds, Leave, windowVars, serverVars, ListenerInv, ListenerTypeOK
<1>9. CASE NoteMiss \/ Switch BY <1>9 DEF NoteMiss, Switch, serverVars, ListenerInv, ListenerTypeOK
<1>10. CASE ServerTurns BY <1>10 DEF ServerTurns, Installed1, ListenerInv, ListenerTypeOK
<1> QED BY <1>1, <1>2, <1>3, <1>4, <1>5, <1>6, <1>7, <1>8, <1>9, <1>10 DEF ListenerNext, ThreadSteps

-----------------------------------------------------------------------------
(* The files of a release: a file is asked for as long as its plan runs, and *)
(* only one that the disk does not have; what is spoilt has someone to blame.*)
PieceParts == [have : 0..PieceSize, wrong : BOOLEAN]
Spoilt == honest # Depot \/ \E p \in Piece : onDisk[p] = "odd"

FetchInv ==
  /\ FetchTypeOK
  /\ honest \subseteq Depot /\ onDisk \in [Piece -> {"old", "new", "odd"}] /\ part \in [Piece -> PieceParts]
  /\ depot \in [Piece -> Depot \cup {NoDepot}]
  /\ job \in [Piece -> {"idle", "next", "asks", "done", "failed", "stopped"}] /\ broken \in [Piece -> BOOLEAN]
  /\ \A p \in Piece : job[p] \in {"next", "asks"} => fetch = "fetch" /\ onDisk[p] # "new"
  /\ \A p \in Piece : (part[p].wrong => honest # Depot) /\ (broken[p] => Spoilt)
  /\ HashIsTrue

(* What a step promises of a file.                                           *)
Promised(p) == (p \in readyFile' /\ p \notin readyFile => Right(p)) /\ PieceKept(p)

LEMMA FetchStarts == ASSUME FetchInit PROVE FetchInv
<1>1. part \in [Piece -> PieceParts] /\ \A p \in Piece : ~part[p].wrong
  BY FetchAssumption DEF FetchInit, NoPart, PieceParts
<1> QED BY <1>1 DEF FetchInit, FetchInv, FetchTypeOK, HashIsTrue, PieceParts

LEMMA MakePlanKeeps == ASSUME FetchInv, MakePlan PROVE FetchInv' /\ \A p \in Piece : Promised(p)
<1>1. /\ UNCHANGED <<honest, onDisk, part, readyFile, depot, code>> /\ fetch = "plan" /\ fetch' = "fetch"
      /\ \A p \in Piece : job'[p] \in {"next", "done"} /\ (job'[p] = "next" => onDisk[p] # "new") /\ ~broken'[p]
      /\ job' \in [Piece -> {"next", "done"}] /\ broken' \in [Piece -> BOOLEAN]
  BY DEF MakePlan, diskOfFetch
<1>2. \A p \in Piece : depot[p] = NoDepot BY <1>1 DEF FetchInv, FetchTypeOK
<1>3. \A p \in Piece : Promised(p) BY <1>1 DEF Promised, PieceKept, FetchInv, PieceParts
<1>4. FetchInv' BY <1>1, <1>2 DEF FetchInv, FetchTypeOK, HashIsTrue, Spoilt
<1> QED BY <1>3, <1>4

LEMMA PickDepotKeeps == ASSUME FetchInv, NEW p \in Piece, PickDepot(p) PROVE FetchInv'
          /\ \A q \in Piece : Promised(q)
<1>1. UNCHANGED <<honest, onDisk, part, readyFile, broken, fetch, code>> /\ fetch = "fetch" /\ job[p] = "next"
  BY DEF PickDepot, diskOfFetch
<1>2. \A q \in Piece : Promised(q) BY <1>1 DEF Promised, PieceKept, FetchInv, PieceParts
<1>3. CASE job' = [job EXCEPT ![p] = "stopped"] /\ UNCHANGED depot
  BY <1>1, <1>2, <1>3 DEF FetchInv, FetchTypeOK, HashIsTrue, Spoilt
<1>4. ASSUME NEW s \in Untried(p), depot' = [depot EXCEPT ![p] = s],
          job' = [job EXCEPT ![p] = "asks"] PROVE FetchInv'
  <2>1. s \in Depot /\ s # NoDepot BY FetchAssumption DEF Untried
  <2> QED BY <1>1, <1>4, <2>1 DEF FetchInv, FetchTypeOK, HashIsTrue, Spoilt
<1> QED BY <1>2, <1>3, <1>4 DEF PickDepot

LEMMA NextRoundKeeps == ASSUME FetchInv, NEW p \in Piece, NextRound(p) PROVE FetchInv'
          /\ \A q \in Piece : Promised(q)
<1>1. UNCHANGED <<honest, onDisk, part, readyFile, depot, broken, fetch>> /\ fetch = "fetch" /\ job[p] = "next"
  BY DEF NextRound, diskOfFetch
<1>2. \A q \in Piece : Promised(q) BY <1>1 DEF Promised, PieceKept, FetchInv, PieceParts
<1>3. CASE UNCHANGED <<job, code>> BY <1>1, <1>2, <1>3 DEF FetchInv, FetchTypeOK, HashIsTrue, Spoilt
<1>4. CASE job' = [job EXCEPT ![p] = "failed"]
  <2>1. code' = "hash" => code = "hash" \/ broken[p] BY <1>4 DEF NextRound
  <2> QED BY <1>1, <1>2, <1>4, <2>1 DEF FetchInv, FetchTypeOK, HashIsTrue, Spoilt
<1> QED BY <1>3, <1>4 DEF NextRound

(* A file that was asked for goes back to be asked for, or is done.          *)
LEMMA AskedKeeps ==
  ASSUME FetchInv, NEW p \in Piece, job[p] = "asks", UNCHANGED <<honest, onDisk, fetch, code>>,
         NEW new \in PieceParts, part' = [part EXCEPT ![p] = new], new.wrong => honest # Depot,
         NEW b \in BOOLEAN, broken' = [broken EXCEPT ![p] = b], b => Spoilt,
         NEW s \in {"next", "done"}, job' = [job EXCEPT ![p] = s], depot' = [depot EXCEPT ![p] = NoDepot]
  PROVE  FetchInv'
BY DEF FetchInv, FetchTypeOK, HashIsTrue, Spoilt, PieceParts

LEMMA AskedOf == ASSUME FetchInv, NEW p \in Piece, job[p] = "asks"
                 PROVE  /\ depot[p] \in Depot /\ (depot[p] \notin honest => honest # Depot)
                        /\ onDisk[p] \in {"old", "odd"} /\ part[p] \in PieceParts /\ broken[p] \in BOOLEAN
                        /\ broken = [broken EXCEPT ![p] = broken[p]]
                        /\ NoPart \in PieceParts /\ ~NoPart.wrong /\ (part[p].wrong => honest # Depot)
                               /\ (broken[p] => Spoilt)
<1>1. NoPart \in PieceParts /\ ~NoPart.wrong BY FetchAssumption DEF NoPart, PieceParts
<1> QED BY <1>1 DEF FetchInv, FetchTypeOK, Spoilt

LEMMA GrowsFrom ==
  ASSUME FetchInv, NEW p \in Piece, job[p] = "asks"
  PROVE  /\ Grows(p) \in PieceParts /\ (Grows(p).wrong => part[p].wrong)
         /\ depot[p] \in resumes => Grows(p).have = part[p].have
         /\ ~Right(p) => part[p].wrong \/ depot[p] \notin honest
         /\ ~Right(p) => honest # Depot
<1>1. Grows(p) \in PieceParts /\ (Grows(p).wrong => part[p].wrong)
      /\ (depot[p] \in resumes => Grows(p).have = part[p].have)
  BY AskedOf DEF Grows
<1>2. ~Right(p) => part[p].wrong \/ depot[p] \notin honest BY <1>1 DEF Right
<1> QED BY <1>1, <1>2, AskedOf

LEMMA PartGrows ==
  ASSUME FetchInv, NEW p \in Piece, job[p] = "asks", NEW new \in PieceParts, new.wrong => honest # Depot,
         part' = [part EXCEPT ![p] = new],
         new.have < part[p].have => depot[p] \notin resumes,
         UNCHANGED <<honest, onDisk, fetch, code, readyFile, broken>>, Back(p)
  PROVE  FetchInv' /\ \A q \in Piece : Promised(q)
<1>1. job' = [job EXCEPT ![p] = "next"] /\ depot' = [depot EXCEPT ![p] = NoDepot] BY DEF Back
<1>2. broken' = [broken EXCEPT ![p] = broken[p]] BY AskedOf
<1>3. FetchInv' BY <1>1, <1>2, AskedKeeps, AskedOf
<1>4. part \in [Piece -> PieceParts] BY DEF FetchInv
<1>5. \A q \in Piece : part[q].have \in Nat BY <1>4, FetchAssumption DEF PieceParts
<1>6. \A q \in Piece : q # p => part'[q] = part[q] BY <1>4
<1>7. part'[p] = new BY <1>4
<1>8. \A q \in Piece : Promised(q) BY <1>5, <1>6, <1>7 DEF Promised, PieceKept
<1> QED BY <1>3, <1>8

LEMMA LinkBreaksKeeps == ASSUME FetchInv, NEW p \in Piece, LinkBreaks(p) PROVE FetchInv'
          /\ \A q \in Piece : Promised(q)
<1>1. UNCHANGED <<honest, onDisk, fetch, code, readyFile, broken>> /\ job[p] = "asks" /\ Back(p)
  BY DEF LinkBreaks, diskOfFetch
<1>2. CASE UNCHANGED part
  <2>1. part' = [part EXCEPT ![p] = part[p]] BY <1>2 DEF FetchInv
  <2>2. part[p] \in PieceParts /\ (part[p].wrong => honest # Depot) /\ ~(part[p].have < part[p].have)
    BY <1>1, AskedOf, FetchAssumption DEF PieceParts
  <2> QED BY <1>1, <2>1, <2>2, PartGrows
<1>3. ASSUME NEW have \in Grows(p).have..(PieceSize - 1),
             part' = [part EXCEPT ![p] =
               [have |-> have, wrong |-> Grows(p).wrong \/ (have > Grows(p).have /\ depot[p] \notin honest)]]
      PROVE  FetchInv' /\ \A q \in Piece : Promised(q)
  <2> DEFINE w == Grows(p).wrong \/ (have > Grows(p).have /\ depot[p] \notin honest)
  <2>1. w \in BOOLEAN BY Zenon
  <2>2. w => honest # Depot BY <1>1, GrowsFrom, AskedOf
  <2>3. part' = [part EXCEPT ![p] = [have |-> have, wrong |-> w]] BY <1>3
  <2> HIDE DEF w
  <2>4. have \in 0..PieceSize /\ (have < part[p].have => depot[p] \notin resumes)
    BY <1>1, GrowsFrom, AskedOf, FetchAssumption DEF PieceParts
  <2> DEFINE new == [have |-> have, wrong |-> w]
  <2>5. new \in PieceParts /\ new.wrong = w /\ new.have = have BY <2>1, <2>4 DEF PieceParts
  <2>6. part' = [part EXCEPT ![p] = new] BY <2>3
  <2> HIDE DEF new
  <2> QED BY <1>1, <2>2, <2>4, <2>5, <2>6, PartGrows
<1> QED BY <1>2, <1>3 DEF LinkBreaks

LEMMA FinishBreaksKeeps == ASSUME FetchInv, NEW p \in Piece, FinishBreaks(p) PROVE FetchInv'
          /\ \A q \in Piece : Promised(q)
<1>1. UNCHANGED <<honest, onDisk, fetch, code, readyFile, broken>> /\ job[p] = "asks" /\ Back(p)
  BY DEF FinishBreaks, diskOfFetch
<1> DEFINE w == ~Right(p)
<1>2. w \in BOOLEAN /\ (w => honest # Depot) BY <1>1, GrowsFrom
<1>3. part' = [part EXCEPT ![p] = [have |-> PieceSize, wrong |-> w]] BY DEF FinishBreaks
<1> HIDE DEF w
<1> DEFINE new == [have |-> PieceSize, wrong |-> w]
<1>4. new \in PieceParts /\ new.wrong = w /\ new.have = PieceSize BY <1>2, FetchAssumption DEF PieceParts
<1>5. ~(PieceSize < part[p].have) BY <1>1, AskedOf, FetchAssumption DEF PieceParts
<1>6. part' = [part EXCEPT ![p] = new] BY <1>3
<1> HIDE DEF new
<1> QED BY <1>1, <1>2, <1>4, <1>5, <1>6, PartGrows

LEMMA PieceThrownKeeps ==
  ASSUME FetchInv, NEW p \in Piece, TooMuch(p) \/ Misfit(p) \/ WholePiece(p) PROVE FetchInv' /\ \A q \in Piece : Promised(q)
<1>1. /\ UNCHANGED <<honest, onDisk, fetch, code>> /\ job[p] = "asks" /\ depot' = [depot EXCEPT ![p] = NoDepot]
      /\ part' = [part EXCEPT ![p] = NoPart]
      /\ job' = [job EXCEPT ![p] = "next"] \/ job' = [job EXCEPT ![p] = "done"]
  BY DEF TooMuch, Misfit, WholePiece, Back, diskOfFetch
<1>2. part \in [Piece -> PieceParts] BY DEF FetchInv
<1>3. \A q \in Piece : q # p => part'[q] = part[q] BY <1>1, <1>2
<1>4. CASE TooMuch(p)
  <2>1. UNCHANGED <<readyFile, broken>> /\ depot[p] \notin honest BY <1>4 DEF TooMuch
  <2>2. \A q \in Piece : Promised(q) BY <1>2, <1>3, <2>1 DEF Promised, PieceKept, PieceParts
  <2>3. broken' = [broken EXCEPT ![p] = broken[p]] BY <1>1, <2>1, AskedOf
  <2> QED BY <1>1, <2>2, <2>3, AskedOf, AskedKeeps
<1>5. CASE Misfit(p)
  <2>1. UNCHANGED readyFile /\ ~Fits(p) /\ broken' = [broken EXCEPT ![p] = TRUE] BY <1>5 DEF Misfit
  <2>2. part[p].wrong \/ depot[p] \notin honest \/ onDisk[p] = "odd" BY <1>1, <2>1, AskedOf, GrowsFrom DEF Fits
  <2>3. \A q \in Piece : Promised(q) BY <1>2, <1>3, <2>1, <2>2 DEF Promised, PieceKept, PieceParts
  <2>4. Spoilt BY <1>1, <2>2, AskedOf DEF Spoilt
  <2> QED BY <1>1, <2>1, <2>3, <2>4, AskedOf, AskedKeeps
<1>6. CASE WholePiece(p)
  <2>1. UNCHANGED broken /\ Fits(p) /\ readyFile' = readyFile \union {p} BY <1>6 DEF WholePiece
  <2>2. Right(p) BY <2>1 DEF Fits
  <2>3. \A q \in Piece : Promised(q) BY <1>2, <1>3, <2>1, <2>2 DEF Promised, PieceKept, PieceParts
  <2>4. broken' = [broken EXCEPT ![p] = broken[p]] BY <1>1, <2>1, AskedOf
  <2> QED BY <1>1, <2>3, <2>4, AskedOf, AskedKeeps
<1> QED BY <1>4, <1>5, <1>6

LEMMA FetchRestKeeps ==
  ASSUME FetchInv, FetchEnds \/ BuildStage \/ FetchAgain \/ (\E p \in Piece : BaseChanges(p)) \/ UNCHANGED fetchVars
  PROVE  FetchInv' /\ \A q \in Piece : Promised(q)
<1>1. UNCHANGED <<honest, part, broken>> /\ readyFile' \subseteq readyFile
  BY DEF FetchEnds, BuildStage, FetchAgain, BaseChanges, fetchVars, diskOfFetch
<1>2. \A q \in Piece : Promised(q) BY <1>1 DEF Promised, PieceKept, FetchInv, PieceParts
<1>3. ASSUME UNCHANGED onDisk, code' = "hash" => code = "hash",
             UNCHANGED <<job, depot>> \/ (\A p \in Piece : job'[p] = "idle" /\ depot'[p] = NoDepot),
             job' \in [Piece -> {"idle", "next", "asks", "done", "failed", "stopped"}],
             depot' \in [Piece -> Depot \cup {NoDepot}],
             fetch' \in {"plan", "fetch", "stage", "staged", "given up"},
             \A p \in Piece : job'[p] \in {"next", "asks"} => fetch' = "fetch"
      PROVE  FetchInv'
  BY <1>1, <1>3 DEF FetchInv, FetchTypeOK, HashIsTrue, Spoilt
<1>4. CASE FetchEnds \/ BuildStage \/ UNCHANGED fetchVars
  <2>1. /\ UNCHANGED <<onDisk, job, depot>> /\ (code' = "hash" => code = "hash")
        /\ fetch' \in {fetch, "stage", "staged", "given up"}
        /\ fetch' = fetch \/ fetch = "stage" \/ (\A p \in Piece : job[p] \in {"done", "failed", "stopped"})
    BY <1>4 DEF FetchEnds, BuildStage, diskOfFetch, fetchVars
  <2>2. fetch' \in {"plan", "fetch", "stage", "staged", "given up"} BY <2>1 DEF FetchInv, FetchTypeOK
  <2>3. \A p \in Piece : job'[p] \in {"next", "asks"} => fetch' = "fetch" BY <2>1 DEF FetchInv
  <2>4. /\ job' \in [Piece -> {"idle", "next", "asks", "done", "failed", "stopped"}]
        /\ depot' \in [Piece -> Depot \cup {NoDepot}]
    BY <2>1 DEF FetchInv
  <2> QED BY <1>2, <1>3, <2>1, <2>2, <2>3, <2>4
<1>5. CASE FetchAgain
  <2>1. /\ UNCHANGED onDisk /\ code' = "none" /\ fetch' = "plan"
        /\ job' = [p \in Piece |-> "idle"] /\ depot' = [p \in Piece |-> NoDepot]
    BY <1>5 DEF FetchAgain, diskOfFetch
  <2>2. \A p \in Piece : job'[p] = "idle" /\ depot'[p] = NoDepot BY <2>1
  <2>3. /\ job' \in [Piece -> {"idle", "next", "asks", "done", "failed", "stopped"}]
        /\ depot' \in [Piece -> Depot \cup {NoDepot}]
    BY <2>1
  <2>4. UNCHANGED onDisk /\ code' # "hash" /\ fetch' \in {"plan", "fetch", "stage", "staged", "given up"}
    BY <2>1
  <2>5. \A p \in Piece : job'[p] \in {"next", "asks"} => fetch' = "fetch" BY <2>2
  <2> QED BY <1>2, <1>3, <2>2, <2>3, <2>4, <2>5
<1>6. ASSUME NEW p \in Piece, BaseChanges(p) PROVE FetchInv'
  BY <1>1, <1>6 DEF BaseChanges, FetchInv, FetchTypeOK, HashIsTrue, Spoilt
<1> QED BY <1>2, <1>4, <1>5, <1>6

LEMMA FetchStep == ASSUME FetchInv, [FetchNext]_fetchVars PROVE FetchInv' /\ \A q \in Piece : Promised(q)
<1>1. ASSUME NEW p \in Piece, FileSteps(p) PROVE FetchInv' /\ \A q \in Piece : Promised(q)
  BY <1>1, PickDepotKeeps, NextRoundKeeps, LinkBreaksKeeps, FinishBreaksKeeps, PieceThrownKeeps
  DEF FileSteps
<1> QED BY <1>1, MakePlanKeeps, FetchRestKeeps DEF FetchNext, FetchSteps

LEMMA StagedStep ==
  ASSUME FetchInv, FetchNext, fetch' = "staged" PROVE \A p \in Piece \ wanted : onDisk[p] = "new"
<1>1. ~MakePlan /\ ~FetchEnds /\ ~FetchAgain /\ \A p \in Piece : ~BaseChanges(p)
  BY DEF MakePlan, FetchEnds, FetchAgain, BaseChanges
<1>2. \A p \in Piece : ~FileSteps(p)
  BY DEF FileSteps, PickDepot, NextRound, LinkBreaks, TooMuch, WholePiece, Misfit, FinishBreaks, FetchInv
<1>3. BuildStage BY <1>1, <1>2 DEF FetchNext, FetchSteps
<1> QED BY <1>3 DEF BuildStage

LEMMA FetchHolds == ASSUME FetchInv PROVE FetchSafe
BY DEF FetchInv, FetchSafe

-----------------------------------------------------------------------------
(* The cores: what is put in place came whole, and is newer than what was    *)
(* there as long as one installation runs at a time.                         *)
WorkerJob ==
  [at : {"none", "asks", "loads", "hash", "files", "dll", "bak", "told", "gone"}, apply : BOOLEAN, rel : Nat,
   digest : BOOLEAN, dll : BOOLEAN, good : BOOLEAN, end : {"none", "error", "up_to_date", "available",
       "updated"}]

CoreTypes ==
  /\ CoreTypeOK
  /\ jobs \in [Jobs -> WorkerJob] /\ boxJob \in WorkerJob
  /\ core \in [exe : Nat, dll : Nat, bak : Nat, sound : BOOLEAN]

JobFine(j) ==
  /\ jobs[j].at \in {"loads", "hash", "files", "dll", "bak"} => jobs[j].apply /\ jobs[j].rel >= FirstCore
  /\ jobs[j].at = "files" => jobs[j].good
  /\ jobs[j].at = "told" /\ jobs[j].end = "updated" => jobs[j].apply
  /\ ~crossed =>
       /\ jobs[j].at \in {"loads", "hash", "files"} => jobs[j].rel > core.exe
       /\ jobs[j].at \in {"dll", "bak"} => jobs[j].rel < core.exe
       /\ jobs[j].at = "dll" => core.dll <= jobs[j].rel
       /\ jobs[j].at = "told" /\ jobs[j].end = "updated" => core.exe > FirstCore

CoreInv ==
  /\ CoreTypes
  /\ core.sound /\ core.exe >= FirstCore /\ box >= FirstCore /\ (~crossed => core.dll <= core.exe)
  /\ \A j \in Jobs : JobFine(j)
  /\ boxJob.at = "files" => boxJob.rel > box

(* Two installations at once are noted as soon as they are there.            *)
Noted == ~crossed => OneInstall

LEMMA CoreStarts == ASSUME CoreInit PROVE CoreInv
<1>1. link \in BOOLEAN /\ wish \in BOOLEAN BY DEF CoreInit
<1>2. NoJob \in WorkerJob /\ NoJob.at = "none" BY DEF NoJob, WorkerJob
<1>3. MaxJobs \in Nat /\ FirstCore \in Nat BY CoreAssumption
<1>4. CoreTypes
  <2>1. jobs \in [Jobs -> WorkerJob]
    <3>1. jobs = [j \in Jobs |-> NoJob] BY DEF CoreInit
    <3> QED BY <1>2, <3>1
  <2>2. boxJob \in WorkerJob BY <1>2 DEF CoreInit
  <2>3. core \in [exe : Nat, dll : Nat, bak : Nat, sound : BOOLEAN]
    <3>1. core = [exe |-> FirstCore, dll |-> FirstCore, bak |-> 0, sound |-> TRUE] BY DEF CoreInit
    <3> QED BY <1>3, <3>1
  <2>4. core.exe \in Nat /\ core.dll \in Nat BY <2>3
  <2>5. slot \in 0..MaxJobs /\ moves \in {"none", "update", "stop", "start"} /\ box \in Nat
    BY <1>3 DEF CoreInit
  <2>6. again \in BOOLEAN BY DEF CoreInit
  <2> QED BY <1>1, <2>1, <2>2, <2>3, <2>4, <2>5, <2>6 DEF CoreTypes, CoreTypeOK
<1>5. \A j \in Jobs : JobFine(j) BY <1>2 DEF CoreInit, JobFine
<1>6. core.sound /\ core.exe >= FirstCore /\ box >= FirstCore /\ core.dll <= core.exe BY <1>3 DEF CoreInit
<1> QED BY <1>2, <1>4, <1>5, <1>6 DEF CoreInit, CoreInv

(* What the site offers is a release.                                        *)
LEMMA OffersTyped ==
  ASSUME NEW f \in Feeds, NEW r, r \in Picked(f) \/ r \in BoxPicked(f)
  PROVE  r.v \in Nat /\ r.digest \in BOOLEAN /\ r.dll \in BOOLEAN
<1> DEFINE S == [v : Nat, pre : {"none", "beta", "nightly"}, digest : BOOLEAN, dll : BOOLEAN]
<1>1. f \in Seq(S) BY CoreAssumption
<1>2. PICK i \in DOMAIN f : r = f[i] BY DEF Picked, BoxPicked
<1>3. r \in S
  <2> HIDE DEF S
  <2> QED BY <1>1, <1>2
<1> QED BY <1>3

(* Steps that touch neither a file nor a worker.                             *)
LEMMA CoreQuiet ==
  ASSUME CoreInv, UNCHANGED <<jobs, core, boxJob, box, crossed>>, CoreTypeOK' PROVE CoreInv'
BY DEF CoreInv, CoreTypes, JobFine

LEMMA LinkSteps ==
  ASSUME CoreInv, Wishes \/ Moves \/ MoveEnds \/ ClickStop \/ StopFails PROVE CoreInv'
<1>1. UNCHANGED <<jobs, core, boxJob, box, slot, crossed>> BY DEF Wishes, Moves, MoveEnds, ClickStop, StopFails, Idle
<1>2. link \in BOOLEAN /\ wish \in BOOLEAN /\ again \in BOOLEAN /\ moves \in {"none", "update", "stop", "start"}
  BY DEF CoreInv, CoreTypes, CoreTypeOK
<1>3. moves' \in {"none", "update", "stop", "start"}
  BY <1>2 DEF Wishes, Moves, MoveEnds, ClickStop, StopFails
<1>4. again' \in BOOLEAN BY <1>2 DEF Wishes, Moves, MoveEnds, ClickStop, StopFails, Idle
<1>5. wish' \in BOOLEAN
  <2>1. wish' \in {wish, FALSE} \/ wish' = ~wish BY DEF Wishes, Moves, MoveEnds, ClickStop, StopFails
  <2> QED BY <1>2, <2>1
<1>6. link' \in BOOLEAN
  <2>1. link' = link \/ link' = (moves = "start") BY DEF Wishes, Moves, MoveEnds, ClickStop, StopFails
  <2>2. (moves = "start") \in BOOLEAN OBVIOUS
  <2> QED BY <1>2, <2>1, <2>2
<1>7. CoreTypeOK' BY <1>1, <1>3, <1>4, <1>5, <1>6 DEF CoreInv, CoreTypes, CoreTypeOK
<1> QED BY <1>1, <1>7, CoreQuiet

(* A worker moves on: the others are as fine as before if the files are as   *)
(* they were, or if they install nothing.                                    *)
LEMMA JobMoves ==
  ASSUME CoreInv, NEW j \in Jobs, NEW new \in WorkerJob, jobs' = [jobs EXCEPT ![j] = new],
         UNCHANGED <<boxJob, box>>, CoreTypeOK',
         core' \in [exe : Nat, dll : Nat, bak : Nat, sound : BOOLEAN],
         core'.sound, core'.exe >= FirstCore, crossed => crossed', ~crossed' => core'.dll <= core'.exe,
         \/ crossed'
         \/ core'.exe = core.exe /\ core'.dll = core.dll
         \/ \A k \in Jobs \ {j} : ~jobs[k].apply \/ Ended(k),
         JobFine(j)'
  PROVE  CoreInv'
<1>1. jobs' \in [Jobs -> WorkerJob] BY DEF CoreInv, CoreTypes
<1>2. \A k \in Jobs \ {j} : jobs'[k] = jobs[k] BY DEF CoreInv, CoreTypes
<1>3. ASSUME NEW k \in Jobs \ {j} PROVE JobFine(k)'
  <2>1. JobFine(k) BY DEF CoreInv
  <2> QED BY <1>2, <2>1 DEF JobFine, Ended
<1> QED BY <1>1, <1>3 DEF CoreInv, CoreTypes

LEMMA StartSteps ==
  ASSUME CoreInv, Stopped \/ \E b \in BOOLEAN : ClickXray(b) PROVE CoreInv'
<1>1. PICK b \in BOOLEAN : Starts(b) BY DEF Stopped, ClickXray
<1>2. PICK j \in Jobs : slot' = j
          /\ jobs' = [jobs EXCEPT ![j] = [NoJob EXCEPT !.at = "asks", !.apply = b]] /\ jobs[j].at = "none"
  BY <1>1 DEF Starts
<1>3. UNCHANGED <<core, boxJob, box, wish>> /\ link' \in {link, FALSE} /\ moves' \in {moves, "none"}
          /\ again' \in BOOLEAN
  BY DEF Stopped, ClickXray, linkVars
<1>4. CoreTypeOK'
  <2>1. j \in 0..MaxJobs BY CoreAssumption DEF Jobs
  <2> QED BY <1>2, <1>3, <2>1 DEF CoreInv, CoreTypes, CoreTypeOK
<1>10. crossed => crossed' BY <1>1 DEF Starts
<1> DEFINE new == [NoJob EXCEPT !.at = "asks", !.apply = b]
<1>5. new \in WorkerJob /\ new.at = "asks" BY DEF NoJob, WorkerJob
<1> HIDE DEF new
<1>6. jobs' = [jobs EXCEPT ![j] = new] BY <1>2 DEF new
<1>7. jobs'[j] = new BY <1>6 DEF CoreInv, CoreTypes
<1>8. JobFine(j)' BY <1>5, <1>7 DEF JobFine
<1>9. core \in [exe : Nat, dll : Nat, bak : Nat, sound : BOOLEAN] /\ core.sound /\ core.exe >= FirstCore
          /\ (~crossed => core.dll <= core.exe)
  BY DEF CoreInv, CoreTypes
<1> QED BY <1>3, <1>4, <1>5, <1>6, <1>8, <1>9, <1>10, JobMoves

(* A worker that puts nothing in place.                                      *)
LEMMA JobOnly ==
  ASSUME CoreInv, NEW j \in Jobs, NEW new \in WorkerJob, jobs' = [jobs EXCEPT ![j] = new],
         UNCHANGED <<linkVars, again, slot, core, boxJob, box, crossed>>, JobFine(j)'
  PROVE  CoreInv'
<1>1. CoreTypeOK' BY DEF linkVars, CoreInv, CoreTypes, CoreTypeOK
<1>2. core \in [exe : Nat, dll : Nat, bak : Nat, sound : BOOLEAN] /\ core.sound /\ core.exe >= FirstCore
          /\ (~crossed => core.dll <= core.exe)
  BY DEF CoreInv, CoreTypes
<1> QED BY <1>1, <1>2, JobMoves

LEMMA JobFailsAs ==
  ASSUME CoreInv, NEW j \in Jobs, JobFails(j)
  PROVE  \E new \in WorkerJob : jobs' = [jobs EXCEPT ![j] = new] /\ JobFine(j)'
<1> DEFINE new == [jobs[j] EXCEPT !.at = "told", !.end = "error"]
<1>1. jobs[j] \in WorkerJob BY DEF CoreInv, CoreTypes
<1>2. new \in WorkerJob /\ new.at = "told" /\ new.end = "error" BY <1>1 DEF WorkerJob
<1>3. jobs' = [jobs EXCEPT ![j] = new] BY DEF JobFails
<1> HIDE DEF new
<1>4. jobs'[j] = new BY <1>3 DEF CoreInv, CoreTypes
<1>5. JobFine(j)' BY <1>2, <1>4 DEF JobFine
<1> QED BY <1>2, <1>3, <1>5

(* The files as a record.                                                    *)
LEMMA CoreFiles ==
  ASSUME CoreInv
  PROVE  /\ core = [exe |-> core.exe, dll |-> core.dll, bak |-> core.bak, sound |-> TRUE]
         /\ core.exe \in Nat /\ core.dll \in Nat /\ core.bak \in Nat /\ FirstCore \in Nat
         /\ core.exe >= FirstCore /\ (~crossed => core.dll <= core.exe)
<1>1. core \in [exe : Nat, dll : Nat, bak : Nat, sound : BOOLEAN] BY DEF CoreInv, CoreTypes
<1>2. core.sound = TRUE
  <2>1. core.sound \in BOOLEAN BY <1>1
  <2>2. core.sound BY DEF CoreInv
  <2> QED BY <2>1, <2>2
<1>3. core.exe >= FirstCore /\ (~crossed => core.dll <= core.exe) BY DEF CoreInv
<1> QED BY <1>1, <1>2, <1>3, CoreAssumption

LEMMA AsksSafe == ASSUME CoreInv, NEW j \in Jobs, Asks(j) PROVE CoreInv'
<1>0. UNCHANGED <<linkVars, again, slot, core, boxJob, box, crossed>> /\ jobs[j].at = "asks" /\ jobs[j] \in WorkerJob
  BY DEF Asks, CoreInv, CoreTypes
<1>1. CASE JobFails(j) BY <1>0, <1>1, JobFailsAs, JobOnly
<1>2. ASSUME NEW e \in {"up_to_date", "available"}, jobs' = [jobs EXCEPT ![j].at = "told",
          ![j].end = e] PROVE CoreInv'
  <2> DEFINE new == [jobs[j] EXCEPT !.at = "told", !.end = e]
  <2>1. new \in WorkerJob /\ new.at = "told" /\ new.end = e BY <1>0 DEF WorkerJob
  <2>2. jobs' = [jobs EXCEPT ![j] = new] BY <1>2
  <2> HIDE DEF new
  <2>3. jobs'[j] = new BY <2>2 DEF CoreInv, CoreTypes
  <2>4. JobFine(j)' BY <2>1, <2>3 DEF JobFine
  <2> QED BY <1>0, <2>1, <2>2, <2>4, JobOnly
<1>3. ASSUME NEW f \in Feeds, NEW r \in Picked(f), NewerCore(r, core.exe), jobs[j].apply,
             jobs' = [jobs EXCEPT ![j] = [@ EXCEPT !.at = "loads", !.rel = r.v, !.digest = r.digest,
                 !.dll = r.dll]]
      PROVE  CoreInv'
  <2> DEFINE new == [jobs[j] EXCEPT !.at = "loads", !.rel = r.v, !.digest = r.digest, !.dll = r.dll]
  <2>0. r.v \in Nat /\ r.digest \in BOOLEAN /\ r.dll \in BOOLEAN BY OffersTyped
  <2>1. new \in WorkerJob BY <1>0, <2>0 DEF WorkerJob
  <2>2. new.at = "loads" /\ new.rel = r.v /\ new.apply = jobs[j].apply BY <1>0 DEF WorkerJob
  <2>3. jobs' = [jobs EXCEPT ![j] = new] BY <1>3
  <2> HIDE DEF new
  <2>4. jobs'[j] = new BY <2>3 DEF CoreInv, CoreTypes
  <2>5. r.v > core'.exe BY <1>0, <1>3 DEF NewerCore
  <2>6. JobFine(j)' BY <1>0, <1>3, <2>0, <2>2, <2>4, <2>5, CoreFiles DEF JobFine
  <2> QED BY <1>0, <2>1, <2>3, <2>6, JobOnly
<1>4. \/ JobFails(j)
      \/ \E e \in {"up_to_date", "available"} : jobs' = [jobs EXCEPT ![j].at = "told", ![j].end = e]
      \/ \E f \in Feeds : \E r \in Picked(f) :
           /\ NewerCore(r, core.exe) /\ jobs[j].apply
           /\ jobs' = [jobs EXCEPT ![j] = [@ EXCEPT !.at = "loads", !.rel = r.v, !.digest = r.digest,
                  !.dll = r.dll]]
  BY DEF Asks
<1> QED BY <1>1, <1>2, <1>3, <1>4

LEMMA LoadsSafe == ASSUME CoreInv, NEW j \in Jobs, Loads(j) \/ Hashes(j) PROVE CoreInv'
<1>0. UNCHANGED <<linkVars, again, slot, core, boxJob, box, crossed>> /\ jobs[j].at \in {"loads", "hash"}
          /\ jobs[j] \in WorkerJob
      /\ JobFine(j)
  BY DEF Loads, Hashes, CoreInv, CoreTypes
<1>1. CASE JobFails(j) BY <1>0, <1>1, JobFailsAs, JobOnly
<1>2. ASSUME NEW s \in {"hash", "files"}, NEW g \in BOOLEAN,
          jobs' = [jobs EXCEPT ![j] = [jobs[j] EXCEPT !.at = s, !.good = g]],
             s = "files" => g
      PROVE  CoreInv'
  <2> DEFINE new == [jobs[j] EXCEPT !.at = s, !.good = g]
  <2>1. new \in WorkerJob BY <1>0 DEF WorkerJob
  <2>2. new.at = s /\ new.good = g /\ new.rel = jobs[j].rel /\ new.apply = jobs[j].apply BY <1>0 DEF WorkerJob
  <2>3. jobs' = [jobs EXCEPT ![j] = new] BY <1>2
  <2> HIDE DEF new
  <2>4. jobs'[j] = new BY <2>3 DEF CoreInv, CoreTypes
  <2>5. JobFine(j)' BY <1>0, <1>2, <2>2, <2>4 DEF JobFine
  <2> QED BY <1>0, <2>1, <2>3, <2>5, JobOnly
<1>3. \/ JobFails(j)
      \/ jobs' = [jobs EXCEPT ![j].at = "hash"]
      \/ jobs' = [jobs EXCEPT ![j].at = "hash", ![j].good = FALSE]
      \/ HashAgrees(j) /\ jobs' = [jobs EXCEPT ![j].at = "files"]
  BY DEF Loads, Hashes, JobAt
<1>4. jobs[j].good \in BOOLEAN /\ [jobs[j] EXCEPT !.good = jobs[j].good] = jobs[j] BY <1>0 DEF WorkerJob
<1>5. \A s : [jobs[j] EXCEPT !.at = s] = [jobs[j] EXCEPT !.at = s, !.good = jobs[j].good] BY <1>0 DEF WorkerJob
<1>6. CASE jobs' = [jobs EXCEPT ![j].at = "hash"] BY <1>2, <1>4, <1>5, <1>6
<1>7. CASE jobs' = [jobs EXCEPT ![j].at = "hash", ![j].good = FALSE] BY <1>2, <1>7
<1>8. CASE HashAgrees(j) /\ jobs' = [jobs EXCEPT ![j].at = "files"] BY <1>2, <1>4, <1>5, <1>8 DEF HashAgrees
<1> QED BY <1>1, <1>3, <1>6, <1>7, <1>8

(* While worker j installs, no other worker does.                            *)
LEMMA OthersWait ==
  ASSUME OneInstall, NEW j \in Jobs, jobs[j].apply, ~Ended(j)
  PROVE  \A k \in Jobs \ {j} : ~jobs[k].apply \/ Ended(k)
BY DEF OneInstall

(* Worker j goes on with the files: what it needs to be fine afterwards.     *)
LEMMA JobReplaces ==
  ASSUME CoreInv, Noted, NEW j \in Jobs, jobs[j].apply, ~Ended(j),
         NEW new \in WorkerJob, jobs' = [jobs EXCEPT ![j] = new],
         NEW exe \in Nat, NEW dll \in Nat, NEW bak \in Nat,
         core' = [exe |-> exe, dll |-> dll, bak |-> bak, sound |-> TRUE],
         exe >= FirstCore, ~crossed => dll <= exe,
         UNCHANGED <<linkVars, again, slot, boxJob, box, crossed>>, JobFine(j)'
  PROVE  CoreInv'
<1>1. core' \in [exe : Nat, dll : Nat, bak : Nat, sound : BOOLEAN] OBVIOUS
<1>2. core'.exe = exe /\ core'.dll = dll OBVIOUS
<1>3. core'.sound OBVIOUS
<1>4. CoreTypeOK' BY <1>2 DEF linkVars, CoreInv, CoreTypes, CoreTypeOK
<1>5. crossed \/ \A k \in Jobs \ {j} : ~jobs[k].apply \/ Ended(k) BY OthersWait DEF Noted
<1> QED BY <1>1, <1>2, <1>3, <1>4, <1>5, JobMoves

LEMMA PutExeSafe == ASSUME CoreInv, Noted, NEW j \in Jobs, PutExe(j) PROVE CoreInv'
<1>0. UNCHANGED <<linkVars, again, slot, boxJob, box, crossed>> /\ jobs[j].at = "files" /\ jobs[j] \in WorkerJob
          /\ JobFine(j)
  BY DEF PutExe, CoreInv, CoreTypes
<1>1. CASE JobFails(j) /\ UNCHANGED core BY <1>0, <1>1, JobFailsAs, JobOnly
<1>2. ASSUME NEW s \in {"dll", "bak"}, core' = [core EXCEPT !.exe = jobs[j].rel, !.sound = jobs[j].good],
             jobs' = [jobs EXCEPT ![j].at = s, ![j].rel = core.exe]
      PROVE  CoreInv'
  <2> DEFINE new == [jobs[j] EXCEPT !.at = s, !.rel = core.exe]
  <2>1. core.exe \in Nat BY CoreFiles
  <2>2. new \in WorkerJob BY <1>0, <2>1 DEF WorkerJob
  <2>3. new.at = s /\ new.rel = core.exe /\ new.apply = jobs[j].apply BY <1>0 DEF WorkerJob
  <2>4. jobs' = [jobs EXCEPT ![j] = new] BY <1>2
  <2> HIDE DEF new
  <2>5. jobs'[j] = new BY <2>4 DEF CoreInv, CoreTypes
  <2>6. jobs[j].apply /\ jobs[j].rel >= FirstCore /\ (~crossed => jobs[j].rel > core.exe) /\ jobs[j].good /\ jobs[j].rel \in Nat
            /\ jobs[j].good \in BOOLEAN
    BY <1>0 DEF JobFine, WorkerJob
  <2>7. jobs[j].good = TRUE BY <2>6
  <2>8. core' = [exe |-> jobs[j].rel, dll |-> core.dll, bak |-> core.bak, sound |-> TRUE]
    <3>1. core = [exe |-> core.exe, dll |-> core.dll, bak |-> core.bak, sound |-> TRUE] BY CoreFiles
    <3> QED BY <1>2, <2>7, <3>1
  <2>9. core'.exe = jobs[j].rel /\ core'.dll = core.dll BY <2>8
  <2>10. core.exe >= FirstCore /\ (~crossed => core.dll <= core.exe) /\ core.dll \in Nat /\ core.bak \in Nat
             /\ FirstCore \in Nat
    BY CoreFiles
  <2>11. JobFine(j)' BY <1>0, <2>1, <2>3, <2>5, <2>6, <2>9, <2>10 DEF JobFine
  <2>12. ~Ended(j) BY <1>0 DEF Ended
  <2>13. jobs[j].rel >= FirstCore /\ (~crossed => core.dll <= jobs[j].rel) BY <2>1, <2>6, <2>10
  <2> QED BY <1>0, <2>2, <2>4, <2>6, <2>8, <2>10, <2>11, <2>12, <2>13, JobReplaces
<1>3. \/ JobFails(j) /\ UNCHANGED core
      \/ /\ core' = [core EXCEPT !.exe = jobs[j].rel, !.sound = jobs[j].good]
         /\ jobs' = [jobs EXCEPT ![j].at = IF jobs[j].dll THEN "dll" ELSE "bak", ![j].rel = core.exe]
  BY DEF PutExe
<1>4. (IF jobs[j].dll THEN "dll" ELSE "bak") \in {"dll", "bak"} OBVIOUS
<1> QED BY <1>1, <1>2, <1>3, <1>4

LEMMA PutDllSafe == ASSUME CoreInv, Noted, NEW j \in Jobs, PutDll(j) PROVE CoreInv'
<1>0. UNCHANGED <<linkVars, again, slot, boxJob, box, crossed>> /\ jobs[j].at = "dll" /\ jobs[j] \in WorkerJob
          /\ JobFine(j)
  BY DEF PutDll, CoreInv, CoreTypes
<1>1. core.exe >= FirstCore /\ (~crossed => core.dll <= core.exe) /\ core.exe \in Nat /\ core.dll \in Nat
          /\ core.bak \in Nat /\ FirstCore \in Nat
  BY CoreFiles
<1>2. jobs[j].apply /\ jobs[j].rel \in Nat /\ jobs[j].rel >= FirstCore
      /\ (~crossed => jobs[j].rel < core.exe /\ core.dll <= jobs[j].rel)
  BY <1>0 DEF JobFine, WorkerJob
<1>3. ~Ended(j) BY <1>0 DEF Ended
<1>4. core \in [exe : Nat, dll : Nat, bak : Nat, sound : BOOLEAN] /\ core.sound = TRUE
  BY CoreFiles DEF CoreInv, CoreTypes
<1>5. CASE core' = [core EXCEPT !.dll = core.exe] /\ jobs' = [jobs EXCEPT ![j].at = "bak"]
  <2> DEFINE new == [jobs[j] EXCEPT !.at = "bak"]
  <2>1. new \in WorkerJob /\ new.at = "bak" /\ new.rel = jobs[j].rel /\ new.apply = jobs[j].apply
    BY <1>0 DEF WorkerJob
  <2>2. jobs' = [jobs EXCEPT ![j] = new] BY <1>5
  <2> HIDE DEF new
  <2>3. jobs'[j] = new BY <2>2 DEF CoreInv, CoreTypes
  <2>4. core' = [exe |-> core.exe, dll |-> core.exe, bak |-> core.bak, sound |-> TRUE] BY <1>4, <1>5
  <2>5. core'.exe = core.exe BY <2>4
  <2>6. JobFine(j)' BY <1>0, <1>2, <2>1, <2>3, <2>5 DEF JobFine
  <2>7. core.exe <= core.exe BY <1>1
  <2> QED BY <1>0, <1>1, <1>2, <1>3, <2>1, <2>2, <2>4, <2>6, <2>7, JobReplaces
<1>6. CASE core' = [core EXCEPT !.exe = jobs[j].rel] /\ JobFails(j)
  <2>1. PICK new \in WorkerJob : jobs' = [jobs EXCEPT ![j] = new] /\ JobFine(j)' BY <1>6, JobFailsAs
  <2>2. core' = [exe |-> jobs[j].rel, dll |-> core.dll, bak |-> core.bak, sound |-> TRUE] BY <1>4, <1>6
  <2> QED BY <1>0, <1>1, <1>2, <1>3, <2>1, <2>2, JobReplaces
<1> QED BY <1>5, <1>6 DEF PutDll, JobAt

LEMMA KeepBakSafe == ASSUME CoreInv, Noted, NEW j \in Jobs, KeepBak(j) PROVE CoreInv'
<1>0. UNCHANGED <<linkVars, again, slot, boxJob, box, crossed>> /\ jobs[j].at = "bak" /\ jobs[j] \in WorkerJob
          /\ JobFine(j)
  BY DEF KeepBak, CoreInv, CoreTypes
<1>1. CASE JobFails(j) /\ UNCHANGED core BY <1>0, <1>1, JobFailsAs, JobOnly
<1>2. CASE core' = [core EXCEPT !.bak = jobs[j].rel]
          /\ jobs' = [jobs EXCEPT ![j].at = "told", ![j].end = "updated"]
  <2> DEFINE new == [jobs[j] EXCEPT !.at = "told", !.end = "updated"]
  <2>1. new \in WorkerJob /\ new.at = "told" /\ new.apply = jobs[j].apply BY <1>0 DEF WorkerJob
  <2>2. jobs' = [jobs EXCEPT ![j] = new] BY <1>2
  <2> HIDE DEF new
  <2>3. jobs'[j] = new BY <2>2 DEF CoreInv, CoreTypes
  <2>4. core.exe >= FirstCore /\ (~crossed => core.dll <= core.exe) /\ core.exe \in Nat /\ core.dll \in Nat
            /\ core.bak \in Nat /\ FirstCore \in Nat
    BY CoreFiles
  <2>5. jobs[j].apply /\ jobs[j].rel \in Nat /\ jobs[j].rel >= FirstCore /\ (~crossed => jobs[j].rel < core.exe)
    BY <1>0 DEF JobFine, WorkerJob
  <2>6. core' = [exe |-> core.exe, dll |-> core.dll, bak |-> jobs[j].rel, sound |-> TRUE]
    <3>1. core \in [exe : Nat, dll : Nat, bak : Nat, sound : BOOLEAN] /\ core.sound = TRUE
      BY CoreFiles DEF CoreInv, CoreTypes
    <3> QED BY <1>2, <3>1
  <2>7. core'.exe = core.exe /\ (~crossed => core.exe > FirstCore) BY <2>4, <2>5, <2>6
  <2>8. JobFine(j)' BY <1>0, <2>1, <2>3, <2>5, <2>7 DEF JobFine
  <2>9. ~Ended(j) BY <1>0 DEF Ended
  <2> QED BY <1>0, <2>1, <2>2, <2>4, <2>5, <2>6, <2>8, <2>9, JobReplaces
<1> QED BY <1>1, <1>2 DEF KeepBak

LEMMA XrayDoneSafe == ASSUME CoreInv, NEW j \in Jobs, XrayDone(j) PROVE CoreInv'
<1>0. UNCHANGED <<link, moves, core, boxJob, box, crossed>> /\ jobs[j] \in WorkerJob /\ slot' = 0 /\ again' = FALSE /\ wish' = (wish \/ again)
  BY DEF XrayDone, CoreInv, CoreTypes
<1> DEFINE new == [jobs[j] EXCEPT !.at = "gone"]
<1>1. new \in WorkerJob /\ new.at = "gone" BY <1>0 DEF WorkerJob
<1>2. jobs' = [jobs EXCEPT ![j] = new] BY DEF XrayDone, JobAt
<1> HIDE DEF new
<1>3. jobs'[j] = new BY <1>2 DEF CoreInv, CoreTypes
<1>4. JobFine(j)' BY <1>1, <1>3 DEF JobFine
<1>5. wish' \in BOOLEAN /\ again' \in BOOLEAN
  <2>1. (wish \/ again) \in BOOLEAN /\ FALSE \in BOOLEAN OBVIOUS
  <2> QED BY <1>0, <2>1
<1>6. slot' \in 0..MaxJobs BY <1>0, CoreAssumption
<1>7. CoreTypeOK' BY <1>0, <1>5, <1>6 DEF CoreInv, CoreTypes, CoreTypeOK
<1>8. core \in [exe : Nat, dll : Nat, bak : Nat, sound : BOOLEAN] /\ core.sound /\ core.exe >= FirstCore
          /\ (~crossed => core.dll <= core.exe)
  BY DEF CoreInv, CoreTypes
<1> QED BY <1>0, <1>1, <1>2, <1>4, <1>7, <1>8, JobMoves

(* The worker and the file of sing-box.                                      *)
LEMMA BoxMoves ==
  ASSUME CoreInv, NEW new \in WorkerJob, boxJob' = new, NEW exe \in Nat, box' = exe, exe >= FirstCore,
         new.at = "files" => new.rel > exe, UNCHANGED <<linkVars, again, slot, jobs, core, crossed>>
  PROVE  CoreInv'
<1>1. CoreTypeOK' BY DEF linkVars, CoreInv, CoreTypes, CoreTypeOK
<1> QED BY <1>1 DEF CoreInv, CoreTypes, JobFine

LEMMA BoxEndsAs ==
  ASSUME CoreInv, NEW e \in {"none", "error", "up_to_date", "available", "updated"},
         boxJob' = [boxJob EXCEPT !.at = "told", !.end = e]
  PROVE  boxJob' \in WorkerJob /\ boxJob'.at # "files"
<1>1. boxJob \in WorkerJob BY DEF CoreInv, CoreTypes
<1> QED BY <1>1 DEF WorkerJob

LEMMA BoxSafe == ASSUME CoreInv, BoxSteps \/ (\E b \in BOOLEAN : ClickBox(b)) PROVE CoreInv'
<1>0. boxJob \in WorkerJob /\ box \in Nat /\ box >= FirstCore BY DEF CoreInv, CoreTypes, CoreTypeOK
<1>1. ASSUME NEW b \in BOOLEAN, ClickBox(b) PROVE CoreInv'
  <2> DEFINE new == [NoJob EXCEPT !.at = "asks", !.apply = b]
  <2>1. new \in WorkerJob /\ new.at = "asks" BY DEF NoJob, WorkerJob
  <2>2. boxJob' = new /\ UNCHANGED <<linkVars, again, slot, jobs, core, box, crossed>> BY <1>1 DEF ClickBox
  <2> HIDE DEF new
  <2> QED BY <1>0, <2>1, <2>2, BoxMoves
<1>2. ASSUME NEW e \in {"none", "error", "up_to_date", "available", "updated"},
             boxJob' = [boxJob EXCEPT !.at = "told", !.end = e], UNCHANGED <<linkVars, again, slot, jobs,
                 core, box, crossed>>
      PROVE  CoreInv'
  <2>1. boxJob' \in WorkerJob /\ boxJob'.at # "files" BY <1>2, BoxEndsAs
  <2> QED BY <1>0, <1>2, <2>1, BoxMoves
<1>3. CASE BoxAsks
  <2>0. UNCHANGED <<linkVars, again, slot, jobs, core, box, crossed>> BY <1>3 DEF BoxAsks
  <2>1. ASSUME NEW f \in Feeds, NEW r \in BoxPicked(f), NewerCore(r, box),
            boxJob' = [boxJob EXCEPT !.at = "files", !.rel = r.v]
        PROVE  CoreInv'
    <3> DEFINE new == [boxJob EXCEPT !.at = "files", !.rel = r.v]
    <3>1. r.v \in Nat BY OffersTyped
    <3>2. new \in WorkerJob /\ new.rel = r.v BY <1>0, <3>1 DEF WorkerJob
    <3>3. boxJob' = new BY <2>1
    <3> HIDE DEF new
    <3>4. r.v > box BY <2>1 DEF NewerCore
    <3> QED BY <1>0, <2>0, <3>2, <3>3, <3>4, BoxMoves
  <2>2. \/ \E e \in {"none", "error", "up_to_date", "available", "updated"} : boxJob' = [boxJob EXCEPT !.at = "told", !.end = e]
        \/ \E f \in Feeds : \E r \in BoxPicked(f) : NewerCore(r, box) /\ boxJob' = [boxJob EXCEPT !.at = "files", !.rel = r.v]
    BY <1>3 DEF BoxAsks
  <2> QED BY <1>2, <2>0, <2>1, <2>2
<1>4. CASE BoxInstalls
  <2>0. UNCHANGED <<linkVars, again, slot, jobs, core, crossed>> /\ boxJob.rel > box /\ boxJob.rel \in Nat
    BY <1>0, <1>4 DEF BoxInstalls, CoreInv, WorkerJob
  <2>1. CASE box' = boxJob.rel /\ boxJob' = [boxJob EXCEPT !.at = "told", !.end = "updated"]
    <3>1. boxJob' \in WorkerJob /\ boxJob'.at # "files" BY <2>1, BoxEndsAs
    <3>2. boxJob.rel >= FirstCore BY <1>0, <2>0, CoreAssumption
    <3> QED BY <2>0, <2>1, <3>1, <3>2, BoxMoves
  <2>2. CASE UNCHANGED box /\ boxJob' = [boxJob EXCEPT !.at = "told", !.end = "error"] BY <1>2, <2>0, <2>2
  <2> QED BY <1>4, <2>1, <2>2 DEF BoxInstalls
<1>5. CASE BoxDone
  <2> DEFINE new == [boxJob EXCEPT !.at = "gone"]
  <2>1. new \in WorkerJob /\ new.at = "gone" BY <1>0 DEF WorkerJob
  <2>2. boxJob' = new /\ UNCHANGED <<linkVars, again, slot, jobs, core, box, crossed>> BY <1>5 DEF BoxDone
  <2> HIDE DEF new
  <2> QED BY <1>0, <2>1, <2>2, BoxMoves
<1> QED BY <1>1, <1>3, <1>4, <1>5 DEF BoxSteps

(* A worker that goes on is the same worker.                                 *)
LEMMA JobGoesOn ==
  ASSUME CoreTypes, NEW j \in Jobs, JobSteps(j)
  PROVE  /\ UNCHANGED crossed /\ jobs[j].at \notin {"none", "gone"}
         /\ jobs'[j].apply = jobs[j].apply /\ \A k \in Jobs \ {j} : jobs'[k] = jobs[k]
<1>1. jobs \in [Jobs -> WorkerJob] BY DEF CoreTypes
<1>2. UNCHANGED crossed /\ jobs[j].at \notin {"none", "gone"}
  BY DEF JobSteps, Asks, Loads, Hashes, PutExe, PutDll, KeepBak, XrayDone
<1>3. CASE JobFails(j) BY <1>1, <1>2, <1>3 DEF JobFails, WorkerJob
<1>4. CASE \E s \in {"hash", "files", "bak", "gone"} : JobAt(j, s) BY <1>1, <1>2, <1>4 DEF JobAt, WorkerJob
<1>5. CASE \E e \in {"up_to_date", "available", "updated"} : jobs' = [jobs EXCEPT ![j].at = "told", ![j].end = e]
  BY <1>1, <1>2, <1>5 DEF WorkerJob
<1>6. CASE jobs' = [jobs EXCEPT ![j].at = "hash", ![j].good = FALSE] BY <1>1, <1>2, <1>6 DEF WorkerJob
<1>7. CASE \E s \in {"dll", "bak"} : jobs' = [jobs EXCEPT ![j].at = s, ![j].rel = core.exe]
  BY <1>1, <1>2, <1>7 DEF WorkerJob
<1>8. CASE \E f \in Feeds : \E r \in Picked(f) :
             jobs' = [jobs EXCEPT ![j] = [@ EXCEPT !.at = "loads", !.rel = r.v, !.digest = r.digest, !.dll = r.dll]]
  BY <1>1, <1>2, <1>8 DEF WorkerJob
<1> QED BY <1>2, <1>3, <1>4, <1>5, <1>6, <1>7, <1>8
  DEF JobSteps, Asks, Loads, Hashes, PutExe, PutDll, KeepBak, XrayDone

(* A worker that begins to install beside another one is noted; a worker     *)
(* that goes on stays what it was.                                           *)
LEMMA NotedStep == ASSUME CoreTypes, Noted, CoreNext PROVE Noted'
<1>1. CASE UNCHANGED <<jobs, crossed>> BY <1>1 DEF Noted, OneInstall, Ended
<1>2. ASSUME NEW j \in Jobs, JobSteps(j) PROVE Noted'
  <2>1. /\ jobs'[j].apply = jobs[j].apply /\ \A k \in Jobs \ {j} : jobs'[k] = jobs[k]
        /\ jobs[j].at \notin {"none", "gone"} /\ UNCHANGED crossed
    BY <1>2, JobGoesOn
  <2> QED BY <2>1 DEF Noted, OneInstall, Ended
<1>3. CASE Stopped \/ \E b \in BOOLEAN : ClickXray(b)
  <2>1. PICK b \in BOOLEAN : Starts(b) BY <1>3 DEF Stopped, ClickXray
  <2>2. PICK j \in Jobs : jobs' = [jobs EXCEPT ![j] = [NoJob EXCEPT !.at = "asks", !.apply = b]] /\ jobs[j].at = "none"
    BY <2>1 DEF Starts
  <2>3. crossed' = (crossed \/ (b /\ \E k \in Jobs : jobs[k].apply /\ ~Ended(k))) BY <2>1 DEF Starts
  <2>4. jobs'[j].apply = b /\ \A k \in Jobs \ {j} : jobs'[k] = jobs[k] BY <2>2 DEF CoreTypes, NoJob
  <2> QED BY <2>3, <2>4 DEF Noted, OneInstall, Ended
<1>4. CASE Wishes \/ Moves \/ MoveEnds \/ ClickStop \/ StopFails \/ BoxSteps \/ \E b \in BOOLEAN : ClickBox(b)
  BY <1>1, <1>4 DEF Wishes, Moves, MoveEnds, ClickStop, StopFails, BoxSteps, BoxAsks, BoxInstalls, BoxDone, ClickBox, Idle
<1> QED BY <1>2, <1>3, <1>4 DEF CoreNext

(* Every step.                                                               *)
LEMMA CoreStep == ASSUME CoreInv, Noted, CoreNext PROVE CoreInv' /\ Noted'
<1>1. \/ Wishes \/ Moves \/ MoveEnds \/ ClickStop \/ StopFails
      \/ Stopped \/ (\E b \in BOOLEAN : ClickXray(b))
      \/ BoxSteps \/ (\E b \in BOOLEAN : ClickBox(b))
      \/ \E j \in Jobs : JobSteps(j)
  BY DEF CoreNext
<1>2. ASSUME NEW j \in Jobs, JobSteps(j) PROVE CoreInv'
  BY <1>2, AsksSafe, LoadsSafe, PutExeSafe, PutDllSafe, KeepBakSafe, XrayDoneSafe DEF JobSteps
<1>3. CoreInv' BY <1>1, <1>2, LinkSteps, StartSteps, BoxSafe
<1> QED BY <1>3, NotedStep DEF CoreInv

LEMMA CoreRests == ASSUME CoreInv, Noted, UNCHANGED coreVars PROVE CoreInv' /\ Noted'
BY DEF Noted, OneInstall, Ended, CoreInv, CoreTypes, CoreTypeOK, JobFine, coreVars, linkVars

LEMMA CoreHolds == ASSUME CoreInv PROVE CoreSafe
BY DEF CoreInv, CoreTypes, CoreSafe, CoreWhole, JobFine

-----------------------------------------------------------------------------
(* The handoff to the installer.                                             *)
HandoffTypes ==
  /\ hold \in [held : BOOLEAN, ready : BOOLEAN, late : BOOLEAN]
  /\ prog \in [is : {"none", "new", "old"}, at : {"off", "dead"} \cup Living, claimed : BOOLEAN,
         looked : BOOLEAN,
               passed : BOOLEAN]
  /\ win \in [is : {"none", "open", "away", "closed"}, finished : BOOLEAN, timer : {"none", "phrase", "close"}]
  /\ files \in [are : {"old", "new", "mixed"}, journal : BOOLEAN, armed : BOOLEAN, undone : BOOLEAN, cut : BOOLEAN]

(* The lock keeps a program that has not shown itself behind the window; the *)
(* window opens once, before there is such a program.                        *)
WindowInv ==
  /\ OneWindow /\ WindowEnds
  /\ prog.at \in {"boots", "waits"} /\ win.is = "open" => hold.held
  /\ win.finished => win.is \in {"open", "closed"}
  /\ installer = "starts" => prog.at = "off" /\ win.is = "none" /\ ~win.finished /\ win.timer = "none"

(* What the installer knows of the files and of the program it started.      *)
Over == installer \in {"relaunches", "reverifies", "ends", "gone"}
InstallerInv ==
  /\ installer \in {"ends", "gone"} => why = "fatal" \/ prog.passed \/ files.cut
  /\ installer \in {"undoes", "restores"} => why # "none"
  /\ installer = "cleans" => prog.passed
  /\ files.are = "mixed" => files.journal /\ installer \notin {"launches", "verifies", "cleans"}
  /\ Over /\ files.are = "mixed" => why \in {"rback", "fatal"} \/ (files.cut /\ why # "none")
  /\ Over /\ files.are = "new" => ~files.journal

HandoffInv == HandoffTypes /\ WindowInv /\ InstallerInv

LEMMA HandoffStarts == ASSUME HandoffInit PROVE HandoffInv
<1>1. HandoffTypes BY DEF HandoffInit, HandoffTypes, NoProgram
<1>2. WindowInv BY DEF HandoffInit, WindowInv, OneWindow, WindowEnds, NoProgram
<1>3. InstallerInv BY DEF HandoffInit, InstallerInv, Over
<1> QED BY <1>1, <1>2, <1>3 DEF HandoffInv

LEMMA HoldTyped == ASSUME HandoffTypes, HandoffNext PROVE hold' \in [held : BOOLEAN, ready : BOOLEAN,
          late : BOOLEAN]
<1>1. CASE UNCHANGED hold BY <1>1 DEF HandoffTypes
<1>2. CASE Launch \/ Relaunch BY <1>2 DEF Launch, Relaunch, Armed, HandoffTypes
<1>3. CASE Leaves BY <1>3 DEF Leaves, HandoffTypes
<1>4. CASE Claim BY <1>4 DEF Claim, HandoffTypes
<1>5. CASE ShowAfterWait BY <1>5 DEF ShowAfterWait, HandoffTypes
<1> QED BY <1>1, <1>2, <1>3, <1>4, <1>5
  DEF HandoffNext, AwaitReady, AwaitDead, AwaitOver, Kill, AppExits, OpenWindow, ConfirmStart, PrepareFiles,
          CloseApp,
      SwapFiles, StartFails, StartHolds, Clean, Undo, Restore, Reverify, Breaks, PutAway, CloseWindow, SayFarewell,
          CloseTimer,
      ShowAfterHold, LookForSwap, ProgramDies

LEMMA ProgTyped ==
  ASSUME HandoffTypes, HandoffNext
  PROVE  prog' \in [is : {"none", "new", "old"}, at : {"off", "dead"} \cup Living, claimed : BOOLEAN,
            looked : BOOLEAN,
                    passed : BOOLEAN]
<1>1. CASE UNCHANGED prog BY <1>1 DEF HandoffTypes
<1>2. CASE Launch \/ Relaunch
  <2>1. prog' \in {prog, Booting("new"), Booting("old")} BY <1>2 DEF Launch, Relaunch, Armed
  <2>2. \A s \in {"new", "old"} : Booting(s) \in [is : {"none", "new", "old"}, at : {"off", "dead"} \cup Living,
                                               claimed : BOOLEAN, looked : BOOLEAN, passed : BOOLEAN]
    BY DEF Booting, Living
  <2> QED BY <2>1, <2>2 DEF HandoffTypes
<1>3. CASE StartHolds BY <1>3 DEF StartHolds, HandoffTypes
<1>4. CASE Undo BY <1>4 DEF Undo, EndedUnder, HandoffTypes
<1>5. CASE Reverify
  <2>1. PICK b \in BOOLEAN : prog' = [prog EXCEPT !.passed = b] BY <1>5, Zenon DEF Reverify
  <2> QED BY <2>1 DEF HandoffTypes
<1>6. CASE Claim
  <2>1. PICK s \in Living : prog' = [prog EXCEPT !.claimed = TRUE, !.at = s] BY <1>6 DEF Claim, Living
  <2> QED BY <2>1 DEF HandoffTypes
<1>7. CASE ShowAfterHold \/ ShowAfterWait \/ LookForSwap \/ ProgramDies
  BY <1>7 DEF ShowAfterHold, ShowAfterWait, LookForSwap, ProgramDies, HandoffTypes, Living
<1> QED BY <1>1, <1>2, <1>3, <1>4, <1>5, <1>6, <1>7
  DEF HandoffNext, AwaitReady, AwaitDead, AwaitOver, Kill, AppExits, OpenWindow, ConfirmStart, PrepareFiles,
          CloseApp,
      SwapFiles, StartFails, Clean, Restore, Leaves, Breaks, PutAway, CloseWindow, SayFarewell, CloseTimer

(* What a step does to the window.                                           *)
LEMMA WindowMoves ==
  ASSUME HandoffTypes, HandoffNext
  PROVE  \/ UNCHANGED win
         \/ installer = "starts" /\ win' = [win EXCEPT !.is = "open"]
         \/ win' = [win EXCEPT !.is = "closed"]
         \/ win.is = "away" /\ win' = [win EXCEPT !.finished = TRUE, !.is = "closed"]
         \/ win.is = "open" /\ win' = [win EXCEPT !.finished = TRUE, !.timer = "phrase"]
         \/ win.is = "open" /\ ~win.finished /\ win' = [win EXCEPT !.is = "away"]
         \/ win.is = "open" /\ win' = [win EXCEPT !.timer = "close"]
         \/ win.is # "open" /\ win' = [win EXCEPT !.timer = "none"]
         \/ win' = [win EXCEPT !.timer = "none", !.is = "closed"]
<1>1. CASE Clean \/ Reverify \/ Relaunch \/ Restore
  <2>1. win' \in {win, Finished(win)} BY <1>1 DEF Clean, Reverify, Relaunch, Restore
  <2> QED BY <2>1 DEF Finished, HandoffTypes
<1>2. CASE PutAway BY <1>2 DEF PutAway
<1>3. CASE CloseWindow \/ SayFarewell \/ CloseTimer BY <1>3 DEF CloseWindow, SayFarewell, CloseTimer
<1>4. CASE OpenWindow BY <1>4 DEF OpenWindow
<1>5. CASE Kill \/ Breaks BY <1>5 DEF Kill, Breaks
<1> QED BY <1>1, <1>2, <1>3, <1>4, <1>5
  DEF HandoffNext, AwaitReady, AwaitDead, AwaitOver, AppExits, ConfirmStart, PrepareFiles, CloseApp,
      SwapFiles, Launch, StartFails, StartHolds, Undo, Leaves, Claim, ShowAfterHold, ShowAfterWait,
          LookForSwap, ProgramDies

LEMMA WinTyped ==
  ASSUME HandoffTypes, HandoffNext
  PROVE  win' \in [is : {"none", "open", "away", "closed"}, finished : BOOLEAN, timer : {"none", "phrase",
            "close"}]
BY WindowMoves DEF HandoffTypes

LEMMA FilesTyped ==
  ASSUME HandoffTypes, HandoffNext
  PROVE  files' \in [are : {"old", "new", "mixed"}, journal : BOOLEAN, armed : BOOLEAN, undone : BOOLEAN, cut : BOOLEAN]
<1>1. CASE UNCHANGED files BY <1>1 DEF HandoffTypes
<1>2. CASE SwapFiles BY <1>2 DEF SwapFiles, HandoffTypes
<1>3. CASE Clean BY <1>3 DEF Clean, HandoffTypes
<1>5. CASE Restore
  <2>1. \/ \E s \in {"old", "mixed"} : files' = [files EXCEPT !.are = s, !.cut = TRUE]
        \/ files' = [files EXCEPT !.are = "old", !.journal = FALSE, !.armed = FALSE]
        \/ files' = [files EXCEPT !.are = "old", !.journal = FALSE]
        \/ files' = [files EXCEPT !.are = "mixed"]
    BY <1>5 DEF Restore
  <2> QED BY <2>1 DEF HandoffTypes
<1>4. CASE LookForSwap
  <2> DEFINE b == installer \in {"verifies", "cleans"}
  <2>1. b \in BOOLEAN OBVIOUS
  <2>2. UNCHANGED files \/ files' = [files EXCEPT !.are = "old", !.journal = FALSE, !.armed = FALSE, !.undone = b]
    BY <1>4 DEF LookForSwap
  <2> HIDE DEF b
  <2> QED BY <2>1, <2>2 DEF HandoffTypes
<1> QED BY <1>1, <1>2, <1>3, <1>4, <1>5
  DEF HandoffNext, AwaitReady, AwaitDead, AwaitOver, Kill, AppExits, OpenWindow, ConfirmStart, PrepareFiles,
          CloseApp,
      Launch, StartFails, StartHolds, Undo, Relaunch, Reverify, Leaves, Breaks, PutAway, CloseWindow, SayFarewell,
          CloseTimer,
      Claim, ShowAfterHold, ShowAfterWait, ProgramDies

LEMMA HandoffTyped == ASSUME HandoffTypes, [HandoffNext]_handoffVars PROVE HandoffTypes'
<1>1. CASE HandoffNext BY <1>1, HoldTyped, ProgTyped, WinTyped, FilesTyped DEF HandoffTypes
<1>2. CASE UNCHANGED handoffVars BY <1>2 DEF handoffVars, HandoffTypes
<1> QED BY <1>1, <1>2

LEMMA WindowStep == ASSUME HandoffTypes, WindowInv, HandoffNext PROVE WindowInv'
<1>1. CASE OpenWindow
  <2>1. prog.at = "off" /\ ~win.finished /\ UNCHANGED <<prog, hold>> /\ installer' # "starts"
            /\ win'.finished = win.finished
        /\ prog' = prog
    BY <1>1 DEF OpenWindow, WindowInv, HandoffTypes
  <2> QED BY <2>1, HandoffTyped DEF WindowInv, OneWindow, WindowEnds
<1>2. ASSUME ~OpenWindow, installer = "starts" PROVE WindowInv'
  <2>0. prog.at = "off" /\ win.is = "none" /\ ~win.finished /\ win.timer = "none"
    BY <1>2 DEF WindowInv, HandoffTypes
  <2>1. \/ UNCHANGED <<prog, hold, installer, win>>
        \/ UNCHANGED <<prog, hold>> /\ win'.is = "closed" /\ installer' # "starts"
    BY <1>2, <2>0
    DEF HandoffNext, AwaitReady, AwaitDead, AwaitOver, Kill, AppExits, OpenWindow, ConfirmStart,
        PrepareFiles,
      CloseApp, SwapFiles, Launch, StartFails, StartHolds, Clean, Undo, Restore, Relaunch, Reverify, Leaves, Breaks,
          PutAway, CloseWindow,
      SayFarewell, CloseTimer, Claim, ShowAfterHold, ShowAfterWait, LookForSwap, ProgramDies, Living,
          HandoffTypes
  <2> QED BY <2>0, <2>1 DEF WindowInv, OneWindow, WindowEnds
<1>3. ASSUME ~OpenWindow, installer # "starts" PROVE WindowInv'
  <2>1. installer' # "starts"
    BY <1>3
    DEF HandoffNext, AwaitReady, AwaitDead, AwaitOver, Kill, AppExits, OpenWindow, ConfirmStart,
        PrepareFiles,
      CloseApp, SwapFiles, Launch, StartFails, StartHolds, Clean, Undo, Restore, Relaunch, Reverify, Leaves, Breaks,
          PutAway, CloseWindow,
      SayFarewell, CloseTimer, Claim, ShowAfterHold, ShowAfterWait, LookForSwap, ProgramDies
  <2>2. win'.is = "open" => win.is = "open" BY <1>3, WindowMoves DEF HandoffTypes
  <2>3. (WindowEnds /\ (win.finished => win.is \in {"open", "closed"}))'
    <3>1. \/ UNCHANGED win
          \/ win'.is = "closed"
          \/ win'.is = "open" /\ win'.timer \in {"phrase", "close"}
          \/ win'.is = "away" /\ ~win'.finished
          \/ win.is # "open" /\ win'.is = win.is /\ win'.finished = win.finished
      BY <1>3, WindowMoves DEF HandoffTypes
    <3> QED BY <3>1 DEF WindowInv, WindowEnds
  <2>4. (OneWindow /\ (prog.at \in {"boots", "waits"} /\ win.is = "open" => hold.held))'
    <3>1. CASE UNCHANGED <<prog, hold>> BY <2>2, <3>1 DEF WindowInv, OneWindow
    <3>2. CASE Launch \/ Relaunch
      <4>1. UNCHANGED <<prog, hold>> \/ (\E s \in {"new", "old"} : Armed(s)) BY <3>2 DEF Launch, Relaunch
      <4>2. ASSUME NEW s \in {"new", "old"}, Armed(s) PROVE prog'.at = "boots" /\ hold'.held
        BY <4>2 DEF Armed, Booting, HandoffTypes
      <4> QED BY <2>2, <3>1, <4>1, <4>2 DEF WindowInv, OneWindow
    <3>3. CASE StartHolds \/ Undo \/ Reverify
      <4>1. prog'.at = prog.at \/ (prog'.at = "dead" /\ prog.at \in Living)
        BY <3>3 DEF StartHolds, Undo, Reverify, EndedUnder, HandoffTypes
      <4>2. UNCHANGED hold BY <3>3 DEF StartHolds, Undo, Reverify
      <4> QED BY <2>2, <4>1, <4>2 DEF WindowInv, OneWindow
    <3>4. CASE Leaves
      BY <2>2, <3>4 DEF Leaves, WindowInv, OneWindow, HandoffTypes
    <3>5. CASE Claim BY <2>2, <3>5 DEF Claim, WindowInv, OneWindow, HandoffTypes
    <3>6. CASE ShowAfterHold \/ ShowAfterWait
      BY <2>2, <3>6 DEF ShowAfterHold, ShowAfterWait, WindowInv, OneWindow, HandoffTypes
    <3>7. CASE LookForSwap \/ ProgramDies
      <4>1. prog'.at \in {prog.at, "dead"} /\ UNCHANGED hold BY <3>7 DEF LookForSwap, ProgramDies, HandoffTypes
      <4> QED BY <2>2, <4>1 DEF WindowInv, OneWindow
    <3> QED BY <1>3, <3>1, <3>2, <3>3, <3>4, <3>5, <3>6, <3>7
      DEF HandoffNext, AwaitReady, AwaitDead, AwaitOver, Kill, AppExits, ConfirmStart, PrepareFiles, CloseApp,
          SwapFiles, StartFails, Clean, Restore, Breaks, PutAway, CloseWindow, SayFarewell, CloseTimer
  <2> QED BY <2>1, <2>3, <2>4 DEF WindowInv
<1> QED BY <1>1, <1>2, <1>3

LEMMA InstallerStep == ASSUME HandoffTypes, InstallerInv, HandoffNext PROVE InstallerInv'
<1>1. CASE UNCHANGED <<installer, files, prog, why>> BY <1>1 DEF InstallerInv, Over
<1>2. CASE Kill \/ OpenWindow \/ ConfirmStart \/ PrepareFiles \/ CloseApp \/ Breaks
  <2>1. /\ UNCHANGED <<files, prog>> /\ (installer' = "undoes" => why' # "none")
        /\ installer' \in {"killed", "opened", "broken", "prepares", "closes", "undoes", "swaps"}
    BY <1>2 DEF Kill, OpenWindow, ConfirmStart, PrepareFiles, CloseApp, Breaks
  <2> QED BY <2>1 DEF InstallerInv, Over
<1>3. CASE SwapFiles
  <2>1. \/ installer' = "launches" /\ files'.are = "new"
        \/ installer' = "undoes" /\ files'.are = "mixed" /\ files'.journal /\ why' # "none"
    BY <1>3 DEF SwapFiles, Resists, HandoffTypes
  <2> QED BY <2>1 DEF InstallerInv, Over
<1>4. CASE Launch BY <1>4 DEF Launch, Armed, InstallerInv, Over
<1>5. CASE StartFails \/ StartHolds BY <1>5 DEF StartFails, StartHolds, InstallerInv, Over, HandoffTypes
<1>6. CASE Clean
  <2>1. prog.passed /\ files.are # "mixed" BY <1>6 DEF Clean, InstallerInv, Over
  <2>2. files'.are = files.are /\ ~files'.journal /\ UNCHANGED prog /\ installer' = "ends"
    BY <1>6 DEF Clean, HandoffTypes
  <2> QED BY <2>1, <2>2 DEF InstallerInv, Over
<1>7. CASE Undo BY <1>7 DEF Undo, InstallerInv, Over
<1>14. CASE Restore
  <2>1. \/ installer' = "relaunches" /\ files'.are = "old"
        \/ installer' = "relaunches" /\ files'.are = "mixed" /\ files'.journal /\ why' = "rback"
        \/ /\ installer' = "ends" /\ files'.cut /\ UNCHANGED why
           /\ files'.are = "old" \/ (files'.are = "mixed" /\ files'.journal)
    BY <1>14 DEF Restore, HandoffTypes
  <2>2. why # "none" BY <1>14 DEF Restore, InstallerInv, Over
  <2> QED BY <2>1, <2>2 DEF InstallerInv, Over
<1>8. CASE Relaunch BY <1>8 DEF Relaunch, Armed, InstallerInv, Over
<1>9. CASE Reverify
  <2>1. prog.at = "dead" \/ prog'.passed BY <1>9 DEF Reverify, HandoffTypes
  <2>2. why' \in {why, "fatal"} /\ (prog.at = "dead" => why' = "fatal") BY <1>9 DEF Reverify
  <2> QED BY <1>9, <2>1, <2>2 DEF Reverify, InstallerInv, Over
<1>10. CASE Leaves BY <1>10 DEF Leaves, InstallerInv, Over
<1>11. CASE Claim \/ ShowAfterHold \/ ShowAfterWait
  <2>1. prog'.at \in Living /\ prog'.passed = prog.passed
    BY <1>11 DEF Claim, ShowAfterHold, ShowAfterWait, HandoffTypes, Living
  <2> QED BY <1>11, <2>1 DEF Claim, ShowAfterHold, ShowAfterWait, InstallerInv, Over
<1>12. CASE LookForSwap
  <2>1. prog'.at = prog.at /\ prog'.passed = prog.passed BY <1>12 DEF LookForSwap, HandoffTypes
  <2>2. UNCHANGED files \/ (files'.are = "old" /\ files'.cut = files.cut) BY <1>12 DEF LookForSwap, HandoffTypes
  <2> QED BY <1>12, <2>1, <2>2 DEF LookForSwap, InstallerInv, Over
<1>13. CASE ProgramDies
  <2>1. prog'.passed = prog.passed /\ UNCHANGED <<installer, files, why>> /\ prog.at \in {"boots", "waits"}
    BY <1>13 DEF ProgramDies, HandoffTypes
  <2> QED BY <2>1 DEF InstallerInv, Over
<1> QED BY <1>1, <1>2, <1>3, <1>4, <1>5, <1>6, <1>7, <1>8, <1>9, <1>10, <1>11, <1>12, <1>13, <1>14
  DEF HandoffNext, AwaitReady, AwaitDead, AwaitOver, AppExits, PutAway, CloseWindow, SayFarewell, CloseTimer

LEMMA HandoffStep == ASSUME HandoffInv, [HandoffNext]_handoffVars PROVE HandoffInv'
<1>1. CASE HandoffNext BY <1>1, HandoffTyped, WindowStep, InstallerStep DEF HandoffInv
<1>2. CASE UNCHANGED handoffVars
  BY <1>2, HandoffTyped DEF handoffVars, HandoffInv, WindowInv, OneWindow, WindowEnds, InstallerInv, Over
<1> QED BY <1>1, <1>2

LEMMA HandoffHolds == ASSUME HandoffInv PROVE HandoffSafe
BY DEF HandoffInv, HandoffTypes, WindowInv, InstallerInv, Over, HandoffSafe, OneWindow, WindowEnds, SomethingRuns,
    MixedIsKept

(* The program that said that the update did not start is left alone by an   *)
(* installer that is gone or was ended.                                      *)
StaysInv == app = "stays" => installer \in {"broken", "killed"}

LEMMA StaysStep ==
  ASSUME StaysInv, HandoffNext PROVE StaysInv' /\ (app = "stays" => app' = "stays")
<1>1. CASE app = "stays"
  <2>1. app' = "stays" /\ UNCHANGED installer
    BY <1>1
    DEF StaysInv, HandoffNext, AwaitReady, AwaitDead, AwaitOver, Kill, AppExits, OpenWindow,
        ConfirmStart, PrepareFiles,
      CloseApp, SwapFiles, Launch, StartFails, StartHolds, Clean, Undo, Restore, Relaunch, Reverify, Leaves, Breaks,
          PutAway, CloseWindow,
      SayFarewell, CloseTimer, Claim, ShowAfterHold, ShowAfterWait, LookForSwap, ProgramDies
  <2> QED BY <1>1, <2>1 DEF StaysInv
<1>2. CASE app # "stays"
  <2>1. app' # "stays" \/ AwaitDead \/ Kill
    BY <1>2
    DEF HandoffNext, AwaitReady, AwaitOver, AppExits, OpenWindow, ConfirmStart, PrepareFiles,
      CloseApp, SwapFiles, Launch, StartFails, StartHolds, Clean, Undo, Restore, Relaunch, Reverify, Leaves, Breaks,
          PutAway, CloseWindow,
      SayFarewell, CloseTimer, Claim, ShowAfterHold, ShowAfterWait, LookForSwap, ProgramDies
  <2> QED BY <1>2, <2>1 DEF AwaitDead, Kill, StaysInv
<1> QED BY <1>1, <1>2

-----------------------------------------------------------------------------
(* The parts side by side: a step of the whole is a step of each, or leaves  *)
(* it as it was.                                                             *)
LEMMA EachBegins ==
  ASSUME UpdatesInit
  PROVE  /\ RoundsInit /\ DownloadInit /\ NamesInit /\ CheckInit /\ ListenerInit
         /\ FetchInit /\ ReleaseInit /\ HandoffInit /\ CoreInit
BY DEF UpdatesInit

LEMMA EachSteps ==
  ASSUME [UpdatesNext]_updatesVars
  PROVE  /\ [RoundsNext]_roundsVars /\ [DownloadNext]_downloadVars /\ [NamesNext]_namesVars
         /\ [CheckNext]_checkVars /\ [ListenerNext]_listenerVars /\ [FetchNext]_fetchVars
         /\ [ReleaseNext]_releaseVars /\ [CoreNext]_coreVars /\ [HandoffNext]_handoffVars
BY DEF UpdatesNext, updatesVars

(* What is offered to the user is a signed release of one tagged commit that *)
(* the store holds whole, a check that heard nobody does not say that there  *)
(* is none, and the browser is led only to a name that answered.             *)
THEOREM WhatIsOfferedIsReal == UpdatesSpec => []OfferedIsReal
<1> DEFINE I == PubInv /\ CheckInv /\ NamesInv
<1>1. UpdatesInit => I BY EachBegins, PubStarts, CheckStarts, NamesStarts
<1>2. I /\ [UpdatesNext]_updatesVars => I'
  BY EachSteps, PubStep, PubRests, CheckStep, CheckRests, NamesStep, NamesRests
<1>3. I => OfferedIsReal BY PubHolds, CheckHolds, NamesHolds DEF OfferedIsReal
<1> QED BY <1>1, <1>2, <1>3, PTL DEF UpdatesSpec

(* What is put together of an archive or of a store of files is what the     *)
(* signed list names, a right copy is not refused, and at every moment of    *)
(* the handoff one whole program is there to run.                            *)
THEOREM WhatIsFetchedIsRight == UpdatesSpec => [](DownloadSafe /\ FetchSafe /\ HandoffSafe)
<1> DEFINE I == DownloadInv /\ FetchInv /\ HandoffInv
<1>1. UpdatesInit => I BY EachBegins, DownloadStarts, FetchStarts, HandoffStarts
<1>2. I /\ [UpdatesNext]_updatesVars => I' BY EachSteps, DownloadStep, FetchStep, HandoffStep
<1>3. I => DownloadSafe /\ FetchSafe /\ HandoffSafe BY DownloadHolds, FetchHolds, HandoffHolds
<1> QED BY <1>1, <1>2, <1>3, PTL DEF UpdatesSpec

(* The same with the cores: what is installed came whole and is no older     *)
(* than at first; and where no two workers ever installed at the same time   *)
(* (the code does not see to that, see OneInstall), the library is not ahead *)
(* of its executable with nothing being installed, and a core that is said   *)
(* to be updated is.                                                         *)
THEOREM WhatIsPutTogetherIsRight == UpdatesSpec => []PutTogetherRight
<1> DEFINE I == CoreInv /\ Noted
<1>1. UpdatesInit => I BY EachBegins, CoreStarts DEF Noted, OneInstall, CoreInit, NoJob
<1>2. I /\ [UpdatesNext]_updatesVars => I' BY EachSteps, CoreStep, CoreRests
<1>3. I /\ DownloadSafe /\ FetchSafe /\ HandoffSafe => PutTogetherRight BY CoreHolds DEF PutTogetherRight
<1> QED BY <1>1, <1>2, <1>3, WhatIsFetchedIsRight, PTL DEF UpdatesSpec

LEMMA ReadyStep ==
  ASSUME FetchInv, [FetchNext]_fetchVars, NEW p \in readyFile' \ readyFile
  PROVE  Right(p)
<1>1. PICK q \in Piece : FileSteps(q)
  <2>1. ~MakePlan /\ ~BuildStage /\ ~FetchEnds /\ ~FetchAgain /\ ~(\E q \in Piece : BaseChanges(q))
            /\ ~UNCHANGED fetchVars
    BY DEF MakePlan, BuildStage, FetchEnds, FetchAgain, BaseChanges, fetchVars
  <2> QED BY <2>1 DEF FetchNext, FetchSteps
<1>2. readyFile' \subseteq readyFile \cup {q}
  BY <1>1 DEF FileSteps, PickDepot, NextRound, LinkBreaks, TooMuch, WholePiece, Misfit, FinishBreaks
<1>3. p \in Piece BY <1>1, <1>2
<1> QED BY <1>3, FetchStep DEF Promised

LEMMA FilesAreKept == FetchInit /\ [][FetchNext]_fetchVars => FetchKept
<1>1. FetchInv /\ [FetchNext]_fetchVars => FetchInv' BY FetchStep
<1>2. FetchInv /\ [FetchNext]_fetchVars
        => [fetch' = "staged" => \A p \in Piece \ wanted : onDisk[p] = "new"]_fetchVars
  BY StagedStep
<1>3. FetchInv /\ [FetchNext]_fetchVars
        => [\A p \in readyFile' \ readyFile : Right(p)]_fetchVars
  BY ReadyStep
<1>4. FetchInv /\ [FetchNext]_fetchVars
        => [\A p \in Piece : PieceKept(p)]_fetchVars
  BY FetchStep DEF Promised
<1> QED BY <1>1, <1>2, <1>3, <1>4, FetchStarts, PTL DEF FetchKept, StagedIsNew, ReadyIsRight, PartsLast

LEMMA ListenerKeeps == ListenerInit /\ [][ListenerNext]_listenerVars => []ListenerTypeOK /\ ListenerKept
<1>1. ListenerInv /\ [ListenerNext]_listenerVars => ListenerInv' BY ListenerStep
<1>2. ListenerInv /\ [ListenerNext]_listenerVars
        => [report = "outcome" /\ report' # "outcome" => "outcome" \in heard']_listenerVars
  BY ListenerStep
<1>3. ListenerInv /\ [ListenerNext]_listenerVars
        => [ticket # 0 /\ ticket' # ticket => queuedVersion' # queuedVersion]_listenerVars
  BY ListenerStep
<1>4. ListenerInv /\ [ListenerNext]_listenerVars
        => [\A v \in grants' \ grants : v > known /\ \A u \in grants : u < v]_listenerVars
  BY ListenerStep
<1>5. ListenerInv => ListenerTypeOK BY DEF ListenerInv
<1> QED BY <1>1, <1>2, <1>3, <1>4, <1>5, ListenerStarts, PTL
  DEF ListenerKept, OutcomeArrives, PlaceKept, OnePermission

LEMMA StaysForGood == HandoffInit /\ [][HandoffNext]_handoffVars => HandoffKept
<1>1. HandoffInit => StaysInv BY DEF HandoffInit, StaysInv
<1>2. StaysInv /\ [HandoffNext]_handoffVars => StaysInv' BY StaysStep DEF StaysInv, handoffVars
<1>3. StaysInv /\ [HandoffNext]_handoffVars => [app = "stays" => app' = "stays"]_handoffVars BY StaysStep
<1> QED BY <1>1, <1>2, <1>3, PTL DEF HandoffKept

(* What an update had reached is not lost by a failure or by a restart:      *)
(* parts of a download, the place in the queue, the report, the pause after  *)
(* a failure, the connection, the program that stays.                        *)
THEOREM WhatWasReachedIsKept == UpdatesSpec => ReachedIsKept
<1>1. UpdatesInit => RoundsInit /\ FetchInit /\ ListenerInit /\ HandoffInit BY EachBegins
<1>2. [UpdatesNext]_updatesVars
        => /\ [RoundsNext]_roundsVars /\ [FetchNext]_fetchVars
           /\ [ListenerNext]_listenerVars /\ [HandoffNext]_handoffVars
  BY EachSteps
<1> QED BY <1>1, <1>2, RoundsHoldTheirWord, FilesAreKept, ListenerKeeps, StaysForGood, PTL
  DEF UpdatesSpec, ReachedIsKept
=============================================================================
