---------------------------- MODULE PingService ----------------------------
(* network/ping_service.py: the pings of the server list.  The GUI thread    *)
(* keeps the round, one background thread connects, one server at a time;    *)
(* rows with the same address and settings share one connection.             *)
EXTENDS Naturals, Sequences, FiniteSets, FiniteSetsExt

CONSTANTS
  Row,          \* rows of the server list
  Endpoint,     \* address and settings together, as `endpoint` compares them
  NoEnd,        \* the thread connects to nothing
  EndOf,        \* [Row -> Endpoint] when the application starts
  Address,      \* [Endpoint -> addresses]: server, port and hosts, as `matches` compares them
  MaxRounds,    \* bound: requests
  MaxEdits      \* bound: rows edited or removed

ASSUME PingAssumption ==
  /\ IsFiniteSet(Row) /\ NoEnd \notin Endpoint
  /\ EndOf \in [Row -> Endpoint]
  /\ DOMAIN Address = Endpoint
  /\ MaxRounds \in Nat /\ MaxEdits \in Nat

VARIABLES
  rows,    \* the list: what each row is now, NoEnd when it was removed
  round,   \* the GUI side: pending, done, total, and whether the list shows a round
  wait,    \* _waiters: the rows that get the result of an endpoint
  queued,  \* _queue: endpoints nobody has connected to yet; their order is random
  probe,   \* the thread: "none", "idle", or "busy" with an endpoint
  pause,   \* _resume_at is still ahead
  mail,    \* results on their way to the GUI thread
  shut,    \* close() was called
  known,   \* the result written into each row: what was connected to for it
  rounds, edits

pingVars == <<rows, round, wait, queued, probe, pause, mail, shut, known, rounds, edits>>

PingInit ==
  /\ rows = EndOf
  /\ round = [pending |-> {}, done |-> 0, total |-> 0, shown |-> FALSE]
  /\ wait = [e \in Endpoint |-> {}]
  /\ queued = {} /\ probe = [state |-> "none", end |-> NoEnd]
  /\ pause = FALSE /\ mail = <<>> /\ shut = FALSE
  /\ known = [r \in Row |-> NoEnd]
  /\ rounds = 0 /\ edits = 0

-----------------------------------------------------------------------------
Spawned(q) == IF probe.state = "none" /\ q # {} THEN [probe EXCEPT !.state = "idle"] ELSE probe

(* request(): rows already measured are left alone, rows with an endpoint    *)
(* that is waited for join it.                                               *)
Request(S) ==
  LET fresh == {r \in S : rows[r] # NoEnd /\ r \notin round.pending}
      ends  == {rows[r] : r \in fresh}
      left  == queued \cup {e \in ends : wait[e] = {}} IN
  /\ rounds < MaxRounds /\ rounds' = rounds + 1
  /\ fresh # {} /\ ~shut
  /\ wait' = [e \in Endpoint |-> wait[e] \cup {r \in fresh : rows[r] = e}]
  /\ queued' = left
  /\ probe' = Spawned(left)
  /\ round' = [pending |-> round.pending \cup fresh, done |-> round.done,
               total |-> round.total + Cardinality(fresh), shown |-> TRUE]
  /\ UNCHANGED <<rows, pause, mail, shut, known, edits>>

(* The progress signal, and the counters anew once nothing is pending.       *)
Told(r) == IF r.pending = {} THEN [pending |-> {}, done |-> 0, total |-> 0, shown |-> FALSE] ELSE r

Dropped(gone) == Told([round EXCEPT !.pending = @ \ gone, !.total = @ - Cardinality(gone)])

(* Mutant of Kept: nobody waits for the connection under way either.         *)
KeptNone == {}

(* Endpoints whose rows still wait after a cancel: the one being connected   *)
(* to, and the ones whose result is on its way.                              *)
Kept == Endpoint \ queued

(* cancel(): what is queued is dropped, what is under way reports as usual.  *)
Cancel ==
  LET gone == UNION {wait[e] : e \in queued} IN
  /\ round.shown /\ ~shut
  /\ queued' = {} /\ pause' = FALSE
  /\ wait' = [e \in Endpoint |-> IF e \in Kept THEN wait[e] ELSE {}]
  /\ round' = IF gone = {} THEN round ELSE Dropped(gone)
  /\ UNCHANGED <<rows, probe, mail, shut, known, rounds, edits>>

(* close(): at the end of the application.                                   *)
Close ==
  /\ ~shut /\ shut' = TRUE
  /\ queued' = {} /\ wait' = [e \in Endpoint |-> {}]
  /\ round' = [round EXCEPT !.pending = {}, !.done = 0, !.total = 0]
  /\ UNCHANGED <<rows, probe, pause, mail, known, rounds, edits>>

(* The user edits or removes a row while it is measured.                     *)
EditRow(r, e) ==
  /\ edits < MaxEdits /\ edits' = edits + 1
  /\ rows[r] # NoEnd /\ e # rows[r]
  /\ rows' = [rows EXCEPT ![r] = e]
  /\ UNCHANGED <<round, wait, queued, probe, pause, mail, shut, known, rounds>>

Written(r, e) == rows[r] # NoEnd /\ Address[rows[r]] = Address[e]

Counted(got) == Told([round EXCEPT !.pending = @ \ got, !.done = @ + Cardinality(got)])

Arrive ==
  /\ mail # <<>> /\ mail' = Tail(mail)
  /\ LET got == wait[Head(mail)] \cap round.pending IN
     /\ wait' = [wait EXCEPT ![Head(mail)] = {}]
     /\ round' = IF got = {} THEN round ELSE Counted(got)
     /\ known' = [r \in Row |-> IF r \in got /\ Written(r, Head(mail)) THEN Head(mail) ELSE known[r]]
  /\ UNCHANGED <<rows, queued, probe, pause, shut, rounds, edits>>

-----------------------------------------------------------------------------
(* _run: the thread.                                                         *)
Connect(e) ==
  /\ probe.state = "idle" /\ e \in queued /\ ~shut /\ ~pause
  /\ queued' = queued \ {e} /\ probe' = [state |-> "busy", end |-> e]
  /\ UNCHANGED <<rows, round, wait, pause, mail, shut, known, rounds, edits>>

PauseEnds == pause /\ pause' = FALSE /\ UNCHANGED <<rows, round, wait, queued, probe, mail, shut, known, rounds, edits>>

(* The result, whatever it is, is mailed; between two servers of one pass    *)
(* there is a pause.                                                         *)
Measure ==
  /\ probe.state = "busy"
  /\ probe' = [state |-> "idle", end |-> NoEnd]
  /\ pause' = (queued # {})
  /\ mail' = IF shut THEN mail ELSE Append(mail, probe.end)
  /\ UNCHANGED <<rows, round, wait, queued, shut, known, rounds, edits>>

(* Twenty seconds without work, or the end of the application.               *)
ThreadLeaves ==
  /\ probe.state = "idle" /\ (queued = {} \/ shut)
  /\ probe' = [state |-> "none", end |-> NoEnd]
  /\ UNCHANGED <<rows, round, wait, queued, pause, mail, shut, known, rounds, edits>>

PingNext ==
  \/ \E S \in SUBSET Row : Request(S)
  \/ Cancel \/ Close \/ Arrive
  \/ \E r \in Row, e \in Endpoint \cup {NoEnd} : EditRow(r, e)
  \/ \E e \in Endpoint : Connect(e)
  \/ PauseEnds \/ Measure \/ ThreadLeaves

(* The thread is scheduled, a connection ends within its own timeouts, and   *)
(* the event loop delivers.                                                  *)
PingFairness ==
  /\ \A e \in Endpoint : SF_pingVars(Connect(e))
  /\ WF_pingVars(PauseEnds) /\ WF_pingVars(Measure) /\ WF_pingVars(Arrive)

PingSpec == PingInit /\ [][PingNext]_pingVars /\ PingFairness

-----------------------------------------------------------------------------
(* The type of every variable.                                               *)
PingTypeOK ==
  /\ rows \in [Row -> Endpoint \cup {NoEnd}]
  /\ round \in [pending : SUBSET Row, done : Nat, total : Nat, shown : BOOLEAN]
  /\ wait \in [Endpoint -> SUBSET Row] /\ queued \subseteq Endpoint
  /\ probe \in [state : {"none", "idle", "busy"}, end : Endpoint \cup {NoEnd}]
  /\ {pause, shut} \subseteq BOOLEAN /\ mail \in Seq(Endpoint)
  /\ known \in [Row -> Endpoint \cup {NoEnd}]

(* The counters of a round: what is done and what is pending make the total, *)
(* whichever requests, cancels and results came between.                     *)
CountsAgree == round.total = round.done + Cardinality(round.pending)

(* The list shows a round exactly while a row is waiting for its result: it  *)
(* neither hangs in "measuring" nor loses the button that stops it.          *)
ShownTrue == ~shut => (round.shown <=> round.pending # {})

(* One endpoint is never connected to twice over: it is queued, under way or *)
(* answered, and then one row at least waits for it.                         *)
NoTwin ==
  \A e \in Endpoint :
    LET places == (IF e \in queued THEN 1 ELSE 0) + (IF probe.end = e THEN 1 ELSE 0)
                  + Cardinality({i \in 1..Len(mail) : mail[i] = e}) IN
    ~shut => /\ places <= 1
             /\ wait[e] # {} <=> places = 1

(* A row never shows the ping of an address it has left.                     *)
ShownHere ==
  [][\A r \in Row : known'[r] # known[r] => rows[r] # NoEnd /\ Address[known'[r]] = Address[rows[r]]]_pingVars

(* Every row asked for is answered, cancelled, or the application closes.    *)
PingAnswered == \A r \in Row : r \in round.pending ~> r \notin round.pending

(* Rounds, rows and the thread agree, and a row shows its own ping.          *)
PingSafe == [](PingTypeOK /\ CountsAgree /\ ShownTrue /\ NoTwin) /\ ShownHere
=============================================================================
