------------------------- MODULE SubscriptionFetch --------------------------
(* One download of a subscription: the race of the direct route and the one  *)
(* through the VPN in importer/subscription_http.py. A route is a thread     *)
(* that puts one outcome into a queue; time is counted in steps.             *)
EXTENDS Naturals, Sequences, SequencesExt

CONSTANTS
  HeadStart,   \* how long the direct route runs alone
  Grace,       \* how long a refusal heard through the VPN waits for it
  Deadline     \* how long the whole download may take

ASSUME FetchAssumption ==
  /\ {HeadStart, Grace, Deadline} \subseteq Nat \ {0}
  /\ HeadStart < Deadline

Routes   == {"direct", "proxy"}
Outcomes == {"body", "refused", "network", "bug"}

VARIABLES
  ask,       \* the mode, whether the VPN has a port, whether the address is
             \* http:// over the internet
  rest,      \* pending: routes not begun
  racing,    \* running: routes without an outcome that was looked at
  working,   \* threads that still run
  results,   \* the queue of outcomes
  elapsed, expires,
  held,      \* a refusal through the VPN waits for the direct route
  cancelled, \* the cancel event is set
  verdict    \* how the download ended, "going" while it runs

fetchVars == <<ask, rest, racing, working, results, elapsed, expires, held, cancelled, verdict>>

FetchTypeOK ==
  /\ ask \in [mode : {"auto", "direct", "proxy"}, port : BOOLEAN, open : BOOLEAN]
  /\ rest \in BoundedSeq(Routes, 2)
  /\ working \subseteq racing /\ racing \subseteq Routes
  /\ \A i \in DOMAIN results : results[i] \in [of : racing, is : Outcomes]
  /\ elapsed \in 0..(Deadline + 1) /\ expires \in 0..Deadline
  /\ held => "proxy" \notin racing
  /\ cancelled \in BOOLEAN
  /\ verdict \in {"going", "body", "refused", "cleartext", "noport", "cancelled", "unreachable",
                  "untried", "bug"}
  (* the whole list of servers never travels in the clear beside the VPN *)
  /\ ask.open => "direct" \notin racing

RouteOrder ==
  (IF ask.mode # "proxy" /\ ~ask.open THEN <<"direct">> ELSE <<>>)
  \o (IF ask.mode # "direct" /\ ask.port THEN <<"proxy">> ELSE <<>>)

Untried == ask.mode = "auto" /\ ~ask.port

FetchInit ==
  /\ ask \in [mode : {"auto", "direct", "proxy"}, port : BOOLEAN, open : BOOLEAN]
  /\ rest = RouteOrder /\ racing = {} /\ working = {} /\ results = <<>>
  /\ elapsed = 0 /\ expires = Deadline /\ held = FALSE /\ cancelled = FALSE /\ verdict = "going"

Going == verdict = "going"

(* start_next.                                                               *)
StartNext ==
  /\ rest' = Tail(rest)
  /\ racing' = racing \cup {Head(rest)} /\ working' = working \cup {Head(rest)}

FetchBegins ==
  /\ Going /\ racing = {} /\ elapsed = 0 /\ ~held /\ rest = RouteOrder
  /\ IF rest = <<>>
       THEN /\ verdict' = IF ask.open THEN "cleartext" ELSE "noport"
            /\ UNCHANGED <<rest, racing, working>>
       ELSE StartNext /\ UNCHANGED verdict
  /\ UNCHANGED <<ask, results, elapsed, expires, held, cancelled>>

(* What ends the loop without an answer: the refusal that was held or the    *)
(* news that the provider cannot be reached, and whether the VPN was no way. *)
Unanswered(h) == IF h THEN "refused" ELSE IF Untried THEN "untried" ELSE "unreachable"

Awake == Going /\ racing # {}

FetchCancelled ==
  /\ Awake /\ cancelled
  /\ verdict' = "cancelled"
  /\ UNCHANGED <<ask, rest, racing, working, results, elapsed, expires, held, cancelled>>

Expired ==
  /\ Awake /\ ~cancelled /\ elapsed >= expires
  /\ verdict' = Unanswered(held)
  /\ UNCHANGED <<ask, rest, racing, working, results, elapsed, expires, held, cancelled>>

Started == rest # <<>> /\ elapsed >= HeadStart

SecondRoute ==
  /\ Awake /\ ~cancelled /\ elapsed < expires /\ Started
  /\ StartNext
  /\ UNCHANGED <<ask, results, elapsed, expires, held, cancelled, verdict>>

(* Mutant of Outranked: a refusal is a refusal.                              *)
OutrankedNever(r) == FALSE

(* A refusal through the VPN: the direct route's answer counts more.         *)
Outranked(r) == r.is = "refused" /\ r.of = "proxy" /\ "direct" \in racing

(* A network failure: the other route begins at once; none left, the end.    *)
NextAfter(r) ==
  IF rest # <<>>
    THEN /\ rest' = Tail(rest) /\ UNCHANGED verdict
         /\ racing' = (racing \ {r.of}) \cup {Head(rest)}
         /\ working' = working \cup {Head(rest)}
    ELSE /\ racing' = racing \ {r.of}
         /\ verdict' = IF racing' = {} THEN Unanswered(held) ELSE "going"
         /\ UNCHANGED <<rest, working>>

Outcome ==
  /\ Awake /\ ~cancelled /\ elapsed < expires /\ ~Started /\ results # <<>>
  /\ results' = Tail(results)
  /\ LET r == Head(results) IN
     IF Outranked(r)
       THEN /\ racing' = racing \ {r.of} /\ held' = TRUE
            /\ expires' = IF elapsed + Grace < expires THEN elapsed + Grace ELSE expires
            /\ UNCHANGED <<rest, working, verdict>>
     ELSE IF r.is = "network" THEN NextAfter(r) /\ UNCHANGED <<held, expires>>
     ELSE /\ verdict' = r.is /\ racing' = racing \ {r.of}
          /\ UNCHANGED <<rest, working, held, expires>>
  /\ UNCHANGED <<ask, elapsed, cancelled>>

FetchLoop == FetchBegins \/ FetchCancelled \/ Expired \/ SecondRoute \/ Outcome

(* A thread ends with what _fetch_once returned or raised, or stays silent.  *)
RouteEnds(r, o) ==
  /\ r \in working /\ Len(results) < 2
  /\ working' = working \ {r}
  /\ results' = IF r \in racing THEN Append(results, [of |-> r, is |-> o]) ELSE results
  /\ UNCHANGED <<ask, rest, racing, elapsed, expires, held, cancelled, verdict>>

(* shutdown: SubscriptionUpdateWorker.cancel.                                *)
CancelFetch ==
  /\ Going /\ ~cancelled /\ cancelled' = TRUE
  /\ UNCHANGED <<ask, rest, racing, working, results, elapsed, expires, held, verdict>>

Time ==
  /\ Awake /\ elapsed <= Deadline /\ elapsed' = elapsed + 1
  /\ UNCHANGED <<ask, rest, racing, working, results, expires, held, cancelled, verdict>>

FetchNext ==
  \/ FetchLoop \/ CancelFetch \/ Time
  \/ \E r \in Routes, o \in Outcomes : RouteEnds(r, o)

(* The loop of the worker thread runs and time passes; a server may never    *)
(* answer.                                                                   *)
FetchFairness == WF_fetchVars(FetchLoop) /\ WF_fetchVars(Time)

FetchSpec == FetchInit /\ [][FetchNext]_fetchVars /\ FetchFairness

(* --- Properties ------------------------------------------------------------ *)

Over(v) == verdict = "going" /\ verdict' = v

(* A refusal ends the download only when the direct route gave it, has no    *)
(* answer under way, or had its time.                                        *)
DirectOutranks ==
  [][Over("refused") => \/ "direct" \notin racing \/ elapsed >= expires
                        \/ results # <<>> /\ Head(results).of = "direct"]_fetchVars

(* Out of reach means by every route there is, or until the deadline, and a  *)
(* retry through the VPN is promised only where it was no route.             *)
AllRoutesTried ==
  [][/\ \A v \in {"unreachable", "untried"} : Over(v) => (rest = <<>> /\ ~held) \/ elapsed >= Deadline
     /\ Over("untried") => "proxy" \notin racing /\ ask.mode = "auto"]_fetchVars

(* A download ends whatever the servers do.                                  *)
FetchEnds == racing # {} ~> verdict # "going"

(* A download is given up for the right reason.                              *)
FetchFair == []FetchTypeOK /\ DirectOutranks /\ AllRoutesTried
=============================================================================
