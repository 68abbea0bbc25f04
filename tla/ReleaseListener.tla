-------------------------- MODULE ReleaseListener --------------------------
(* The thread that waits for the server's permission to update               *)
(* (updates/release_watch.py) and what passes between it and the window      *)
(* (updates/update_signal.py): one question at a time, held by the server    *)
(* for minutes, with the place in the queue and the outcome of the last      *)
(* update on it.                                                             *)
EXTENDS Naturals

CONSTANTS
  MaxRelease,   \* newest version that may come out; 1 is installed
  MaxTickets,   \* bound on the places the server gives
  MaxBreaks,    \* bound on the failures of the network
  MaxMisses     \* bound on the downloads that fail meanwhile

ASSUME ListenerAssumption == MaxRelease \in Nat \ {0} /\ MaxTickets \in Nat \ {0}

VARIABLES
  enabled,      \* is_enabled()
  at,           \* where the thread is: "top", "asked", "pause", "left"
  known, queuedVersion, ticket, probed, reachable,
  question,     \* the question under way: what it says of the ticket and the report
  newest,       \* the version the server would give
  grants,       \* _granted_at: versions with a permission
  revokedFor,   \* _urgent
  report,       \* _report: "none", "outcome" or "miss"
  serverUp, given, heard, breaks, misses

listenerVars == <<enabled, at, known, queuedVersion, ticket, probed, reachable, question, newest,
                  grants, revokedFor, report, serverUp, given, heard, breaks, misses>>
windowVars == <<enabled, report, misses>>
serverVars == <<newest, serverUp, given, breaks>>

Installed1 == 1
NoQuestion == [probe |-> FALSE, ticket |-> 0, report |-> "none", version |-> 0]

ListenerInit ==
  /\ enabled \in BOOLEAN /\ at = "top" /\ known = Installed1 /\ queuedVersion = 0 /\ ticket = 0
  /\ probed = FALSE /\ reachable = "unknown" /\ question = NoQuestion
  /\ newest = Installed1 /\ grants = {} /\ revokedFor = {}
  /\ report \in {"none", "outcome"}                 \* set_report, before the thread starts
  /\ serverUp = TRUE /\ given = 0 /\ heard = {} /\ breaks = 0 /\ misses = 0

(* run(): switched off, the thread only looks again from time to time.       *)
SwitchedOff ==
  /\ at = "top" /\ ~enabled /\ at' = "pause"
  /\ reachable' = "no" /\ probed' = FALSE
  /\ UNCHANGED <<known, queuedVersion, ticket, question, grants, revokedFor, heard, windowVars, serverVars>>

(* _ask: the place in the queue goes with every question, and the report as  *)
(* it is when the question is put.                                           *)
AskServer ==
  /\ at = "top" /\ enabled /\ at' = "asked"
  /\ question' = [probe |-> ~probed, ticket |-> ticket, report |-> report, version |-> queuedVersion]
  /\ UNCHANGED <<known, queuedVersion, ticket, probed, reachable, grants, revokedFor, heard, windowVars, serverVars>>

(* _report_delivered, after the answer to a question that carried one.       *)
Delivered == IF question.report # "none" THEN report' = "none" /\ heard' = heard \union {question.report}
                                      ELSE UNCHANGED <<report, heard>>
Answer ==
  /\ at = "asked" /\ serverUp
  /\ reachable' = "yes" /\ probed' = TRUE /\ Delivered /\ question' = NoQuestion
  /\ UNCHANGED <<enabled, misses>>

(* _accept: a permission is noted before it is passed on, so that there is   *)
(* one for each version; a version that was withdrawn is replaced at once.   *)
Granted(revoked) ==
  /\ Answer /\ newest > known
  /\ known' = newest /\ queuedVersion' = 0 /\ ticket' = 0 /\ at' = "top"
  /\ grants' = grants \union {newest}
  /\ revokedFor' = IF revoked THEN revokedFor \union {newest} ELSE revokedFor
  /\ UNCHANGED serverVars

(* Mutant of InQueue: the place is that of the last answer.                  *)
InQueueAnew ==
  /\ Answer /\ newest > known /\ given < MaxTickets
  /\ ticket' = given + 1 /\ given' = given + 1
  /\ queuedVersion' = newest /\ at' \in {"top", "pause"}
  /\ UNCHANGED <<known, grants, revokedFor, newest, serverUp, breaks>>

(* In the queue: the first place given for a version is kept.                *)
InQueue ==
  /\ Answer /\ newest > known /\ given < MaxTickets
  /\ LET first == queuedVersion # newest \/ ticket = 0
     IN /\ ticket' = IF first THEN given + 1 ELSE ticket
        /\ given' = given + 1
  /\ queuedVersion' = newest /\ at' \in {"top", "pause"}
  /\ UNCHANGED <<known, grants, revokedFor, newest, serverUp, breaks>>

(* No news, or "held": the queue of the program is not there yet.            *)
NoNews ==
  /\ Answer /\ at' \in {"top", "pause"}
  /\ UNCHANGED <<known, queuedVersion, ticket, grants, revokedFor, serverVars>>

(* The question failed, or lasted longer than its timeout; the answer may    *)
(* have been sent all the same.                                              *)
AskFails ==
  /\ at = "asked" /\ (~serverUp \/ breaks < MaxBreaks)
  /\ breaks' = IF serverUp THEN breaks + 1 ELSE breaks
  /\ heard' \in {heard, heard \union ({question.report} \ {"none"})}
  /\ probed' = FALSE /\ reachable' = "no" /\ question' = NoQuestion /\ at' = "pause"
  /\ UNCHANGED <<known, queuedVersion, ticket, grants, revokedFor, windowVars, newest, serverUp, given>>

PauseEnds ==
  /\ at = "pause" /\ at' = "top"
  /\ UNCHANGED <<known, queuedVersion, ticket, probed, reachable, question, grants, revokedFor, heard, windowVars, serverVars>>

(* note_miss: an outcome that has not been sent is not written over.         *)
NoteMiss ==
  /\ misses < MaxMisses /\ misses' = misses + 1
  /\ report' = IF report = "none" THEN "miss" ELSE report
  /\ UNCHANGED <<enabled, at, known, queuedVersion, ticket, probed, reachable, question, grants, revokedFor, heard, serverVars>>

(* Mutant of NoteMiss: the last one wins.                                    *)
NoteMissOver ==
  /\ misses < MaxMisses /\ misses' = misses + 1 /\ report' = "miss"
  /\ UNCHANGED <<enabled, at, known, queuedVersion, ticket, probed, reachable, question, grants, revokedFor, heard, serverVars>>

Switch ==
  /\ enabled' = ~enabled /\ misses < MaxMisses /\ misses' = misses + 1
  /\ UNCHANGED <<at, known, queuedVersion, ticket, probed, reachable, question, grants, revokedFor, report, heard, serverVars>>

Leave ==
  /\ at \in {"top", "pause"} /\ at' = "left"
  /\ UNCHANGED <<known, queuedVersion, ticket, probed, reachable, question, grants, revokedFor, heard, windowVars, serverVars>>

ServerTurns ==
  /\ \/ newest < MaxRelease /\ newest' = newest + 1 /\ UNCHANGED <<serverUp, breaks>>
     \/ newest > Installed1 /\ newest' = newest - 1 /\ breaks < MaxBreaks /\ breaks' = breaks + 1 /\ UNCHANGED serverUp
     \/ breaks < MaxBreaks /\ breaks' = breaks + 1 /\ serverUp' = ~serverUp /\ UNCHANGED newest
  /\ UNCHANGED <<enabled, at, known, queuedVersion, ticket, probed, reachable, question, grants, revokedFor, report, given, heard, misses>>

ThreadSteps == SwitchedOff \/ AskServer \/ InQueue \/ NoNews \/ AskFails \/ PauseEnds \/ (\E r \in BOOLEAN : Granted(r))
ListenerNext == ThreadSteps \/ NoteMiss \/ Switch \/ Leave \/ ServerTurns

(* The thread runs; a question has a timeout.                                *)
ListenerSpec == ListenerInit /\ [][ListenerNext]_listenerVars /\ WF_listenerVars(ThreadSteps)

-----------------------------------------------------------------------------
(* The types; a permission is never for what is installed.                   *)
ListenerTypeOK ==
  /\ at \in {"top", "asked", "pause", "left"} /\ reachable \in {"unknown", "yes", "no"}
  /\ Installed1 \notin grants /\ revokedFor \subseteq grants /\ (ticket # 0 => queuedVersion > known)

(* What happened to the last update reaches the server, over failures of the *)
(* network and downloads that fail meanwhile: it is not dropped unsent.      *)
OutcomeArrives == [][report = "outcome" /\ report' # "outcome" => "outcome" \in heard']_listenerVars

(* The place in the queue is kept as long as the version it is for: failures *)
(* and later answers do not send the program to the end.                     *)
PlaceKept ==
  [][ticket # 0 /\ ticket' # ticket => queuedVersion' # queuedVersion]_listenerVars

(* There is one permission for a version, and none for an older one.         *)
OnePermission == [][\A v \in grants' \ grants : v > known /\ \A u \in grants : u < v]_listenerVars

ListenerKept == OutcomeArrives /\ PlaceKept /\ OnePermission

(* When the server is gone for good the program comes to know it, and may    *)
(* update by itself; when it is there for good the program waits for it.     *)
ListenerKnows ==
  /\ <>[](enabled /\ ~serverUp) => <>[](reachable = "no" \/ at = "left")
  /\ <>[](enabled /\ serverUp) => <>[](reachable = "yes" \/ at = "left")
=============================================================================
