------------------------------ MODULE MCServers ------------------------------
(* The server list side by side: subscriptions, one download and one match   *)
(* of them, the pings. They share no state, so each behaviour moves the one  *)
(* `focus` names.                                                            *)
EXTENDS Subscriptions, SubscriptionFetch, PingService

VARIABLE focus

Parts == {"subscriptions", "download", "match", "pings"}
serversVars == <<focus, subsVars, fetchVars, matchVars, pingVars>>

ServersInit ==
  /\ focus \in Parts
  /\ SubsInit /\ FetchInit /\ MatchInit /\ PingInit
  (* what stands still starts in one way only *)
  /\ focus # "subscriptions" => All(listed) = {}
  /\ focus # "download" => ask = [mode |-> "direct", port |-> FALSE, open |-> FALSE]
  /\ focus # "match" => old = <<>> /\ coming = CHOOSE l \in Lists : Len(l) = 1

ServersNext ==
  \/ focus = "subscriptions" /\ SubsNext /\ UNCHANGED <<focus, fetchVars, matchVars, pingVars>>
  \/ focus = "download" /\ FetchNext /\ UNCHANGED <<focus, subsVars, matchVars, pingVars>>
  \/ focus = "match" /\ MatchNext /\ UNCHANGED <<focus, subsVars, fetchVars, pingVars>>
  \/ focus = "pings" /\ PingNext /\ UNCHANGED <<focus, subsVars, fetchVars, matchVars>>

(* The fairness each module states: of an action that only moves the         *)
(* component in focus, all the others stand still with nothing begun.        *)
ServersFairness ==
  /\ WF_subsVars(focus = "subscriptions" /\ Settle)
  /\ \A s \in Sub :
       /\ WF_subsVars(focus = "subscriptions" /\ Fetched(s))
       /\ WF_subsVars(focus = "subscriptions" /\ WorkerFinished(s))
       /\ WF_subsVars(focus = "subscriptions" /\ (Checked(s) \/ NotModified(s) \/ Reconciled(s) \/ Failed(s)))
  /\ WF_fetchVars(focus = "download" /\ FetchLoop) /\ WF_fetchVars(focus = "download" /\ Time)
  /\ \A e \in Endpoint : SF_pingVars(focus = "pings" /\ Connect(e))
  /\ WF_pingVars(focus = "pings" /\ PauseEnds) /\ WF_pingVars(focus = "pings" /\ Measure)
  /\ WF_pingVars(focus = "pings" /\ Arrive)

ServersSpec == ServersInit /\ [][ServersNext]_serversVars /\ ServersFairness

(* --- Values --------------------------------------------------------------- *)

CONSTANTS s1, s2, np, nq, u1, u2, u3, row1, row2, row3, end1, end2, end3

(* One subscription is there when the program starts, or none.               *)
PresentSets  == {{}, {s1}}
(* The provider has a second address that offers one server less.            *)
FirstOffers  == [u \in {u1, u2, u3} |-> IF u = u2 THEN (np :> 0) ELSE (np :> 0 @@ nq :> 0)]
HomeUrls     == (s1 :> u1 @@ s2 :> u2)
MoveUrls     == (u1 :> {u2, u3} @@ u2 :> {} @@ u3 :> {})
HostNames    == (u1 :> "h" @@ u2 :> "g" @@ u3 :> "h")

SameAddress  == [k \in {"k", "m"} |-> "a"]

(* Two rows of one server, a third that differs only in its settings.        *)
RowEnds   == (row1 :> end1 @@ row2 :> end1 @@ row3 :> end2)
Addresses == (end1 :> 1 @@ end2 :> 1 @@ end3 :> 2)

(* A download is given up for the right reason, every server of an update    *)
(* finds its own place in the list, and a row shows its own ping.            *)
ListTrue == FetchFair /\ []MatchSafe /\ PingSafe

(* Nothing waits for ever: a retry through the tunnel, an added              *)
(* subscription, the first connection, a download, a row.                    *)
ServersProgress ==
  /\ TunnelRetried /\ AddingAnswered /\ StartupConnects /\ FetchEnds /\ PingAnswered
=============================================================================
