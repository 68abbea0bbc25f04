---------------------------- MODULE AmneziaRelay ----------------------------
(* The SOCKS relay inside the AmneziaWG client: runtime/amnezia/relay.go.    *)
(* One goroutine per client, two more for the directions of a TCP stream,    *)
(* one per destination of a UDP association.  Cancelling the context must    *)
(* bring all of them down, and nothing else may cut a stream short.          *)
EXTENDS Naturals, FiniteSets

CONSTANTS
  Peer,        \* clients that connect
  Target,      \* UDP destinations
  ClientLimit, \* 256 in the code
  FlowLimit,   \* 64 in the code
  MaxFlowsMade \* bound: UDP flows ever dialled by a client

ASSUME RelayAssumption ==
  ClientLimit \in Nat \ {0} /\ FlowLimit \in Nat \ {0} /\ MaxFlowsMade \in Nat

VARIABLES
  cancelled,  \* the context
  serving,    \* serve: accepts, waits for its handlers, has returned
  sock,       \* the client's connection: out, open, closed
  handler,    \* what its goroutine does
  places,     \* serve: tokens in the channel `limit`
  remote,     \* the connection of a TCP stream is open
  way,        \* the two copies of a stream
  broken,     \* an end of it was reset or closed altogether, not by the relay
  udp,        \* the socket of an association is open
  port,       \* the source port it has learnt
  flows,      \* [destination -> number of the flow, 0: none]
  reader,     \* the goroutines of the flows
  made        \* flows dialled so far, bound

stream    == <<remote, way, broken>>
assoc     == <<udp, port, flows, reader, made>>
relayVars == <<cancelled, serving, sock, handler, places, stream, assoc>>

Way == {"up", "down"}
Live(c) == handler[c] \notin {"none", "left"}

(* A reader waits for answers on a flow, or leaves: it closes the flow and   *)
(* takes it out of the map, if the map still holds it.                       *)
Reader == [of : Target, flow : 1..MaxFlowsMade, open : BOOLEAN]

RelayTypeOK ==
  /\ cancelled \in BOOLEAN /\ serving \in {"accepts", "waits", "returned"}
  /\ sock \in [Peer -> {"out", "open", "closed"}]
  /\ handler \in [Peer -> {"none", "asks", "dials", "relays", "reads", "joins", "left"}]
  /\ places \in Nat
  /\ remote \in [Peer -> BOOLEAN] /\ broken \in [Peer -> BOOLEAN]
  /\ way \in [Peer -> [Way -> {"none", "flows", "over"}]]
  /\ udp \in [Peer -> BOOLEAN] /\ port \in [Peer -> 0..2]
  /\ flows \in [Peer -> [Target -> 0..MaxFlowsMade]]
  /\ reader \in [Peer -> SUBSET Reader] /\ made \in [Peer -> 0..MaxFlowsMade]
  /\ \A c \in Peer : remote[c] => handler[c] = "relays"

RelayInit ==
  /\ cancelled = FALSE /\ serving = "accepts"
  /\ sock = [c \in Peer |-> "out"] /\ handler = [c \in Peer |-> "none"]
  /\ places = 0
  /\ remote = [c \in Peer |-> FALSE] /\ broken = [c \in Peer |-> FALSE]
  /\ way = [c \in Peer |-> [w \in Way |-> "none"]]
  /\ udp = [c \in Peer |-> FALSE] /\ port = [c \in Peer |-> 0]
  /\ flows = [c \in Peer |-> [d \in Target |-> 0]]
  /\ reader = [c \in Peer |-> {}] /\ made = [c \in Peer |-> 0]

Goes(c, to)   == handler' = [handler EXCEPT ![c] = to]
Closes(c)     == sock' = [sock EXCEPT ![c] = "closed"]

(* --- serve ----------------------------------------------------------------- *)

Accept(c) ==
  /\ serving = "accepts" /\ sock[c] = "out"
  /\ IF places < ClientLimit
     THEN sock' = [sock EXCEPT ![c] = "open"] /\ Goes(c, "asks") /\ places' = places + 1
     ELSE Closes(c) /\ UNCHANGED <<handler, places>>
  /\ UNCHANGED <<cancelled, serving, stream, assoc>>

(* The context is cancelled, or Accept fails: serve then cancels by itself.  *)
(* The functions after the context close the listener and every client.     *)
CancelRelay ==
  /\ ~cancelled /\ cancelled' = TRUE /\ serving' = "waits"
  /\ sock' = [c \in Peer |-> IF Live(c) THEN "closed" ELSE sock[c]]
  /\ remote' = [c \in Peer |-> FALSE]
  /\ UNCHANGED <<handler, places, way, broken, assoc>>

ServeReturns ==
  /\ serving = "waits" /\ \A c \in Peer : ~Live(c)
  /\ serving' = "returned"
  /\ UNCHANGED <<cancelled, sock, handler, places, stream, assoc>>

(* --- A client -------------------------------------------------------------- *)

(* The handler returns: the client is closed and its place is free.          *)
Leaves(c) == Goes(c, "left") /\ Closes(c) /\ places' = places - 1

(* The client closes its connection, or it is reset.                         *)
PeerCloses(c) ==
  /\ sock[c] = "open" /\ Closes(c)
  /\ broken' = [broken EXCEPT ![c] = TRUE]
  /\ UNCHANGED <<cancelled, serving, handler, places, remote, way, assoc>>

(* The destination of a stream fails or closes it altogether.                *)
RemoteBreaks(c) ==
  /\ remote[c] /\ ~broken[c]
  /\ broken' = [broken EXCEPT ![c] = TRUE]
  /\ UNCHANGED <<cancelled, serving, sock, handler, places, remote, way, assoc>>

(* authenticate and the request; a wrong password, a closed connection and   *)
(* the deadline all end it.                                                  *)
Ask(c) ==
  /\ handler[c] = "asks"
  /\ \/ Leaves(c) /\ UNCHANGED udp
     \/ sock[c] = "open" /\ Goes(c, "dials") /\ UNCHANGED <<sock, places, udp>>
     \/ /\ sock[c] = "open" /\ Goes(c, "reads") /\ udp' = [udp EXCEPT ![c] = TRUE]
        /\ UNCHANGED <<sock, places>>
  /\ UNCHANGED <<cancelled, serving, stream, port, flows, reader, made>>

(* Resolve and dial within the deadline; success is answered.                *)
Dial(c) ==
  /\ handler[c] = "dials"
  /\ \/ Leaves(c) /\ UNCHANGED stream
     \/ /\ ~cancelled /\ sock[c] = "open"
        /\ Goes(c, "relays") /\ remote' = [remote EXCEPT ![c] = TRUE]
        /\ way' = [way EXCEPT ![c] = [w \in Way |-> "flows"]]
        /\ UNCHANGED <<sock, places, broken>>
  /\ UNCHANGED <<cancelled, serving, assoc>>

(* --- relayTCP -------------------------------------------------------------- *)

(* Mutant of CopyEnds: the first end of file closes both connections.        *)
CopyEndsBoth(c, w) ==
  /\ handler[c] = "relays" /\ way[c][w] = "flows" /\ remote[c]
  /\ way' = [way EXCEPT ![c][w] = "over"]
  /\ Closes(c) /\ remote' = [remote EXCEPT ![c] = FALSE]
  /\ UNCHANGED <<cancelled, serving, handler, places, broken, assoc>>

(* One end has sent everything: only the other end's writing side is closed. *)
CopyEnds(c, w) ==
  /\ handler[c] = "relays" /\ way[c][w] = "flows" /\ remote[c]
  /\ way' = [way EXCEPT ![c][w] = "over"]
  /\ UNCHANGED <<cancelled, serving, sock, handler, places, remote, broken, assoc>>

(* A copy, or closing the writing side, fails: an end has failed, or the     *)
(* other copy or the context has closed it.  closeBoth ends the other copy.  *)
CopyFails(c, w) ==
  /\ handler[c] = "relays" /\ way[c][w] = "flows"
  /\ broken[c] \/ ~remote[c]
  /\ way' = [way EXCEPT ![c][w] = "over"]
  /\ Closes(c) /\ remote' = [remote EXCEPT ![c] = FALSE]
  /\ UNCHANGED <<cancelled, serving, handler, places, broken, assoc>>

StreamEnds(c) ==
  /\ handler[c] = "relays" /\ \A w \in Way : way[c][w] = "over"
  /\ Leaves(c) /\ remote' = [remote EXCEPT ![c] = FALSE]
  /\ UNCHANGED <<cancelled, serving, way, broken, assoc>>

(* --- associate ------------------------------------------------------------- *)

(* The goroutine that reads the control connection until it closes.          *)
ControlClosed(c) ==
  /\ udp[c] /\ sock[c] = "closed"
  /\ udp' = [udp EXCEPT ![c] = FALSE]
  /\ UNCHANGED <<cancelled, serving, sock, handler, places, stream, port, flows, reader, made>>

(* A datagram of source port `p` for `d`: the first one that is valid names  *)
(* the port; a new destination gets a flow and a reader while there is room. *)
Datagram(c, p, d) ==
  /\ handler[c] = "reads" /\ udp[c]
  /\ port[c] \in {0, p}
  /\ port' = [port EXCEPT ![c] = p]
  /\ LET used == {t \in Target : flows[c][t] # 0}
     IN IF flows[c][d] = 0 /\ Cardinality(used) < FlowLimit
        THEN /\ made[c] < MaxFlowsMade
             /\ made' = [made EXCEPT ![c] = @ + 1]
             /\ flows' = [flows EXCEPT ![c][d] = made[c] + 1]
             /\ reader' = [reader EXCEPT ![c] = @ \cup {[of |-> d, flow |-> made[c] + 1, open |-> TRUE]}]
        ELSE UNCHANGED <<flows, reader, made>>
  /\ UNCHANGED <<cancelled, serving, sock, handler, places, stream, udp>>

(* Writing to a flow fails: it is closed, its reader takes it out.           *)
WriteFails(c, d) ==
  /\ handler[c] = "reads" /\ udp[c]
  /\ \E r \in reader[c] :
       /\ r.of = d /\ r.flow = flows[c][d] /\ r.open
       /\ reader' = [reader EXCEPT ![c] = (@ \ {r}) \cup {[r EXCEPT !.open = FALSE]}]
  /\ UNCHANGED <<cancelled, serving, sock, handler, places, stream, udp, port, flows, made>>

(* A reader leaves: its flow is closed, a minute has passed without an       *)
(* answer, or the answer could not be passed on.                             *)
ReaderLeaves(c) ==
  /\ \E r \in reader[c] :
       /\ reader' = [reader EXCEPT ![c] = @ \ {r}]
       /\ flows' = IF flows[c][r.of] = r.flow THEN [flows EXCEPT ![c][r.of] = 0] ELSE flows
  /\ UNCHANGED <<cancelled, serving, sock, handler, places, stream, udp, port, made>>

(* Two minutes without a datagram, or the socket is closed: the flows in the *)
(* map are closed.                                                           *)
ReadEnds(c) ==
  /\ handler[c] = "reads"
  /\ Goes(c, "joins")
  /\ reader' = [reader EXCEPT ![c] =
       {[r EXCEPT !.open = r.open /\ flows[c][r.of] # r.flow] : r \in @}]
  /\ UNCHANGED <<cancelled, serving, sock, places, stream, udp, port, flows, made>>

(* readers.Wait, then the control connection and the socket are closed.      *)
Joined(c) ==
  /\ handler[c] = "joins" /\ reader[c] = {}
  /\ Leaves(c) /\ udp' = [udp EXCEPT ![c] = FALSE]
  /\ UNCHANGED <<cancelled, serving, stream, port, flows, reader, made>>

RelayNext ==
  \/ CancelRelay \/ ServeReturns
  \/ \E c \in Peer :
       \/ Accept(c) \/ PeerCloses(c) \/ RemoteBreaks(c) \/ Ask(c) \/ Dial(c)
       \/ \E w \in Way : CopyEnds(c, w) \/ CopyFails(c, w)
       \/ StreamEnds(c) \/ ControlClosed(c) \/ ReaderLeaves(c) \/ ReadEnds(c) \/ Joined(c)
       \/ \E d \in Target : WriteFails(c, d) \/ \E p \in 1..2 : Datagram(c, p, d)

(* Every flow that is still open is in the map, under its own destination:   *)
(* the end of the association closes the flows of the map and waits for all  *)
(* readers, and a flow it does not find would keep it waiting.               *)
FlowsReached ==
  \A c \in Peer : \A r \in reader[c] : r.open => flows[c][r.of] = r.flow

(* Every token of the channel belongs to a goroutine that still runs, and    *)
(* they are within the limit: whatever way a handler ends, its place is      *)
(* given back, once.                                                         *)
PlacesKept == places = Cardinality({c \in Peer : Live(c)}) /\ places <= ClientLimit

(* An upload that has finished does not discard the download, nor the other  *)
(* way round (the comment of relayTCP): as long as nobody cancels and no end *)
(* fails, both connections stay open and the handler stays until both        *)
(* directions are over.                                                      *)
DownloadSurvives ==
  [][\A c \in Peer :
       handler[c] = "relays" /\ ~cancelled' /\ ~broken'[c] /\ (\E w \in Way : way[c][w] = "flows")
         => handler'[c] = "relays" /\ remote'[c] /\ sock'[c] = "open"]_relayVars

(* Cancelling the context ends every goroutine, and serve returns.           *)
CancelEnds == cancelled ~> serving = "returned"

(* An association does not outlive its control connection.                   *)
ControlEndsIt == \A c \in Peer : handler[c] = "reads" /\ sock[c] = "closed" ~> handler[c] = "left"

(* A copy ends once both connections are closed, a reader once its flow is;  *)
(* the other goroutines do their next step.  Remote ends promise nothing.    *)
RelayFairness ==
  /\ WF_relayVars(ServeReturns)
  /\ \A c \in Peer :
       /\ WF_relayVars(Ask(c)) /\ WF_relayVars(Dial(c)) /\ WF_relayVars(StreamEnds(c))
       /\ \A w \in Way : WF_relayVars(CopyFails(c, w) /\ ~remote[c])
       /\ WF_relayVars(ControlClosed(c)) /\ WF_relayVars(ReadEnds(c) /\ ~udp[c])
       /\ WF_relayVars(Joined(c))
       /\ WF_relayVars(ReaderLeaves(c) /\ \E r \in reader[c] : ~r.open /\ r \notin reader'[c])

RelaySpec == RelayInit /\ [][RelayNext]_relayVars /\ RelayFairness

(* Every flow is reached, every place given back, a download outlives the    *)
(* end of the upload.                                                        *)
RelaySafe == [](RelayTypeOK /\ FlowsReached /\ PlacesKept) /\ DownloadSurvives
=============================================================================
