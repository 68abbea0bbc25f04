--------------------------- MODULE Subscriptions ----------------------------
(* Subscriptions: the queue of updates and their worker threads of           *)
(* application/controller.py, what subscription_service.py makes of an       *)
(* answer, and the connection they may ask for.  A server is a name inside   *)
(* its subscription, its outbound a number; the session is the server and    *)
(* the outbound it was started with (Connection.tla has its transitions).    *)
EXTENDS Naturals, Sequences, FiniteSets, FiniteSetsExt, SequencesExt

CONSTANTS
  Sub,         \* subscriptions the user may add
  Item,        \* names of servers
  Pinned,      \* the names of hysteria2 servers, told apart by a fingerprint too
  Url, NoUrl,  \* addresses
  Original,    \* [Url -> [names -> outbound]]: what each offers at first
  Present,     \* the sets of subscriptions the program may start with
  Home,        \* [Sub -> Url]: where the user finds each
  Moves,       \* [Url -> SUBSET Url]: where the provider may send a client
  Host,        \* [Url -> STRING]
  Nothing,     \* no server is selected
  MaxWorkers,  \* updates at once: 3 in the code
  MaxOrders,   \* bound: commands of the user
  MaxNews,     \* bound: changes at the provider
  MaxSilence,  \* bound: updates that fail
  MaxWishes,   \* bound: presses of the connect button and transitions that fail
  MaxDone      \* bound: all of these together

ASSUME SubsAssumption ==
  /\ IsFiniteSet(Sub) /\ Pinned \subseteq Item /\ NoUrl \notin Url /\ Nothing \notin Sub \X Item
  /\ Original \in [Url -> UNION {[N -> 0..1] : N \in SUBSET Item}]
  /\ Present \subseteq SUBSET Sub /\ Home \in [Sub -> Url] /\ Moves \in [Url -> SUBSET Url] /\ DOMAIN Host = Url
  /\ MaxWorkers \in Nat \ {0} /\ {MaxOrders, MaxNews, MaxSilence, MaxWishes, MaxDone} \subseteq Nat

VARIABLES
  subs,     \* state.subscriptions and _pending_subscription_additions
  listed,   \* state.nodes of each: [names -> outbound]
  feed,     \* what each address offers: the same
  work,     \* _subscription_update_queue, by numbers drawn, and _subscription_workers
  picked,   \* state.selected_node_id: <<subscription, name>>
  link,     \* the session: its server and outbound, whether the user wants one,
            \* whether a transition was asked for
  waiting,  \* _startup_connect_pending
  closed,   \* locked
  spent     \* bounds: what was done so far

subsVars == <<subs, listed, feed, work, picked, link, waiting, closed, spent>>

Offers   == UNION {[N -> 0..1] : N \in SUBSET Item}
Tags     == [url : Url, body : Offers]
NoTag    == [url |-> NoUrl, body |-> <<>>]
Without(b, H) == [n \in DOMAIN b \ H |-> b[n]]
With(b, n, v) == [m \in DOMAIN b \cup {n} |-> IF m = n THEN v ELSE b[m]]
NoServer == [at |-> Nothing, ver |-> 0]
Bounds   == {"orders", "news", "silence", "wishes", "locks", "starts"}

Unknown(s) ==
  [there |-> "no", url |-> Home[s], offered |-> NoUrl, tag |-> NoTag, hidden |-> {},
   retry |-> FALSE, due |-> FALSE]
Free == [phase |-> "free"]

(* Every server of the list; on "left" those kept when the subscription was  *)
(* removed.                                                                  *)
All(l) == UNION {{<<s, n>> : n \in DOMAIN l[s]} : s \in Sub}

(* state.nodes[0] of some order of the list.                                 *)
First(l, S) == IF All(l) \cap S = {} THEN {Nothing} ELSE All(l) \cap S
Of(s) == {s} \X Item
Anyone == Sub \X Item

Spend(b, max) ==
  /\ spent[b] < max /\ MapThenSumSet(LAMBDA x : spent[x], Bounds) < MaxDone
  /\ spent' = [spent EXCEPT ![b] = @ + 1]
Order == Spend("orders", MaxOrders)

(* --- The queue ------------------------------------------------------------- *)

Busy(q, s)  == q.at[s].phase # "free"
Queued(q)   == {s \in Sub : q.at[s].phase = "queued"}
Working(q)  == {s \in Sub : q.at[s].phase \in {"fetching", "answered", "handled"}}

(* The worker gets a copy of the subscription. `v` has the subscriptions and *)
(* the session as the handler leaves them.                                   *)
Job(v, s, kind) ==
  [kind |-> kind, url |-> v.subs[s].url, tag |-> v.subs[s].tag, hidden |-> v.subs[s].hidden]

(* _drain_subscription_update_queue: the port of the VPN is read now.        *)
Drain(v, q) ==
  LET alive == {s \in Queued(q) : q.at[s].job.kind = "add" \/ v.subs[s].there = "in"}
      ahead(s) == {t \in alive : q.at[t].turn < q.at[s].turn}
      begun == {s \in alive : Cardinality(ahead(s)) + Cardinality(Working(q)) < MaxWorkers}
  IN [turn |-> IF alive = begun THEN 0 ELSE q.turn,
      at |-> [s \in Sub |->
        IF s \in begun THEN [phase |-> "fetching", tunnel |-> v.on # NoServer, job |-> q.at[s].job]
        ELSE IF s \in Queued(q) \ alive THEN Free ELSE q.at[s]]]

(* Enqueue one after the other those that are not busy.                      *)
EnqueueAll(v, q, S, kind) ==
  LET new == {s \in S : ~Busy(q, s)}
      order == CHOOSE f \in [new -> 1..Cardinality(new)] : IsInjective(f)
  IN IF new = {} THEN q
     ELSE Drain(v, [turn |-> q.turn + Cardinality(new),
                    at |-> [s \in Sub |-> IF s \in new
                      THEN [phase |-> "queued", turn |-> q.turn + order[s], job |-> Job(v, s, kind)]
                      ELSE q.at[s]]])
Enqueue(v, q, s, kind) == EnqueueAll(v, q, {s}, kind)

(* _retry_subscriptions_via_tunnel, at a connection and after every update.  *)
ViaTunnel(v, q) ==
  IF closed \/ v.on = NoServer THEN q
  ELSE EnqueueAll(v, q, {s \in Sub : v.subs[s].there = "in" /\ v.subs[s].retry}, "update")

Now   == [subs |-> subs, on |-> link.on]
After == [subs |-> subs', on |-> link.on]
AllDone(q) == \A s \in Sub : ~Busy(q, s)

Due == {s \in Sub : subs[s].there = "in" /\ subs[s].due}

(* --- The connection -------------------------------------------------------- *)

(* The end of a handler that may have changed the selected server.           *)
Follow(needed) ==
  link' = IF needed /\ (link.on # NoServer \/ link.wants)
            THEN [link EXCEPT !.wants = (picked' # Nothing), !.asked = TRUE] ELSE link

(* The same of the two that only leave the wish alone or take it back.       *)
FollowRemoval ==
  link' = IF picked' # picked /\ (link.on # NoServer \/ link.wants)
            THEN [link EXCEPT !.wants = @ /\ picked' # Nothing, !.asked = TRUE] ELSE link

(* _perform_auto_connect.                                                    *)
AutoConnected(l) == IF closed \/ picked = Nothing THEN l ELSE [l EXCEPT !.wants = TRUE, !.asked = TRUE]

(* toggle_connection.                                                        *)
Toggle ==
  /\ Spend("wishes", MaxWishes)
  /\ link' = [link EXCEPT !.wants = ~(IF link.asked THEN link.wants ELSE link.on # NoServer),
                          !.asked = TRUE]
  /\ UNCHANGED <<subs, listed, feed, work, picked, waiting, closed>>

(* The transition that was asked for serves the selected server or fails, at *)
(* connection_changed the subscriptions that wait for the VPN are retried.   *)
Settle ==
  /\ link.asked
  /\ \E served \in BOOLEAN :
       /\ served => link.wants /\ picked # Nothing
       /\ IF ~served /\ link.wants THEN Spend("wishes", MaxWishes) ELSE UNCHANGED spent
       /\ link' = IF served
            THEN [on |-> [at |-> picked, ver |-> listed[picked[1]][picked[2]]], wants |-> TRUE, asked |-> FALSE]
            ELSE [on |-> NoServer, wants |-> FALSE, asked |-> FALSE]
  /\ UNCHANGED <<subs, listed, feed, picked, waiting, closed>>
  /\ work' = IF (link'.on = NoServer) = (link.on = NoServer) THEN work ELSE ViaTunnel([subs |-> subs, on |-> link'.on], work)

(* --- Commands of the user -------------------------------------------------- *)

Rest == <<feed, waiting, closed>>

(* add_subscription: another with the same address must not be known.        *)
Add(s) ==
  /\ Order /\ subs[s].there = "no" /\ ~Busy(work, s)
  /\ \A o \in Sub : subs[o].there = "in" => subs[o].url # Home[s]
  /\ subs' = [subs EXCEPT ![s] = [Unknown(s) EXCEPT !.there = "adding"]]
  /\ UNCHANGED <<listed, picked, link, Rest>>
  /\ work' = Enqueue(After, work, s, "add")

(* update_subscription and, for each of them, update_all_subscriptions; the  *)
(* check, which stores nothing.                                              *)
Update(s) ==
  /\ Order /\ subs[s].there = "in" /\ ~Busy(work, s)
  /\ UNCHANGED <<subs, listed, picked, link, Rest>>
  /\ \E kind \in {"update", "check"} : work' = Enqueue(After, work, s, kind)

(* update_subscription_definition: the address, or with the same address a   *)
(* filter or the identity the provider is shown.                             *)
Edit(s, u) ==
  /\ Order /\ subs[s].there = "in" /\ ~Busy(work, s)
  /\ \A o \in Sub \ {s} : subs[o].there = "in" => subs[o].url # u
  /\ subs' = [subs EXCEPT ![s].url = u, ![s].tag = NoTag, ![s].offered = NoUrl]
  /\ UNCHANGED <<listed, picked, link, work, Rest>>

(* remove_subscription: not while it is updated; a queued update is dropped. *)
(* The servers go with it, or stay as servers of the user's own.             *)
RemoveSub(s) ==
  /\ Order /\ subs[s].there = "in" /\ s \notin Working(work)
  /\ \/ /\ subs' = [subs EXCEPT ![s].there = "left"]
        /\ UNCHANGED <<listed, picked>>
     \/ /\ subs' = [subs EXCEPT ![s] = Unknown(s)]
        /\ listed' = [listed EXCEPT ![s] = <<>>]
        /\ picked' \in IF picked \in Of(s) THEN First(listed', Anyone) ELSE {picked}
  /\ work' = [work EXCEPT !.at[s] = Free]
  /\ FollowRemoval
  /\ UNCHANGED Rest

(* hide_subscription_nodes, at any time.                                     *)
HideServer(s, n) ==
  /\ Order /\ subs[s].there = "in" /\ n \in DOMAIN listed[s]
  /\ subs' = [subs EXCEPT ![s].hidden = @ \cup {n}]
  /\ listed' = [listed EXCEPT ![s] = [m \in DOMAIN listed[s] \ {n} |-> listed[s][m]]]
  /\ picked' \in IF picked # <<s, n>> THEN {picked}
                 ELSE IF DOMAIN listed'[s] # {} THEN First(listed', Of(s)) ELSE First(listed', Anyone)
  /\ FollowRemoval
  /\ UNCHANGED <<work, Rest>>

(* reset_subscription_hidden_nodes, then an update.                          *)
ResetHidden(s) ==
  /\ Order /\ subs[s].there = "in" /\ subs[s].hidden # {} /\ ~Busy(work, s)
  /\ subs' = [subs EXCEPT ![s].hidden = {}, ![s].tag = NoTag]
  /\ UNCHANGED <<listed, picked, link, Rest>>
  /\ work' = Enqueue(After, work, s, "update")

(* accept_subscription_pending_url, then an update; it is not asked whether  *)
(* one runs, which would then have to be waited for.                         *)
AcceptUrl(s) ==
  /\ Order /\ subs[s].there = "in" /\ subs[s].offered # NoUrl
  /\ subs' = [subs EXCEPT ![s].url = subs[s].offered, ![s].offered = NoUrl, ![s].tag = NoTag]
  /\ UNCHANGED <<listed, picked, link, Rest>>
  /\ work' = Enqueue(After, work, s, "update")

(* lock; unlock looks for what is due.                                       *)
Lock ==
  /\ ~closed /\ Spend("locks", 1) /\ closed' = TRUE
  /\ UNCHANGED <<subs, listed, feed, work, picked, link, waiting>>

Unlock ==
  /\ closed /\ closed' = FALSE
  /\ UNCHANGED <<subs, listed, feed, picked, link, waiting, spent>>
  /\ work' = EnqueueAll(Now, work, Due, "update")

(* --- Time ------------------------------------------------------------------ *)

(* An interval or a backoff passes; the timer's _check_due_subscriptions.    *)
FallsDue(s) ==
  /\ subs[s].there = "in" /\ ~subs[s].due /\ Spend("news", MaxNews)
  /\ subs' = [subs EXCEPT ![s].due = TRUE]
  /\ UNCHANGED <<listed, feed, work, picked, link, waiting, closed>>

DueTimer ==
  /\ ~closed /\ \E s \in Due : ~Busy(work, s)
  /\ UNCHANGED <<subs, listed, feed, picked, link, waiting, closed, spent>>
  /\ work' = EnqueueAll(Now, work, Due, "update")

(* auto_connect_if_needed at the start: first the subscriptions.             *)
Startup ==
  /\ Spend("starts", 1) /\ spent["orders"] = 0 /\ ~closed /\ picked # Nothing
  /\ UNCHANGED <<subs, listed, feed, picked, closed>>
  /\ work' = EnqueueAll(Now, work, Due, "update")
  /\ waiting' = ~AllDone(work')
  /\ link' = IF waiting' THEN link ELSE AutoConnected(link)

(* The 30 s of _startup_connect_timer are over.                              *)
StartupTimer ==
  /\ waiting /\ waiting' = FALSE
  /\ UNCHANGED <<subs, listed, feed, work, picked, closed, spent>>
  /\ link' = AutoConnected(link)

(* The provider adds a server, drops one or gives one another outbound.      *)
Provider(u) ==
  /\ Spend("news", MaxNews)
  /\ \E n \in Item, v \in 0..1 :
       feed' = [feed EXCEPT ![u] = IF n \in DOMAIN @ /\ @[n] = v THEN Without(@, {n}) ELSE With(@, n, v)]
  /\ feed'[u] # <<>>
  /\ UNCHANGED <<subs, listed, work, picked, link, waiting, closed>>

(* --- A worker -------------------------------------------------------------- *)

(* fetch_subscription and parse_subscription_payload with the copy: 304 when *)
(* nothing changed since the tag; an error when the filter leaves nothing.   *)
(* A failure that never had a route through the VPN is told as such.         *)
Fetched(s) ==
  /\ work.at[s].phase = "fetching"
  /\ LET w == work.at[s]
         b == feed[w.job.url]
         offered == [url |-> w.job.url, body |-> b]
         Say(kind, untried, moved) ==
           work' = [work EXCEPT !.at[s] =
             [phase |-> "answered", job |-> w.job, kind |-> kind, untried |-> untried,
              tag |-> offered, moved |-> moved]]
     IN \/ /\ w.job.tag = offered /\ Say("same", FALSE, NoUrl) /\ UNCHANGED spent
        \/ /\ w.job.tag # offered /\ ~(DOMAIN b \subseteq w.job.hidden) /\ UNCHANGED spent
           /\ \E m \in Moves[w.job.url] \cup {NoUrl} : Say("body", FALSE, m)
        \/ /\ w.job.tag # offered /\ DOMAIN b \subseteq w.job.hidden /\ UNCHANGED spent
           /\ Say("failed", FALSE, NoUrl)
        \/ /\ Spend("silence", MaxSilence) /\ Say("failed", ~w.tunnel, NoUrl)
  /\ UNCHANGED <<subs, listed, feed, picked, link, waiting, closed>>

Answered(s, kinds) == work.at[s].phase = "answered" /\ work.at[s].kind \in kinds

Handled(s) == work' = [work EXCEPT !.at[s] = [phase |-> "handled"]]

(* _apply_subscription_update of a check: the list and its tag stay.         *)
Checked(s) ==
  /\ Answered(s, {"body", "same"}) /\ work.at[s].job.kind = "check"
  /\ subs' = [subs EXCEPT ![s].retry = FALSE]
  /\ Handled(s)
  /\ UNCHANGED <<listed, feed, picked, link, waiting, closed, spent>>

(* apply_not_modified.                                                       *)
NotModified(s) ==
  /\ Answered(s, {"same"}) /\ work.at[s].job.kind # "check"
  /\ subs' = [subs EXCEPT ![s].tag = work.at[s].tag, ![s].retry = FALSE, ![s].due = FALSE]
  /\ Handled(s)
  /\ UNCHANGED <<listed, feed, picked, link, waiting, closed, spent>>

(* _apply_success_metadata: an address of the same host is taken, another is *)
(* offered.                                                                  *)
Moved(sub, answer) ==
  LET m == answer.moved
      known == [sub EXCEPT !.there = "in", !.retry = FALSE, !.due = FALSE]
  IN IF m # NoUrl /\ Host[m] = Host[sub.url]
       THEN [known EXCEPT !.url = m, !.offered = NoUrl, !.tag = NoTag]
     ELSE [known EXCEPT !.tag = answer.tag, !.offered = IF m # NoUrl THEN m ELSE @]

(* The copy's filter knows the fingerprint of a hysteria2 server; the filter *)
(* of _apply_subscription_update compares its source_key without it.         *)
Received(s) ==
  Without(work.at[s].tag.body, work.at[s].job.hidden \cup (subs[s].hidden \ Pinned))

(* Mutant of Changed: a server whose outbound is another is not looked at.   *)
ChangedGone(s) == picked \in Of(s) /\ picked[2] \notin DOMAIN Received(s)

(* reconnect_required: the selected server is gone or is another outbound.   *)
Changed(s) ==
  /\ picked \in Of(s) /\ picked[2] \in DOMAIN listed[s]
  /\ \/ picked[2] \notin DOMAIN Received(s)
     \/ Received(s)[picked[2]] # listed[s][picked[2]]

(* reconcile_subscription and the handler around it.                         *)
Reconciled(s) ==
  /\ Answered(s, {"body"}) /\ work.at[s].job.kind # "check"
  /\ listed' = [listed EXCEPT ![s] = Received(s)]
  /\ subs' = [subs EXCEPT ![s] = Moved(subs[s], work.at[s])]
  /\ picked' \in
       IF picked \in Of(s) /\ picked \notin All(listed')
         THEN IF DOMAIN Received(s) # {} THEN First(listed', Of(s)) ELSE First(listed', Anyone)
       ELSE IF picked = Nothing /\ DOMAIN listed[s] = {} THEN First(listed', Of(s))
       ELSE {picked}
  /\ Follow(Changed(s))
  /\ Handled(s)
  /\ UNCHANGED <<feed, waiting, closed, spent>>

(* _on_subscription_update_failed: a new subscription is kept only to be     *)
(* tried again through the VPN; a check never is.                            *)
Failed(s) ==
  /\ Answered(s, {"failed"})
  /\ LET w == work.at[s]
         later == [subs[s] EXCEPT !.there = "in", !.due = FALSE,
                                  !.retry = w.untried /\ w.job.kind # "check"]
     IN subs' = [subs EXCEPT ![s] = IF w.job.kind = "add" /\ ~w.untried THEN Unknown(s) ELSE later]
  /\ Handled(s)
  /\ UNCHANGED <<listed, feed, picked, link, waiting, closed, spent>>

(* Mutant of WorkerFinished: a retry through the VPN waits for a connection. *)
WorkerFinishedOnly(s) ==
  /\ work.at[s].phase = "handled"
  /\ work' = Drain(Now, [work EXCEPT !.at[s] = Free])
  /\ waiting' = (waiting /\ ~AllDone(work'))
  /\ link' = IF waiting /\ ~waiting' THEN AutoConnected(link) ELSE link
  /\ UNCHANGED <<subs, listed, feed, picked, closed, spent>>

(* _on_subscription_worker_finished: the retries, the queue, and the start   *)
(* that waited for the last update.                                          *)
WorkerFinished(s) ==
  /\ work.at[s].phase = "handled"
  /\ work' = Drain(Now, ViaTunnel(Now, [work EXCEPT !.at[s] = Free]))
  /\ waiting' = (waiting /\ ~AllDone(work'))
  /\ link' = IF waiting /\ ~waiting' THEN AutoConnected(link) ELSE link
  /\ UNCHANGED <<subs, listed, feed, picked, closed, spent>>

(* --- Specification --------------------------------------------------------- *)

SubsInit ==
  /\ feed = Original
  /\ \E S \in Present :
       /\ subs = [s \in Sub |-> IF s \notin S THEN Unknown(s) ELSE
            [Unknown(s) EXCEPT !.there = "in", !.due = TRUE, !.tag = [url |-> Home[s], body |-> feed[Home[s]]]]]
       /\ listed = [s \in Sub |-> IF s \in S THEN feed[Home[s]] ELSE <<>>]
  /\ picked \in First(listed, Anyone)
  /\ work = [turn |-> 0, at |-> [s \in Sub |-> Free]]
  /\ link = [on |-> NoServer, wants |-> FALSE, asked |-> FALSE]
  /\ waiting = FALSE /\ closed = FALSE
  /\ spent = [b \in Bounds |-> 0]

SubsNext ==
  \/ Toggle \/ Settle \/ Lock \/ Unlock \/ DueTimer \/ Startup \/ StartupTimer
  \/ \E u \in Url : Provider(u)
  \/ \E s \in Sub :
       \/ Add(s) \/ Update(s) \/ RemoveSub(s) \/ ResetHidden(s) \/ AcceptUrl(s) \/ FallsDue(s)
       \/ \E u \in Url : Edit(s, u)
       \/ \E n \in Item : HideServer(s, n)
       \/ Fetched(s) \/ Checked(s) \/ NotModified(s) \/ Reconciled(s) \/ Failed(s) \/ WorkerFinished(s)

(* A fetch has a deadline of 30 s and its answer is a signal of a thread that *)
(* ends; the transition ends (Connection.tla). Nothing is assumed of timers. *)
SubsFairness ==
  /\ WF_subsVars(Settle)
  /\ \A s \in Sub : WF_subsVars(Fetched(s)) /\ WF_subsVars(WorkerFinished(s))
                    /\ WF_subsVars(Checked(s) \/ NotModified(s) \/ Reconciled(s) \/ Failed(s))

SubsSpec == SubsInit /\ [][SubsNext]_subsVars /\ SubsFairness

(* --- Properties ------------------------------------------------------------ *)

Added(s) == work.at[s].phase \in {"queued", "fetching", "answered"} /\ work.at[s].job.kind = "add"

SubsTypeOK ==
  /\ \A s \in Sub :
       /\ subs[s].there \in {"no", "adding", "in", "left"}
       /\ subs[s].url \in Url /\ subs[s].offered \in Url \cup {NoUrl}
       /\ subs[s].tag \in Tags \cup {NoTag} /\ subs[s].hidden \subseteq Item
       /\ subs[s].retry => subs[s].there \in {"in", "left"}
       /\ listed[s] \in Offers /\ (subs[s].there \in {"no", "adding"} => listed[s] = <<>>)
       /\ subs[s].there = "adding" <=> Added(s)
  /\ picked \in All(listed) \cup {Nothing}
  /\ Cardinality(Working(work)) <= MaxWorkers

(* The list a tag stands for is the list there is: an answer 304 for it      *)
(* leaves no server of the provider out but those the user hid.              *)
TagTrue ==
  \A s \in Sub : subs[s].there = "in" /\ subs[s].tag.url = subs[s].url =>
    LET b == subs[s].tag.body IN
    \A n \in DOMAIN b \ subs[s].hidden : n \in DOMAIN listed[s] /\ listed[s][n] = b[n]

(* A server that was hidden is not listed, whatever update was under way     *)
(* when it was: of a server without a fingerprint.                           *)
HiddenGone == \A s \in Sub : subs[s].there = "in" => DOMAIN listed[s] \cap (subs[s].hidden \ Pinned) = {}

(* The same of every server. nodes_page.py: hidden servers «вернутся после   *)
(* сброса исключений», not before.                                           *)
HiddenStaysHidden == \A s \in Sub : subs[s].there = "in" => DOMAIN listed[s] \cap subs[s].hidden = {}

(* A session on a server that is gone, replaced or no longer selected has a  *)
(* transition on its way.                                                    *)
SessionListed ==
  link.on # NoServer /\ ~link.asked =>
    /\ link.on.at = picked /\ picked # Nothing
    /\ listed[picked[1]][picked[2]] = link.on.ver

(* A subscription that failed for want of a VPN is tried again through it;   *)
(* unlocking does not see to it, so the program was never locked.            *)
TunnelRetried ==
  \A s \in Sub : (subs[s].there = "in" /\ subs[s].retry /\ link.on # NoServer /\ spent["locks"] = 0)
                 ~> (~subs[s].retry \/ subs[s].there # "in" \/ link.on = NoServer \/ spent["locks"] # 0)

(* A new subscription is added or refused.                                   *)
AddingAnswered == \A s \in Sub : subs[s].there = "adding" ~> subs[s].there # "adding"

(* The start that waits for subscriptions goes on when they are done, even   *)
(* if its timer never fired.                                                 *)
StartupConnects == waiting ~> ~waiting

(* Tags, hidden servers, the selection and the session agree with the list.  *)
SubsSafe == SubsTypeOK /\ TagTrue /\ HiddenGone /\ SessionListed

-----------------------------------------------------------------------------
(* reconcile_subscription of application/subscription_service.py: which of   *)
(* the listed servers each server of an update is. A server is known by its  *)
(* source_key, its name and the fingerprint of its link; its number in `old` *)
(* stands for its id.                                                        *)

CONSTANTS
  Key, Name, Mark,  \* source keys, names, fingerprints
  Addr,              \* [Key -> address]: scheme, server and port of an outbound
  MaxServers         \* bound: servers of a list

ASSUME MatchAssumption == DOMAIN Addr = Key /\ MaxServers \in Nat

VARIABLES
  old,      \* old_nodes
  coming,   \* parsed.nodes
  match     \* the number of the old server each of them is, 0 for a new one

matchVars == <<old, coming, match>>

Record == [key : Key, name : Name, mark : Mark]
Lists  == {l \in BoundedSeq(Record, MaxServers) : IsInjective(l)}

MatchInit ==
  /\ old \in Lists /\ coming \in Lists \ {<<>>} /\ match = <<>>

UsedIds == {match[i] : i \in DOMAIN match} \ {0}
Unused  == (DOMAIN old) \ UsedIds

(* Mutant of Partners: a server that was matched may match again.            *)
PartnersAgain(c) == {o \in DOMAIN old : old[o].key = c.key}

(* source_candidates and the three ways to choose among them; then the only  *)
(* server of the same address and name.                                      *)
Partners(c) == {o \in Unused : old[o].key = c.key}
Named(c)    == {o \in Partners(c) : old[o].name = c.name}
Exact(c)    == {o \in Named(c) : old[o].mark = c.mark}
Fallback(c) == {o \in Unused : Addr[old[o].key] = Addr[c.key] /\ old[o].name = c.name}

Found(c) ==
  IF Exact(c) # {} THEN Min(Exact(c))
  ELSE IF Named(c) # {} THEN Min(Named(c))
  ELSE IF Partners(c) # {} THEN Min(Partners(c))
  ELSE IF \E o \in Fallback(c) : Fallback(c) = {o} THEN Min(Fallback(c)) ELSE 0

(* One turn of the loop over parsed.nodes.                                   *)
MatchOne ==
  /\ Len(match) < Len(coming)
  /\ match' = Append(match, Found(coming[Len(match) + 1]))
  /\ UNCHANGED <<old, coming>>

MatchNext == MatchOne

MatchSpec == MatchInit /\ [][MatchNext]_matchVars

(* --- Properties ------------------------------------------------------------ *)

(* No listed server becomes two.                                             *)
OnceEach ==
  /\ match \in Seq(0..Len(old)) /\ Len(match) <= Len(coming)
  /\ \A i, j \in DOMAIN match : match[i] = match[j] /\ i # j => match[i] = 0

Still(c) == \E o \in DOMAIN old : old[o] = c

(* A server that is offered as before stays itself, with its id, its place,  *)
(* the user's name and marks: as long as no newcomer shares its outbound,    *)
(* which is given the first free id of that outbound.                        *)
SameKept ==
  \A i \in DOMAIN match, o \in DOMAIN old :
    /\ coming[i] = old[o]
    /\ \A c \in {coming[k] : k \in 1..i} : c.key = coming[i].key \/ Addr[c.key] = Addr[coming[i].key] => Still(c)
    => match[i] = o

(* Every server of an update finds its own place in the list.                *)
MatchSafe == OnceEach /\ SameKept
=============================================================================
