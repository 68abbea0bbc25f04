-------------------------- MODULE HysteriaRecovery --------------------------
(* What the controller does when a Hysteria session fails: it switches to    *)
(* another server once, and when that comes to nothing it returns to the     *)
(* selected one.  Between the failure and the switch lie a queue of          *)
(* transitions, timers, signals of a core that was asked to stop, and the    *)
(* user.  The transitions themselves are module Connection's; here they      *)
(* begin, and end in one of the ways they can.                               *)
EXTENDS Naturals

CONSTANTS
  Server,       \* the servers of the list
  Sidecar,      \* those served by a Hysteria client
  Nobody,       \* no server
  MaxTrouble,   \* bound: failures and refusals
  MaxAsks,      \* bound: requests of the user
  MaxRetries    \* _return_to_selected_server waits so often for a transition

ASSUME RecoveryAssumption ==
  /\ Sidecar \subseteq Server /\ Server # {} /\ Nobody \notin Server
  /\ MaxTrouble \in Nat /\ MaxAsks \in Nat /\ MaxRetries \in Nat

VARIABLES
  picked,    \* state.selected_node_id
  aim,       \* _pending_transport_node_id
  online,    \* the server of the connected session
  move,      \* the transition that runs: the server it is for, or Nobody
  queued,    \* _transition_pending
  wants,     \* _desired_connected
  rescuing,  \* _hysteria_recovery_active (and _switching, set with it)
  cooling,   \* servers with _hysteria_cooldown_until ahead
  episode,   \* _hysteria_failure_episode_id
  due,       \* _hysteria_return_episode
  timers,    \* queued calls of _return_to_selected_server
  blamed,    \* what the session's client has reported: nothing, network, security
  killed,    \* sing-box was asked to stop and has not said so yet
  word,      \* history: the user's last word
  returned,  \* history: the return was tried in this episode
  refused,   \* history: the selected server refused certificate or password, no return being due
  trouble, asks  \* bounds

rescueVars == <<picked, aim, online, move, queued, wants, rescuing, cooling, episode, due,
                timers, blamed, killed, word, returned, refused, trouble, asks>>

RecoveryTypeOK ==
  /\ picked \in Server /\ {aim, online} \subseteq Server \cup {Nobody}
  /\ move \in [act : {"none", "stop", "serve"}, to : Server \cup {Nobody}]
  /\ queued \in BOOLEAN /\ wants \in BOOLEAN /\ rescuing \in BOOLEAN
  /\ killed \in BOOLEAN /\ refused \in BOOLEAN
  /\ cooling \subseteq Server /\ episode \in Nat /\ due \in 0..episode
  /\ timers \subseteq [episode : 1..episode, attempt : 0..MaxRetries]
  /\ blamed \in {"nothing", "network", "security"} /\ word \in {"on", "off"}
  /\ returned \in Nat /\ trouble \in 0..MaxTrouble /\ asks \in 0..MaxAsks
  /\ rescuing => online # Nobody

Still == [act |-> "none", to |-> Nobody]

RecoveryInit ==
  /\ picked \in Server /\ aim = Nobody /\ online = Nobody
  /\ move = Still /\ queued = FALSE /\ wants = FALSE /\ rescuing = FALSE
  /\ cooling = {} /\ episode = 0 /\ due = 0 /\ timers = {}
  /\ blamed = "nothing" /\ killed = FALSE
  /\ word = "off" /\ returned = 0 /\ refused = FALSE /\ trouble = 0 /\ asks = 0

Trouble == trouble < MaxTrouble /\ trouble' = trouble + 1 /\ UNCHANGED asks
Asks    == asks < MaxAsks /\ asks' = asks + 1 /\ UNCHANGED trouble
Moving  == move # Still

Goal == IF aim # Nobody THEN aim ELSE picked

(* --- A failure ------------------------------------------------------------- *)

(* _schedule_return_to_selected                                              *)
ScheduleReturn(e) ==
  /\ due' = e /\ timers' = timers \cup {[episode |-> e, attempt |-> 0]}

Cool(s) == cooling' = cooling \cup ({s} \ {Nobody})

(* Mutant of SecurityFailure: a refusal is a failure to come back from.      *)
SecurityFailureReturns ==
  /\ online \in Sidecar /\ blamed # "security" /\ move.act # "stop" /\ Trouble
  /\ blamed' = "security" /\ wants' = FALSE /\ refused' = (~rescuing /\ due = 0)
  /\ episode' = episode + 1 /\ returned' = 0 /\ ScheduleReturn(episode + 1)
  /\ killed' = TRUE
  /\ UNCHANGED <<picked, aim, online, move, queued, rescuing, cooling, word>>

(* A certificate or a password is refused: never a reason to try another     *)
(* server.  While a replacement is prepared the blame falls on it.           *)
SecurityFailure ==
  /\ online \in Sidecar /\ blamed # "security" /\ move.act # "stop" /\ Trouble
  /\ blamed' = "security" /\ wants' = FALSE
  /\ IF rescuing THEN Cool(aim) /\ ScheduleReturn(episode) /\ UNCHANGED refused
                 ELSE refused' = (due = 0) /\ UNCHANGED <<cooling, due, timers>>
  /\ killed' = TRUE
  /\ UNCHANGED <<picked, aim, online, move, queued, rescuing, episode, word, returned>>

(* Whom a failure may switch to.                                             *)
Candidates == Server \ (cooling \cup {online})

(* The network failed: switch to another server, or come back later.         *)
NetworkFailure ==
  /\ online \in Sidecar /\ blamed = "nothing" /\ move.act # "stop" /\ Trouble
  /\ blamed' = "network"
  /\ IF rescuing
     THEN Cool(aim) /\ ScheduleReturn(episode)
          /\ UNCHANGED <<aim, queued, wants, rescuing, episode, killed, returned>>
     ELSE IF ~wants
     THEN UNCHANGED <<aim, queued, wants, rescuing, cooling, episode, due, timers, killed, returned>>
     ELSE /\ cooling' = cooling \cup {picked}
          /\ episode' = episode + 1 /\ returned' = 0 /\ killed' = TRUE
          /\ \/ /\ Candidates \ {picked} # {}
                /\ \E s \in Candidates \ {picked} : aim' = s
                /\ rescuing' = TRUE /\ queued' = TRUE
                /\ UNCHANGED <<wants, due, timers>>
             \/ /\ Candidates \ {picked} = {}
                /\ wants' = FALSE /\ ScheduleReturn(episode + 1)
                /\ UNCHANGED <<aim, queued, rescuing>>
  /\ UNCHANGED <<picked, online, move, word, refused>>

(* sing-box has stopped: on_core_state_changed leaves the session to the     *)
(* recovery if one is under way, and ends it otherwise.                      *)
CoreStopped ==
  /\ killed /\ killed' = FALSE
  /\ IF rescuing \/ Moving THEN UNCHANGED <<online, wants, blamed>>
     ELSE online' = Nobody /\ wants' = FALSE /\ blamed' = "nothing"
  /\ UNCHANGED <<picked, aim, move, queued, rescuing, cooling, episode, due, timers,
                 word, returned, refused, trouble, asks>>

(* The 300 or 3600 seconds are over.                                         *)
CooldownEnds ==
  /\ cooling # {} /\ ~rescuing
  /\ \E s \in cooling : cooling' = cooling \ {s}
  /\ UNCHANGED <<picked, aim, online, move, queued, wants, rescuing, episode, due, timers,
                 blamed, killed, word, returned, refused, trouble, asks>>

(* --- Transitions ----------------------------------------------------------- *)

BeginMove ==
  /\ ~Moving /\ queued /\ queued' = FALSE
  /\ move' = IF wants THEN [act |-> "serve", to |-> Goal] ELSE [act |-> "stop", to |-> Nobody]
  /\ UNCHANGED <<picked, aim, online, wants, rescuing, cooling, episode, due, timers,
                 blamed, killed, word, returned, refused, trouble, asks>>

(* disconnect_current_steps                                                  *)
MoveStops ==
  /\ move.act = "stop" /\ move' = Still
  /\ online' = Nobody /\ rescuing' = FALSE /\ blamed' = "nothing" /\ killed' = FALSE
  /\ UNCHANGED <<picked, aim, queued, wants, cooling, episode, due, timers, word,
                 returned, refused, trouble, asks>>

Superseded == queued \/ ~wants \/ move.to # Goal

(* The new session is captured and its server is the selected one.           *)
MoveServes ==
  /\ move.act = "serve" /\ ~Superseded
  /\ move' = Still /\ online' = move.to /\ picked' = move.to /\ aim' = Nobody
  /\ rescuing' = FALSE /\ blamed' = "nothing" /\ killed' = FALSE
  /\ UNCHANGED <<queued, wants, cooling, episode, due, timers, word, returned, refused,
                 trouble, asks>>

(* It fails: the old session is still there (a core was put back), or none   *)
(* is; a replacement of Hysteria that fails takes the old session with it.   *)
(* settle() and the end of the runner: an intent of the user is kept as the  *)
(* selection, one of the recovery is not.                                    *)
MoveFails ==
  /\ move.act = "serve" /\ Trouble
  /\ move' = Still
  /\ online' \in IF rescuing /\ move.to \in Sidecar THEN {Nobody} ELSE {Nobody, online}
  /\ killed' = FALSE
  /\ blamed' = IF online' = Nobody THEN "nothing" ELSE blamed
  /\ IF Superseded THEN UNCHANGED <<picked, aim, wants>>
     ELSE /\ aim' = Nobody
          /\ picked' = IF aim # Nobody /\ online' = Nobody /\ ~rescuing THEN aim ELSE picked
          /\ wants' = (online' # Nobody)
  /\ rescuing' = FALSE
  /\ UNCHANGED <<queued, cooling, episode, due, timers, word, returned, refused>>

(* It is superseded, by a newer choice or by the loss of the wish.           *)
MoveDropped ==
  /\ move.act = "serve" /\ Superseded
  /\ move' = Still /\ rescuing' = FALSE
  /\ online' \in {Nobody, online} /\ killed' = FALSE
  /\ blamed' = IF online' = Nobody THEN "nothing" ELSE blamed
  /\ queued' = TRUE
  /\ UNCHANGED <<picked, aim, wants, cooling, episode, due, timers, word, returned, refused,
                 trouble, asks>>

(* --- The return ------------------------------------------------------------ *)

(* _return_to_selected_server                                                *)
ReturnTimer ==
  /\ \E t \in timers :
       \/ /\ due # t.episode
          /\ timers' = timers \ {t} /\ UNCHANGED <<due, wants, queued, returned>>
       \/ /\ due = t.episode /\ (Moving \/ queued)
          /\ timers' = (timers \ {t}) \cup
               (IF t.attempt < MaxRetries THEN {[t EXCEPT !.attempt = @ + 1]} ELSE {})
          /\ UNCHANGED <<due, wants, queued, returned>>
       \/ /\ due = t.episode /\ ~Moving /\ ~queued
          /\ timers' = timers \ {t} /\ due' = 0
          /\ IF online # Nobody \/ wants THEN UNCHANGED <<wants, queued, returned>>
             ELSE wants' = TRUE /\ queued' = TRUE /\ returned' = returned + 1
  /\ UNCHANGED <<picked, aim, online, move, rescuing, cooling, episode, blamed, killed,
                 word, refused, trouble, asks>>

(* --- The user -------------------------------------------------------------- *)

(* toggle_connection                                                         *)
Toggle ==
  /\ Asks
  /\ wants' = ~(IF Moving \/ queued THEN wants ELSE online # Nobody)
  /\ due' = 0 /\ queued' = TRUE
  /\ word' = IF wants' THEN "on" ELSE "off"
  /\ refused' = FALSE
  /\ IF wants' THEN UNCHANGED <<aim, rescuing>> ELSE aim' = Nobody /\ rescuing' = FALSE
  /\ UNCHANGED <<picked, online, move, cooling, episode, timers, blamed, killed, returned>>

(* Another server is chosen: at once the selected one, or the next target.   *)
Choose ==
  /\ Asks
  /\ \E s \in Server \ {Goal} :
       IF online = Nobody THEN picked' = s /\ aim' = Nobody /\ UNCHANGED queued
                          ELSE aim' = s /\ queued' = TRUE /\ UNCHANGED picked
  /\ refused' = FALSE
  /\ UNCHANGED <<online, move, wants, rescuing, cooling, episode, due, timers, blamed, killed,
                 word, returned>>

RecoveryNext ==
  \/ SecurityFailure \/ NetworkFailure \/ CoreStopped \/ CooldownEnds
  \/ BeginMove \/ MoveStops \/ MoveServes \/ MoveFails \/ MoveDropped
  \/ ReturnTimer \/ Toggle \/ Choose

(* After the user has switched the connection off nothing switches it on     *)
(* again: no recovery, no delayed return, no late end of a transition.       *)
OffMeansOff == word = "off" => ~wants

(* One failure leads to one attempt to return, whatever timers are queued.   *)
OneReturn == returned <= 1

(* A server that refuses the client is left, and neither another server nor  *)
(* the same one is tried until the user says so: nothing but a return that   *)
(* an earlier failure of the network had called for comes after the refusal. *)
RefusedStaysOff == refused => ~wants

(* A recovery ends: it never keeps the controller deaf to its cores.         *)
RecoveryEnds == rescuing ~> ~rescuing

(* When the replacement has failed the program does not stay disconnected:   *)
(* the selected server is tried once more.                                   *)
NotLeftOffline ==
  word = "on" /\ online = Nobody /\ ~Moving /\ ~queued /\ timers = {} /\ episode > 0 /\ ~refused
    => returned > 0

RecoveryFairness == WF_rescueVars(BeginMove) /\ WF_rescueVars(MoveStops \/ MoveServes \/ MoveDropped)

RecoverySpec == RecoveryInit /\ [][RecoveryNext]_rescueVars /\ RecoveryFairness

(* The recovery never works against the user, and comes back once.           *)
RecoverySafe == RecoveryTypeOK /\ OffMeansOff /\ OneReturn /\ RefusedStaysOff
=============================================================================
