----------------------------- MODULE LinkWatch -----------------------------
(* The watch over the link to the server in use                              *)
(* (diagnostics/live_metrics_worker.py). Three threads write one object      *)
(* without a lock: the GUI aims the watch at another server after a hot      *)
(* switch, the worker looks at the traffic every second, and a thread of its *)
(* own asks through the tunnel when requests go unanswered.                  *)
EXTENDS Naturals

CONSTANTS
  Watched,     \* servers a hot switch may choose
  HostOf,      \* [Watched -> host]: ports and settings may differ on one host
  FirstWatched, \* the server of the start
  Unset,       \* None
  Suspect,     \* LINK_SUSPECT_SEC, in samples
  Cooldown,    \* LINK_CONFIRM_COOLDOWN_SEC, in samples
  MaxSwitches, \* bound: hot switches
  MaxBreaks    \* bound: changes of a link

ASSUME WatchAssumption ==
  /\ DOMAIN HostOf = Watched /\ FirstWatched \in Watched /\ Unset \notin Watched
  /\ {Suspect, Cooldown} \subseteq Nat \ {0} /\ {MaxSwitches, MaxBreaks} \subseteq Nat

VARIABLES
  serving,   \* the server the traffic goes to
  broken,    \* servers whose link carries no answers
  aim,       \* what set_ping_target has still to write, in its order
  watch,     \* the worker's object: host, verdict, seconds unanswered, confirming, pause;
             \* `about` is the server a verdict was reached on
  look,      \* the worker's thread inside _watch_link
  asker,     \* the thread that asks: its host, its server and the answer
  switches, breaks

watchVars == <<serving, broken, aim, watch, look, asker, switches, breaks>>

Verdicts == {"unknown", "alive", "dead"}
NoAsker  == [pc |-> "none", host |-> Unset, of |-> Unset, says |-> "unknown"]

WatchInit ==
  /\ serving = FirstWatched /\ broken = {} /\ aim = "done"
  /\ watch = [host |-> HostOf[FirstWatched], verdict |-> "unknown", about |-> Unset, since |-> 0,
              confirming |-> FALSE, pause |-> 0]
  /\ look = [pc |-> "sleep", saw |-> "idle"]
  /\ asker = NoAsker
  /\ switches = 0 /\ breaks = 0

-----------------------------------------------------------------------------
(* The hot switch is committed and set_ping_target begins.                   *)
Switches(s) ==
  /\ aim = "done" /\ s # serving /\ switches < MaxSwitches
  /\ switches' = switches + 1
  /\ serving' = s /\ aim' = "host"
  /\ UNCHANGED <<broken, watch, look, asker, breaks>>

(* Its writes that matter here, one after another.                           *)
Aims ==
  /\ aim # "done"
  /\ aim' = CASE aim = "host" -> "verdict" [] aim = "verdict" -> "since" [] OTHER -> "done"
  /\ watch' = CASE aim = "host" -> [watch EXCEPT !.host = HostOf[serving]]
                [] aim = "verdict" -> [watch EXCEPT !.verdict = "unknown", !.about = Unset]
                [] OTHER -> [watch EXCEPT !.since = 0]
  /\ UNCHANGED <<serving, broken, look, asker, switches, breaks>>

(* The world: a link breaks or comes back.                                   *)
Breaks(s) ==
  /\ breaks < MaxBreaks /\ breaks' = breaks + 1
  /\ broken' = (broken \cup {s}) \ (broken \cap {s})
  /\ UNCHANGED <<serving, aim, watch, look, asker, switches>>

-----------------------------------------------------------------------------
(* A sample of the traffic: answers come, requests go unanswered, or neither. *)
Samples(saw) ==
  /\ look.pc = "sleep"
  /\ saw = "answers" => serving \notin broken
  /\ look' = [pc |-> "verdict", saw |-> saw]
  /\ watch' = [watch EXCEPT !.pause = IF @ > 0 THEN @ - 1 ELSE 0]
  /\ UNCHANGED <<serving, broken, aim, asker, switches, breaks>>

(* Answers prove the link: of the server they came from.                     *)
JudgesTraffic ==
  /\ look.pc = "verdict"
  /\ watch' = IF look.saw = "answers" THEN [watch EXCEPT !.verdict = "alive", !.about = serving] ELSE watch
  /\ look' = [look EXCEPT !.pc = "count"]
  /\ UNCHANGED <<serving, broken, aim, asker, switches, breaks>>

Enough(n) == n >= Suspect

(* The seconds unanswered; long enough, and nobody asks yet nor has asked    *)
(* a short while ago.                                                        *)
Counts ==
  /\ look.pc = "count"
  /\ LET n == IF look.saw # "silence" THEN 0
              ELSE IF Enough(watch.since) THEN watch.since ELSE watch.since + 1
         asks == n = watch.since /\ Enough(n) /\ ~watch.confirming /\ watch.pause = 0 IN
     /\ watch' = [watch EXCEPT !.since = n, !.confirming = @ \/ asks,
                               !.pause = IF asks THEN Cooldown ELSE @]
     /\ look' = [look EXCEPT !.pc = IF asks THEN "start" ELSE "sleep"]
  /\ UNCHANGED <<serving, broken, aim, asker, switches, breaks>>

(* The host is read when the thread is made.                                 *)
StartsAsker ==
  /\ look.pc = "start"
  /\ asker' = [pc |-> "asks", host |-> watch.host, of |-> serving, says |-> "unknown"]
  /\ look' = [look EXCEPT !.pc = "sleep"]
  /\ UNCHANGED <<serving, broken, aim, watch, switches, breaks>>

(* The answer through the tunnel, or none because the core has no port now.  *)
AskerHears(known) ==
  /\ asker.pc = "asks"
  /\ asker' = [asker EXCEPT !.pc = "checks",
                 !.says = IF ~known THEN "unknown" ELSE IF asker.of \in broken THEN "dead" ELSE "alive"]
  /\ UNCHANGED <<serving, broken, aim, watch, look, switches, breaks>>

Heard == watch.host = asker.host

AskerChecks ==
  /\ asker.pc = "checks"
  /\ asker' = [asker EXCEPT !.pc = IF Heard THEN "writes" ELSE "leaves"]
  /\ UNCHANGED <<serving, broken, aim, watch, look, switches, breaks>>

AskerWrites ==
  /\ asker.pc = "writes"
  /\ watch' = [watch EXCEPT !.verdict = asker.says, !.about = asker.of]
  /\ asker' = [asker EXCEPT !.pc = "leaves"]
  /\ UNCHANGED <<serving, broken, aim, look, switches, breaks>>

(* Mutant of AskerLeaves: only an answer that was heard clears the flag.     *)
AskerLeavesBusy ==
  /\ asker.pc = "leaves"
  /\ watch' = [watch EXCEPT !.confirming = asker.of # watch.about]
  /\ asker' = NoAsker
  /\ UNCHANGED <<serving, broken, aim, look, switches, breaks>>

AskerLeaves ==
  /\ asker.pc = "leaves"
  /\ watch' = [watch EXCEPT !.confirming = FALSE]
  /\ asker' = NoAsker
  /\ UNCHANGED <<serving, broken, aim, look, switches, breaks>>

WatchNext ==
  \/ \E s \in Watched : Switches(s) \/ Breaks(s)
  \/ Aims
  \/ \E saw \in {"answers", "silence", "idle"} : Samples(saw)
  \/ JudgesTraffic \/ Counts \/ StartsAsker
  \/ \E known \in BOOLEAN : AskerHears(known)
  \/ AskerChecks \/ AskerWrites \/ AskerLeaves

(* Threads run, the question has a timeout of six seconds.                   *)
WatchFairness ==
  /\ WF_watchVars(Aims) /\ WF_watchVars(\E saw \in {"answers", "silence", "idle"} : Samples(saw))
  /\ WF_watchVars(JudgesTraffic) /\ WF_watchVars(Counts) /\ WF_watchVars(StartsAsker)
  /\ WF_watchVars(\E known \in BOOLEAN : AskerHears(known))
  /\ WF_watchVars(AskerChecks) /\ WF_watchVars(AskerWrites) /\ WF_watchVars(AskerLeaves)

WatchSpec == WatchInit /\ [][WatchNext]_watchVars /\ WatchFairness

-----------------------------------------------------------------------------
(* The type of every variable; one thread asks at a time.                    *)
WatchTypeOK ==
  /\ serving \in Watched /\ broken \subseteq Watched
  /\ aim \in {"host", "verdict", "since", "done"}
  /\ watch.verdict \in Verdicts /\ watch.since \in 0..Suspect /\ watch.pause \in 0..Cooldown
  /\ look.pc \in {"sleep", "verdict", "count", "start"}
  /\ asker.pc # "none" => watch.confirming

(* A server whose requests go unanswered from some time on is found out, as  *)
(* long as the question is answered at all.                                  *)
Suffers == aim = "done" /\ serving \in broken /\ (look.pc = "count" => look.saw = "silence")
DeadFound ==
  <>[](Suffers /\ (asker.pc = "checks" => asker.says # "unknown")) => <>(watch.verdict = "dead")

(* live_metrics_worker.py:181: "the old verdict belongs to the old server    *)
(* and is dropped".                                                          *)
OldDropped == aim = "done" /\ watch.verdict = "dead" => watch.about = serving

(* One thread asks at a time, and a dead link is found.                      *)
LinkFound == []WatchTypeOK /\ DeadFound
=============================================================================
