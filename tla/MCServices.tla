----------------------------- MODULE MCServices -----------------------------
(* The services around a connection and what the program does by itself,     *)
(* side by side: the system proxy, the steps, the state on disk, the         *)
(* templates, the traffic, the changes of server, the pool of the Xray core, *)
(* the watch over the link.  They share no state, so each behaviour moves    *)
(* the one `focus` names.                                                    *)
EXTENDS SystemProxy, StepRunner, StateStore, TemplateSync, SmartSwitch, XrayPool, LinkWatch

VARIABLE focus

Parts == {"proxy", "runner", "store", "template", "traffic", "choice", "pool", "link"}
dataVars == <<storeVars, templateVars, trafficVars>>
backVars == <<smartVars, poolVars, watchVars>>
servicesVars == <<focus, proxyVars, runnerVars, dataVars, backVars>>

(* What stands still starts in one way only.                                 *)
ServicesInit ==
  /\ focus \in Parts
  /\ ProxyInit /\ (focus # "proxy" => ~wanted)
  /\ RunnerInit
  /\ StoreInit /\ (focus # "store" => disk.key = NoPhrase /\ form = "whole")
  /\ TemplateInit /\ (focus # "template" => installed = NoFile)
  /\ TrafficInit /\ SmartInit
  /\ PoolInit /\ (focus # "pool" => \A m \in Member : made[m].takes)
  /\ WatchInit

ServicesNext ==
  \/ focus = "proxy" /\ ProxyNext
       /\ UNCHANGED <<focus, runnerVars, storeVars, templateVars, trafficVars, smartVars, poolVars, watchVars>>
  \/ focus = "runner" /\ RunnerNext
       /\ UNCHANGED <<focus, proxyVars, storeVars, templateVars, trafficVars, smartVars, poolVars, watchVars>>
  \/ focus = "store" /\ StoreNext
       /\ UNCHANGED <<focus, proxyVars, runnerVars, templateVars, trafficVars, smartVars, poolVars, watchVars>>
  \/ focus = "template" /\ TemplateNext
       /\ UNCHANGED <<focus, proxyVars, runnerVars, storeVars, trafficVars, smartVars, poolVars, watchVars>>
  \/ focus = "traffic" /\ TrafficNext
       /\ UNCHANGED <<focus, proxyVars, runnerVars, storeVars, templateVars, smartVars, poolVars, watchVars>>
  \/ focus = "choice" /\ SmartNext
       /\ UNCHANGED <<focus, proxyVars, runnerVars, storeVars, templateVars, trafficVars, poolVars, watchVars>>
  \/ focus = "pool" /\ PoolNext
       /\ UNCHANGED <<focus, proxyVars, runnerVars, storeVars, templateVars, trafficVars, smartVars, watchVars>>
  \/ focus = "link" /\ WatchNext
       /\ UNCHANGED <<focus, proxyVars, runnerVars, storeVars, templateVars, trafficVars, smartVars, poolVars>>

(* The fairness each module states, for the one that moves.                  *)
ServicesFairness ==
  /\ WF_proxyVars(focus = "proxy" /\ Thread)
  /\ WF_proxyVars(focus = "proxy" /\ (Leave \/ Left))
  /\ WF_runnerVars(focus = "runner" /\ (Begin \/ Resume))
  /\ \A s \in Step : WF_runnerVars(focus = "runner" /\ (Deadline(s) \/ TimerFires(s)))
  /\ WF_storeVars(focus = "store" /\ SaveTimer)
  /\ WF_storeVars(focus = "store" /\ (TakeSnapshot \/ ReplaceFile))
  /\ WF_smartVars(focus = "choice" /\ BeginMove) /\ WF_smartVars(focus = "choice" /\ ConnectEnds)
  /\ WF_smartVars(focus = "choice" /\ Disconnected) /\ WF_smartVars(focus = "choice" /\ HotEnds)
  /\ WF_smartVars(focus = "choice" /\ smart.phase # "idle" /\ \E dead \in BOOLEAN : Metrics(dead, "idle", TRUE))
  /\ WF_watchVars(focus = "link" /\ Aims)
  /\ WF_watchVars(focus = "link" /\ \E saw \in {"answers", "silence", "idle"} : Samples(saw))
  /\ WF_watchVars(focus = "link" /\ JudgesTraffic) /\ WF_watchVars(focus = "link" /\ Counts)
  /\ WF_watchVars(focus = "link" /\ StartsAsker)
  /\ WF_watchVars(focus = "link" /\ \E aware \in BOOLEAN : AskerHears(aware))
  /\ WF_watchVars(focus = "link" /\ AskerChecks) /\ WF_watchVars(focus = "link" /\ AskerWrites)
  /\ WF_watchVars(focus = "link" /\ AskerLeaves)

ServicesSpec == ServicesInit /\ [][ServicesNext]_servicesVars /\ ServicesFairness

(* --- Values --------------------------------------------------------------- *)

SomeFaults == [f \in ProxyFaults |-> IF f = "kill" THEN 2 ELSE 1]
StoreSome  == [f \in StoreFaults |-> IF f = "quit" THEN 2 ELSE 1]
(* A user with a proxy of his own, and one with none.                        *)
UserProxies == {[on |-> TRUE, server |-> "user"], [on |-> FALSE, server |-> "none"]}

(* Three releases: a section changes, one goes, one comes, one comes back.   *)
Templates ==
  <<("dns" :> "a") @@ ("route" :> "a"),
    ("dns" :> "b") @@ ("log" :> "a"),
    ("dns" :> "c") @@ ("log" :> "c") @@ ("route" :> "b")>>

CONSTANTS na, nb, nc

Ranks  == (na :> 3 @@ nb :> 1 @@ nc :> 2)
(* The server of the start is slow at first; the others turn slow at some    *)
(* later time.                                                               *)
Speeds == [n \in {na, nb, nc} |-> [t \in 0..MaxClock |->
            CASE n = na -> IF t < 2 THEN 1 ELSE 8
              [] n = nb -> IF t = 3 THEN 1 ELSE 4
              [] n = nc -> IF t = 2 THEN 1 ELSE 5]]
Pauses == <<1, 2, 3>>
(* Two servers of one host.                                                  *)
Hosts  == (na :> "h" @@ nb :> "h")

(* What is on the disk is newest at an exit and never older; templates keep  *)
(* what is the user's; the history of the traffic adds up.                   *)
DataKept == StoreKept /\ TemplatesKept /\ TrafficKept

(* Nothing hangs: the exit, a run of steps, an edit on its way to the disk, a *)
(* check of the server; a dead link is found.                                *)
ServicesProgress ==
  /\ ClosingEnds /\ RunEnds /\ EditsReachDisk /\ CheckEnds
  /\ (focus = "link" => LinkFound)
=============================================================================
