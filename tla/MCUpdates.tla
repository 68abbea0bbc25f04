------------------------------ MODULE MCUpdates ------------------------------
(* The updates side by side: the rounds of the window, one download, the     *)
(* names of the server, one check, the thread that listens, the store of a   *)
(* release, the script that makes one, the updates of the cores, the         *)
(* handoff to the installer.  They share no state here, so each behaviour    *)
(* moves the one `focus` names.                                              *)
EXTENDS UpdateRounds, UpdateDownload, ReleaseCheck, ReleaseListener,
        ReleasePublish, CoreUpdate, InstallHandoff

CONSTANTS b1, b2, m1, m2, d1, d2

VARIABLE focus

Parts == {"rounds", "download", "names", "check", "listener", "store", "release", "cores", "handoff"}
updatesVars ==
  <<focus, roundsVars, downloadVars, namesVars, checkVars, listenerVars, fetchVars, releaseVars, coreVars, handoffVars>>

(* What stands still starts in one way only; a start of the rounds with the  *)
(* connection the other way is one click away.                               *)
UpdatesInit ==
  /\ focus \in Parts
  /\ RoundsInit /\ (focus # "rounds" => ~linked /\ \A v \in Version : flaw[v] = "none")
                /\ (focus = "rounds" => (linked <=> \A v \in Version : flaw[v] # "corrupt"))
  /\ DownloadInit
  /\ (focus # "download" => (\A p \in DOMAIN copies : copies[p] = "right") /\ \A f \in File : local[f] = "same")
  /\ NamesInit /\ (focus # "names" => opens = {} /\ entry = <<>> /\ published.order = <<>>)
  /\ CheckInit
  /\ ListenerInit /\ (focus # "listener" => ~enabled /\ report = "none")
  /\ FetchInit /\ (focus # "store" => honest \cup resumes = {} /\ \A p \in Piece : onDisk[p] = "new")
               /\ (focus = "store" => resumes = {d1} /\ d1 \in honest /\ \A p \in Piece \ Patched : onDisk[p] = "old")
  /\ ReleaseInit
  /\ HandoffInit
  /\ CoreInit /\ (focus # "cores" => ~link)

UpdatesNext ==
  \/ focus = "rounds" /\ RoundsNext
       /\ UNCHANGED <<focus, downloadVars, namesVars, checkVars, listenerVars, fetchVars, releaseVars, coreVars, handoffVars>>
  \/ focus = "download" /\ DownloadNext
       /\ UNCHANGED <<focus, roundsVars, namesVars, checkVars, listenerVars, fetchVars, releaseVars, coreVars, handoffVars>>
  \/ focus = "names" /\ NamesNext
       /\ UNCHANGED <<focus, roundsVars, downloadVars, checkVars, listenerVars, fetchVars, releaseVars, coreVars, handoffVars>>
  \/ focus = "check" /\ CheckNext
       /\ UNCHANGED <<focus, roundsVars, downloadVars, namesVars, listenerVars, fetchVars, releaseVars, coreVars, handoffVars>>
  \/ focus = "listener" /\ ListenerNext
       /\ UNCHANGED <<focus, roundsVars, downloadVars, namesVars, checkVars, fetchVars, releaseVars, coreVars, handoffVars>>
  \/ focus = "store" /\ FetchNext
       /\ UNCHANGED <<focus, roundsVars, downloadVars, namesVars, checkVars, listenerVars, releaseVars, coreVars, handoffVars>>
  \/ focus = "release" /\ ReleaseNext
       /\ UNCHANGED <<focus, roundsVars, downloadVars, namesVars, checkVars, listenerVars, fetchVars, coreVars, handoffVars>>
  \/ focus = "cores" /\ CoreNext
       /\ UNCHANGED <<focus, roundsVars, downloadVars, namesVars, checkVars, listenerVars, fetchVars, releaseVars, handoffVars>>
  \/ focus = "handoff" /\ HandoffNext
       /\ UNCHANGED <<focus, roundsVars, downloadVars, namesVars, checkVars, listenerVars, fetchVars, releaseVars, coreVars>>

(* The fairness each module states, of the component in focus, where a       *)
(* liveness property below needs it.                                         *)
UpdatesFairness ==
  /\ WF_roundsVars(focus = "rounds" /\ Soon) /\ WF_roundsVars(focus = "rounds" /\ HalfHour)
  /\ WF_roundsVars(focus = "rounds" /\ CheckEnds) /\ WF_roundsVars(focus = "rounds" /\ DownloadEnds)
  /\ WF_roundsVars(focus = "rounds" /\ Apply) /\ WF_roundsVars(focus = "rounds" /\ Await)
  /\ WF_roundsVars(focus = "rounds" /\ Install) /\ WF_roundsVars(focus = "rounds" /\ Free)
  /\ WF_roundsVars(focus = "rounds" /\ Retry)
  /\ WF_namesVars(focus = "names" /\ CheckSteps) /\ WF_listenerVars(focus = "listener" /\ ThreadSteps)
  /\ \A j \in Jobs : WF_coreVars(focus = "cores" /\ JobSteps(j))
  /\ WF_coreVars(focus = "cores" /\ BoxSteps) /\ WF_coreVars(focus = "cores" /\ Moves)
  /\ WF_coreVars(focus = "cores" /\ (MoveEnds \/ Stopped))

UpdatesSpec == UpdatesInit /\ [][UpdatesNext]_updatesVars /\ UpdatesFairness

(* --- Values --------------------------------------------------------------- *)


BootNames    == <<b1, b2>>
SiteLists    == {[order |-> <<m1, b1>>, blocked |-> {b1}], [order |-> <<>>, blocked |-> {}]}
EntryPages   == {<<>>, <<b1, m1, m2>>}
MirrorHosts  == <<"git2", "git3", "git">>
DepotPlaces  == (d1 :> 1 @@ d2 :> 2)
CoreRel(v, p, d, l) == [v |-> v, pre |-> p, digest |-> d, dll |-> l]
CoreFeeds ==
  {<<>>, <<CoreRel(2, "beta", TRUE, TRUE), CoreRel(2, "none", TRUE, TRUE), CoreRel(3, "none", FALSE, FALSE)>>,
   <<CoreRel(3, "none", TRUE, FALSE)>>}

(* Whoever answers and whatever is published under whichever name, what is   *)
(* offered to the user is a signed release of one tagged commit, and the     *)
(* browser is led only to a name that answered.                              *)
OfferedIsReal == PublishSafe /\ CheckSafe /\ NamesSafe

(* Whatever the sources send and whatever is clicked meanwhile, what is put  *)
(* together is what the signed list names, a right copy is not refused, and  *)
(* at every moment of the handoff one whole program is there to run.         *)
PutTogetherRight == DownloadSafe /\ FetchSafe /\ CoreSafe /\ HandoffSafe

(* What an update had reached is not lost by a failure or by a restart:      *)
(* parts of a download, the place in the queue, the report, the pause after  *)
(* a failure, the connection, the program that stays.                        *)
ReachedIsKept == []ListenerTypeOK /\ RoundsKept /\ FetchKept /\ ListenerKept /\ HandoffKept

(* Nothing of an update hangs: the permission is used, the guard opened, the *)
(* names found, the server known, a stopped connection comes back.           *)
UpdatesProgress ==
  RoundsProgress /\ (focus = "names" => NamesAreFound) /\ (focus = "listener" => ListenerKnows) /\ StoppedReturns
=============================================================================
