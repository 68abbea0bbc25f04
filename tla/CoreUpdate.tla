----------------------------- MODULE CoreUpdate -----------------------------
(* The replacement of the cores at the user's request: xray.exe (with        *)
(* wintun.dll) after a stop of the connection, which is begun again          *)
(* afterwards, and sing-box.exe, which is replaced when nothing runs it.     *)
(* engines/*/core_updater.py and application/update_service.py; the silent   *)
(* variant has no caller and is left out.  Versions are numbers.             *)
(* A behaviour updates one of the two cores: they share the connection only. *)
EXTENDS Integers, Sequences, FiniteSets

CONSTANTS Feeds,      (* lists of releases the site may answer with          *)
          Channel,    (* xray_release_channel                                *)
          FirstCore,  (* version installed at first                          *)
          MaxJobs,    (* workers of Xray started                             *)
          MaxClicks,  (* clicks on connect and disconnect                    *)
          MaxHitches  (* failures of the network, the disk and a stop        *)

ASSUME CoreAssumption ==
  /\ MaxJobs \in Nat /\ MaxClicks \in Nat /\ MaxHitches \in Nat /\ FirstCore \in Nat
  /\ Channel \in {"stable", "beta", "nightly"}
  /\ Feeds \subseteq Seq([v : Nat, pre : {"none", "beta", "nightly"}, digest : BOOLEAN, dll : BOOLEAN])

VARIABLES
  link,       (* the core runs                                               *)
  moves,      (* the transition under way: "none", "update" (stop for an     *)
              (* update), "stop", "start"                                    *)
  wish,       (* _desired_connected                                          *)
  again,      (* _reconnect_after_xray_update                                *)
  slot,       (* _xray_update_worker, 0 is None                              *)
  jobs,       (* the workers of Xray                                         *)
  core,       (* the installed files                                         *)
  boxJob, box,(* the worker and the file of sing-box                         *)
  crossed,    (* history: two installations were under way at the same time  *)
  spare       (* what is left of each bound                                  *)

linkVars == <<link, moves, wish>>
coreVars == <<linkVars, again, slot, jobs, core, boxJob, box, crossed, spare>>

Jobs == 1..MaxJobs
NoJob == [at |-> "none", apply |-> FALSE, rel |-> 0, digest |-> FALSE, dll |-> FALSE, good |-> TRUE, end |-> "none"]
Ended(j) == jobs[j].at \in {"none", "gone"}
Installing(j) == jobs[j].at \in {"files", "dll", "bak"}

CoreInit ==
  /\ link \in BOOLEAN /\ moves = "none" /\ wish = link /\ again = FALSE /\ slot = 0
  /\ jobs = [j \in Jobs |-> NoJob] /\ boxJob = NoJob
  /\ core = [exe |-> FirstCore, dll |-> FirstCore, bak |-> 0, sound |-> TRUE] /\ box = FirstCore
  /\ spare = [clicks |-> MaxClicks, hitches |-> MaxHitches] /\ crossed = FALSE

(* --- Which release -------------------------------------------------------- *)

(* Versions are ordered as their numbers are.                                *)
NewerCore(r, v) == r.v > v
(* The first release of the channel, in the order of the list.               *)
OfChannel(r) == IF Channel = "stable" THEN r.pre = "none" ELSE r.pre = Channel
Picked(feed) ==
  LET fits == {i \in DOMAIN feed : OfChannel(feed[i])} IN
  {feed[i] : i \in {k \in fits : \A j \in fits : k <= j}}
(* sing-box: the newest stable one.                                          *)
BoxPicked(feed) ==
  LET fits == {i \in DOMAIN feed : feed[i].pre = "none"} IN
  {feed[i] : i \in {k \in fits : \A j \in fits : feed[k].v >= feed[j].v}}

(* --- The connection around it --------------------------------------------- *)

Idle == UNCHANGED <<again, slot, jobs, core, boxJob, box, crossed>>

(* The user connects or disconnects; a transition makes it so.               *)
Wishes ==
  /\ spare.clicks > 0 /\ spare' = [spare EXCEPT !.clicks = @ - 1]
  /\ wish' = ~wish /\ UNCHANGED <<link, moves>> /\ Idle

Moves ==
  /\ moves = "none" /\ wish # link /\ moves' = IF wish THEN "start" ELSE "stop"
  /\ UNCHANGED <<link, wish, spare>> /\ Idle

MoveEnds ==
  /\ moves \in {"start", "stop"} /\ link' = (moves = "start") /\ moves' = "none"
  /\ UNCHANGED <<wish, spare>> /\ Idle

(* --- The workers of Xray -------------------------------------------------- *)

(* _start_update_worker: it trusts the slot that its callers looked at.      *)
Starts(apply) ==
  /\ crossed' = (crossed \/ (apply /\ \E k \in Jobs : jobs[k].apply /\ ~Ended(k)))
  /\ \E j \in Jobs :
       /\ jobs[j].at = "none" /\ \A k \in 1..(j - 1) : jobs[k].at # "none"
       /\ slot' = j /\ jobs' = [jobs EXCEPT ![j] = [NoJob EXCEPT !.at = "asks", !.apply = apply]]

Alone == boxJob.at = "none"
CoreFree == Alone /\ slot \notin {j \in Jobs : ~Ended(j)}

(* A check, or an update while disconnected, starts at once.                 *)
ClickXray(apply) ==
  /\ CoreFree /\ ~(apply /\ link) /\ again' = FALSE /\ Starts(apply)
  /\ UNCHANGED <<linkVars, core, boxJob, box, spare>>

(* While connected the connection is stopped first.                          *)
ClickStop ==
  /\ CoreFree /\ link /\ moves = "none" /\ \E j \in Jobs : jobs[j].at = "none"
  /\ wish' = FALSE /\ moves' = "update" /\ UNCHANGED <<link, spare>> /\ Idle

Stopped ==
  /\ moves = "update" /\ moves' = "none" /\ link' = FALSE /\ again' = TRUE /\ Starts(TRUE)
  /\ UNCHANGED <<wish, core, boxJob, box, spare>>

StopFails ==
  /\ moves = "update" /\ spare.hitches > 0 /\ spare' = [spare EXCEPT !.hitches = @ - 1]
  /\ moves' = "none" /\ again' = FALSE /\ UNCHANGED <<link, wish, slot, jobs, core, boxJob, box, crossed>>

JobAt(j, s) == jobs' = [jobs EXCEPT ![j].at = s]
JobFails(j) == jobs' = [jobs EXCEPT ![j].at = "told", ![j].end = "error"]
Hitch == spare.hitches > 0 /\ spare' = [spare EXCEPT !.hitches = @ - 1]

(* The release is asked for and compared with what is installed.             *)
Asks(j) ==
  /\ jobs[j].at = "asks"
  /\ \/ \E f \in Feeds :
          /\ \/ Picked(f) = {} /\ JobFails(j)
             \/ \E r \in Picked(f) :
                  \/ ~NewerCore(r, core.exe) /\ jobs' = [jobs EXCEPT ![j].at = "told", ![j].end = "up_to_date"]
                  \/ /\ NewerCore(r, core.exe)
                     /\ IF jobs[j].apply
                        THEN jobs' = [jobs EXCEPT ![j] = [@ EXCEPT !.at = "loads", !.rel = r.v, !.digest = r.digest, !.dll = r.dll]]
                        ELSE jobs' = [jobs EXCEPT ![j].at = "told", ![j].end = "available"]
          /\ UNCHANGED spare
     \/ Hitch /\ JobFails(j)
  /\ UNCHANGED <<linkVars, again, slot, core, boxJob, box, crossed>>

(* The archive may arrive damaged.                                           *)
Loads(j) ==
  /\ jobs[j].at = "loads"
  /\ \/ JobAt(j, "hash") /\ UNCHANGED spare
     \/ Hitch /\ (JobFails(j) \/ jobs' = [jobs EXCEPT ![j].at = "hash", ![j].good = FALSE])
  /\ UNCHANGED <<linkVars, again, slot, core, boxJob, box, crossed>>

(* A mutant: an archive without a checksum is taken.                         *)
HashAgreesIfAny(j) == jobs[j].digest => jobs[j].good

(* No checksum, no installation; nor with another one.                       *)
HashAgrees(j) == jobs[j].digest /\ jobs[j].good

Hashes(j) ==
  /\ jobs[j].at = "hash"
  /\ IF HashAgrees(j) THEN JobAt(j, "files") ELSE JobFails(j)
  /\ UNCHANGED <<linkVars, again, slot, core, boxJob, box, spare, crossed>>

(* Windows does not replace the file of a running program.                   *)
InUse == link \/ moves = "start"

(* The executable is replaced, then the library; a failure of either puts    *)
(* back what was replaced.                                                   *)
PutExe(j) ==
  /\ jobs[j].at = "files"
  /\ \/ /\ ~InUse /\ core' = [core EXCEPT !.exe = jobs[j].rel, !.sound = jobs[j].good]
        /\ jobs' = [jobs EXCEPT ![j].at = IF jobs[j].dll THEN "dll" ELSE "bak", ![j].rel = core.exe]
        /\ UNCHANGED spare
     \/ InUse /\ JobFails(j) /\ UNCHANGED <<core, spare>>
     \/ Hitch /\ JobFails(j) /\ UNCHANGED core
  /\ UNCHANGED <<linkVars, again, slot, boxJob, box, crossed>>

(* From here on `rel` is the version that was replaced.                      *)
PutDll(j) ==
  /\ jobs[j].at = "dll"
  /\ \/ core' = [core EXCEPT !.dll = core.exe] /\ JobAt(j, "bak") /\ UNCHANGED spare
     \/ Hitch /\ core' = [core EXCEPT !.exe = jobs[j].rel] /\ JobFails(j)
  /\ UNCHANGED <<linkVars, again, slot, boxJob, box, crossed>>

KeepBak(j) ==
  /\ jobs[j].at = "bak"
  /\ \/ /\ core' = [core EXCEPT !.bak = jobs[j].rel]
        /\ jobs' = [jobs EXCEPT ![j].at = "told", ![j].end = "updated"] /\ UNCHANGED spare
     \/ Hitch /\ JobFails(j) /\ UNCHANGED core
  /\ UNCHANGED <<linkVars, again, slot, boxJob, box, crossed>>

(* on_xray_update_worker_done: whichever worker it was.                      *)
XrayDone(j) ==
  /\ jobs[j].at = "told" /\ JobAt(j, "gone") /\ slot' = 0 /\ again' = FALSE
  /\ wish' = (wish \/ again)
  /\ UNCHANGED <<link, moves, core, boxJob, box, spare, crossed>>

(* --- sing-box ------------------------------------------------------------- *)

ClickBox(apply) ==
  /\ boxJob.at = "none" /\ (\A j \in Jobs : jobs[j].at = "none") /\ boxJob' = [NoJob EXCEPT !.at = "asks", !.apply = apply]
  /\ UNCHANGED <<linkVars, again, slot, jobs, core, box, spare, crossed>>

BoxAsks ==
  /\ boxJob.at = "asks"
  /\ \/ \E f \in Feeds :
          /\ \/ BoxPicked(f) = {} /\ boxJob' = [boxJob EXCEPT !.at = "told", !.end = "error"]
             \/ \E r \in BoxPicked(f) :
                  \/ ~NewerCore(r, box) /\ boxJob' = [boxJob EXCEPT !.at = "told", !.end = "up_to_date"]
                  \/ /\ NewerCore(r, box)
                     /\ boxJob' = IF boxJob.apply THEN [boxJob EXCEPT !.at = "files", !.rel = r.v]
                                  ELSE [boxJob EXCEPT !.at = "told", !.end = "available"]
          /\ UNCHANGED spare
     \/ Hitch /\ boxJob' = [boxJob EXCEPT !.at = "told", !.end = "error"]
  /\ UNCHANGED <<linkVars, again, slot, jobs, core, box, crossed>>

(* Loaded, unpacked, staged beside, and put in place in one rename.          *)
BoxInstalls ==
  /\ boxJob.at = "files"
  /\ \/ ~InUse /\ box' = boxJob.rel /\ boxJob' = [boxJob EXCEPT !.at = "told", !.end = "updated"] /\ UNCHANGED spare
     \/ InUse /\ boxJob' = [boxJob EXCEPT !.at = "told", !.end = "error"] /\ UNCHANGED <<box, spare>>
     \/ Hitch /\ boxJob' = [boxJob EXCEPT !.at = "told", !.end = "error"] /\ UNCHANGED box
  /\ UNCHANGED <<linkVars, again, slot, jobs, core, crossed>>

BoxDone ==
  /\ boxJob.at = "told" /\ boxJob' = [boxJob EXCEPT !.at = "gone"]
  /\ UNCHANGED <<linkVars, again, slot, jobs, core, box, spare, crossed>>

JobSteps(j) == Asks(j) \/ Loads(j) \/ Hashes(j) \/ PutExe(j) \/ PutDll(j) \/ KeepBak(j) \/ XrayDone(j)
BoxSteps == BoxAsks \/ BoxInstalls \/ BoxDone

CoreNext ==
  \/ Wishes \/ Moves \/ MoveEnds \/ ClickStop \/ Stopped \/ StopFails \/ BoxSteps
  \/ \E b \in BOOLEAN : ClickXray(b) \/ ClickBox(b)
  \/ \E j \in Jobs : JobSteps(j)

(* Threads run, transitions end.                                             *)
CoreFairness ==
  /\ \A j \in Jobs : WF_coreVars(JobSteps(j))
  /\ WF_coreVars(BoxSteps) /\ WF_coreVars(Moves) /\ WF_coreVars(MoveEnds \/ Stopped)
CoreSpec == CoreInit /\ [][CoreNext]_coreVars /\ CoreFairness

(* --- Properties ----------------------------------------------------------- *)

CoreTypeOK ==
  /\ link \in BOOLEAN /\ wish \in BOOLEAN /\ again \in BOOLEAN /\ slot \in 0..MaxJobs
  /\ moves \in {"none", "update", "stop", "start"} /\ core.exe \in Nat /\ core.dll \in Nat /\ box \in Nat

(* What is installed came whole and is never older than at first.  Where no  *)
(* two workers installed at the same time (the code does not see to that,    *)
(* see OneInstall), the library is not ahead of its executable once nothing  *)
(* is being installed, and a core that is said to be updated is.             *)
CoreWhole ==
  /\ core.sound /\ core.exe >= FirstCore /\ box >= FirstCore
  /\ ~crossed =>
       /\ (\A j \in Jobs : ~Installing(j)) => core.dll <= core.exe
       /\ \A j \in Jobs : jobs[j].at = "told" /\ jobs[j].end = "updated" => core.exe > FirstCore

(* Whatever is clicked and fails, what is installed is whole and checked.    *)
CoreSafe == CoreTypeOK /\ CoreWhole

(* The connection an update stopped is begun again, whatever came of the     *)
(* update.                                                                   *)
StoppedReturns == again ~> (wish \/ (~again /\ spare.clicks < MaxClicks))

(* One update at a time ("Обновление Xray уже выполняется",                  *)
(* update_service.py:15).  Not so: a check started while the connection is   *)
(* being stopped makes way, at its end, for a third worker beside the update.*)
OneInstall == \A j, k \in Jobs : j # k /\ jobs[j].apply /\ jobs[k].apply => Ended(j) \/ Ended(k)

(* The connection is not begun again under an update.  Not so: the end of    *)
(* such a check does it.                                                     *)
QuietInstall == [][wish' /\ ~wish /\ spare' = spare => \A j \in Jobs : Ended(j)' ]_coreVars
=============================================================================
