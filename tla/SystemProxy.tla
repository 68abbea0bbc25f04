---------------------------- MODULE SystemProxy ----------------------------
(* The Windows system proxy: platform/windows/proxy_manager.py and everybody *)
(* who calls it.  The program writes its own address over what the user had  *)
(* set and must give that back: after a disconnect, after a crash of a core, *)
(* when it exits, and when it starts after having been killed.  Writes go to *)
(* one worker thread in the order of requests; the thread makes them one     *)
(* registry value at a time.                                                 *)
EXTENDS Naturals, Sequences

CONSTANTS
  OwnProxy,       \* what the user may have set: records [on, server]
  ProxyBudget,    \* [ProxyFaults -> Nat], bound: failures of each kind
  MaxSessions     \* bound: starts, connections and changes of the setting

Ours    == [on |-> TRUE, server |-> "ours"]
Off     == [on |-> FALSE, server |-> "none"]
ProxyFaults == {"kill", "write", "persist", "slow", "core"}
Setting == [on : BOOLEAN, server : {"none", "user", "ours"}]

(* A copy of a setting: none, or the one.                                    *)
NoCopy     == {}
Copies     == {NoCopy} \cup {{s} : s \in Setting}

ASSUME SystemProxyAssumption ==
  /\ OwnProxy \subseteq [on : BOOLEAN, server : {"none", "user"}]
  /\ OwnProxy # {}
  /\ ProxyBudget \in [ProxyFaults -> Nat]
  /\ MaxSessions \in Nat

VARIABLES
  windows,     \* ProxyEnable and ProxyServer in the registry
  backup,      \* ProxyManager._backup
  backupFile,  \* what can be read from system_proxy_backup.json
  jobs,        \* calls in the queue of PROXY_EXECUTOR; the first one runs
  at,          \* what the thread does next for the first call
  target,      \* the copy `disable` writes back
  program,     \* life of the program
  session,     \* the core serves in proxy mode
  wanted,      \* settings.enable_system_proxy
  flow,        \* the generator that waits for its own call
  own,         \* history: what the user has set
  wiped,       \* history: a `disable` with no copy has switched the proxy off
  sessions,    \* starts, connections and changes so far
  proxyFaults  \* failures so far

proxyVars == <<windows, backup, backupFile, jobs, at, target, program, session,
               wanted, flow, own, wiped, sessions, proxyFaults>>
writer    == <<windows, backup, backupFile, at, target, own, wiped, proxyFaults>>

Call == [op : {"enable", "disable", "release"}, waits : BOOLEAN]

ProxyTypeOK ==
  /\ windows \in Setting /\ own \in OwnProxy
  /\ backup \in Copies /\ backupFile \in Copies /\ target \in Copies
  /\ jobs \in Seq(Call)
  /\ at \in {"start", "persist", "copy", "flag", "server", "forget", "unlink"}
  /\ program \in {"off", "recovering", "up", "closing", "leaving"}
  /\ flow \in {"idle", "connecting", "applying", "stopping"}
  /\ session \in BOOLEAN /\ wanted \in BOOLEAN /\ wiped \in BOOLEAN
  /\ sessions \in 0..MaxSessions
  /\ proxyFaults \in [ProxyFaults -> Nat]

ProxyInit ==
  /\ own \in OwnProxy /\ windows = own /\ wiped = FALSE
  /\ backup = NoCopy /\ backupFile = NoCopy /\ target = NoCopy
  /\ jobs = <<>> /\ at = "start"
  /\ program = "off" /\ session = FALSE /\ flow = "idle"
  /\ wanted \in BOOLEAN
  /\ sessions = 0 /\ proxyFaults = [f \in ProxyFaults |-> 0]

MayFail(f) ==
  /\ proxyFaults[f] < ProxyBudget[f]
  /\ proxyFaults' = [proxyFaults EXCEPT ![f] = @ + 1]

(* --- The thread ---------------------------------------------------------- *)

(* A call the program does not wait for, and one a generator waits for.      *)
Nowait(op) == [op |-> op, waits |-> FALSE]
Await(op)  == [op |-> op, waits |-> TRUE]

Copy == IF backup # NoCopy THEN backup ELSE backupFile

IsOurs == windows.on /\ windows.server = "ours"

Running(op, step) == jobs # <<>> /\ Head(jobs).op = op /\ at = step

(* The end of the running call, as the generator that waits for it sees it.  *)
Answer(ok) ==
  IF ~Head(jobs).waits THEN UNCHANGED <<flow, session>>
  ELSE /\ flow' = "idle"
       /\ session' = CASE flow = "connecting" -> ok
                       [] flow = "stopping"   -> FALSE
                       [] OTHER               -> session
       (* a connection that could not set the proxy is taken down again      *)

Return(ok) ==
  /\ jobs' = Tail(jobs) \o IF Head(jobs).waits /\ flow = "connecting" /\ ~ok /\ wanted
                           THEN <<Nowait("disable")>> ELSE <<>>
  /\ at' = "start" /\ target' = NoCopy
  /\ Answer(ok)

Go(step) == at' = step /\ UNCHANGED <<jobs, flow, session>>

(* enable: what the registry holds is kept once, in memory and on disk.  *)
EnableBegins ==
  /\ Running("enable", "start")
  /\ IF backup = NoCopy THEN backup' = {windows} /\ Go("persist")
                        ELSE UNCHANGED backup /\ Go("flag")
  /\ UNCHANGED <<windows, backupFile, target, proxyFaults>>

(* _persist_backup truncates the file and then writes it; until then it      *)
(* cannot be read.  An error is swallowed.                                   *)
Persist ==
  /\ Running("enable", "persist")
  /\ \/ backupFile' = NoCopy /\ Go("copy") /\ UNCHANGED proxyFaults
     \/ MayFail("persist") /\ Go("flag") /\ UNCHANGED backupFile
  /\ UNCHANGED <<windows, backup, target>>

PersistDone ==
  /\ Running("enable", "copy")
  /\ backupFile' = backup /\ Go("flag")
  /\ UNCHANGED <<windows, backup, target, proxyFaults>>

EnableWrites ==
  /\ \/ Running("enable", "flag") /\ windows' = [windows EXCEPT !.on = TRUE] /\ Go("server")
     \/ Running("enable", "server") /\ windows' = [windows EXCEPT !.server = "ours"] /\ Return(TRUE)
  /\ target' = NoCopy
  /\ UNCHANGED <<backup, backupFile, proxyFaults>>

(* Mutant of DisableBegins: release_if_owned does not ask whose proxy it is.  *)
DisableAnyway ==
  /\ jobs # <<>> /\ at = "start" /\ Head(jobs).op \in {"disable", "release"}
  /\ target' = Copy /\ Go("flag")
  /\ UNCHANGED <<windows, backup, backupFile, proxyFaults>>

(* disable, and release_if_owned once it has found that there is something   *)
(* to give back.                                                             *)
DisableBegins ==
  /\ jobs # <<>> /\ at = "start"
  /\ \/ Head(jobs).op = "disable"
     \/ Head(jobs).op = "release" /\ (IsOurs \/ Copy # NoCopy)
  /\ target' = Copy /\ Go("flag")
  /\ UNCHANGED <<windows, backup, backupFile, proxyFaults>>

ReleaseNothing ==
  /\ Running("release", "start") /\ ~IsOurs /\ Copy = NoCopy
  /\ Return(TRUE)
  /\ UNCHANGED <<windows, backup, backupFile, proxyFaults>>

Disabling(step) == jobs # <<>> /\ Head(jobs).op # "enable" /\ at = step

(* disable() does not ask whose proxy it is: where nothing was kept, that of *)
(* the user is switched off and forgotten.                                   *)
DisableWrites ==
  LET given == IF target = NoCopy THEN Off ELSE CHOOSE s \in target : TRUE
  IN /\ \/ /\ Disabling("flag") /\ windows' = [windows EXCEPT !.on = given.on] /\ Go("server")
           /\ wiped' = (wiped \/ (Head(jobs).op = "disable" /\ target = NoCopy))
        \/ /\ Disabling("server") /\ windows' = [windows EXCEPT !.server = given.server] /\ Go("forget")
           /\ UNCHANGED wiped
     /\ UNCHANGED <<backup, backupFile, target, proxyFaults>>

DisableForgets ==
  /\ Disabling("forget")
  /\ backup' = NoCopy /\ Go("unlink")
  /\ UNCHANGED <<windows, backupFile, target, proxyFaults>>

DisableUnlinks ==
  /\ Disabling("unlink")
  /\ \/ backupFile' = NoCopy /\ UNCHANGED proxyFaults
     \/ backupFile # NoCopy /\ MayFail("persist") /\ UNCHANGED backupFile
  /\ Return(TRUE)
  /\ UNCHANGED <<windows, backup>>

(* OpenKey or SetValueEx fails: the call ends with its exception.            *)
WriteFails ==
  /\ jobs # <<>> /\ at \in {"start", "flag", "server"}
  /\ MayFail("write") /\ Return(FALSE)
  /\ UNCHANGED <<windows, backup, backupFile>>

Thread ==
  /\ \/ DisableWrites
     \/ /\ \/ EnableBegins \/ Persist \/ PersistDone \/ EnableWrites
           \/ DisableBegins \/ ReleaseNothing \/ DisableForgets \/ DisableUnlinks \/ WriteFails
        /\ UNCHANGED wiped
  /\ UNCHANGED <<program, wanted, own, sessions>>

(* --- The program ---------------------------------------------------------- *)

Submit(calls) == jobs' = jobs \o calls

(* main: the worker of the start gives back what a killed run left behind,   *)
(* before the controller exists.                                             *)
StartProgram ==
  /\ program = "off" /\ sessions < MaxSessions
  /\ program' = "recovering" /\ Submit(<<Nowait("release")>>)
  /\ UNCHANGED <<writer, session, wanted, flow, sessions>>

ProgramStarted ==
  /\ program = "recovering" /\ jobs = <<>>
  /\ program' = "up" /\ backup' = NoCopy
  /\ UNCHANGED <<windows, backupFile, jobs, at, target, session, wanted, flow, own, wiped,
                 sessions, proxyFaults>>

Idle == program = "up" /\ flow = "idle"

(* _apply_system_proxy_steps, at the end of a connect in proxy mode.         *)
Connect ==
  /\ Idle /\ ~session /\ sessions < MaxSessions
  /\ sessions' = sessions + 1 /\ flow' = "connecting"
  /\ Submit(<<Await(IF wanted THEN "enable" ELSE "disable")>>)
  /\ UNCHANGED <<writer, program, session, wanted>>

(* A connect in TUN mode gives the proxy back first.                         *)
ConnectTun ==
  /\ Idle /\ ~session /\ ~wanted /\ sessions < MaxSessions
  /\ sessions' = sessions + 1 /\ flow' = "applying"
  /\ Submit(<<Await("release")>>)
  /\ UNCHANGED <<writer, program, session, wanted>>

(* disconnect_current_steps: the stop of the core is heard by                *)
(* on_core_state_changed, which gives the proxy back, and then the generator *)
(* does it again.                                                            *)
Disconnect ==
  /\ Idle /\ session
  /\ IF wanted THEN /\ flow' = "stopping" /\ UNCHANGED session
                    /\ Submit(<<Nowait("disable"), Await("disable")>>)
               ELSE session' = FALSE /\ UNCHANGED <<flow, jobs>>
  /\ UNCHANGED <<writer, program, wanted, sessions>>

(* A core dies: handle_unexpected_disconnect, then on_core_state_changed.    *)
CoreDies ==
  /\ Idle /\ session /\ MayFail("core")
  /\ session' = FALSE
  /\ Submit(IF wanted THEN <<Nowait("disable"), Nowait("disable")>> ELSE <<>>)
  /\ UNCHANGED <<windows, backup, backupFile, at, target, own, wiped, program, wanted, flow, sessions>>

(* The user changes the setting; a live session applies it.                  *)
ToggleProxy ==
  /\ Idle /\ sessions < MaxSessions
  /\ sessions' = sessions + 1
  /\ wanted' = ~wanted
  /\ IF session THEN flow' = "applying" /\ Submit(<<Await(IF wanted THEN "disable" ELSE "enable")>>)
                ELSE UNCHANGED <<flow, jobs>>
  /\ UNCHANGED <<writer, program, session>>

(* WORKER_STEP_DEADLINE_MS is over: the generator goes on with an error, a   *)
(* call that has not begun is dropped, one that runs will still finish.      *)
Awaited == CHOOSE i \in DOMAIN jobs : jobs[i].waits

ProxyDeadline ==
  /\ flow # "idle" /\ program = "up" /\ MayFail("slow")
  /\ flow' = "idle"
  /\ session' = (session /\ flow = "applying")
  /\ LET begun == Awaited = 1
         left  == IF begun THEN [jobs EXCEPT ![1].waits = FALSE]
                  ELSE SubSeq(jobs, 1, Awaited - 1) \o SubSeq(jobs, Awaited + 1, Len(jobs))
     IN jobs' = left \o IF flow = "connecting" /\ wanted THEN <<Nowait("disable")>> ELSE <<>>
  /\ UNCHANGED <<windows, backup, backupFile, at, target, own, wiped, program, wanted, sessions>>

(* shutdown: disconnect, then give the proxy back, both through the queue.   *)
Close ==
  /\ Idle
  /\ program' = "closing" /\ session' = FALSE
  /\ Submit((IF session /\ wanted THEN <<Nowait("disable"), Nowait("disable")>> ELSE <<>>)
            \o <<Nowait("release")>>)
  /\ UNCHANGED <<writer, wanted, flow, sessions>>

(* The queue runs dry, then the handler of atexit tries once more.           *)
Leave ==
  /\ program = "closing" /\ jobs = <<>>
  /\ program' = "leaving" /\ backup' = NoCopy /\ Submit(<<Nowait("release")>>)
  /\ UNCHANGED <<windows, backupFile, at, target, session, wanted, flow, own, wiped, sessions, proxyFaults>>

Left ==
  /\ program = "leaving" /\ jobs = <<>>
  /\ program' = "off" /\ backup' = NoCopy
  /\ UNCHANGED <<windows, backupFile, jobs, at, target, session, wanted, flow, own, wiped,
                 sessions, proxyFaults>>

(* The process is killed, in the middle of a write or not.                   *)
Kill ==
  /\ program # "off" /\ MayFail("kill")
  /\ program' = "off" /\ jobs' = <<>> /\ at' = "start" /\ target' = NoCopy
  /\ backup' = NoCopy /\ flow' = "idle" /\ session' = FALSE
  /\ UNCHANGED <<windows, backupFile, wanted, own, wiped, sessions>>

ProxyNext ==
  \/ Thread
  \/ StartProgram \/ ProgramStarted \/ Connect \/ ConnectTun \/ Disconnect \/ CoreDies
  \/ ToggleProxy \/ ProxyDeadline \/ Close \/ Leave \/ Left \/ Kill

Quiet == program = "up" /\ flow = "idle" /\ jobs = <<>>

(* The registry could always be written, the copy could always be kept, and  *)
(* no two calls overran their deadline.                                      *)
Written == proxyFaults["write"] = 0
CopyKept == Written /\ proxyFaults["persist"] = 0
InTime == Written /\ proxyFaults["slow"] < 2

(* The user's own setting can always be found: in the registry or in one of  *)
(* the copies, whatever is killed and in the middle of which write, as long  *)
(* as the copy could be kept (enable keeps it before it touches the          *)
(* registry, disable drops it after).  Only a `disable` that finds no copy   *)
(* takes it, and release_if_owned never does.                                *)
OwnProxyKept == CopyKept /\ ~wiped => {own} \in {{windows}, backup, backupFile}

(* When nothing is in progress and no session uses it, Windows has the       *)
(* user's setting again: calls queued late or cut off by a deadline, a kill  *)
(* and a start have left nothing of the program behind.  One `disable` too   *)
(* many leaves no proxy at all.                                              *)
Home(s) == IF wiped THEN ~s.on ELSE s = own

GivenBack == Quiet /\ ~session /\ InTime /\ CopyKept => Home(windows)

(* While a session serves, Windows points at the program exactly when the    *)
(* setting says so.                                                          *)
ProxyFollowsSetting == Quiet /\ session /\ InTime => (windows = Ours) = wanted

(* The program does not leave with Windows pointing at it, however late a   *)
(* call was, and what a killed one left is made good before the next run.    *)
NothingLeft ==
  program \in {"leaving", "recovering"} /\ jobs = <<>> /\ Written => ~IsOurs

(* A program that closes ends: the queue of the thread runs dry, whatever    *)
(* fails in it (shutdown waits for its last call without a bound).           *)
ClosingEnds == program = "closing" ~> program = "off"

(* The thread goes on, and so does the exit.                                 *)
ProxyFairness == WF_proxyVars(Thread) /\ WF_proxyVars(Leave \/ Left)

ProxySpec == ProxyInit /\ [][ProxyNext]_proxyVars

(* The user's own proxy setting survives everything the program does.        *)
ProxySafe == ProxyTypeOK /\ OwnProxyKept /\ GivenBack /\ ProxyFollowsSetting /\ NothingLeft
=============================================================================
