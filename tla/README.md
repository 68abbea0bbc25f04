# Zapret KVN: a verification development

TLA+ models of the parts of the program in which order, failure and interruption matter, checked by TLC
on small instances, and theorems about them which TLAPS proves for every instance. Paths are relative
to the repository; `PROJECT.json` maps every definition to the lines it stands for, lists the hazards
at their lines and the mutant that each property catches.

    cd tla; tlc -workers 2 -config MC_switching.cfg MCConnection; tlapm Connection_proofs.tla

## 1. The system

A PyQt program for Windows. `AppController` (`xray_fluent/application/controller.py`) lives on the GUI
thread and owns the child processes: the sing-box *front*, a *sidecar* for servers sing-box does not
speak to itself (Xray, Hysteria or AmneziaWG) and *winws2* (Zapret), which disguises the first packets
to a server. What it decides it decides on the GUI thread; DNS, registry writes, downloads and calls of
the cores' control planes run on worker threads and answer by signals. Around it live services with
threads and files of their own, an updater that replaces the program while it runs, and the script that
makes the releases.

| Part (main sources) | State it keeps | Operations | Talks to |
|---|---|---|---|
| Transition queue (`application/controller.py`) | wish, generation, pending and scheduled flags, blocked signature, transition in flight | request, prepare, drain, run, finish, clean up | all below |
| Decision and selection (`transition_engine.py`, `signature_service.py`, `server_selection.py`, `node_service.py`) | committed server, pending target | is there work and which; request, commit, settle, drop | queue, steps, hot switch |
| Steps (`connection_service.py`, `runtime_services.py`, `engines/singbox/operations.py`) | locals of generators | connect, disconnect, reconnect, replace, roll back, update the proxy | cores, proxy |
| Hot switch (`controller.py`) | runner, its generation, one postponed request | pre-check, verify, re-point, capture | core API, queue |
| Bypass (`server_bypass.py`, `engines/zapret/manager.py`) | the generation that waits, rules, winws2 | look up, apply, stop first, fence, fail closed | winws2, queue |
| Zapret page and self-check (`ui/zapret_page.py`, `application/zapret_conflict.py`) | chosen preset, manual start, check in progress | start, stop, rename, save, check | winws2, queue |
| Core managers (`engines/{hysteria,amnezia,singbox,xray}/manager.py`, `runtime/amnezia/relay.go`) | process, flags, timers, files with secrets, pool | start, probe, stop, end late, retry | controller by signals |
| Hysteria recovery (`controller.py`) | rescue, due return, refused servers | switch once, return | queue |
| Planners (`engines/singbox/runtime_planner.py`, `application/xray_runtime_service.py`) | ports of the session | passes over the user's document | queue, cores |
| Runner of steps (`async_steps.py`) | generator, cancel flag, deadlines | resume, cancel, time out | steps |
| System proxy (`platform/windows/proxy_manager.py`) | copy in memory and on disk, registry | enable, disable, release, restore | worker thread |
| State, templates, traffic (`profiles/storage.py`, `application/template_sync.py`, `diagnostics/traffic_history.py`) | files, what is dirty, a writer thread | gather, write, load, merge, leave | disk |
| Smart switch, rotation, link watch (`smart_switch_service.py`, `auto_switch_service.py`, `live_metrics_worker.py`) | suspicion, measurements, pauses, verdict | observe, decide, switch | queue, probes |
| Servers (`controller.py`, `subscription_service.py`, `importer/subscription_http.py`, `network/ping_service.py`) | list, queue of updates, tags, hidden servers, rounds of pings | add, update, edit, hide, match, race two routes, ping | queue, GUI |
| Updates (`ui/main_window.py`, `updates/*`, `zapret_update/*`) | attempts on disk, permission, markers, journal, staged tree | check, listen, fetch, install, hand over, undo | server, installer |
| Cores' updates (`engines/*/core_updater.py`, `update_service.py`) | stopped connection, workers | fetch, verify, replace, reconnect | controller |
| Release script (`scripts/release_windows.py`) | state file, commits, site, store | phases, re-run, give up | git, site, Telegram |

What is hard here: a transition suspends at every step while the user, the processes and the lookups go
on; results arrive for requests that were superseded; the stop of a core the program asked for looks
like a crash; any step may fail with half of a replacement done; threads write one object without a
lock; the machine may lose power between two renames of an update, which is then undone by one of four
actors that may be cut off as well; a release is cut off at any phase and re-run. What makes it correct:

* connection: while a session serves, the selection is its server; the last request is carried out or
  given up with a reason; nobody acts for a superseded request; no process is doubled or left over;
* bypass: no tunnel to a bypassed server without its rule;
* managers: a start ends with one result and one message, and leaves no process, secret or flow behind;
* proxy, state, templates, traffic: what belonged to the user is given back, and nothing of it is lost;
* servers: the list, its tags, the selection and the session agree, and each server stays itself;
* updates: what is offered and put together is what was signed; files are of one version or the other;
  no attempt is repeated without end, and the connection comes back as it was.

## 2. The modules

A module has the state of one component as variables, an action per run of a handler (from the moment
the event loop calls it until it returns, or from one `yield` of a generator to the next), `...Init`,
`...Next`, a specification and its properties; the comment beside a variable names the attribute it
stands for. Bounds (`Max...`, budgets of faults) limit what the environment does, never the program. The
proofs use no bound but to know that it is a number.

| Module | Models |
|---|---|
| `ConnectionState` | constants, variables, derived facts, type invariant, initial states of the connection |
| `Decision` | server selection; is there work and which transition does it; what rule a server needs |
| `Coordinator` | requests, the kick, the drain, the end of a transition or pre-stop, answers of lookups, winws2 |
| `HotSwitch` | switching inside the pool of a running core |
| `RuntimeSteps` | the generators of connect, disconnect, reconnect, replacement, rollback, proxy update |
| `Connection` | clicks, crashes, next-state relation, fairness, properties |
| `StepContract`, `StepRunner` | what a transition relies on, and the runner that must provide it |
| `SystemProxy` | who owns the Windows proxy: thread, copies, kills, restarts |
| `StateStore` | gathered saves, the writer thread, ways in and out; the history of traffic |
| `TemplateSync` | the three-way merge of stock configurations and the two files it writes |
| `SmartSwitch` | switches away from a slow or dead server, and the rotation |
| `LinkWatch` | the verdict about the link by three threads without a lock |
| `XrayPool` | the Xray sidecar whose start converges by cutting refused servers out |
| `HysteriaProcess`, `HysteriaRecovery` | the Hysteria client with its one compatible restart; what follows a failed session |
| `AmneziaProcess`, `AmneziaRelay` | the AmneziaWG client; the SOCKS relay inside it, goroutine by goroutine |
| `SingboxProcess` | sing-box: check, probes, the gap after a TUN, late ends |
| `RuntimePlan` | the plan for sing-box, and again beside the running one; the passes over an Xray config |
| `ZapretControl` | the page of Zapret, presets, manual start, the self-check |
| `Subscriptions` | the queue of subscription updates (a place in it is a number drawn, from which the order follows), what an answer changes; the matching of servers |
| `SubscriptionFetch`, `PingService` | the race of two routes for one download; rounds of pings |
| `UpdateRounds` | timer, permission, check, download, installer and restart, with the record of attempts |
| `ReleaseCheck`, `ReleaseListener` | which release is believed, over mirrors and GitHub; the waiting thread |
| `UpdateDownload` | three rungs of a download; the store of a release by several threads |
| `InstallHandoff` | program, installer, window and program under trial |
| `FileSwap`, `AtomicInstall` | the replacement of files, rename by rename; what it is to the user |
| `CoreUpdate` | the replacement of `xray.exe` and `sing-box.exe` |
| `ReleasePublish` | the release script with its kills, re-runs and people |

**Connection.** `ConnectionState`, `Decision`, `Coordinator`, `HotSwitch`, `RuntimeSteps` and
`Connection` extend one another: one application with its user. `run` is the transition in flight with
the locals of its generator, `run.pc` the `yield` it waits at; at the `Inline` points, where the generator
goes on in the same handler, nothing else is enabled (`GuiFree`). `base = 0` marks the disconnecting half
of a reconnection. `wish` is a history variable: what the user asked for last. `ServedNode` is where
traffic really goes. A configuration is its *signature* (server, mode, proxy setting), a plan the protocol
of the server or a failure, a rule of winws2 the server it is for. A proxy write and a control call take
effect when submitted (the worker is a FIFO) and answer later; a stop succeeds. A `disable` that Windows
refuses is modelled of a change of the proxy setting; within a connect or a replacement it always succeeds.

**File replacement.** An action is one rename, one write of the journal, one look at a record or one step
of the installer; a crash may come after any. `base`, `verified` and `insured` are history variables. The
registry may refuse the rescue, which does not stop the update (`apply.py:345-351`): one that is cut off between
the two exes without it is `Orphaned`, the exception `Runnable` and `Atomic` name. The ten minutes
the program waits before it undoes a journal appear as: it recovers only while no installer runs.

**State on disk.** The file has a *form*: whole, torn (text that cannot be read, on which a start fails) or foreign
(empty, or in no format of the program, which `load_payload` takes for no file at all: `storage.py:118-119,
134-143`). Power lost after a write that was not flushed leaves one of the latter two.

**Composites.** `MCServices`, `MCEngines`, `MCServers` and `MCUpdates` put components that share no
variable side by side, so that one run covers several: the variable `focus` names the one a behaviour
moves, the others stand still. A composite property is the conjunction of its parts' properties, so no
interaction is lost and no product of state spaces is built. Where components do interact each module
contains the other side: `SystemProxy` has every caller, `Connection` uses the runner as `StepContract`
allows (which `StepRunner` implements), `HysteriaRecovery`, `SmartSwitch` and `Subscriptions` have a
transition by the ways it can end, `InstallHandoff` the files as old, new or mixed.

**Abstract specifications.** `StepContract` is implemented by `StepRunner`; `AtomicInstall` (the version
changes as a whole or not at all, and stays only if it started) by `FileSwap`.

## 3. The runs

The bounds are on what the environment does, never on the program: it always runs to its rest, which is
why deadlock is not an error (the behaviour ends when the bounds are used up and the program is at rest).
Every action and every disjunct fires in some passing run, and every property is violated by the mutant of
the code that `PROJECT.json` lists for it.

| Run | Instance | Shows |
|---|---|---|
| `switching` | two native servers in one pool and a Hysteria one, all bypassed; 3 clicks, one failed step | `TypeOK`; at rest the session is the server chosen last and the selection is its server; a failure leaves neither a hanging choice nor a dead proxy; a tunnel is protected; a superseded server never becomes the session, the selection moves only with one |
| `modes` | two AmneziaWG servers, TUN on and off; a core or sidecar fails to start, or dies, once; 4 clicks | traffic, mode and proxy are those of the session; no process left over; nothing forgotten |
| `crashes` | hybrid and Hysteria servers, winws2 up for sites; two failures of any kind; 3 clicks; fair | no process started over a live one; transitions end, preparations and wishes are answered, the program rests again and again |
| `swap` | one installation; held files, failing start, crashes, a registry that refuses the rescue; fair | the safety of an update, its inductive invariant, the refinement of `AtomicInstall`; every update settles |
| `swap_again` | two installations, every failure, a reinstallation in between | a recovery never takes away a file the user unpacked |
| `services` | proxy, runner, state, templates, traffic, switches, pool, link | the user's own proxy is found and given back, but for one `disable` too many; the runner keeps its contract; no edit is lost at an exit; each part moves on |
| `engines` | Hysteria and its recovery, AmneziaWG and its relay, sing-box | one message for a failure and for each stop that ran out of time, no orphan, no secret left, no flow over the limit, every start ends |
| `plans` | the planner of sing-box, the passes over an Xray config, the page of Zapret | own traffic never loops, the user's rules keep their meaning, ports stay apart and known; the last click decides what winws2 runs |
| `servers` | subscriptions, one download, one matching, the pings | list, tags, hidden servers, selection and session agree; each server stays itself; each row gets one answer |
| `updates` | rounds, check, names, listener, download, store, release script, cores, handoff | what is offered and put together is what was signed; nothing reached is lost; nothing hangs |

Why the bounds are enough. Three servers: one serving, one targeted, one chosen over it. Three clicks are
connect, choose, choose again; a fourth changes a setting inside whatever that caused. Two failures are one
in a transition and one in its undoing. Four files are one of each kind: replaced executable, replaced
library, removed, added. In the composites each part has at least one actor more than it can serve at
once (two clients and one place of the relay, two subscriptions and one worker, three rows and two
addresses, two versions, two depots, three workers of the cores), one event of each failure and one to spare. The user has
a proxy of his own, a PAC of his own or none (`UserProxies`). A part of a download is two pieces long, so that it can
break off half way, and one of the two depots ignores Range; two automatic attempts let the pause decide before the
limit does. Three setbacks of a handoff are a failure, one in its undoing and one in what follows. Symmetry is not used:
servers differ by protocol, files by kind, and the liveness runs forbid it.

### Disagreements between the code and what it says

Each of these two runs checks one property and TLC finds it violated; `PROJECT.json` quotes the statement.

| Run | Behaviour |
|---|---|
| `selection_lies` | A server clicked while a replacement has the front down is saved as the selection although the old session is kept and goes on serving. |
| `hidden_returns` | A hidden server told apart by the fingerprint of its link is listed again when the provider changes the link, although nothing was reset. |

The models show more with other constants. They are not kept as runs; no passing run mixes a property with
a hazard that breaks it, and the table says which constants bring the behaviour out.

| Property | Where | Behaviour |
|---|---|---|
| `TrafficIsSession` | native and Hysteria servers, toggle and select, 4 clicks | the serving server chosen again during a hot switch: the result is dropped but the core is already re-pointed |
| `LatestIntent` | two AmneziaWG servers, 2 clicks | a server chosen while a connect starts its front: the stop of that front looks like a crash and clears the wish to be connected |
| `ChosenServer` | two AmneziaWG servers, 3 clicks, no failure | the old server clicked again while its core is being stopped: the click clears the target, and the replacement commits its own server over it (`server_selection.py:106-115`) |
| `SessionIsLatestWish` | native and two AmneziaWG servers in TUN, a core dies | it dies in the last steps of a replacement: a server chosen then is saved at once (`node_service.py:214`), the replacement saves its own over it (`operations.py:399`), and that one is connected next |
| `SessionIsLatestWish` | native servers bypassed, sites on, a core and winws2 die | a hot switch begins with the drain timer set: the replacement fails and drops the choice, the hot switch then ends in a transition to the old server |
| `Protected` | two bypassed Hysteria servers, sites on, 3 clicks | a choice that needs no rule removes the rule of the tunnel that is still up |
| `Protected` | native servers bypassed, sites on, a death of winws2 | winws2 dies after the last fence and before the connection is up: nothing stops it (`server_bypass.py:529`) |
| `ProxyGivenBack` | two AmneziaWG servers, toggle and proxy, 3 clicks | the proxy setting switched off during a connect: the stop that follows leaves the proxy (`runtime_services.py:144`) |
| `SettingsApplied` | the same in TUN, 4 clicks | the setting switched back while its change is applied: the session is captured with it, Windows is not (`controller.py:2258`) |
| `NoLeftovers` | hybrid servers bypassed, crash and dns, 3 clicks | a core dies in a replacement and the next lookup fails: the cleanup step never runs (`controller.py:2532`) |
| `NoLeftovers` | native then hybrid server, 3 clicks | a switch superseded after the sidecar is up rolls back and leaves the sidecar |
| `NoHangingChoice` | two bypassed Hysteria servers, a failure of winws2 | `_fail` does not settle the target (`server_bypass.py:506`) |
| `NothingForgotten` | AmneziaWG, one crash, 3 clicks | a crash and a click in a pre-stop: an obsolete lookup returns silently (`server_bypass.py:397`) |
| `NothingForgotten` | three native servers, 6 clicks | a settings change asked for during a hot switch is forgotten |
| `OneProcess` | AmneziaWG, its sidecar dying during a replacement | the rollback then ends with no session, and the next connect starts over the living front |
| `NeverMixed` | failure `journal` | a journal that survives the removal of its files is undone later (`swap.py:340`) |
| `Restored` | failure `torn` | power lost between a rename and its record: that file is not returned |
| `LastCopyKept` | failures `crash` and `lock`, two installations | the second installation rolls back its own empty journal and deletes the work directory with the last copies |
| `Runnable` | failures `crash` and `rescue` | the rescue script is cut off after Windows removed its task (`rescue.py:103`) |
| `Runnable` without `insured` | failures `crash` and `registry` | an update whose rescue could not be registered goes on (`apply.py:345-351`); cut off between the two exes it leaves nothing to start and nobody to put it back |
| `OwnProxyKept`, `GivenBack` without `wiped` | the user has a proxy of his own | `disable` does not ask whose proxy it is: one that finds no copy switches the user's own off. A disconnect sends two (`runtime_services.py:144`, `254`), a connect without the setting one (`operations.py:65`), against `runtime_services.py:344-347` |
| `UnreadNotReplaced` of a foreign file | services | an empty state file, one of no known format, or one of another account is loaded as the default state, as a success (`storage.py:118-119`, `134-143`); the next save overwrites it |
| `OneFailureTold` without `hangs` | sing-box | after a stop that ran out of time the failure is told up to three times (`manager.py:186`, `201`, `336`, `404-417`), and `sing-box check` may run beside the dying core, against `manager.py:133-137` |
| `SomethingRuns` without `cut` | handoff | the write of the journal at the end of a rollback raises (`swap.py:335`): `run_apply` logs it and ends, with the program closed, nothing started and nothing shown (`apply.py:236-241`) |
| `PoolIsFound` | plans | a document without the resolver its servers name is refused for one server and accepted for a selector, whose members stand in a file nobody checks (`runtime_planner.py:443-491`, `1269-1313`) |
| `WantedIsServed` | native and Hysteria servers, toggle, proxy and TUN, 3 clicks | TUN switched on while a change of the proxy is applied: the session is recorded in TUN mode though it runs as a proxy (`controller.py:2258`), and nothing is done about it |
| `FailedRestartIsHeard` | Hysteria | a compatible restart that ends by its own failure tells nobody (`manager.py:1053-1078`) |
| `RefusedStaysOff` without its exception | Hysteria recovery | a due return picks a server that refused (`controller.py:1834-1855`, `manager.py:899-900`) |
| `NotLeftOffline`, `FailedAlwaysLeaves` | recovery, AmneziaWG | a failure nobody listens to at that moment (`controller.py:1959`, `1607-1609`) |
| `OnlyToldIsKilled` | AmneziaWG | a client never asked to leave is killed (`manager.py:438-441`) |
| `TunGap` | sing-box | a TUN started within the gap after a core that ended by itself (`manager.py:55-59`) |
| `FlagTrue`, `AllTried`, `OutForCause`, `OldDropped` | pool, switches, link | a flag, a list of tried servers, a quarantine and a verdict that are stale (`controller.py:3801-3803`, `auto_switch_service.py:149`, `xray/manager.py:142-143`, `live_metrics_worker.py:181`) |
| ports and rules of `RuntimePlan` | plans | the clash port may equal the API port; an application rule is replaced in place where the user's rule names the executable; a rule of several domains that names the server is replaced whole; application rules point at `direct` unchecked; facts of a plan are cached as none after a failure of ports |
| Xray passes | plans | without a catch-all rule unmatched traffic takes the pool's first outbound; references to `proxy` in `proxySettings` and `dialerProxy` are left |
| `ZapretControl` | plans | a stop clicked during a session keeps a preset's winws2 (`server_bypass.py:251-265`); the self-check restores a saved plan over a later choice, and not at all when the VPN went meanwhile (`zapret_conflict.py:178`); a rename that is done and not saved leaves the old name |
| `NoRestartInGame`, `ListenerFollows`, `ButtonWorks`, `LeftAsWritten`, `TreeKept` | updates | `main_window.py:1849`, `1818`; `updates_page.py:236`; `auto_update.py:272`; `app_updater.py:584` |
| pause and permission | updates | the pause after a counted failure (an hour or more) outlasts the permission, so the retry of `main_window.py:1781-1784` never happens |
| start of the installer | updates | after a failed one a restart reconnects as the record says, whatever the user did since (`auto_update.py:211-214`) |
| `PermanentIsTrue`, `NoGuessAtAnyTime`, `GithubIsAsked` | updates | `app_updater.py:641`, `mirrors.py:391`, `app_updater.py:372` |
| `EarlierKept`, `AbandonedIsFollowed`, `FixIsTaken`, `PostedOnce` | release script | a release given up and made again (`release_windows.py:1149-1153`) |
| `OneInstall`, `QuietInstall`, `CoreWhole` without `crossed` | cores | three clicks start two installations (`update_service.py:15`), and one may roll back what the other says it updated; the run has these three workers, and `CoreWhole` excepts what they did to each other |
| `TrialStands` | handoff | the trial of a new version is not watched (`auto_update.py:295`); a person who quits while the program awaits the installer gets it started again |

### Fairness

Liveness is checked under weak fairness of what cannot stop: a timer of Qt, a continuation on the event
loop, a worker call or start with a deadline. `Connection!Fairness`: the drain timer, the steps of a
transition, lookups, the start of winws2, hot switch calls (`async_steps.py:60`, the readiness timeouts of
the cores). `FileSwap!Fairness`: the installer and the rescue task (somebody logs on some day), not the
program starting by itself. Managers: the steps of a start, the end of a process that was told to leave,
the timers they set; never what a server or a client says. Subscriptions and pings: fetches (they have
deadlines) and handlers. Clicks, crashes, failures, answers of remote ends, and the timers that something
else may replace, are never fair.


## 4. The proofs

Each theorem has the form `Spec => []P` (or `Spec => [][A]_vars`) and holds for every value of the constants
that satisfies the named assumption beside them: any sets of servers, files, clients or steps, any bounds.
The argument is the usual one: the initial states satisfy an inductive invariant, every action preserves
it, it implies the property, and the temporal step closes with PTL. What follows is why the property alone
is not inductive and what was added. Each inductive invariant was an invariant of a run before it was proved.

**`FileSwap_proofs`** `TypeCorrect`, `Invariant`, `LastCopy`, `RestoredAfterFailure`, `AlwaysRunnable`,
`UpdateIsAtomic`, `UnpackedIsKept`. "No last copy is lost" says nothing of where the copy is, so a step of the rollback
could not be shown to keep it. `IInv` adds where every file stands: what can be put back lies in `old/` and
is journalled (`Returnable`, `SameJournal`), what is new is known to be (`OnlyNewIn`), what the commit has
not reached is untouched (`Untouched`), and an ended run leaves nothing in `old/` (`NothingOld`,
`NoneLeftBehind`). It holds under `SafeFaults`: no power loss between a rename and its record (`torn`), no
journal that cannot be written (`save`), and not both a second installation and files that resist
deletion. Each of these excludes a behaviour which loses a file in the code (section 3). `AlwaysRunnable`
and `UpdateIsAtomic` need `CleanFaults`: the journal, deletions and the rescue script succeed as well, while the
registry may refuse the rescue (`Guarded` ties a missing exe to its record and to what the registry took); the
second one, moreover, a single run and nobody who unpacks the program by hand. `UpdateIsAtomic` is the
safety half of `Atomic`: every step of the detailed update is a step of `AtomicInstall` or a stutter.
`UnpackedIsKept` assumes nothing of failures: a recovery takes a file out of the program only for the record of a
new file moved in, and `OnlyOurs` says that no such record, in the journal on disk, in memory or in the list a
recovery works through, names a file which the user unpacked; what `new/` holds is not such a file either.

**`XrayPool_proofs`** `PoolIsSafe`. The pruning of refused servers converges and what is announced is what
runs, for any set of servers.

**`Connection_proofs`** `TypeCorrect`, `NeverUnasked`, `OneProcessPerCore`, `NothingIsForgotten`,
`SelectionFollowsSession`, of the composed connection with any servers, clicks and failures.
* The type invariant is not inductive by itself: the type of an answer depends on the phase it arrives in, so `Typed`
  adds which locals of the generator are set at which `yield`.
* `NeverUnasked`: whatever becomes the session does so in a step that finds the user's last word to be "connect" and,
  for a transition, its generation current. `Gate` says that a generator past its last look at the generation is
  inline, so no click can come between.
* `OneProcessPerCore`: no core or sidecar is started over a live one. That needs what each step finds running when it
  begins: `Carried` ties the phase to the kind of transition and the candidate sidecar to its server; `Standing` lists
  the phases in which the front, every sidecar or the old hybrid sidecar is down; `Owned` says that a front without a
  session is being started or is due for cleanup, and that a replacement keeps the session it replaces; `HotPast` that
  no hot switch outruns its counter. The hypothesis `SidecarLasts` (the AmneziaWG sidecar does not die during its own
  replacement) excludes exactly the row of section 3.
* `NothingIsForgotten`: at rest there is no work left. The invariant `Attentive` names who takes it up: where the
  decision says there is work (`Needs`) a transition runs, the timer is set, winws2 or the lookup owes an answer about
  the server asked for, or a hot switch of the newest generation serves it (`Heard`). The rest says why none of these
  lets go: the timer runs only with the gate open (`Timer`); a hot switch of the newest generation is alone and wanted
  (`Sole`); a blocked configuration does not swallow another choice (`Clear`), nor one asked for while a transition was
  ending (`Restarted`); a stop for a new rule is for the server asked for and leaves the tunnel down (`Meant`,
  `Stopping`). The code does forget a request made during a hot switch or during a stop for a new rule (section 3), so
  the theorem is about lists in which neither exists: `NoPool`, no servers that share a core, and `NoRule`, no server
  Zapret has a rule for. These are assumptions on the constants. What they exclude of behaviours is proved:
  no hot switch begins (`NeverHot`), winws2 stays off and no tunnel is stopped for a rule (`NeverRuled`), and a sidecar
  is of the protocol of its server, so no Xray core is left to die (`Housed`); together they are the invariant `Plainly`,
  from which `Undisturbed` follows at every step.
* `SelectionFollowsSession`: while a session serves, the saved selection moves only to its server. `Faithful`: a session
  is of the server its signature names, and a replacement past its capture commits the server of that session. A hot
  switch accepted while a replacement has the old AmneziaWG core down would break it (`SwitchesApart`); under
  `NoPool \/ NoAmnezia`, a list that does not mix servers sharing a core with AmneziaWG servers, `Parted` and `Held`
  show that none is. TLC finds no such step with mixed lists either, and no proof covers them.

`NoneAssumption` tells the absent session and the absent signature from every real one.

**`Engines_proofs`** `RecoveryIsSafe`, `HysteriaIsSafe`, `AmneziaIsSafe`, `RelayIsSafe`, `SingboxIsSafe`, one
invariant each.
* `RescueInv`: a return is due only with its rescue, and who refused is known until then.
* `HyInv`: of the two actors that may drive the Hysteria client, the owner's start and the compatible retry, at
  most one drives at a time (`OneDrives`); the secret file exists only while one does (`FileKept`); the retry is
  spent where it began (`OneRetry`, `FirstRestart`); a session needs an attempt that was not refused for
  security (`Attempted`); and the owner has heard or will (`Heard`).
* `AwgInv`: who was told to leave, and which session a delayed health check was started for.
* `RelayInv`: each flow has a number of its own, the places counted are the cardinality of the handlers that run, and a
  stream with a direction still open has both its connections, unless an end failed or somebody cancelled (`Lives`).
* `BoxInv`: what runs in each phase of a start (`NothingRuns`), how many attempts are behind (`Attempts`), that a message
  held back is one not shown yet (`NothingShown`, `HeldBack`), and how many a stop that ran out of time still owes (`Owed`).

**`Updates_proofs`** `RoundsAreSafe`, `RoundsKeepTheirWord` of the rounds by themselves, `WhatIsOfferedIsReal`,
`WhatIsFetchedIsRight`, `WhatIsPutTogetherIsRight`, `WhatWasReachedIsKept` of the parts of `MCUpdates` side by side. A step of
the whole is a step of each part or leaves it alone (`EachSteps`), so each part has an invariant of its own:
* `RoundsInv`: the program does not install one version more than `MAX_AUTO_ATTEMPTS` times although records are lost:
  the record may be behind the truth by one attempt in flight only, and a lost record costs the permission as well
  (`Counted`, `Sparing`). `ReturnInv` ties the connection a restart brings back to the one the attempt was recorded with.
* `CheckInv`: whom a check has not asked yet is what is left of its list (`StillToAsk`), so it is over only when
  everybody was asked, the budget is spent or somebody answered.
* `NamesInv`: every name a browser may be led to has answered or stands in a list such a name gave (`VouchedFor`).
* `PubInv`: what each step of the release script may find of the commit, the tags, the site and the store (`PhaseKnown`,
  `StepKnown`), for the release under way and for those given up at any step before.
* `DownloadInv`, `FetchInv`: what is in an archive or a tree at each rung of the ladder of attempts, that a file is
  fetched only while its plan runs and only if the disk lacks it, and that a spoilt one has a source to blame.
* `ListenerInv`: a permission is never newer than what the thread knows, and its question carries the report there is.
* `CoreInv`: what a worker between two files has already replaced, and with which release (`JobFine`).
* `HandoffInv`: which program and which installer can be alive together at each point (`WindowInv`, `InstallerInv`).

`CoreWhole` has one exception inside the property: two workers that installed at the same time (`crossed`, history)
may leave a library ahead of its executable, or say "updated" of what the other rolled back (section 3). Whole archives
and no downgrade hold even then, and `WhatIsPutTogetherIsRight` has no hypothesis. `HandoffSafe` has another: an
undoing that broke off at its journal (`cut`).

**`Services_proofs`** `DataIsKept`, `ProxyIsSafe`, `SmartSwitchIsSafe`, `OneAsksAtATime`: the services of `MCServices`,
where a step of one is a step of it and the others stand still (`OneMoves`); `RunnerIsSafe`, `RunnerKeepsItsWord` of the
runner of steps.
* `RunnerInv`: the runner delivers the result of each step once although a late worker, a deadline and a cancellation
  race; the deadline and the subscription in force are tied to the step that waits. The same invariant gives the
  refinement of `StepContract`.
* `StoreInv`: a snapshot waits and another may be on its way to the disk; `InOrder` says each is newer than what it
  follows, `Newest` that the last is what the program holds; the form of the file says when there is nothing to
  compare with. `TemplateInv` and `TrafficInv` tie the copy, the
  hash and the history to the file as it was last written.
* `ProxyInv`: Windows points at the program only under a session or a job still queued (`Queued`, `InCall`), and what
  the user had is in the copy while it does (`Found`, `Settling`). Of the user's proxy nothing is assumed; once a
  `disable` without a copy has switched it off (`wiped`, history) the claim is that no proxy is set.
* `SmartInv`: "worth it" speaks of what two measurements gave, at different moments, to workers that may be forgotten
  meanwhile. `Judged` ties the check to one worker and to the speed of its server now; `Past` ties the pauses and the
  hour's limit to the history of the switches (an injection of the recent ones into `times`); `Paced` counts the
  switches of one pass over the servers. It needs a pause longer than nothing (`Hold > 0`; 600 s in the code).
* `WatchInv`: the flag that keeps a second thread away is up from before the first one is made.

**`Servers_proofs`** `SubscriptionsAreSafe`, `ListIsTrue`: the list of servers of `MCServers`, four components side by
side (`ServersMoves`), an invariant each.
* `SubsInv`: an update works on a copy of its subscription while the user edits, hides and removes. `JobOk` says of the
  copy, queued, under way or answered, that what was hidden in it is hidden still and that what its tag stands for is
  still listed; so neither an answer nor a "not modified" brings a hidden server back or leaves one out. `QueueOk` keeps
  the numbers drawn apart: that no more than `MaxWorkers` work is then an injection of those begun into the places left.
* `FetchInv`: every route that races is still running or has left one outcome; the proxy is the last route, so when it
  has begun nothing is left to try, and a refusal is held only after it.
* `MatchInv`: every server matched so far shares the key or the address of its place, no place is given twice, and one
  that is there unchanged has its own (`SameKept`): a later server cannot have been given it before.
* `PingInv`: an address somebody waits for is in one place, queued, under way or once in the mail (`OnePlace`), and a row
  waits for one address.

What stays with TLC. Liveness (`Answered`, `Settles`, the three `...Progress`, the liveness half of `Atomic`): the
prover has no rule for fairness and ENABLED. What a recursive definition computes (folds, the passes over a document, the plan of a release): the library's induction takes an
operator, which the provers cannot instantiate. Where a finite set or a history must have a greatest or a
first element, `LeastNumber` (from `WFMin`) stands in for it. Several properties of the connection, listed in section 3 as
broken with other constants, are true of the instance of their run and of no theorem. `OneProcess` is a theorem only under
its hypothesis, `NothingForgotten` only for lists without pools and rules; of `SessionMoves` the half `CommitOnlyServing`
is one (`SelectionFollowsSession`), `SessionIsLatestWish` is only model-checked.

## 5. Not modelled

Wire formats, parsing, cryptography and everything measured (`importer`, `network`, signatures, patches): data.
The widgets: what a user does with them are the actions of the models. Startup is a fixed sequence, where
the models begin. Logs, diagnostics, support reports, the Windows API and third-party files. The
lock of the program by a password. `PROJECT.json` says for each component what is left out of it.

## 6. Plan

Done: the connection, file replacement, runner, managers, services, servers, updates, plans; the theorems
above. Left: the lifetime of windows and the ways to quit (`ui/window_presence.py`, `startup_service.py`); the
notices for the user (`ui/notifications.py`).
