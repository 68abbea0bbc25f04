---------------------------- MODULE UpdateRounds ----------------------------
(* How a new version of the program comes to be installed without the user:  *)
(* the timer, the permission of the server, the check, the download, the     *)
(* installer, the restart and the record of the attempt, which outlives all  *)
(* of them (ui/main_window.py, updates/auto_update.py, update_signal.py).    *)
(* The replacement of files itself is FileSwap.                              *)
EXTENDS Integers, FiniteSets

CONSTANTS
  MaxVersion,   \* bound: versions published
  MaxAuto,      \* MAX_AUTO_ATTEMPTS
  Backoff,      \* RETRY_BACKOFF_S, in half-hours
  Lifetime,     \* GRANT_LIFETIME_S, in half-hours
  MaxClock,     \* bound: half-hours
  MaxUser,      \* bound: what the user does
  MaxFaults     \* bound: failures of the network and of the installer

Version == 0..MaxVersion

ASSUME RoundsAssumption ==
  /\ {MaxVersion, Backoff, Lifetime, MaxClock, MaxUser, MaxFaults} \subseteq Nat
  /\ MaxAuto \in Nat \ {0}

NoRecord == [v |-> 0, n |-> 0, at |-> 0, back |-> FALSE, due |-> FALSE]
NoCheck  == [is |-> "none"]

(* A build may fail to start, and is rolled back; an archive may not be what *)
(* the signed list says.                                                     *)
Flaw == {"none", "bad", "corrupt"}

VARIABLES
  flaw,       \* what is wrong with each version
  latest, installed,  \* the published and the running version
  attempt,    \* data/runtime/app_update_attempt.json
  clock,      \* half-hours
  phase,      \* "on", "installing" or "off"
  wants,      \* the settings: "none", "ask" (check_updates) or "all" (allow_updates too)
  ear,        \* is_enabled of the listener
  first,      \* _app_update_first_check_done
  soon,       \* the timer waits its first 2.5 s
  busy,       \* _update_in_progress
  back,       \* _update_background
  checker,    \* the UpdateChecker that runs
  loader,     \* _update_downloader: its version, "none", "runs" or "ready"
  setup,      \* the installer was started and has not answered yet
  button,     \* download_btn: "hidden", "open", "grey" (disabled) or "gone" (both)
  offered,    \* the version it installs
  reach,      \* ReleaseWatcher.reachable is True
  granted,    \* [version |-> half-hour of the permission], -1: none
  urgent,     \* versions that replace a revoked one
  retry,      \* _on_update_granted has to be called once more
  waiting,    \* _busy_recheck_pending
  game,       \* something covers the screen
  linked,     \* the VPN is on
  restore,    \* history: what the installer's restart has to bring back
  launches,   \* history: [version |-> installers started by themselves]
  acts, faults

roundsVars == <<flaw, latest, installed, attempt, clock, phase, wants, ear, first, soon, busy, back, checker, loader,
                setup, button, offered, reach, granted, urgent, retry, waiting, game, linked, restore,
                launches, acts, faults>>
world   == <<flaw, latest, clock, game, linked>>
listen  == <<ear, reach, granted, urgent>>
page    == <<button, offered>>
disk    == <<installed, attempt, phase, restore>>
counts  == <<acts, faults>>

Checks(w)   == w # "none"
Installs(w) == w # "ask"

NoLoader == [v |-> 0, is |-> "none"]

(* What a start finds in memory.                                             *)
Fresh(w) ==
  /\ ear' = (Checks(w) /\ Installs(w)) /\ first' = FALSE /\ soon' = Checks(w) /\ busy' = FALSE /\ back' = FALSE /\ checker' = NoCheck
  /\ loader' = NoLoader /\ setup' = FALSE /\ button' = "hidden" /\ offered' = 0
  /\ reach' = FALSE /\ granted' = [v \in Version |-> -1] /\ urgent' = {}
  /\ retry' = FALSE /\ waiting' = FALSE

RoundsInit ==
  /\ flaw \in [Version -> Flaw] /\ flaw[0] = "none" /\ latest = 0 /\ installed = 0 /\ attempt = NoRecord /\ clock = 0 /\ phase = "on"
  /\ wants = "all" /\ ear = TRUE /\ first = FALSE /\ soon = TRUE
  /\ busy = FALSE /\ back = FALSE
  /\ checker = NoCheck /\ loader = NoLoader /\ setup = FALSE /\ button = "hidden" /\ offered = 0
  /\ reach = FALSE /\ granted = [v \in Version |-> -1] /\ urgent = {} /\ retry = FALSE
  /\ waiting = FALSE /\ game = FALSE /\ linked \in BOOLEAN /\ restore = "nothing"
  /\ launches = [v \in Version |-> 0] /\ acts = 0 /\ faults = 0

(* show_idle hides the button, show_update_available shows it; once disabled *)
(* by show_download_progress it stays so.                                    *)
Hidden == IF button \in {"grey", "gone"} THEN "gone" ELSE "hidden"
Shown  == IF button \in {"grey", "gone"} THEN "grey" ELSE "open"

Faulty == faults < MaxFaults /\ faults' = faults + 1 /\ UNCHANGED acts
Acts   == acts < MaxUser /\ acts' = acts + 1 /\ UNCHANGED faults

(* --- The record of attempts ------------------------------------------------ *)

(* record_attempt                                                            *)
Recorded(v, reconnect, restarting) ==
  [v |-> v, n |-> IF attempt.v = v /\ attempt.n > 0 THEN attempt.n + 1 ELSE 1,
   at |-> clock, back |-> reconnect, due |-> restarting]

Pause(n) == Backoff * 2 ^ (n - 1)

(* Mutant of Blocked: the limit is dropped with the pause.                   *)
BlockedForPause(v) ==
  \/ v <= installed
  \/ attempt.n > 0 /\ attempt.v = v /\ clock - attempt.at < Pause(attempt.n)

(* auto_install_block_reason                                                 *)
Blocked(v) ==
  \/ v <= installed
  \/ attempt.n > 0 /\ attempt.v = v /\ (attempt.n >= MaxAuto \/ clock - attempt.at < Pause(attempt.n))

(* --- Checks ----------------------------------------------------------------- *)

(* _check_updates; one check at a time.                                      *)
Check(silent) ==
  IF busy THEN UNCHANGED <<busy, checker>>
  ELSE busy' = TRUE /\ checker' = [is |-> "runs", silent |-> silent]

LiveAt(t) == \E v \in Version : granted[v] >= 0 /\ t - granted[v] < Lifetime

(* _on_app_update_timer_timeout: 2.5 s after the start or after the setting  *)
(* is turned on, then every half-hour.  The first check is always made;      *)
(* later the server that keeps the queue says itself when there is something *)
(* new, and only a permission that still holds is tried again.               *)
Due == ~first \/ ~reach \/ LiveAt(clock)

Soon ==
  /\ phase = "on" /\ soon /\ soon' = FALSE
  /\ IF Due THEN first' = TRUE /\ Check(TRUE) ELSE UNCHANGED <<first, busy, checker>>
  /\ UNCHANGED <<world, wants, listen, page, disk, counts, back, loader, setup, retry, waiting, launches>>

HalfHour ==
  /\ clock < MaxClock /\ clock' = clock + 1 /\ ~soon
  /\ IF phase = "on" /\ Checks(wants) /\ (~reach \/ LiveAt(clock')) THEN Check(TRUE) ELSE UNCHANGED <<busy, checker>>
  /\ UNCHANGED <<flaw, latest, game, linked, wants, listen, page, disk, counts, first, soon, back, loader, setup,
                 retry, waiting, launches>>

(* The button "check" of the page.                                           *)
AskCheck ==
  /\ phase = "on" /\ Acts /\ Check(FALSE)
  /\ UNCHANGED <<world, wants, listen, page, disk, first, soon, back, loader, setup, retry, waiting, launches>>

(* _start_update_download; one download at a time, its start removes what  *)
(* earlier ones left.                                                    *)
Download(v, background, left) ==
  IF loader.is = "runs" THEN UNCHANGED <<back, loader, button>> /\ busy' = left
  ELSE /\ busy' = TRUE /\ back' = background
       /\ loader' = [v |-> v, is |-> "runs"] /\ button' = "grey"

(* _update_wait_reason: while the server keeps the queue its permission is   *)
(* needed; a game is waited out unless the running version is revoked.       *)
Queued(v) == reach /\ granted[v] < 0
Playing(v) == game /\ v \notin urgent

Waits(v) == Queued(v) \/ Playing(v)

(* _on_update_check_result, _on_update_check_error                           *)
CheckEnds ==
  /\ phase = "on" /\ checker.is = "runs" /\ checker' = NoCheck
  /\ \/ /\ Faulty /\ busy' = FALSE
        /\ button' = IF checker.silent THEN button ELSE Hidden
        /\ UNCHANGED <<offered, back, loader, waiting>>
     \/ /\ latest <= installed /\ busy' = FALSE
        /\ button' = IF checker.silent THEN button ELSE Hidden
        /\ UNCHANGED <<offered, back, loader, waiting, counts>>
     \/ /\ latest > installed /\ ~Installs(wants) /\ busy' = FALSE /\ button' = Hidden
        /\ UNCHANGED <<offered, back, loader, waiting, counts>>
     \/ /\ latest > installed /\ Installs(wants) /\ offered' = latest /\ UNCHANGED counts
        /\ LET held == checker.silent /\ (Blocked(latest) \/ Waits(latest)) IN
           /\ IF held
                THEN /\ busy' = FALSE
                     /\ button' = Shown
                     /\ UNCHANGED <<back, loader>>
                ELSE Download(latest, checker.silent, FALSE)
           /\ waiting' = (waiting \/ (held /\ ~Blocked(latest) /\ ~Queued(latest)))
  /\ UNCHANGED <<world, wants, listen, disk, first, soon, setup, retry, launches>>

(* _recheck_update_when_free, every five seconds.                            *)
Free ==
  /\ phase = "on" /\ waiting /\ ~game
  /\ waiting' = FALSE
  /\ IF Checks(wants) THEN Check(TRUE) ELSE UNCHANGED <<busy, checker>>
  /\ UNCHANGED <<world, wants, listen, page, disk, counts, first, soon, back, loader, setup, retry, launches>>

(* The button of an offered version; it was bound to that version.           *)
Click ==
  /\ phase = "on" /\ button = "open" /\ Acts
  /\ IF Installs(wants) THEN Download(offered, FALSE, busy)
     ELSE button' = Hidden /\ UNCHANGED <<busy, back, loader>>
  /\ UNCHANGED <<world, wants, listen, offered, disk, first, soon, checker, setup, retry, waiting, launches>>

(* --- Download and installation ---------------------------------------------- *)

(* _on_update_error: an archive that will not change counts as an attempt.   *)
Failed(permanent) ==
  /\ busy' = FALSE /\ button' = Hidden
  /\ attempt' = IF permanent THEN Recorded(loader.v, FALSE, FALSE) ELSE attempt
  /\ UNCHANGED <<offered, installed, phase, restore>>

DownloadEnds ==
  /\ phase = "on" /\ loader.is = "runs"
  /\ \/ /\ flaw[loader.v] # "corrupt" /\ loader' = [loader EXCEPT !.is = "ready"]
        /\ UNCHANGED <<busy, page, disk, counts>>
     \/ /\ flaw[loader.v] = "corrupt" /\ loader' = NoLoader
        /\ Failed(TRUE) /\ UNCHANGED counts
     \/ /\ loader' = NoLoader /\ Failed(FALSE) /\ Faulty
  /\ UNCHANGED <<world, wants, listen, first, soon, back, checker, setup, retry, waiting, launches>>

(* _apply_downloaded_update: the attempt is written down before anything is  *)
(* started; a failure of either leaves the program running.                  *)
Apply ==
  /\ phase = "on" /\ loader.is = "ready" /\ ~setup
  /\ \/ /\ attempt' = Recorded(loader.v, linked, TRUE) /\ setup' = TRUE
        /\ restore' = IF linked THEN "on" ELSE "off"
        /\ launches' = [launches EXCEPT ![loader.v] = IF back THEN @ + 1 ELSE @]
        /\ UNCHANGED <<busy, page, installed, phase, counts, loader>>
     \/ /\ Faulty /\ busy' = FALSE /\ button' = Hidden /\ loader' = NoLoader
        /\ attempt' \in {attempt, Recorded(loader.v, linked, TRUE)} /\ restore' = "nothing"
        /\ UNCHANGED <<setup, offered, installed, phase, launches>>
  /\ UNCHANGED <<world, wants, listen, first, soon, back, checker, retry, waiting>>

(* _await_installer: the program leaves once the installer has answered; one *)
(* that ends or says nothing is killed and the program stays.                *)
Await ==
  /\ phase = "on" /\ setup /\ setup' = FALSE
  /\ \/ phase' = "installing" /\ UNCHANGED <<busy, button, offered, installed, attempt, restore, counts, loader>>
     \/ Faulty /\ Failed(FALSE) /\ loader' = NoLoader
  /\ UNCHANGED <<world, wants, listen, first, soon, back, checker, retry, waiting, launches>>

(* The installer puts the new build in place, or the old one back.           *)
Install ==
  /\ phase = "installing" /\ phase' = "off"
  /\ \/ installed' = attempt.v /\ flaw[attempt.v] # "bad" /\ UNCHANGED counts
     \/ flaw[attempt.v] = "bad" /\ UNCHANGED <<installed, counts>>
     \/ flaw[attempt.v] # "bad" /\ Faulty /\ UNCHANGED installed
  /\ UNCHANGED <<world, wants, listen, page, attempt, restore, first, soon, busy, back, checker, loader, setup,
                 retry, waiting, launches>>

(* Mutant of Start: only a new version brings the connection back.           *)
StartNewOnly ==
  /\ phase = "off" /\ phase' = "on"
  /\ Fresh(wants)
  /\ LET fresh == attempt.n > 0 /\ attempt.due /\ clock = attempt.at /\ attempt.v <= installed IN
     linked' \in IF fresh THEN {attempt.back} ELSE BOOLEAN
  /\ attempt' = IF attempt.n > 0 /\ attempt.v <= installed THEN NoRecord
                ELSE [attempt EXCEPT !.due = FALSE]
  /\ restore' = "nothing"
  /\ UNCHANGED <<flaw, latest, clock, game, installed, wants, counts, launches>>

(* The program starts, by the installer or by the user: resolve_startup. The *)
(* connection comes back if the record is of this half-hour, else as the     *)
(* setting of automatic connection says.                                     *)
Start ==
  /\ phase = "off" /\ phase' = "on"
  /\ Fresh(wants)
  /\ LET fresh == attempt.n > 0 /\ attempt.due /\ clock = attempt.at IN
     linked' \in IF fresh THEN {attempt.back} ELSE BOOLEAN
  /\ attempt' = IF attempt.n > 0 /\ attempt.v <= installed THEN NoRecord
                ELSE [attempt EXCEPT !.due = FALSE]
  /\ restore' = "nothing"
  /\ UNCHANGED <<flaw, latest, clock, game, installed, wants, counts, launches>>

(* --- The listener ------------------------------------------------------------ *)

(* The server answers, or does not; a listener that is off asks nothing.     *)
Hears(up) ==
  /\ phase = "on" /\ reach # (up /\ ear)
  /\ reach' = (up /\ ear)
  /\ IF up THEN UNCHANGED counts ELSE Faulty
  /\ UNCHANGED <<world, wants, ear, granted, urgent, page, disk, first, soon, busy, back, checker,
                 loader, setup, retry, waiting, launches>>

(* A permission is given once for a version; _on_update_granted checks now,  *)
(* or up to a minute later when another check runs.                          *)
Grant(revoked) ==
  /\ phase = "on" /\ reach /\ latest > installed
  /\ \A v \in Version : v >= latest => granted[v] < 0
  /\ granted' = [granted EXCEPT ![latest] = clock]
  /\ urgent' = IF revoked THEN urgent \cup {latest} ELSE urgent
  /\ IF ~Checks(wants) THEN UNCHANGED <<busy, checker, retry>>
     ELSE IF busy THEN retry' = TRUE /\ UNCHANGED <<busy, checker>>
     ELSE Check(TRUE) /\ UNCHANGED retry
  /\ UNCHANGED <<world, wants, ear, reach, page, disk, counts, first, soon, back, loader, setup, waiting, launches>>

Retry ==
  /\ phase = "on" /\ retry /\ retry' = FALSE
  /\ IF Checks(wants) THEN Check(TRUE) ELSE UNCHANGED <<busy, checker>>
  /\ UNCHANGED <<world, wants, listen, page, disk, counts, first, soon, back, loader, setup, waiting, launches>>

(* --- The user and the world --------------------------------------------------- *)

Publish ==
  /\ latest < MaxVersion /\ latest' = latest + 1
  /\ UNCHANGED <<flaw, clock, game, linked, wants, listen, page, disk, counts, first, soon, busy, back, checker,
                 loader, setup, retry, waiting, launches>>

Plays ==
  /\ Acts /\ game' = ~game
  /\ UNCHANGED <<flaw, latest, clock, linked, wants, listen, page, disk, first, soon, busy, back, checker, loader,
                 setup, retry, waiting, launches>>

Connects ==
  /\ phase = "on" /\ Acts /\ linked' = ~linked
  /\ UNCHANGED <<flaw, latest, clock, game, wants, listen, page, disk, first, soon, busy, back, checker, loader,
                 setup, retry, waiting, launches>>

Sets(w) ==
  /\ phase = "on" /\ Acts /\ w # wants /\ wants' = w
  /\ soon' = (Checks(w) /\ (soon \/ ~Checks(wants)))
  /\ UNCHANGED <<world, listen, page, disk, first, busy, back, checker, loader, setup, retry, waiting, launches>>

Quits ==
  /\ phase = "on" /\ Acts /\ phase' = "off"
  /\ UNCHANGED <<world, wants, listen, page, installed, attempt, restore, first, soon, busy, back, checker,
                 loader, setup, retry, waiting, launches>>

RoundsNext ==
  \/ Soon \/ HalfHour \/ AskCheck \/ CheckEnds \/ Free \/ Click
  \/ DownloadEnds \/ Apply \/ Await \/ Install \/ Start
  \/ \E b \in BOOLEAN : Hears(b) \/ Grant(b)
  \/ Retry \/ Publish \/ Plays \/ Connects \/ Quits
  \/ \E w \in {"none", "ask", "all"} : Sets(w)

(* Timers fire; downloads and the installer have timeouts of their own.      *)
RoundsFairness ==
  /\ WF_roundsVars(Soon) /\ WF_roundsVars(HalfHour) /\ WF_roundsVars(CheckEnds)
  /\ WF_roundsVars(DownloadEnds) /\ WF_roundsVars(Apply) /\ WF_roundsVars(Await)
  /\ WF_roundsVars(Install) /\ WF_roundsVars(Free) /\ WF_roundsVars(Retry)

RoundsSpec == RoundsInit /\ [][RoundsNext]_roundsVars /\ RoundsFairness

-----------------------------------------------------------------------------
(* The types.  What runs, runs for a version that is published.              *)
RoundsTypeOK ==
  /\ installed \in Version /\ latest \in installed..MaxVersion
  /\ attempt.v \in Version /\ attempt.n \in Nat
  /\ phase \in {"on", "installing", "off"} /\ wants \in {"none", "ask", "all"}
  /\ button \in {"hidden", "open", "grey", "gone"} /\ loader.v \in 0..latest
  /\ urgent \subseteq {v \in Version : granted[v] >= 0}

(* A build that never starts is not installed over and over: over restarts,  *)
(* rollbacks and failures of the installer, the program starts the installer *)
(* of one version by itself at most MAX_AUTO_ATTEMPTS times.                 *)
Sparing == \A v \in Version : launches[v] <= MaxAuto

(* An archive that is not what the signed list says is fetched by the        *)
(* program itself no sooner than its pause allows.                           *)
Paused ==
  [][(loader'.is = "runs" /\ loader' # loader /\ back')
       => ~(attempt.n > 0 /\ attempt.v = loader'.v /\ clock - attempt.at < Pause(attempt.n))]_roundsVars

(* The restart brings back the connection the attempt was written down with, *)
(* however the installation ended.                                           *)
Resumed ==
  [][(phase = "off" /\ phase' = "on" /\ restore # "nothing" /\ attempt.due /\ clock = attempt.at)
       => linked' = (restore = "on")]_roundsVars

(* A permission is made use of: the server gives it once for a version, so a *)
(* check that ran just then must not swallow it.                             *)
Tried(v) == checker.is = "runs" \/ loader.is # "none" \/ phase # "on" \/ wants # "all" \/ installed >= v
PermissionUsed ==
  \A v \in Version \ {0} : (granted[v] >= 0 /\ retry) ~> (Tried(v) \/ clock = MaxClock)

(* The guard against two checks is always opened again.                      *)
NeverStuck == (phase = "on" /\ busy) ~> (phase # "on" \/ ~busy)

RoundsSafe == RoundsTypeOK /\ Sparing
RoundsKept == Paused /\ Resumed
RoundsProgress == PermissionUsed /\ NeverStuck

(* --- What the code does not keep --------------------------------------------- *)

(* main_window.py:1849: "Посреди игры или видео на весь экран обновление     *)
(* ждёт в любом случае: перезапуск оборвал бы подключение."                  *)
NoRestartInGame ==
  [][(phase = "on" /\ phase' = "installing" /\ back) => (~game \/ attempt.v \in urgent)]_roundsVars

(* main_window.py:1846: "Пока сервер ведёт очередь, программа ставит версию  *)
(* только с его разрешения"; the listener looks at the settings object of    *)
(* the start.                                                                *)
ListenerFollows == wants = "all" /\ phase = "on" => ear

(* main_window.py:272: "Перезапуск после обновления возвращает ровно то      *)
(* состояние, что было"; it is read before the installer has answered.       *)
LeftAsWritten ==
  [][(phase = "on" /\ phase' = "installing") => (restore = "on") = linked]_roundsVars

(* The build an installer was started from stays: a download removes the     *)
(* directories of earlier ones (app_updater.py:584).                         *)
TreeKept == [][setup /\ setup' => loader' = loader]_roundsVars

(* The page offers the way by hand (auto_update.py:37).                      *)
ButtonWorks == phase = "on" /\ ~busy /\ loader.is # "runs" => button # "grey"
=============================================================================
