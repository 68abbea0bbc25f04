---------------------------- MODULE ZapretControl ----------------------------
(* Who decides what winws2 runs outside a connection: the page of Zapret and  *)
(* the files of its presets, the manual start with its lookup, the manager of *)
(* the process, and the self-check that stops winws2 for a moment to see      *)
(* whether it is what keeps the tunnel from working (ui/zapret_page.py,       *)
(* engines/zapret/manager.py and presets.py, application/server_bypass.py,    *)
(* application/zapret_conflict.py).                                           *)
EXTENDS Naturals, FiniteSets

CONSTANTS
  ZapPreset,     \* names of presets
  MaxZapClicks,  \* clicks of the person
  MaxZapFaults   \* what goes wrong

VARIABLES
  zap,       \* the manager: request, its revision, the launch, the process, killed ones still there
  manual,    \* the manual start: last click, busy, lookups on their way
  page,      \* what the page shows and what it knows of the presets
  saved,     \* settings: preset, autostart, Zapret on for sites
  disk,      \* files of presets
  link,      \* the VPN: up, number of the change, what a transition does, kind of the server
  check,     \* the self-check
  zapBounds  \* clicks and faults so far; whether anything failed, or came between during a check

zapretVars == <<zap, manual, page, saved, disk, link, check, zapBounds>>

NoPlan == [preset |-> "none", rule |-> FALSE]
NoWinws == [rev |-> 0, plan |-> NoPlan, st |-> "none"]
NoLaunch == [at |-> "idle", rev |-> 0, plan |-> NoPlan]

WinwsRuns(z) == z.proc.st = "running"
Going(z) == WinwsRuns(z) \/ z.launch.at # "idle" \/ z.proc.st = "starting" \/ z.pending # 0
ZapActive(z) == z.plan # NoPlan /\ Going(z)
IsApplied(z, p) == p # NoPlan /\ z.pending = 0 /\ WinwsRuns(z) /\ z.proc.plan = p

(* A process that is let go is killed; its exit is waited for apart.         *)
Detached(z) == [z EXCEPT !.proc = NoWinws, !.exiting = IF z.proc.st = "none" THEN @ ELSE @ + 1]
(* The plan that already runs, or starts, costs nothing; another one begins  *)
(* a launch of its own revision.                                             *)
ApplyPlan(z, p) ==
  IF p = z.plan /\ (z.pending # 0 \/ IsApplied(z, p)) THEN z
  ELSE [Detached(z) EXCEPT !.plan = p, !.rev = @ + 1, !.pending = z.rev + 1,
                           !.launch = [at |-> "exits", rev |-> z.rev + 1, plan |-> p]]
StopPlan(z) == [Detached(z) EXCEPT !.plan = NoPlan, !.rev = @ + 1, !.pending = 0, !.launch = NoLaunch]
Dropped(z) == [z EXCEPT !.plan = NoPlan, !.pending = 0]

(* What the card says of a manager, and what else the page takes from it: a  *)
(* preset that runs is the one selected.                                     *)
StatusOf(z, busy, error, preset) ==
  CASE z.plan # NoPlan /\ z.plan.preset = "" /\ ~busy -> [state |-> IF WinwsRuns(z) THEN "server" ELSE "stopped", preset |-> ""]
    [] z.plan # NoPlan /\ WinwsRuns(z) -> [state |-> "running", preset |-> z.plan.preset]
    [] ZapActive(z) \/ busy -> [state |-> "starting", preset |-> IF z.plan = NoPlan \/ z.plan.preset = "" THEN preset ELSE z.plan.preset]
    [] error -> [state |-> "error", preset |-> ""]
    [] OTHER -> [state |-> "stopped", preset |-> ""]
OnCard(s) == s.state \in {"running", "starting"}
Shows(pg, z, m, error, s) ==
  LET st == StatusOf(z, m.busy, error, s.preset)
      wrong == error /\ ~(WinwsRuns(z) /\ z.plan # NoPlan /\ ~(z.plan.preset = "" /\ ~m.busy))
  IN  [pg EXCEPT !.status = st, !.error = wrong,
                 !.selected = IF OnCard(st) /\ st.preset # "" THEN st.preset ELSE @]

ZapretInit ==
  /\ zap = [plan |-> NoPlan, rev |-> 0, pending |-> 0, launch |-> NoLaunch, proc |-> NoWinws, exiting |-> 0]
  /\ manual = [gen |-> 0, busy |-> FALSE, lookups |-> {}]
  /\ disk \in SUBSET ZapPreset \ {{}}
  /\ \E p \in disk :
       /\ saved = [preset |-> p, autostart |-> TRUE, sites |-> FALSE]
       /\ page = [selected |-> p, status |-> [state |-> "stopped", preset |-> ""], error |-> FALSE, known |-> disk]
  /\ \E k \in {"plain", "pass", "needs"} : link = [up |-> FALSE, gen |-> 0, transition |-> "none", server |-> k]
  /\ check = [at |-> "idle", gen |-> 0, plan |-> NoPlan, conflict |-> FALSE]
  /\ zapBounds = [clicks |-> 0, faults |-> 0, between |-> FALSE, failed |-> FALSE]

Clicks == /\ zapBounds.clicks < MaxZapClicks
          /\ zapBounds' = [zapBounds EXCEPT !.clicks = @ + 1, !.between = TRUE]
Wrong  == /\ zapBounds.faults < MaxZapFaults
          /\ zapBounds' = [zapBounds EXCEPT !.faults = @ + 1, !.between = TRUE, !.failed = TRUE]
Needs(l) == l.server = "needs"
LinkWanted(l) == l.up \/ l.transition # "none"
(* A session that needs winws2 does not outlive it.                          *)
FailClosed(l) == IF l.up /\ Needs(l) THEN [l EXCEPT !.up = FALSE, !.gen = @ + 1] ELSE l

(* --- Manual start and stop ------------------------------------------------ *)

(* start_manual: a session that needs the rule is restarted by a transition; *)
(* else the rule of the server is looked up first, where it has one.         *)
StartOn(p) ==
  /\ saved' = [saved EXCEPT !.preset = p, !.sites = TRUE]
  /\ \/ /\ LinkWanted(link) /\ Needs(link)
        /\ manual' = [manual EXCEPT !.gen = @ + 1, !.busy = FALSE]
        /\ link' = [link EXCEPT !.transition = "asked"] /\ UNCHANGED zap
     \/ /\ ~(LinkWanted(link) /\ Needs(link)) /\ link.server = "plain"
        /\ manual' = [manual EXCEPT !.gen = @ + 1, !.busy = FALSE]
        /\ zap' = ApplyPlan(zap, [preset |-> p, rule |-> FALSE]) /\ UNCHANGED link
     \/ /\ ~(LinkWanted(link) /\ Needs(link)) /\ link.server # "plain"
        /\ manual' = [manual EXCEPT !.gen = @ + 1, !.busy = TRUE, !.lookups = @ \cup {[gen |-> manual.gen + 1, preset |-> p]}]
        /\ UNCHANGED <<zap, link>>

StopForSites ==
  /\ saved' = [saved EXCEPT !.sites = FALSE]
  /\ manual' = [manual EXCEPT !.gen = @ + 1, !.busy = FALSE]
  /\ IF LinkWanted(link) /\ Needs(link) THEN link' = [link EXCEPT !.transition = "asked"] /\ UNCHANGED zap
     ELSE zap' = StopPlan(zap) /\ UNCHANGED link

LookupAnyClick(l) ==
  /\ l \in manual.lookups
  /\ zap' = ApplyPlan(zap, [preset |-> l.preset, rule |-> TRUE])
  /\ manual' = [manual EXCEPT !.lookups = @ \ {l}] /\ page' = Shows(page, zap', manual', page.error, saved)
  /\ UNCHANGED <<saved, disk, link, check>> /\ zapBounds' = [zapBounds EXCEPT !.between = TRUE]
LookupEnds(l) ==
  /\ l \in manual.lookups
  /\ \/ /\ l.gen # manual.gen /\ UNCHANGED zap
        /\ manual' = [manual EXCEPT !.lookups = @ \ {l}] /\ zapBounds' = [zapBounds EXCEPT !.between = TRUE]
     \/ /\ l.gen = manual.gen /\ zap' = ApplyPlan(zap, [preset |-> l.preset, rule |-> TRUE])
        /\ manual' = [manual EXCEPT !.lookups = @ \ {l}] /\ zapBounds' = [zapBounds EXCEPT !.between = TRUE]
     \/ /\ l.gen = manual.gen /\ Wrong /\ UNCHANGED zap
        /\ manual' = [manual EXCEPT !.lookups = @ \ {l}, !.busy = FALSE]
  /\ page' = Shows(page, zap', manual', page.error, saved)
  /\ UNCHANGED <<saved, disk, link, check>>

(* --- The page -------------------------------------------------------------- *)

Rest == UNCHANGED <<disk, check>>
ZapToggle ==
  /\ Clicks /\ Rest
  /\ IF OnCard(page.status) THEN StopForSites ELSE page.selected # "" /\ StartOn(page.selected)
  /\ page' = Shows(page, zap', manual', FALSE, saved')
(* _choose_preset: what runs is what is chosen.                              *)
ZapChoose(p) ==
  /\ Clicks /\ Rest /\ p \in page.known
  /\ IF OnCard(page.status)
     THEN StartOn(p) /\ page' = Shows([page EXCEPT !.selected = p], zap', manual', FALSE, saved')
     ELSE /\ saved' = [saved EXCEPT !.preset = p] /\ page' = [page EXCEPT !.selected = p]
          /\ UNCHANGED <<zap, manual, link>>
Delete(p) ==
  /\ Clicks /\ p \in page.known /\ UNCHANGED check
  /\ disk' = disk \ {p}
  /\ LET off == p = page.status.preset /\ OnCard(page.status)
         list == [page EXCEPT !.known = disk', !.selected = IF @ = p THEN "" ELSE @]
     IN  IF off THEN StopForSites /\ page' = [Shows(page, zap', manual', FALSE, saved') EXCEPT !.known = disk', !.selected = IF @ = p THEN "" ELSE @]
         ELSE page' = list /\ UNCHANGED <<saved, zap, manual, link>>
(* _on_save_preset: under another name the file is renamed first, and a      *)
(* winws2 that runs it starts again; writing may fail after the rename.      *)
Saves(p, q) ==
  /\ p \in page.known \cap disk /\ q \in ZapPreset /\ (q = p \/ q \notin disk) /\ UNCHANGED check
  /\ disk' = (disk \ {p}) \cup {q}
  /\ LET list == [page EXCEPT !.known = disk', !.selected = IF @ = p THEN q ELSE @]
         kept == [saved EXCEPT !.preset = IF page.selected = p THEN q ELSE @]
     IN  \/ /\ Clicks /\ OnCard(page.status) /\ page.status.preset \in {p, q}
            /\ StartOn(q) /\ page' = Shows([list EXCEPT !.selected = q], zap', manual', FALSE, saved')
         \/ /\ Clicks /\ ~(OnCard(page.status) /\ page.status.preset \in {p, q})
            /\ page' = list /\ saved' = kept /\ UNCHANGED <<zap, manual, link>>
         \/ /\ Wrong /\ q # p /\ page' = [list EXCEPT !.known = page.known] /\ saved' = kept
            /\ UNCHANGED <<zap, manual, link>>
Import(p) ==
  /\ Clicks /\ p \in ZapPreset \ disk /\ disk' = disk \cup {p} /\ page' = [page EXCEPT !.known = disk']
  /\ UNCHANGED <<saved, zap, manual, link, check>>

(* --- The launch and the process -------------------------------------------- *)

(* Signals of the manager: bypass lets the indicator go, the card follows.   *)
Signalled(error) ==
  /\ page' = Shows(page, zap', manual', error, saved)
  /\ UNCHANGED <<saved, disk, check>>
(* _fail: the request is dropped, said, and a session that needs it stops.   *)
FailsWith(z) ==
  /\ zap' = Dropped(z) /\ manual' = [manual EXCEPT !.busy = FALSE] /\ link' = FailClosed(link) /\ Signalled(TRUE)

WaitExits ==
  /\ zap.launch.at = "exits" /\ zap.exiting = 0 /\ zap' = [zap EXCEPT !.launch.at = "starts"]
  /\ UNCHANGED <<manual, page, saved, disk, link, check, zapBounds>>
(* After 5 s it goes on, and ends whatever winws2 of this folder is left.    *)
WaitIsOver ==
  /\ zap.launch.at = "exits" /\ zap.exiting > 0 /\ Wrong
  /\ zap' = [zap EXCEPT !.launch.at = "starts", !.exiting = 0]
  /\ UNCHANGED <<manual, page, saved, disk, link, check>>
LaunchWinws ==
  LET l == zap.launch IN
  /\ l.at = "starts"
  /\ \/ /\ l.plan.preset \in disk \cup {""}
        /\ zap' = [zap EXCEPT !.launch = NoLaunch, !.proc = [rev |-> l.rev, plan |-> l.plan, st |-> "starting"]]
        /\ UNCHANGED <<manual, page, saved, disk, link, check, zapBounds>>
     \/ /\ l.plan.preset \notin disk \cup {""} /\ FailsWith([zap EXCEPT !.launch = NoLaunch]) /\ zapBounds' = [zapBounds EXCEPT !.failed = TRUE, !.between = TRUE]
     \/ Wrong /\ FailsWith([zap EXCEPT !.launch = NoLaunch])
WinwsStarted ==
  /\ zap.proc.st = "starting"
  /\ zap' = [zap EXCEPT !.proc.st = "running", !.pending = IF @ = zap.proc.rev THEN 0 ELSE @]
  /\ manual' = [manual EXCEPT !.busy = FALSE] /\ Signalled(page.error) /\ UNCHANGED <<link, zapBounds>>
WinwsEnds == zap.proc.st # "none" /\ Wrong /\ FailsWith([zap EXCEPT !.proc = NoWinws])
ExitDone ==
  /\ zap.exiting > 0 /\ zap' = [zap EXCEPT !.exiting = @ - 1]
  /\ UNCHANGED <<manual, page, saved, disk, link, check, zapBounds>>
(* _on_apply_timeout: the request counts as failed, what was begun goes on.  *)
ApplyTimeout ==
  /\ zap.pending # 0 /\ Wrong /\ zap' = [zap EXCEPT !.pending = 0] /\ link' = FailClosed(link)
  /\ UNCHANGED <<manual, page, saved, disk, check>>

(* --- The VPN --------------------------------------------------------------- *)

Begins(l) == IF l.up /\ check.at = "idle"
             THEN check' = [at |-> "settles", gen |-> l.gen, plan |-> NoPlan, conflict |-> FALSE] ELSE UNCHANGED check
Connect ==
  /\ Clicks /\ ~link.up /\ link.transition = "none"
  /\ link' = IF Needs(link) THEN [link EXCEPT !.transition = "asked"] ELSE [link EXCEPT !.up = TRUE, !.gen = @ + 1]
  /\ Begins(link') /\ UNCHANGED <<zap, manual, page, saved, disk>>
(* release: with the VPN goes a winws2 that carried only its rule.           *)
Disconnect ==
  /\ Clicks /\ link.up /\ link' = [link EXCEPT !.up = FALSE, !.gen = @ + 1, !.transition = "none"]
  /\ zap' = IF zap.plan # NoPlan /\ zap.plan.preset = "" /\ ~manual.busy THEN StopPlan(zap) ELSE zap
  /\ UNCHANGED manual /\ Signalled(page.error)
(* The transition a session with a rule goes through (see Coordinator) .     *)
TransitionStops ==
  /\ link.transition = "asked" /\ link.up /\ link' = [link EXCEPT !.up = FALSE, !.gen = @ + 1]
  /\ zapBounds' = [zapBounds EXCEPT !.between = TRUE] /\ UNCHANGED <<zap, manual, page, saved, disk, check>>
TransitionApplies ==
  /\ link.transition = "asked" /\ ~link.up
  /\ \E p \in disk \cup {""} :
       /\ IF saved.sites THEN p = saved.preset \/ (saved.preset \notin disk /\ p # "") ELSE p = ""
       /\ saved' = IF p = "" THEN saved ELSE [saved EXCEPT !.preset = p]
       /\ zap' = ApplyPlan(zap, [preset |-> p, rule |-> TRUE])
  /\ link' = [link EXCEPT !.transition = "waits"] /\ page' = Shows(page, zap', manual, page.error, saved')
  /\ zapBounds' = [zapBounds EXCEPT !.between = TRUE] /\ UNCHANGED <<manual, disk, check>>
TransitionEnds ==
  /\ link.transition = "waits" /\ zap.pending = 0
  /\ link' = IF zap.plan.rule /\ IsApplied(zap, zap.plan) THEN [link EXCEPT !.up = TRUE, !.gen = @ + 1, !.transition = "none"]
             ELSE [link EXCEPT !.transition = "none"]
  /\ Begins(link') /\ zapBounds' = [zapBounds EXCEPT !.between = TRUE] /\ UNCHANGED <<zap, manual, page, saved, disk>>

(* --- The self-check --------------------------------------------------------- *)

StillValid == link.up /\ link.gen = check.gen
CheckRest == UNCHANGED <<manual, saved, disk, link>>
CheckSettles ==
  /\ check.at = "settles" /\ check' = [check EXCEPT !.at = IF StillValid THEN "own" ELSE "idle"]
  /\ UNCHANGED <<zap, page, zapBounds>> /\ CheckRest
(* own_state: only a winws2 that carries no rule of the session may stop.    *)
CheckOwn ==
  LET stoppable == WinwsRuns(zap) /\ zap.plan # NoPlan /\ ~zap.plan.rule /\ ~Needs(link) IN
  /\ check.at = "own"
  /\ check' = IF stoppable THEN [check EXCEPT !.at = "probes", !.plan = zap.plan] ELSE [check EXCEPT !.at = "idle"]
  /\ zapBounds' = [zapBounds EXCEPT !.between = FALSE] /\ UNCHANGED <<zap, page>> /\ CheckRest
CheckProbes ==
  /\ check.at = "probes" /\ check' \in {[check EXCEPT !.at = "idle"], [check EXCEPT !.at = IF StillValid THEN "stops" ELSE "idle"]}
  /\ UNCHANGED <<zap, page, zapBounds>> /\ CheckRest
CheckStops ==
  /\ check.at = "stops" /\ check' = [check EXCEPT !.at = "looks"]
  /\ zap' = StopPlan(zap) /\ page' = Shows(page, zap', manual, page.error, saved) /\ CheckRest /\ UNCHANGED zapBounds
CheckLooks ==
  /\ check.at = "looks"
  /\ check' \in {[check EXCEPT !.at = "restores"], [check EXCEPT !.at = IF StillValid THEN "disables" ELSE "restores"]}
  /\ UNCHANGED <<zap, page, zapBounds>> /\ CheckRest
CheckRestores ==
  /\ check.at = "restores" /\ check' = [check EXCEPT !.at = "idle"]
  /\ zap' = IF link.up THEN ApplyPlan(zap, check.plan) ELSE zap
  /\ page' = Shows(page, zap', manual, page.error, saved) /\ CheckRest /\ UNCHANGED zapBounds
CheckDisables ==
  /\ check.at = "disables" /\ check' = [check EXCEPT !.at = "idle", !.conflict = TRUE]
  /\ saved' = [saved EXCEPT !.autostart = FALSE] /\ UNCHANGED <<zap, page, zapBounds, manual, disk, link>>

(* A second after the start, where the saved preset is there.                *)
Autostart ==
  /\ zap.rev = 0 /\ manual.gen = 0 /\ zapBounds.clicks = 0 /\ ~link.up /\ saved.preset \in page.known
  /\ StartOn(saved.preset) /\ page' = Shows(page, zap', manual', FALSE, saved') /\ UNCHANGED <<disk, check, zapBounds>>

ZapretNext ==
  \/ ZapToggle \/ \E p \in ZapPreset : ZapChoose(p) \/ Delete(p) \/ Import(p) \/ \E q \in ZapPreset : Saves(p, q)
  \/ Autostart \/ \E l \in manual.lookups : LookupEnds(l)
  \/ WaitExits \/ WaitIsOver \/ LaunchWinws \/ WinwsStarted \/ WinwsEnds \/ ExitDone \/ ApplyTimeout
  \/ Connect \/ Disconnect \/ TransitionStops \/ TransitionApplies \/ TransitionEnds
  \/ CheckSettles \/ CheckOwn \/ CheckProbes \/ CheckStops \/ CheckLooks \/ CheckRestores \/ CheckDisables

ZapretSpec == ZapretInit /\ [][ZapretNext]_zapretVars

(* --- What must hold -------------------------------------------------------- *)

(* Two winws2 of this folder never hold the driver at once, however quickly  *)
(* one request follows another.                                              *)
OneDriver == zap.proc.st # "none" => zap.exiting = 0

(* A request counts as applied by the process started for it, never by a     *)
(* late signal of an older one.                                              *)
AppliedIsOwn == IsApplied(zap, zap.plan) => zap.proc.rev = zap.rev

(* The card says what the manager does, after every signal and click; the    *)
(* preset it names is the one that runs.                                     *)
CardIsTrue ==
  LET s == StatusOf(zap, manual.busy, page.error, saved.preset) IN
  page.status.state = s.state /\ (s.state = "running" => page.status.preset = s.preset)

(* Once all is quiet and nothing failed, what runs is what was asked for     *)
(* last: the chosen preset, or only the rule of the server.                  *)
LastClickWins ==
  (/\ zap.plan # NoPlan /\ zap.pending = 0 /\ link.transition = "none" /\ (Needs(link) => link.up)
   /\ \A l \in manual.lookups : l.gen # manual.gen
   /\ ~zapBounds.failed /\ check.plan = NoPlan)
  => zap.plan.preset = IF saved.sites THEN saved.preset ELSE ""

(* A self-check that nobody came between leaves winws2 as it found it, or    *)
(* has found it guilty and switched its autostart off.                       *)
CheckLeavesAsFound ==
  check.at = "idle" /\ check.plan # NoPlan /\ ~zapBounds.between
    => zap.plan = check.plan \/ (check.conflict /\ zap.plan = NoPlan /\ ~saved.autostart)

ZapretSafe == OneDriver /\ AppliedIsOwn /\ CardIsTrue /\ LastClickWins /\ CheckLeavesAsFound
=============================================================================
