---------------------------- MODULE ReleaseCheck ----------------------------
(* The check for a new release (updates/app_updater.py, signed_release.py,   *)
(* network/http_utils.py, zapret_update/manifest.py): the names of the       *)
(* server one after the other, GitHub when none answers, each over the       *)
(* proxy and directly, and then what of the answer is believed.              *)
EXTENDS Naturals, Sequences, SequencesExt

CONSTANTS
  Mirrors,       \* the sequence of names hosts() gives
  ThroughProxy,  \* a connection offers its proxy, which goes first
  Attempts,      \* attempts_per_route
  RoundBudget    \* _MIRROR_ROUND_BUDGET_S, in timeouts of one attempt

ASSUME CheckAssumption ==
  /\ Mirrors \in Seq(STRING) /\ Mirrors # <<>> /\ ThroughProxy \in BOOLEAN
  /\ \A i \in DOMAIN Mirrors : Mirrors[i] # "github"
  /\ Attempts \in Nat \ {0} /\ RoundBudget \in Nat \ {0}

VARIABLES
  stage,     \* "release", "digest", "manifest", "signature" or "over"
  places,    \* whom this request has still to be sent to, by HttpFetchError
  route, tryNo,     \* where fetch_bytes is
  spent,     \* time the names took
  offer,     \* what was answered of the release
  fallback,  \* github_fallback
  outcome,   \* "open", "none", "update", "error" or "rejected"
  whomAsked, \* history: places that were sent a request for the release
  oddities   \* history: kinds of answers and errors after which nobody else is asked

checkVars == <<stage, places, route, tryNo, spent, offer, fallback, outcome, whomAsked, oddities>>

ReleaseNo == 1..3
InstalledVersion == 1
RouteCount == IF ThroughProxy THEN 2 ELSE 1
NoOffer == [tag |-> 0, archive |-> "none", sum |-> "none", version |-> 0, signed |-> FALSE, sized |-> TRUE]

(* What a place may say: any tag, any archive, a sum or none, a list that is *)
(* signed (of any release there was) or is not.  Only a list of a release    *)
(* that exists carries a true signature; its archive is the "right" one.     *)
Offers ==
  [tag : ReleaseNo, archive : {"right", "other"}, sum : {"api", "file", "none"},
   version : ReleaseNo \ {3}, signed : BOOLEAN, sized : BOOLEAN]
    \union [tag : ReleaseNo, archive : {"right"}, sum : {"api"}, version : {0}, signed : {FALSE}, sized : {TRUE}]

(* _is_newer_version, _release_from_github: the addresses of the files are   *)
(* those of Forgejo, from whichever place the release is known.              *)
Newer(v, than) == v > than
FilePlaces == IF fallback THEN <<"github", "forgejo">> ELSE <<"forgejo", "github">>

CheckInit ==
  /\ stage = "release" /\ places = Mirrors \o <<"github">> /\ route = 1 /\ tryNo = 1 /\ spent = 0
  /\ offer = NoOffer /\ fallback = FALSE /\ outcome = "open" /\ whomAsked = {} /\ oddities = {}

Ask(next, to) == stage' = next /\ places' = to /\ route' = 1 /\ tryNo' = 1 /\ UNCHANGED outcome
Ends(how) ==
  /\ stage' = "over" /\ outcome' = how /\ places' = <<>> /\ route' = 1 /\ tryNo' = 1

(* Mutant of ListHolds: any signed list will do.                             *)
AnySigned(o) == o.signed

(* verified_manifest, load_signed: the signature over the bytes first, then  *)
(* product and version, and at last the archive against the data of the      *)
(* release.                                                                  *)
ListHolds(o) == o.signed /\ Newer(o.version, InstalledVersion) /\ o.version = o.tag
ArchiveAgrees(o) == o.archive = "right" /\ o.sized

(* _find_available_update, after the data of the release.                    *)
Judge(o) ==
  \/ ~Newer(o.tag, InstalledVersion) /\ Ends("none")
  \/ /\ Newer(o.tag, InstalledVersion)
     /\ IF o.sum = "api" THEN IF o.version = 0 THEN Ends("rejected") ELSE Ask("manifest", FilePlaces')
        ELSE IF o.sum = "file" THEN Ask("digest", FilePlaces') ELSE Ends("error")

Sent == whomAsked' = IF stage = "release" THEN whomAsked \union {Head(places)} ELSE whomAsked

(* An answer to the request: for the release, one with a final address that  *)
(* is not the project's is an error.                                         *)
Answered ==
  /\ stage # "over"
  /\ CASE stage = "release" ->
            /\ fallback' = (Head(places) = "github")
            /\ \/ \E o \in Offers : offer' = o /\ Judge(o) /\ UNCHANGED oddities
               \/ offer' = offer /\ Ends("error") /\ oddities' = oddities \union {"address"}
       [] stage = "digest" ->
            /\ UNCHANGED <<offer, fallback, oddities>>
            /\ IF offer.version = 0 THEN Ends("rejected") ELSE Ask("manifest", FilePlaces)
       [] stage = "manifest" -> UNCHANGED <<offer, fallback, oddities>> /\ Ask("signature", FilePlaces)
       [] stage = "signature" ->
            /\ UNCHANGED <<offer, fallback, oddities>>
            /\ Ends(IF ListHolds(offer) /\ ArchiveAgrees(offer) THEN "update" ELSE "rejected")
  /\ Sent /\ UNCHANGED spent

(* A place has failed over every route (HttpFetchError): the next one; the   *)
(* names only as long as the budget lasts, and GitHub in any case.           *)
Onwards(cost) ==
  LET rest == IF stage = "release" /\ spent + cost >= RoundBudget /\ Len(places) > 1
                THEN <<"github">> ELSE Tail(places)
  IN Sent /\ IF rest = <<>> THEN Ends("error") ELSE Ask(stage, rest)

(* Mutant of Onwards: GitHub is a name like the others.                      *)
OnwardsWithin(cost) ==
  LET rest == IF stage = "release" /\ spent + cost >= RoundBudget THEN <<>> ELSE Tail(places)
  IN Sent /\ IF rest = <<>> THEN Ends("error") ELSE Ask(stage, rest)

(* fetch_bytes: an error that may pass (silence, a reset) is met by another  *)
(* attempt, then by the next route; a 451 by the next route at once.         *)
Passing ==
  /\ stage # "over"
  /\ \E cost \in {0, 1} :
       /\ spent' = IF stage = "release" /\ Head(places) # "github" THEN spent + cost ELSE spent
       /\ IF tryNo < Attempts
            THEN tryNo' = tryNo + 1 /\ UNCHANGED <<stage, places, route, outcome, whomAsked>>
          ELSE IF route < RouteCount
            THEN route' = route + 1 /\ tryNo' = 1 /\ UNCHANGED <<stage, places, outcome, whomAsked>>
          ELSE Onwards(cost)
  /\ UNCHANGED <<offer, fallback, oddities>>

Policy ==
  /\ stage # "over"
  /\ IF route < RouteCount
       THEN route' = route + 1 /\ tryNo' = 1 /\ UNCHANGED <<stage, places, outcome, whomAsked>>
       ELSE Onwards(0)
  /\ UNCHANGED <<spent, offer, fallback, oddities>>

(* _is_retryable_error: everything else (a certificate that is not the       *)
(* server's, a name that does not resolve, a refusal of the proxy, a status) *)
(* is raised as it is, and only HttpFetchError is caught above.              *)
Odd ==
  /\ stage # "over" /\ \E kind \in {"network", "status"} : oddities' = oddities \union {kind}
  /\ Sent /\ Ends("error") /\ UNCHANGED <<spent, offer, fallback>>

CheckNext == Answered \/ Passing \/ Policy \/ Odd

CheckSpec == CheckInit /\ [][CheckNext]_checkVars

-----------------------------------------------------------------------------
(* The types; what is over has come to one outcome.                          *)
CheckTypeOK ==
  /\ stage \in {"release", "digest", "manifest", "signature", "over"}
  /\ route \in 1..RouteCount /\ tryNo \in 1..Attempts
  /\ (stage = "over") = (outcome # "open") /\ (outcome = "open" => places # <<>>)

(* Whoever answers, and whatever it says of the release, what is offered to  *)
(* the user is a release newer than the installed one that the project       *)
(* signed, under its own number and with its own archive: an old signed list *)
(* cannot be passed off as a new release.                                    *)
OfferIsSigned ==
  outcome = "update" => /\ offer.signed /\ offer.archive = "right"
                        /\ offer.tag = offer.version /\ offer.version > InstalledVersion

(* Silence and resets end a check only after GitHub has been asked, and the  *)
(* names as long as the budget lasted.                                       *)
SilenceIsNoEnd ==
  outcome = "error" /\ oddities = {} /\ offer = NoOffer
    => "github" \in whomAsked /\ (ToSet(Mirrors) \subseteq whomAsked \/ spent >= RoundBudget)

CheckSafe == CheckTypeOK /\ OfferIsSigned /\ SilenceIsNoEnd

(* app_updater.py:372: "Ни одно зеркало не ответило по сети: тот же выпуск   *)
(* спрашивается у GitHub."                                                   *)
GithubIsAsked == outcome = "error" /\ offer = NoOffer /\ oddities \subseteq {"network"} => "github" \in whomAsked

-----------------------------------------------------------------------------
(* The names under which the project's server may be reached                 *)
(* (zapret_update/mirrors.py, updates/site_names.py): the race over the      *)
(* names known, the entry pages when all of them are silent, what is kept of *)
(* the outcome and for how long, and what is given to a browser meanwhile.   *)

CONSTANTS
  SiteName,     \* the names under which the server may answer
  NobodyWon,    \* no name
  Boot,         \* the sequence of names built into the program
  MaxRacers,    \* names asked at a time
  FallbackTtl, ListTtl, GoodTtl,     \* FALLBACK_TTL_S < LIST_TTL_S < GOOD_TTL_S
  Lists,        \* the lists the server may publish: [order, blocked]
  Pages,        \* what the entry pages may hold
  MaxNameClock, \* bound on the time
  MaxTurns      \* bound on the changes of the world

ASSUME NamesAssumption ==
  /\ NobodyWon \notin SiteName /\ Boot \in Seq(SiteName) /\ MaxRacers \in Nat \ {0}
  /\ FallbackTtl \in Nat \ {0} /\ ListTtl \in Nat /\ ListTtl > FallbackTtl /\ GoodTtl \in Nat /\ GoodTtl > ListTtl
  /\ Lists \subseteq [order : Seq(SiteName), blocked : SUBSET SiteName] /\ Pages \subseteq Seq(SiteName)

VARIABLES
  opens,        \* the names that answer this computer
  published,    \* the list every one of them gives
  entry,        \* the names on the entry pages, <<>> when they are silent
  hosts,        \* _hosts, <<>> for None
  listed,       \* _listed
  blockedNames, \* _blocked
  good, goodUntil, expires, failedUntil,
  nameClock,
  race,         \* the refresh that holds the lock
  trial,        \* names a check of the release has still to try; <<>> between checks
  met,          \* history: "yes"/"no", how the last check ended; "none" before the first
  vouched,      \* history: names that answered, or that a list had as not blocked
  turns

keptNames == <<hosts, listed, blockedNames, good, goodUntil, expires, failedUntil>>
worldOfNames == <<opens, published, entry, turns>>
namesVars == <<opens, published, entry, hosts, listed, blockedNames, good, goodUntil, expires,
               failedUntil, nameClock, race, trial, met, vouched, turns>>

NoRace == [at |-> "none", names |-> <<>>, winner |-> NobodyWon, order |-> <<>>]

Take(s) == SubSeq(s, 1, IF Len(s) < MaxRacers THEN Len(s) ELSE MaxRacers)
ToFront(n, s) == IF n \in ToSet(s) THEN <<n>> \o SelectSeq(s, LAMBDA h : h # n) ELSE s
Known == IF hosts = <<>> THEN Boot ELSE hosts
Candidates == Take(ToFront(good, Known))
Order == ToFront(good, Known)
GoodHolds == good # NobodyWon /\ nameClock < goodUntil

(* best(), proven() and link() read without the lock, whatever a race does.  *)
Best == IF GoodHolds THEN good ELSE Head(Known)
Unblocked == {i \in DOMAIN hosts : hosts[i] \notin blockedNames}
LinkName ==
  IF GoodHolds THEN good ELSE IF ~listed \/ Unblocked = {} THEN NobodyWon ELSE hosts[Min(Unblocked)]

NamesInit ==
  /\ opens \in SUBSET SiteName /\ published \in Lists /\ entry \in Pages
  /\ hosts = <<>> /\ listed = FALSE /\ blockedNames = {} /\ good = NobodyWon
  /\ goodUntil = 0 /\ expires = 0 /\ failedUntil = 0 /\ nameClock = 0
  /\ race = NoRace /\ trial = <<>> /\ met = "none" /\ vouched = {} /\ turns = 0

(* choose(): a name that holds is given at once; after a failure the race is *)
(* not repeated for a while.                                                 *)
Choose ==
  /\ race.at = "none" /\ ~GoodHolds
  /\ good' = NobodyWon
  /\ race' = IF nameClock >= failedUntil
               THEN [NoRace EXCEPT !.at = "race", !.names = Take(Known)] ELSE NoRace
  /\ UNCHANGED <<hosts, listed, blockedNames, goodUntil, expires, failedUntil, worldOfNames,
                 nameClock, trial, met, vouched>>

(* hosts(), with which a check of the release starts.                        *)
Stale == hosts = <<>> \/ nameClock >= expires
AskHosts ==
  /\ race.at = "none" /\ trial = <<>> /\ met # "waits"
  /\ met' = "waits"
  /\ IF Stale THEN race' = [NoRace EXCEPT !.at = "race", !.names = Candidates] /\ UNCHANGED trial
              ELSE trial' = Order /\ UNCHANGED race
  /\ UNCHANGED <<keptNames, worldOfNames, nameClock, vouched>>

(* _race: the first of the names asked that answers wins, and what its list  *)
(* has as blocked is noted at once; the rest of the refresh comes later.     *)
Wins(n, page) ==
  /\ blockedNames' = published.blocked
  /\ vouched' = vouched \union {n} \union (ToSet(published.order \o page) \ published.blocked)
  /\ race' = [NoRace EXCEPT !.at = "settle", !.winner = n,
                !.order = IF published.order = <<>> THEN page ELSE published.order]

RaceNames ==
  /\ race.at = "race"
  /\ \/ \E n \in ToSet(race.names) \intersect opens : Wins(n, <<>>)
     \/ /\ ToSet(race.names) \intersect opens = {}
        /\ race' = [NoRace EXCEPT !.at = "entry", !.names = race.names] /\ UNCHANGED <<blockedNames, vouched>>
  /\ UNCHANGED <<hosts, listed, good, goodUntil, expires, failedUntil, worldOfNames, nameClock, trial, met>>

(* Mutant of EntryNames: the names of the pages are read and not asked.      *)
EntryUnasked ==
  /\ race.at = "entry"
  /\ race' = [NoRace EXCEPT !.at = "settle"]
  /\ UNCHANGED <<keptNames, worldOfNames, nameClock, trial, met, vouched>>

(* _entry_names, and a second race over those of them not asked yet.         *)
EntryNames ==
  /\ race.at = "entry"
  /\ LET fresh == Take(SelectSeq(entry, LAMBDA h : h \notin ToSet(race.names)))
     IN \/ \E n \in ToSet(fresh) \intersect opens : Wins(n, entry)
        \/ /\ ToSet(fresh) \intersect opens = {}
           /\ race' = [NoRace EXCEPT !.at = "settle"] /\ UNCHANGED <<blockedNames, vouched>>
  /\ UNCHANGED <<hosts, listed, good, goodUntil, expires, failedUntil, worldOfNames, nameClock, trial, met>>

(* The end of _refresh: a name under which there was a real exchange weighs  *)
(* more than the winner of the race.                                         *)
Settle ==
  /\ race.at = "settle"
  /\ LET won == race.winner # NobodyWon   known == won /\ race.order # <<>>
     IN /\ hosts' = IF known THEN race.order ELSE Boot
        /\ listed' = known /\ blockedNames' = IF known THEN blockedNames ELSE {}
        /\ expires' = nameClock + (IF known THEN ListTtl ELSE FallbackTtl)
        /\ failedUntil' = IF won THEN 0 ELSE nameClock + FallbackTtl
        /\ IF won /\ ~GoodHolds THEN good' = race.winner /\ goodUntil' = nameClock + GoodTtl
                                ELSE UNCHANGED <<good, goodUntil>>
        /\ trial' = IF met = "waits" /\ trial = <<>> THEN ToFront(good', hosts') ELSE trial
  /\ race' = NoRace
  /\ UNCHANGED <<worldOfNames, nameClock, met, vouched>>

(* Mutant of Settle: the built-in names are taken for a list of the server.  *)
SettleListed ==
  /\ race.at = "settle"
  /\ LET won == race.winner # NobodyWon   known == won /\ race.order # <<>>
     IN /\ hosts' = IF known THEN race.order ELSE Boot
        /\ listed' = TRUE /\ blockedNames' = IF known THEN blockedNames ELSE {}
        /\ expires' = nameClock + (IF known THEN ListTtl ELSE FallbackTtl)
        /\ failedUntil' = IF won THEN 0 ELSE nameClock + FallbackTtl
        /\ IF won /\ ~GoodHolds THEN good' = race.winner /\ goodUntil' = nameClock + GoodTtl
                                ELSE UNCHANGED <<good, goodUntil>>
        /\ trial' = IF met = "waits" /\ trial = <<>> THEN ToFront(good', hosts') ELSE trial
  /\ race' = NoRace
  /\ UNCHANGED <<worldOfNames, nameClock, met, vouched>>

(* The check asks under one name after the other; the one that answers is    *)
(* remembered, and when none does the list is forgotten.                     *)
Remember ==
  /\ trial # <<>> /\ race.at = "none" /\ Head(trial) \in opens
  /\ good' = Head(trial) /\ goodUntil' = nameClock + GoodTtl
  /\ trial' = <<>> /\ met' = "yes" /\ vouched' = vouched \union {Head(trial)}
  /\ UNCHANGED <<hosts, listed, blockedNames, expires, failedUntil, worldOfNames, nameClock, race>>

NoAnswer ==
  /\ Len(trial) > 1 /\ Head(trial) \notin opens
  /\ trial' = Tail(trial)
  /\ UNCHANGED <<keptNames, worldOfNames, nameClock, race, met, vouched>>

Forget ==
  /\ Len(trial) = 1 /\ Head(trial) \notin opens /\ race.at = "none"
  /\ hosts' = <<>> /\ listed' = FALSE /\ blockedNames' = {} /\ good' = NobodyWon /\ failedUntil' = 0
  /\ trial' = <<>> /\ met' = "no"
  /\ UNCHANGED <<goodUntil, expires, worldOfNames, nameClock, race, vouched>>

NameTime ==
  /\ nameClock < MaxNameClock /\ nameClock' = nameClock + 1
  /\ UNCHANGED <<keptNames, worldOfNames, race, trial, met, vouched>>

(* The filter of a provider, the server and the pages change.                *)
WorldTurns ==
  /\ turns < MaxTurns /\ turns' = turns + 1
  /\ \/ opens' \in SUBSET SiteName /\ UNCHANGED <<published, entry>>
     \/ published' \in Lists /\ UNCHANGED <<opens, entry>>
     \/ entry' \in Pages /\ UNCHANGED <<opens, published>>
  /\ UNCHANGED <<keptNames, nameClock, race, trial, met, vouched>>

CheckSteps == AskHosts \/ RaceNames \/ EntryNames \/ Settle \/ Remember \/ NoAnswer \/ Forget
NamesNext == Choose \/ CheckSteps \/ NameTime \/ WorldTurns

(* A race ends by its deadline, a request by its timeout; checks come again. *)
NamesSpec == NamesInit /\ [][NamesNext]_namesVars /\ WF_namesVars(CheckSteps)

-----------------------------------------------------------------------------
(* The types; only one refresh at a time, and a check waits for it.          *)
NamesTypeOK ==
  /\ hosts \in Seq(SiteName) /\ blockedNames \subseteq SiteName /\ good \in SiteName \union {NobodyWon}
  /\ race.at \in {"none", "race", "entry", "settle"} /\ (trial # <<>> => met = "waits")

(* A browser is led only to a name that has answered this computer or that   *)
(* the server has named as open: never to one guessed from the built-in      *)
(* list, whatever was forgotten, raced or published meanwhile.               *)
NoGuessedLink == race.at = "none" => LinkName \in vouched \union {NobodyWon}

(* A list is trusted for its time only: after that, or after a check to      *)
(* which nobody answered, the next check asks the names anew.                *)
ListHasTerm == hosts # <<>> /\ listed => expires <= nameClock + ListTtl

NamesSafe == NamesTypeOK /\ NoGuessedLink /\ ListHasTerm

(* When the built-in names and the kept ones are silent, but an entry page   *)
(* and a name on it open for good, some later check of the release is        *)
(* answered: the program does not stay with what it knew.                    *)
PageOpens == entry # <<>> /\ ToSet(Take(entry)) \intersect opens # {}
NamesAreFound == <>[]PageOpens => []<>(met = "yes" \/ GoodHolds)

(* The same of link(), which does not wait for the lock (mirrors.py:391:     *)
(* "стоит первым среди не закрытых в списке сервера").                       *)
NoGuessAtAnyTime == LinkName \in vouched \union {NobodyWon}
=============================================================================
