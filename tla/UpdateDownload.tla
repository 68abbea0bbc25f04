--------------------------- MODULE UpdateDownload ---------------------------
(* The download of a release (updates/app_updater.py, updates/delta_zip.py): *)
(* three rungs, from the cheapest: files and patches from the store of the   *)
(* release, parts of the archive by Range, the archive as a whole.  Each     *)
(* goes over its places and routes; what none of them can spoil is the tree  *)
(* that is handed to the installer.                                          *)
EXTENDS Naturals, Sequences, FiniteSets

CONSTANTS
  File,        \* files of a build
  HasProxy,    \* a connection offers a second route
  Stored       \* the release has a store

ASSUME DownloadAssumption == HasProxy \in BOOLEAN /\ Stored \in BOOLEAN

VARIABLES
  copies,     \* the archive each place holds: "right" or "wrong"
  local,      \* the installed copy of each file: "same", "old" or "spoilt"
  rung,       \* "store", "delta", "setup", "verify", "unpack", "ready" or "failed"
  tries,      \* <<place, route>> still to be tried on this rung
  plan,       \* delta: files to reuse and to fetch
  tree,       \* the build that is put together
  archive,    \* update.zip: "none", "right", "wrong" or "cut"
  kept,       \* the directory of the download exists
  permanent,  \* failure_permanent
  via,        \* the rung that is reported
  cuts        \* history: downloads that broke off in the middle

downloadVars == <<copies, local, rung, tries, plan, tree, archive, kept, permanent, via, cuts>>

Places == <<"github", "forgejo">>          \* _archive_urls
Routes == IF HasProxy THEN <<"direct", "proxy">> ELSE <<"direct">>

(* Every place over every route, in the order of the code.                   *)
AllTries ==
  [i \in 1..(2 * Len(Routes)) |->
     <<Places[((i - 1) \div Len(Routes)) + 1], Routes[((i - 1) % Len(Routes)) + 1]>>]

Empty  == [f \in File |-> "none"]
NoPlan == [is |-> "none", reuse |-> {}, fetch |-> {}]
Listed == [NoPlan EXCEPT !.is = "listed"]      \* the directory has been read

(* Past the place whose archive is unfit (DeltaUnavailable): its routes      *)
(* stand together.                                                           *)
Elsewhere ==
  LET others == {i \in DOMAIN tries : tries[i][1] # Head(tries)[1]}
  IN IF others = {} THEN <<>> ELSE SubSeq(tries, CHOOSE i \in others : \A j \in others : i <= j, Len(tries))

DownloadInit ==
  /\ copies \in [{"github", "forgejo"} -> {"right", "wrong"}]
  /\ local \in [File -> {"same", "old"}]
  /\ rung = "store" /\ tries = <<>> /\ plan = NoPlan /\ tree = Empty /\ archive = "none"
  /\ kept = TRUE /\ permanent = FALSE /\ via = "none" /\ cuts = 0

Down(to) == rung' = to /\ tries' = AllTries /\ plan' = NoPlan /\ tree' = Empty

(* _try_store: the plan, its files and patches, the staged tree, each file   *)
(* of which is compared with the signed list; any failure leads one rung on. *)
TryStore ==
  /\ rung = "store"
  /\ \/ /\ Stored /\ rung' = "ready" /\ via' = "files"
        /\ tree' = [f \in File |-> "new"] /\ UNCHANGED <<tries, plan>>
     \/ Down("delta") /\ UNCHANGED via
  /\ UNCHANGED <<copies, local, archive, kept, permanent, cuts>>

(* read_directory: the end of the archive and its list of entries; what is   *)
(* odd there (two disks, a name twice, a method nobody writes) refuses it.   *)
ReadDirectory ==
  /\ rung = "delta" /\ plan = NoPlan /\ tries # <<>>
  /\ \/ plan' = Listed /\ UNCHANGED tries
     \/ tries' = Tail(tries) /\ UNCHANGED plan              \* the network
     \/ tries' = Elsewhere /\ UNCHANGED plan
  /\ UNCHANGED <<copies, local, rung, tree, archive, kept, permanent, via, cuts>>

(* build_plan: a file is reused if its copy has the signed size and hash;    *)
(* what would take nearly all of the archive is not worth the parts.         *)
PlanParts ==
  /\ rung = "delta" /\ plan = Listed
  /\ \/ /\ copies[Head(tries)[1]] = "right"
        /\ plan' = [is |-> "made", reuse |-> {f \in File : local[f] = "same"},
                    fetch |-> {f \in File : local[f] # "same"}]
        /\ UNCHANGED tries
     \/ tries' = Elsewhere /\ plan' = NoPlan
  /\ UNCHANGED <<copies, local, rung, tree, archive, kept, permanent, via, cuts>>

(* _download_ranges and _extract_entry, file by file; a range that is not    *)
(* complete is a failure of the network, a file that does not have its hash  *)
(* makes the archive of this place unfit.                                    *)
Extract(f) ==
  /\ rung = "delta" /\ f \in plan.fetch /\ tree[f] = "none"
  /\ \/ tree' = [tree EXCEPT ![f] = "new"] /\ UNCHANGED <<tries, plan, cuts>>
     \/ /\ tries' = Tail(tries) /\ plan' = NoPlan /\ tree' = Empty /\ cuts' = cuts + 1
     \/ /\ tries' = Elsewhere
        /\ plan' = NoPlan /\ tree' = Empty /\ UNCHANGED cuts
  /\ UNCHANGED <<copies, local, rung, archive, kept, permanent, via>>

(* Mutant of CopyReused: the hash is not taken again.                        *)
CopyUnhashed(f) ==
  /\ rung = "delta" /\ plan.is = "made" /\ f \in plan.reuse /\ tree[f] = "none"
  /\ \A g \in plan.fetch : tree[g] = "new"
  /\ tree' = [tree EXCEPT ![f] = IF local[f] = "same" THEN "new" ELSE "cut"]
  /\ UNCHANGED <<copies, local, rung, tries, plan, archive, kept, permanent, via, cuts>>

(* _copy_reused: the file is hashed again while it is copied.                *)
CopyReused(f) ==
  /\ rung = "delta" /\ plan.is = "made" /\ f \in plan.reuse /\ tree[f] = "none"
  /\ \A g \in plan.fetch : tree[g] = "new"
  /\ IF local[f] = "same"
       THEN tree' = [tree EXCEPT ![f] = "new"] /\ UNCHANGED <<tries, plan>>
       ELSE /\ tries' = Elsewhere
            /\ plan' = NoPlan /\ tree' = Empty
  /\ UNCHANGED <<copies, local, rung, archive, kept, permanent, via, cuts>>

DeltaEnds ==
  /\ rung = "delta" /\ plan.is = "made" /\ \A f \in File : tree[f] # "none"
  /\ rung' = "ready" /\ via' = "parts"
  /\ UNCHANGED <<copies, local, tries, plan, tree, archive, kept, permanent, cuts>>

(* No place and no route gave the parts: the archive as a whole.             *)
DeltaFails ==
  /\ rung = "delta" /\ plan = NoPlan /\ tries = <<>>
  /\ Down("setup") /\ via' = "setup"
  /\ UNCHANGED <<copies, local, archive, kept, permanent, cuts>>

(* _download: four segments at a time, each of which must be complete, and   *)
(* when one fails the whole archive over one connection, whose end is taken  *)
(* for the end of the file.                                                  *)
Whole(p, of) == of \in {copies[p], "cut"}

(* _fetch: a failure leads to the next route; a copy on GitHub that is not   *)
(* the signed one leads to Forgejo at once.                                  *)
Fetch ==
  /\ rung = "setup" /\ tries # <<>>
  /\ \/ tries' = Tail(tries) /\ archive' = "none" /\ UNCHANGED <<rung, cuts>>
     \/ \E got \in {"right", "wrong", "cut"} :
          /\ Whole(Head(tries)[1], got)
          /\ cuts' = IF got = "cut" THEN cuts + 1 ELSE cuts
          /\ IF Head(tries)[1] = "github" /\ got # "right"
               THEN tries' = Elsewhere /\ archive' = "none" /\ UNCHANGED rung
               ELSE archive' = got /\ rung' = "verify" /\ UNCHANGED tries
  /\ UNCHANGED <<copies, local, plan, tree, kept, permanent, via>>

(* The end of run() by an exception: the directory is removed; an archive    *)
(* that was refused counts as an attempt.                                    *)
Fails(forever) == rung' = "failed" /\ kept' = FALSE /\ permanent' = forever

NoWay ==
  /\ rung = "setup" /\ tries = <<>> /\ Fails(FALSE)
  /\ UNCHANGED <<copies, local, tries, plan, tree, archive, via, cuts>>

(* Mutant of Verify: the sum of the archive is not compared.                 *)
VerifyAny ==
  /\ rung = "verify" /\ rung' = "unpack" /\ UNCHANGED <<kept, permanent>>
  /\ UNCHANGED <<copies, local, tries, plan, tree, archive, via, cuts>>

Verify ==
  /\ rung = "verify"
  /\ IF archive = "right" THEN rung' = "unpack" /\ UNCHANGED <<kept, permanent>> ELSE Fails(TRUE)
  /\ UNCHANGED <<copies, local, tries, plan, tree, archive, via, cuts>>

Unpack ==
  /\ rung = "unpack"
  /\ \/ /\ tree' = [f \in File |-> IF archive = "right" THEN "new" ELSE "cut"]
        /\ rung' = "ready" /\ archive' = "none" /\ UNCHANGED <<kept, permanent>>
     \/ Fails(FALSE) /\ UNCHANGED <<tree, archive>>           \* no space
  /\ UNCHANGED <<copies, local, tries, plan, via, cuts>>

(* The program that runs from the installed files may lose one meanwhile.    *)
Spoil(f) ==
  /\ rung = "delta" /\ local[f] = "same" /\ \A g \in File : local[g] # "spoilt"
  /\ local' = [local EXCEPT ![f] = "spoilt"]
  /\ UNCHANGED <<copies, rung, tries, plan, tree, archive, kept, permanent, via, cuts>>

DownloadNext ==
  \/ TryStore \/ ReadDirectory \/ PlanParts \/ DeltaEnds \/ DeltaFails \/ Fetch \/ NoWay \/ Verify \/ Unpack
  \/ \E f \in File : Extract(f) \/ CopyReused(f) \/ Spoil(f)

DownloadSpec == DownloadInit /\ [][DownloadNext]_downloadVars

-----------------------------------------------------------------------------
(* The types; the directory is there as long as something may use it.        *)
DownloadTypeOK ==
  /\ rung \in {"store", "delta", "setup", "verify", "unpack", "ready", "failed"}
  /\ archive \in {"none", "right", "wrong", "cut"}
  /\ tree \in [File -> {"none", "new", "cut"}]
  /\ kept <=> rung # "failed"

(* Whatever the rung, the routes that failed before it, the copies the       *)
(* places hold and the files that change under way: what is handed to the    *)
(* installer is the signed build and nothing else, and the rung reported to  *)
(* the server is the one it came by.                                         *)
OnlySigned ==
  rung = "ready" => /\ \A f \in File : tree[f] = "new"
                    /\ (via = "files" => Stored) /\ (via = "setup" => plan = NoPlan)

(* A right copy is not refused because another place holds a wrong one.      *)
RightCopyServes == copies["forgejo"] = "right" /\ cuts = 0 => ~permanent

DownloadSafe == DownloadTypeOK /\ OnlySigned /\ RightCopyServes

(* app_updater.py:641: what counts as an attempt is a failure "который       *)
(* повторится при любой следующей загрузке этого же архива (контрольная      *)
(* сумма, содержимое). Сетевые ошибки — нет."                                *)
PermanentIsTrue == permanent => copies["forgejo"] = "wrong"

-----------------------------------------------------------------------------
(* The files of a release from its store (zapret_update/plan.py, fetch.py,   *)
(* store.py, bsdiff.py, stage.py): a plan against the files on the disk,     *)
(* several threads over several sources with one ranking, parts that outlive *)
(* the program, and the tree that is staged from them.                       *)

CONSTANTS
  Piece,        \* files of the new version
  Patched,      \* those that come as a patch of the file on the disk
  Depot,       \* places and routes, ordered by
  DepotRank,        \*   their place in the list
  NoDepot,      \* no depot
  PieceSize,    \* pieces of a download
  Rounds,       \* ROUNDS
  MaxRestartsOfFetch, MaxBases    \* bounds: restarts, files that change under way

ASSUME FetchAssumption ==
  /\ Patched \subseteq Piece /\ IsFiniteSet(Depot) /\ NoDepot \notin Depot
  /\ DepotRank \in [Depot -> Nat] /\ PieceSize \in Nat \ {0} /\ Rounds \in Nat \ {0}

VARIABLES
  honest,     \* sources whose bytes are those of the release
  resumes,    \* sources that answer a Range with 206, and not the file from its start
  onDisk,     \* the files of the program: "old" or "new", "odd" when changed
  part,       \* <work>/parts: pieces there are, and whether one is wrong
  readyFile,  \* <work>/ready
  job,        \* each file: "idle", "next", "asks", "done", "failed", "stopped"
  depot,     \* the depot a file is asked from
  triedSources, lap, broken,
  strikes,    \* _Ranking
  fetch,      \* "plan", "fetch", "stage", "staged" or "given up"
  code,       \* the reason given
  wanted,     \* plan.want
  restarts, bases

fetchVars == <<honest, resumes, onDisk, part, readyFile, job, depot, triedSources, lap, broken, strikes,
               fetch, code, wanted, restarts, bases>>
diskOfFetch == <<honest, resumes, onDisk, bases>>

NoPart == [have |-> 0, wrong |-> FALSE]

FetchInit ==
  /\ honest \in SUBSET Depot /\ resumes \in SUBSET Depot /\ onDisk \in [Piece -> {"old", "new"}]
  /\ part = [p \in Piece |-> NoPart] /\ readyFile = {} /\ job = [p \in Piece |-> "idle"]
  /\ depot = [p \in Piece |-> NoDepot] /\ triedSources = [p \in Piece |-> {}]
  /\ lap = [p \in Piece |-> 1] /\ broken = [p \in Piece |-> FALSE] /\ strikes = [s \in Depot |-> 0]
  /\ fetch = "plan" /\ code = "none" /\ wanted = {} /\ restarts = 0 /\ bases = 0

(* make_plan: what is not on the disk with its sum; a file already unpacked  *)
(* and one whose download was cut are found again in the work directory.     *)
MakePlan ==
  /\ fetch = "plan" /\ fetch' = "fetch"
  /\ wanted' = {p \in Piece : onDisk[p] # "new"}
  /\ job' = [p \in Piece |-> IF p \in wanted' /\ p \notin readyFile THEN "next" ELSE "done"]
  /\ triedSources' = [p \in Piece |-> {}] /\ lap' = [p \in Piece |-> 1]
  /\ broken' = [p \in Piece |-> FALSE] /\ strikes' = [s \in Depot |-> 0]
  /\ UNCHANGED <<diskOfFetch, part, readyFile, depot, code, restarts>>

BetterDepot(s, t) == strikes[s] < strikes[t] \/ (strikes[s] = strikes[t] /\ DepotRank[s] < DepotRank[t])
Untried(p) == Depot \ triedSources[p]
OneFailed == \E p \in Piece : job[p] = "failed"

(* one(): the order is taken anew before each attempt; a file that has       *)
(* failed for good stops the others.                                         *)
PickDepot(p) ==
  /\ fetch = "fetch" /\ job[p] = "next" /\ Untried(p) # {}
  /\ IF OneFailed THEN job' = [job EXCEPT ![p] = "stopped"] /\ UNCHANGED <<depot, triedSources>>
     ELSE \E s \in Untried(p) :
            /\ \A t \in Untried(p) \ {s} : BetterDepot(s, t)
            /\ depot' = [depot EXCEPT ![p] = s] /\ job' = [job EXCEPT ![p] = "asks"]
            /\ triedSources' = [triedSources EXCEPT ![p] = @ \union {s}]
  /\ UNCHANGED <<diskOfFetch, part, readyFile, lap, broken, strikes, fetch, code, wanted, restarts>>

(* All the sources were tried: another round after a pause, or the end.      *)
NextRound(p) ==
  /\ fetch = "fetch" /\ job[p] = "next" /\ Untried(p) = {}
  /\ IF lap[p] < Rounds
       THEN /\ lap' = [lap EXCEPT ![p] = @ + 1] /\ triedSources' = [triedSources EXCEPT ![p] = {}]
            /\ UNCHANGED <<job, code>>
       ELSE /\ job' = [job EXCEPT ![p] = "failed"] /\ UNCHANGED <<lap, triedSources>>
            /\ code' = IF code # "none" THEN code ELSE IF broken[p] THEN "hash" ELSE "net"
  /\ UNCHANGED <<diskOfFetch, part, readyFile, depot, broken, strikes, fetch, wanted, restarts>>

(* Mutant of NextRound: the reason is that of the last attempt.              *)
NextRoundWrong(p) ==
  /\ fetch = "fetch" /\ job[p] = "next" /\ Untried(p) = {}
  /\ IF lap[p] < Rounds
       THEN /\ lap' = [lap EXCEPT ![p] = @ + 1] /\ triedSources' = [triedSources EXCEPT ![p] = {}]
            /\ UNCHANGED <<job, code>>
       ELSE /\ job' = [job EXCEPT ![p] = "failed"] /\ UNCHANGED <<lap, triedSources>>
            /\ code' = IF code # "none" THEN code ELSE IF part[p].have > 0 THEN "hash" ELSE "net"
  /\ UNCHANGED <<diskOfFetch, part, readyFile, depot, broken, strikes, fetch, wanted, restarts>>

Struck(p) == strikes' = [strikes EXCEPT ![depot[p]] = IF @ < Rounds * Cardinality(Piece) THEN @ + 1 ELSE @]
Back(p) == job' = [job EXCEPT ![p] = "next"] /\ depot' = [depot EXCEPT ![p] = NoDepot]

(* Mutant of Grows: Range is not sent.                                       *)
GrowsAnew(p) == NoPart
(* What the part grows from: a part that is whole is not asked for again, a  *)
(* depot without Range sends the file from its start.                        *)
Grows(p) == IF depot[p] \in resumes THEN part[p] ELSE NoPart

(* What is in hand once the depot has sent the rest is the file of the list. *)
Right(p) == IF part[p].have = PieceSize THEN ~part[p].wrong ELSE ~Grows(p).wrong /\ depot[p] \in honest

(* _download_part: the connection breaks, before an answer or amid the       *)
(* bytes; what came stays for the next depot.                                *)
LinkBreaks(p) ==
  /\ job[p] = "asks" /\ part[p].have < PieceSize
  /\ \/ UNCHANGED part
     \/ \E have \in Grows(p).have..(PieceSize - 1) :
          part' = [part EXCEPT ![p] =
            [have |-> have, wrong |-> Grows(p).wrong \/ (have > Grows(p).have /\ depot[p] \notin honest)]]
  /\ Struck(p) /\ Back(p)
  /\ UNCHANGED <<diskOfFetch, readyFile, triedSources, lap, broken, fetch, code, wanted, restarts>>

(* More bytes than the list says: the part is thrown away.                   *)
TooMuch(p) ==
  /\ job[p] = "asks" /\ part[p].have < PieceSize /\ depot[p] \notin honest
  /\ part' = [part EXCEPT ![p] = NoPart] /\ Struck(p) /\ Back(p)
  /\ UNCHANGED <<diskOfFetch, readyFile, triedSources, lap, broken, fetch, code, wanted, restarts>>

Fits(p) == Right(p) /\ (p \in Patched => onDisk[p] = "old")

(* Mutant of Fits: the sum of what was unpacked is not compared.             *)
Unchecked(p) == p \in Patched => onDisk[p] = "old"

(* _finish: unpacked, or the patch applied to the file on the disk, and the  *)
(* sum compared before it is put into its place.                             *)
WholePiece(p) ==
  /\ job[p] = "asks" /\ Fits(p)
  /\ readyFile' = readyFile \union {p} /\ part' = [part EXCEPT ![p] = NoPart]
  /\ job' = [job EXCEPT ![p] = "done"] /\ depot' = [depot EXCEPT ![p] = NoDepot]
  /\ strikes' = [strikes EXCEPT ![depot[p]] = 0]
  /\ UNCHANGED <<diskOfFetch, triedSources, lap, broken, fetch, code, wanted, restarts>>

(* StoreError: the piece is of no use, from whichever depot.                *)
Misfit(p) ==
  /\ job[p] = "asks" /\ ~Fits(p)
  /\ part' = [part EXCEPT ![p] = NoPart] /\ broken' = [broken EXCEPT ![p] = TRUE]
  /\ Struck(p) /\ Back(p)
  /\ UNCHANGED <<diskOfFetch, readyFile, triedSources, lap, fetch, code, wanted, restarts>>

(* _finish cannot read or write a file: the part is whole, and stays.        *)
FinishBreaks(p) ==
  /\ job[p] = "asks"
  /\ part' = [part EXCEPT ![p] = [have |-> PieceSize, wrong |-> ~Right(p)]]
  /\ Struck(p) /\ Back(p)
  /\ UNCHANGED <<diskOfFetch, readyFile, triedSources, lap, broken, fetch, code, wanted, restarts>>

(* fetch_plan returns when its threads have ended.                           *)
FetchEnds ==
  /\ fetch = "fetch" /\ \A p \in Piece : job[p] \in {"done", "failed", "stopped"}
  /\ fetch' = IF OneFailed THEN "given up" ELSE "stage"
  /\ UNCHANGED <<diskOfFetch, part, readyFile, job, depot, triedSources, lap, broken, strikes, code, wanted, restarts>>

(* build_stage: the files that stayed are links to those of the program, and *)
(* their sums are taken again; what was fetched is moved there.              *)
BuildStage ==
  /\ fetch = "stage"
  /\ IF \A p \in Piece \ wanted : onDisk[p] = "new"
       THEN fetch' = "staged" /\ UNCHANGED code
       ELSE fetch' = "given up" /\ code' = "stage"
  /\ readyFile' = readyFile \ wanted
  /\ UNCHANGED <<diskOfFetch, part, job, depot, triedSources, lap, broken, strikes, wanted, restarts>>

(* Mutant of BuildStage: the sums of the plan still hold.                    *)
BuildUnchecked ==
  /\ fetch = "stage" /\ fetch' = "staged" /\ UNCHANGED code
  /\ readyFile' = readyFile \ wanted
  /\ UNCHANGED <<diskOfFetch, part, job, depot, triedSources, lap, broken, strikes, wanted, restarts>>

(* The program is closed, or the download is asked for again: the work       *)
(* directory is still there.                                                 *)
FetchAgain ==
  /\ fetch \in {"fetch", "given up"} /\ restarts < MaxRestartsOfFetch /\ restarts' = restarts + 1
  /\ fetch' = "plan" /\ code' = "none" /\ wanted' = {}
  /\ job' = [p \in Piece |-> "idle"] /\ depot' = [p \in Piece |-> NoDepot]
  /\ UNCHANGED <<diskOfFetch, part, readyFile, triedSources, lap, broken, strikes>>

(* A file of the program changes meanwhile.                                  *)
BaseChanges(p) ==
  /\ bases < MaxBases /\ bases' = bases + 1 /\ onDisk' = [onDisk EXCEPT ![p] = "odd"]
  /\ fetch \in {"fetch", "stage"}
  /\ UNCHANGED <<honest, resumes, part, readyFile, job, depot, triedSources, lap, broken, strikes, fetch, code, wanted, restarts>>

FileSteps(p) == PickDepot(p) \/ NextRound(p) \/ LinkBreaks(p) \/ TooMuch(p) \/ WholePiece(p) \/ Misfit(p)
                \/ FinishBreaks(p)
FetchSteps == MakePlan \/ FetchEnds \/ BuildStage \/ \E p \in Piece : FileSteps(p)
FetchNext == FetchSteps \/ FetchAgain \/ \E p \in Piece : BaseChanges(p)

FetchSpec == FetchInit /\ [][FetchNext]_fetchVars

-----------------------------------------------------------------------------
(* The types; a depot is asked only by a file that is under way.            *)
FetchTypeOK ==
  /\ part \in [Piece -> [have : 0..PieceSize, wrong : BOOLEAN]]
  /\ fetch \in {"plan", "fetch", "stage", "staged", "given up"}
  /\ \A p \in Piece : depot[p] # NoDepot <=> job[p] = "asks"

(* A staged tree is the new version, file by file, whatever the sources sent *)
(* and whatever changed on the disk since the plan was made.                 *)
StagedIsNew == [][fetch' = "staged" => \A p \in Piece \ wanted : onDisk[p] = "new"]_fetchVars

(* What is unpacked is right from its first byte to its last, of however     *)
(* many sources and downloads it was put together.                           *)
ReadyIsRight == [][\A p \in readyFile' \ readyFile : Right(p)]_fetchVars

(* What came of a file is not thrown away when a connection breaks, a thread *)
(* fails or the program is closed, only when it turned out wrong, or a bad   *)
(* depot or one without Range sent the file anew.                            *)
PieceKept(p) ==
  part'[p].have < part[p].have =>
    \/ p \in readyFile' \/ part[p].wrong \/ depot[p] \notin honest \cap resumes
    \/ onDisk[p] = "odd"
PartsLast == [][\A p \in Piece : PieceKept(p)]_fetchVars

(* "hash", after which a release counts as spoilt, is not said when all the  *)
(* sources are right and the files of the program stayed as they were.       *)
HashIsTrue == code = "hash" => honest # Depot \/ \E p \in Piece : onDisk[p] = "odd"

FetchSafe == FetchTypeOK /\ HashIsTrue
FetchKept == StagedIsNew /\ ReadyIsRight /\ PartsLast
=============================================================================
