--------------------------- MODULE ReleasePublish ---------------------------
(* The release of a version by scripts/release_windows.py: phases kept in a  *)
(* state file, each resumed by the next run of the script after a failure or *)
(* a kill; git, the build machine, the site, the store of files and the      *)
(* Telegram publisher it drives.  `main` is linear: a commit is its place in *)
(* `commits`, whose value is the APP_VERSION it carries.  Versions are       *)
(* numbers, 0 is published when the model begins; the next minor is left out.*)
EXTENDS Integers, Sequences, FiniteSets

CONSTANTS MaxReleases, (* versions that may be released                      *)
          KeepReleases,(* KEEP_RELEASES: earlier releases kept in the store  *)
          AssetCount,  (* files of a release                                 *)
          MaxBreaks2,  (* failed steps and kills                             *)
          MaxCommits,  (* commits besides those of the script                *)
          MaxGiveUps   (* releases given up with --abandon                   *)

ASSUME ReleaseAssumption ==
  /\ MaxReleases \in Nat \ {0} /\ KeepReleases \in Nat /\ AssetCount \in Nat \ {0}
  /\ MaxBreaks2 \in Nat /\ MaxCommits \in Nat /\ MaxGiveUps \in Nat

VARIABLES
  file,       (* the state file, or NoRelease                                *)
  abandoned,  (* versions recorded by --abandon                              *)
  commits, head, origin, dirty, localTag, remoteTag,     (* git              *)
  built,      (* commit the build machine has built and gated, by version    *)
  copied,     (* commit of the files copied and signed, by version           *)
  site,       (* the Release of each version                                 *)
  storeFiles, (* names in the store                                          *)
  posting, ledger, posts,                                (* Telegram         *)
  stepAt,     (* the step the running script is at, or "idle"                *)
  left        (* what is left of each bound                                  *)

gitVars == <<commits, head, origin, dirty, localTag, remoteTag>>
tgVars == <<posting, ledger, posts>>
releaseVars == <<file, abandoned, gitVars, built, copied, site, storeFiles, tgVars, stepAt, left>>

Releases == 0..MaxReleases
NoRelease == [phase |-> -1, version |-> 0, pin |-> 0]
Absent == [is |-> "none", commit |-> 0, assets |-> 0, of |-> 0]

(* PHASES by number: 1 source_prepared, 2 dev_verified, 3 stable_verified,   *)
(* 4 assets_verified, 5 tag_pushed, 6 draft_created, 7 assets_uploaded,      *)
(* 8 release_published, 9 telegram_published, 10 complete.                   *)
Done(n) == file.phase >= n
Mark(n) == file' = [file EXCEPT !.phase = n]
ver == file.version

(* A release refers to what changed in it and to what it took over: a file   *)
(* is named by its content.                                                  *)
StoreNames(v) == {v - 1, v} \cap Releases
Published == {v \in Releases : site[v].is = "published"}
NewestOf(S) == CHOOSE v \in S : \A w \in S : w <= v
TaggedHere == {v \in Releases : localTag[v] # 0 \/ remoteTag[v] # 0}

(* The version the next release follows: from the latest tag on through the  *)
(* versions given up one after another.                                      *)
Base == CHOOSE b \in Releases :
          /\ b >= NewestOf(TaggedHere)
          /\ \A v \in NewestOf(TaggedHere) + 1 .. b : v \in abandoned
          /\ b + 1 \notin abandoned

ReleaseInit ==
  /\ file = NoRelease /\ abandoned = {} /\ commits = <<0>> /\ head = 1 /\ origin = 1 /\ dirty = FALSE
  /\ localTag = [v \in Releases |-> IF v = 0 THEN 1 ELSE 0] /\ remoteTag = localTag
  /\ built = localTag /\ copied = localTag
  /\ site = [v \in Releases |-> IF v = 0 THEN [is |-> "published", commit |-> 1, assets |-> AssetCount, of |-> 1]
                                         ELSE Absent]
  /\ storeFiles = StoreNames(0) /\ posting = [v \in Releases |-> 0] /\ ledger = {} /\ posts = [v \in Releases |-> 0]
  /\ stepAt = "idle" /\ left = [breaks |-> MaxBreaks2, commits |-> MaxCommits, giveUps |-> MaxGiveUps]

(* --- A run of the script -------------------------------------------------- *)

Goes(n) == stepAt' = n
Stays == UNCHANGED <<abandoned, gitVars, built, copied, site, storeFiles, tgVars, left>>

(* The script is started: the state of a release under way is taken up, a    *)
(* finished one put aside, or a new one begun.                               *)
BeginRelease ==
  /\ stepAt = "idle" /\ ~dirty
  /\ \/ /\ file = NoRelease /\ Base < MaxReleases /\ commits[head] = Base
        /\ file' = [phase |-> 0, version |-> Base + 1, pin |-> 0] /\ Goes("source")
     \/ file.phase = 10 /\ file' = NoRelease /\ UNCHANGED stepAt
     \/ file.phase \in 0..9 /\ Goes("source") /\ UNCHANGED file
  /\ Stays

(* Nothing is there of the version yet.                                      *)
Untouched == site[ver].is = "none" /\ remoteTag[ver] = 0

(* The source: taken as it was pushed before, prepared, or pinned anew when  *)
(* a fix was pushed before the tag.                                          *)
TakeSource ==
  /\ stepAt = "source"
  /\ \/ Done(5) /\ UNCHANGED file
     \/ ~Done(5) /\ Done(1) /\ head = file.pin /\ UNCHANGED file
     \/ /\ ~Done(5) /\ Done(1) /\ head # file.pin
        /\ commits[head] = ver /\ origin = head /\ Untouched
        /\ file' = [file EXCEPT !.phase = 1, !.pin = head]
     \/ /\ ~Done(1) /\ Untouched /\ commits[head] = ver /\ origin = head
        /\ file' = [file EXCEPT !.phase = 1, !.pin = head]
  /\ Goes("gates") /\ Stays

(* prepare_source: the version is written, committed, pushed.                *)
EditSource ==
  /\ stepAt = "source" /\ ~Done(1) /\ Untouched /\ commits[head] # ver /\ origin <= head
  /\ dirty' = TRUE /\ Goes("commit")
  /\ UNCHANGED <<file, abandoned, commits, head, origin, localTag, remoteTag, built, copied, site, storeFiles, tgVars, left>>

CommitSource ==
  /\ stepAt = "commit"
  /\ commits' = Append(commits, ver) /\ head' = Len(commits) + 1 /\ dirty' = FALSE /\ Goes("push")
  /\ UNCHANGED <<file, abandoned, origin, localTag, remoteTag, built, copied, site, storeFiles, tgVars, left>>

PushSource ==
  /\ stepAt = "push" /\ origin' = head /\ Goes("pin")
  /\ UNCHANGED <<file, abandoned, commits, head, dirty, localTag, remoteTag, built, copied, site, storeFiles, tgVars, left>>

PinSource ==
  /\ stepAt = "pin" /\ file' = [file EXCEPT !.phase = 1, !.pin = head] /\ Goes("gates") /\ Stays

(* The development gate builds and tests the pinned commit, the stable one   *)
(* builds what is released.                                                  *)
DevGate == stepAt = "gates" /\ ~Done(2) /\ Mark(2) /\ UNCHANGED stepAt /\ Stays

StableGate ==
  /\ stepAt = "gates" /\ Done(2) /\ ~Done(3) /\ site[ver].is = "none"
  /\ built' = [built EXCEPT ![ver] = file.pin] /\ Mark(3)
  /\ UNCHANGED <<stepAt, abandoned, gitVars, copied, site, storeFiles, tgVars, left>>

(* The list of the gate names the mode, the version and the commit.          *)
GateAgrees(at) == at = file.pin

(* The files are copied, compared with the list, signed; the store is built. *)
CollectAssets ==
  /\ stepAt = "gates" /\ Done(3) /\ ~Done(4) /\ GateAgrees(built[ver])
  /\ copied' = [copied EXCEPT ![ver] = built[ver]] /\ Mark(4)
  /\ UNCHANGED <<stepAt, abandoned, gitVars, built, site, storeFiles, tgVars, left>>

AssetsReady == stepAt = "gates" /\ Done(4) /\ GateAgrees(copied[ver]) /\ Goes("tag") /\ UNCHANGED file /\ Stays

(* The tag is made here, then pushed; one at another commit stops the run.   *)
TagHere ==
  /\ stepAt = "tag" /\ ~Done(5) /\ localTag[ver] \in {0, file.pin}
  /\ localTag' = [localTag EXCEPT ![ver] = file.pin] /\ Goes("push_tag")
  /\ UNCHANGED <<file, abandoned, commits, head, origin, dirty, remoteTag, built, copied, site, storeFiles, tgVars, left>>

PushTag ==
  /\ stepAt = "push_tag" /\ remoteTag[ver] \in {0, file.pin}
  /\ remoteTag' = [remoteTag EXCEPT ![ver] = file.pin] /\ Goes("tag_mark")
  /\ UNCHANGED <<file, abandoned, commits, head, origin, dirty, localTag, built, copied, site, storeFiles, tgVars, left>>

TagMark ==
  /\ \/ stepAt = "tag_mark" /\ Mark(5)
     \/ stepAt = "tag" /\ Done(5) /\ UNCHANGED file
  /\ Goes("draft") /\ Stays

(* One draft: one that is there already is taken up.                         *)
CreateDraft ==
  /\ stepAt = "draft" /\ ~Done(6) /\ site[ver].is = "none"
  /\ site' = [site EXCEPT ![ver] = [is |-> "draft", commit |-> file.pin, assets |-> 0, of |-> copied[ver]]]
  /\ UNCHANGED <<file, stepAt, abandoned, gitVars, built, copied, storeFiles, tgVars, left>>

DraftMark ==
  /\ stepAt = "draft"
  /\ \/ ~Done(6) /\ site[ver].is = "draft" /\ Mark(6)
     \/ Done(6) /\ site[ver].is # "none" /\ UNCHANGED file
  /\ Goes("store") /\ Stays

(* A mutant: the store is left for later.                                    *)
StoreLater == stepAt = "store" /\ Goes("assets") /\ UNCHANGED file /\ Stays

(* What the list refers to is in the store before the release is seen.       *)
UploadStore ==
  /\ stepAt = "store" /\ ~Done(7)
  /\ \E n \in StoreNames(ver) \ storeFiles : storeFiles' = storeFiles \cup {n}
  /\ UNCHANGED <<file, stepAt, abandoned, gitVars, built, copied, site, tgVars, left>>

StoreChecked ==
  /\ stepAt = "store" /\ (Done(7) \/ StoreNames(ver) \subseteq storeFiles) /\ Goes("assets") /\ UNCHANGED file /\ Stays

UploadAsset ==
  /\ stepAt = "assets" /\ ~Done(7) /\ site[ver].assets < AssetCount
  /\ site' = [site EXCEPT ![ver].assets = @ + 1]
  /\ UNCHANGED <<file, stepAt, abandoned, gitVars, built, copied, storeFiles, tgVars, left>>

AssetsMark ==
  /\ stepAt = "assets"
  /\ \/ ~Done(7) /\ site[ver].assets = AssetCount /\ Mark(7)
     \/ Done(7) /\ UNCHANGED file
  /\ Goes("publish") /\ Stays

PublishDraft ==
  /\ stepAt = "publish" /\ ~Done(8) /\ site[ver].is = "draft"
  /\ site' = [site EXCEPT ![ver].is = "published"]
  /\ UNCHANGED <<file, stepAt, abandoned, gitVars, built, copied, storeFiles, tgVars, left>>

(* verify_published_release: stable, of this commit, complete, the latest.   *)
VerifyPublished ==
  /\ stepAt = "publish" /\ site[ver].is = "published" /\ site[ver].commit = file.pin
  /\ site[ver].assets = AssetCount /\ NewestOf(Published) = ver
  /\ IF Done(8) THEN UNCHANGED file ELSE Mark(8)
  /\ Goes("prune") /\ Stays

(* The earlier releases whose lists were read: up to KeepReleases, from the  *)
(* newest; one whose list cannot be read just now is passed over.            *)
KeptOf(readable) == {v \in readable : Cardinality({w \in readable : w > v}) < KeepReleases}

(* What no kept list refers to is deleted, file by file: it may stop midway. *)
PruneStore ==
  /\ stepAt = "prune" /\ StoreNames(ver) \subseteq storeFiles
  /\ \E unread \in SUBSET {v \in Published : v < ver} :
       LET readable == {v \in Published : v < ver} \ unread
           keep == StoreNames(ver) \cup UNION {StoreNames(v) : v \in KeptOf(readable)} IN
       /\ Cardinality(unread) <= left.breaks
       /\ left' = [left EXCEPT !.breaks = @ - Cardinality(unread)]
       /\ \E gone \in SUBSET (storeFiles \ keep) : storeFiles' = storeFiles \ gone
  /\ Goes("telegram")
  /\ UNCHANGED <<file, abandoned, gitVars, built, copied, site, tgVars>>

PruneSkipped == stepAt = "prune" /\ Goes("telegram") /\ UNCHANGED file /\ Stays

(* The publisher posts and notes it in its ledger; the script may give up    *)
(* waiting while the post goes on.                                           *)
AskPublisher ==
  /\ stepAt = "telegram" /\ ~Done(9) /\ ver \notin ledger
  /\ posting[ver] < 2 /\ posting' = [posting EXCEPT ![ver] = @ + 1] /\ Goes("posted")
  /\ UNCHANGED <<file, abandoned, gitVars, built, copied, site, storeFiles, ledger, posts, left>>

PublisherEnds ==
  /\ \E v \in {w \in Releases : posting[w] > 0} :
       /\ posting' = [posting EXCEPT ![v] = @ - 1] /\ ledger' = ledger \cup {v} /\ posts' = [posts EXCEPT ![v] = @ + 1]
  /\ UNCHANGED <<file, abandoned, gitVars, built, copied, site, storeFiles, stepAt, left>>

TelegramMark ==
  /\ \/ stepAt = "posted" /\ ver \in ledger /\ Mark(9)
     \/ stepAt = "telegram" /\ ~Done(9) /\ ver \in ledger /\ Mark(9)
     \/ stepAt = "telegram" /\ Done(9) /\ UNCHANGED file
  /\ Goes("final") /\ Stays

(* main must still hold the release and be in step with origin.              *)
Complete ==
  /\ stepAt = "final" /\ head = origin /\ file.pin <= head /\ ~dirty
  /\ Mark(10) /\ Goes("archive") /\ Stays

ArchiveState == stepAt = "archive" /\ file' = NoRelease /\ Goes("idle") /\ Stays

(* --- Failures and people -------------------------------------------------- *)

(* A step fails, a condition of the script is not met, or it is killed.      *)
BreakRelease ==
  /\ stepAt # "idle" /\ left.breaks > 0 /\ left' = [left EXCEPT !.breaks = @ - 1] /\ Goes("idle")
  /\ UNCHANGED <<file, abandoned, gitVars, built, copied, site, storeFiles, tgVars>>

(* --abandon, before anything immutable exists: the version is recorded,     *)
(* then the state put aside.                                                 *)
Abandon ==
  /\ stepAt = "idle" /\ file # NoRelease /\ ~Done(5) /\ left.giveUps > 0
  /\ localTag[ver] = 0 /\ remoteTag[ver] = 0 /\ site[ver].is = "none"
  /\ abandoned' = abandoned \cup {ver} /\ left' = [left EXCEPT !.giveUps = @ - 1] /\ Goes("abandon")
  /\ UNCHANGED <<file, gitVars, built, copied, site, storeFiles, tgVars>>

AbandonEnds == stepAt = "abandon" /\ file' = NoRelease /\ Goes("idle") /\ Stays

(* A fix is committed and pushed between two runs; somebody else's commit    *)
(* arrives on main at any time and is pulled between runs; what a killed     *)
(* preparation left in the working tree is thrown away, its commit pushed.   *)
PeopleCommit ==
  /\ left.commits > 0 /\ head = origin /\ head = Len(commits) /\ ~dirty
  /\ commits' = Append(commits, commits[head]) /\ origin' = Len(commits) + 1
  /\ \/ stepAt = "idle" /\ head' = origin'
     \/ UNCHANGED head
  /\ left' = [left EXCEPT !.commits = @ - 1]
  /\ UNCHANGED <<file, abandoned, dirty, localTag, remoteTag, built, copied, site, storeFiles, tgVars, stepAt>>

TidySource ==
  /\ stepAt = "idle"
  /\ \/ dirty /\ dirty' = FALSE /\ UNCHANGED <<head, origin>>
     \/ ~dirty /\ head < origin /\ head' = origin /\ UNCHANGED <<dirty, origin>>
     \/ ~dirty /\ head > origin /\ origin' = head /\ UNCHANGED <<dirty, head>>
  /\ UNCHANGED <<file, abandoned, commits, localTag, remoteTag, built, copied, site, storeFiles, tgVars, stepAt, left>>

ScriptSteps ==
  \/ BeginRelease \/ TakeSource \/ EditSource \/ CommitSource \/ PushSource \/ PinSource \/ DevGate \/ StableGate
  \/ CollectAssets \/ AssetsReady \/ TagHere \/ PushTag \/ TagMark \/ CreateDraft \/ DraftMark \/ UploadStore
  \/ StoreChecked \/ UploadAsset \/ AssetsMark \/ PublishDraft \/ VerifyPublished \/ PruneStore \/ PruneSkipped
  \/ AskPublisher \/ TelegramMark \/ Complete \/ ArchiveState \/ Abandon \/ AbandonEnds

ReleaseNext == ScriptSteps \/ PublisherEnds \/ BreakRelease \/ PeopleCommit \/ TidySource
ReleaseSpec == ReleaseInit /\ [][ReleaseNext]_releaseVars

(* --- Properties ----------------------------------------------------------- *)

ReleaseTypeOK ==
  /\ file.phase \in -1..10 /\ file.version \in Releases /\ abandoned \subseteq Releases
  /\ storeFiles \subseteq Releases /\ head \in 1..Len(commits) /\ origin \in 1..Len(commits)
  /\ \A v \in Releases : localTag[v] \in 0..Len(commits) /\ remoteTag[v] \in 0..Len(commits)

(* What users are offered is one build of one tagged commit that carries the *)
(* version, with all its files; what the newest list refers to is in the     *)
(* store, however often the release was interrupted, pinned anew or pruned.  *)
PublishedWhole ==
  /\ \A v \in Published :
       /\ site[v].commit = remoteTag[v] /\ site[v].of = site[v].commit /\ site[v].assets = AssetCount
       /\ commits[remoteTag[v]] = v
  /\ StoreNames(NewestOf(Published)) \subseteq storeFiles

(* No version is passed over but those given up; a draft on the site is the  *)
(* one of the release under way; nothing is announced before its release.    *)
NothingStray ==
  /\ \A v \in 0..NewestOf(Published) : v \in Published \cup abandoned
  /\ \A v \in Releases : site[v].is = "draft" => file.version = v /\ Done(5)
  /\ {v \in Releases : posting[v] > 0} \cup ledger \subseteq Published

(* Once the tag is pushed the release keeps its commit, to the end.          *)
PinnedByTag == Done(5) => file.pin = remoteTag[ver] /\ built[ver] = file.pin /\ copied[ver] = file.pin

PublishSafe == ReleaseTypeOK /\ PublishedWhole /\ NothingStray /\ PinnedByTag

(* The store keeps what the releases before the newest refer to.  Not so:    *)
(* the list of an earlier release that cannot be read just now is passed     *)
(* over, and its files are deleted.                                          *)
EarlierKept ==
  \A v \in Published :
    Cardinality({w \in Published : w > v}) <= KeepReleases => StoreNames(v) \subseteq storeFiles

(* After --abandon the next release may follow.  Not so for one given up     *)
(* before its version was committed: APP_VERSION is still the one before.    *)
AbandonedIsFollowed == file = NoRelease /\ ~dirty => commits[head] = Base

(* A source fixed after a failed push of the tag can be released.  Not so:   *)
(* the tag made here stays at the commit before.                             *)
FixIsTaken == Done(1) /\ ~Done(5) => localTag[ver] \in {0, file.pin}

(* A version is posted once.  Not so when the script stopped waiting and is  *)
(* run again while the publisher is still posting.                           *)
PostedOnce == \A v \in Releases : posts[v] + posting[v] <= 1
=============================================================================
