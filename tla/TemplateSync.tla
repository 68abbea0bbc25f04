---------------------------- MODULE TemplateSync ----------------------------
(* The stock configurations a release brings: application/template_sync.py   *)
(* and the writers of the active copy in profile_service.py.  A document is  *)
(* a function from its top-level sections to values.  Two files are written  *)
(* one after the other when the program starts; it may be killed between.    *)
EXTENDS Naturals, Functions

CONSTANTS
  Section,     \* top-level sections of a document
  Bundle,      \* [1..n -> documents]: the template each release brings
  MaxStarts,   \* bound: starts of the program
  MaxUserEdits \* bound: edits by the user

Mine   == "mine"     \* a value only the user would write
NoFile == [missing |-> "file"]
Torn   == [torn |-> "text"]    \* text that is not JSON

Documents(values) == UNION {[S -> values] : S \in SUBSET Section}
Releases == DOMAIN Bundle

ASSUME TemplateAssumption ==
  /\ MaxStarts \in Nat \ {0} /\ Releases = 1..MaxStarts
  /\ \A r \in Releases : Bundle[r] \in Documents({"a", "b", "c"})
  /\ MaxUserEdits \in Nat

VARIABLES
  release,     \* the release that is installed
  installed,   \* the template under TEMPLATES_DIR
  active,      \* the copy under CONFIGS_DIR
  stage,       \* the program: off, or how far the start has got
  touched,     \* history: sections in which the user departs from the release
  starts,      \* starts so far
  userEdits    \* edits so far

templateVars == <<release, installed, active, stage, touched, starts, userEdits>>

File == {NoFile, Torn} \cup Documents({"a", "b", "c", Mine})

TemplateTypeOK ==
  /\ release \in Releases
  /\ installed \in File \ {Torn} /\ active \in File
  /\ stage \in {"off", "copy", "template", "up", "saving"}
  /\ touched \subseteq Section
  /\ starts \in 0..MaxStarts /\ userEdits \in 0..MaxUserEdits

TemplateInit ==
  /\ release = 1
  /\ installed \in {NoFile, Bundle[1]}
  /\ active = installed
  /\ stage = "off" /\ touched = {} /\ starts = 0 /\ userEdits = 0

IsDocument(f) == f \notin {NoFile, Torn}

Same(f, g, s) == IF s \in DOMAIN f THEN s \in DOMAIN g /\ f[s] = g[s] ELSE s \notin DOMAIN g

(* Mutant of Merge: sections that are new in the template are not added.     *)
MergeOld(copy, previous, current) ==
  LET stock == {s \in DOMAIN copy \cap DOMAIN previous : copy[s] = previous[s]}
      stays == DOMAIN copy \ stock
  IN [s \in stays \cup (stock \cap DOMAIN current) |->
        IF s \in stays THEN copy[s] ELSE current[s]]

(* merge_stock_sections: a section of the copy that equals the previous      *)
(* template follows the new one, every other stays; a section that is new    *)
(* in the template is added.                                                 *)
Merge(copy, previous, current) ==
  LET stock  == {s \in DOMAIN copy \cap DOMAIN previous : copy[s] = previous[s]}
      stays  == DOMAIN copy \ stock
      follow == (stock \cap DOMAIN current)
                \cup (DOMAIN current \ (DOMAIN copy \cup DOMAIN previous))
  IN [s \in stays \cup follow |-> IF s \in stays THEN copy[s] ELSE current[s]]

StartSync ==
  /\ stage = "off" /\ starts < MaxStarts
  /\ starts' = starts + 1 /\ stage' = "copy"
  /\ UNCHANGED <<release, installed, active, touched, userEdits>>

(* The active copy first: an untouched one becomes the new template, a       *)
(* changed one is merged, one that cannot be read is left alone.             *)
SyncCopy ==
  /\ stage = "copy"
  /\ active' = IF installed \in {NoFile, Bundle[release]} \/ ~IsDocument(active) THEN active
               ELSE IF active = installed THEN Bundle[release]
               ELSE Merge(active, installed, Bundle[release])
  /\ stage' = "template"
  /\ UNCHANGED <<release, installed, touched, starts, userEdits>>

SyncTemplate ==
  /\ stage = "template"
  /\ installed' = Bundle[release]
  /\ stage' = "up"
  /\ touched' = {s \in touched : ~IsDocument(active) \/ ~Same(active, installed', s)}
  /\ UNCHANGED <<release, active, starts, userEdits>>

(* ensure_active_config: a copy that is missing is taken from the template.  *)
EnsureCopy ==
  /\ stage = "up" /\ active = NoFile
  /\ active' = installed
  /\ UNCHANGED <<release, installed, stage, touched, starts, userEdits>>

(* save_config_text writes in place: for a moment the file is torn.          *)
UserSaves ==
  /\ stage = "up" /\ IsDocument(active) /\ userEdits < MaxUserEdits
  /\ userEdits' = userEdits + 1
  /\ \E s \in Section :
       /\ \/ active' = [t \in DOMAIN active \cup {s} |-> IF t = s THEN Mine ELSE active[t]]
          \/ s \in DOMAIN active /\ active' = Restrict(active, DOMAIN active \ {s})
          \/ active' = Torn
       /\ touched' = IF Same(active', installed, s) THEN touched \ {s} ELSE touched \cup {s}
  /\ stage' = IF active' = Torn THEN "saving" ELSE "up"
  /\ UNCHANGED <<release, installed, starts>>

(* reset_active_config_to_template and import_template, the cure of a torn   *)
(* copy too.                                                                 *)
ResetCopy ==
  /\ stage = "up" /\ active # NoFile /\ userEdits < MaxUserEdits
  /\ userEdits' = userEdits + 1
  /\ active' = installed /\ touched' = {}
  /\ UNCHANGED <<release, installed, stage, starts>>

(* The program updates itself to a later release and ends.                   *)
UpdateRelease ==
  /\ stage = "up"
  /\ release' \in {r \in Releases : r > release}
  /\ stage' = "off"
  /\ UNCHANGED <<installed, active, touched, starts, userEdits>>

(* The program ends or is killed, in the middle of a start or of a save.     *)
EndProgram ==
  /\ stage # "off"
  /\ stage' = "off"
  /\ UNCHANGED <<release, installed, active, touched, starts, userEdits>>

TemplateNext ==
  \/ StartSync \/ SyncCopy \/ SyncTemplate \/ EnsureCopy
  \/ UserSaves \/ ResetCopy \/ UpdateRelease \/ EndProgram

Syncing == stage \in {"off", "copy", "template"}

(* What the user wrote stays as it is through every start, interrupted or    *)
(* not, and through every release.                                           *)
UserSectionsKept ==
  [][Syncing /\ IsDocument(active) /\ active # active' =>
       IsDocument(active') /\ \A s \in touched : Same(active, active', s)]_templateVars

(* Every section the user left alone is that of the installed release once   *)
(* the program is up: a kill between the two writes loses no update.         *)
StockFollows ==
  stage = "up" /\ IsDocument(active) =>
     \A s \in Section \ touched : Same(active, Bundle[release], s)

(* Releases update what is theirs and leave what is the user's.              *)
TemplatesKept == [](TemplateTypeOK /\ StockFollows) /\ UserSectionsKept
=============================================================================
