--------------------------- MODULE AtomicInstall ---------------------------
(* What an update of the program is to its user: the version on disk changes *)
(* as a whole or not at all, and a new version stays only if it has started. *)
VARIABLES
  version,   \* "prev", "next", or "between" while an update is not settled
  healthy,   \* the new version has started
  orphaned   \* nothing of the program starts, and nothing will put it back

Init == version = "prev" /\ healthy = FALSE /\ orphaned = FALSE

(* An update begins.                                                         *)
Begin == version # "between" /\ version' = "between" /\ UNCHANGED <<healthy, orphaned>>

(* The attempt under way has, or has not yet, seen the new version start.    *)
Judge == version = "between" /\ UNCHANGED <<version, orphaned>> /\ healthy' = ~healthy

(* It is left half done with nobody to undo it, or taken up again.           *)
Abandon == version = "between" /\ orphaned' = ~orphaned /\ UNCHANGED <<version, healthy>>

(* It ends: with the previous version, or with a new one that has started.   *)
End == /\ version = "between" /\ ~orphaned
       /\ version' = IF healthy THEN "next" ELSE "prev"
       /\ UNCHANGED <<healthy, orphaned>>

Next == Begin \/ Judge \/ Abandon \/ End

SafeSpec == Init /\ [][Next]_<<version, healthy, orphaned>>

(* No update stays in between for ever, unless nobody is left to undo it.    *)
Spec == SafeSpec /\ WF_<<version, healthy, orphaned>>(End)
=============================================================================
