----------------------------- MODULE MCFileSwap -----------------------------
(* A small program: an exe and a library that are replaced, a file only the  *)
(* old version has and one only the new version has.                         *)
EXTENDS FileSwap, TLC
CONSTANTS exe, lib, extra, added

OldTree == (exe :> "prev") @@ (lib :> "prev") @@ (extra :> "prev") @@ (added :> "none")
NewTree == (exe :> "next") @@ (lib :> "next") @@ (extra :> "none") @@ (added :> "next")
=============================================================================
