---------------------------- MODULE MCConnection ----------------------------
(* Small instances of Connection: which protocol each server speaks.         *)
EXTENDS Connection, TLC
CONSTANTS a, b, h

NativeAndHysteria == (a :> "native") @@ (b :> "native") @@ (h :> "hysteria")
TwoHysteria       == (a :> "hysteria") @@ (b :> "hysteria") @@ (h :> "native")
TwoAmnezia        == (a :> "amnezia") @@ (b :> "amnezia") @@ (h :> "native")
HybridAndHysteria == (a :> "hybrid") @@ (b :> "hybrid") @@ (h :> "hysteria")
=============================================================================
