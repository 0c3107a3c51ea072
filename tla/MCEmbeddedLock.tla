---- MODULE MCEmbeddedLock ----
EXTENDS EmbeddedLock, TLC
CONSTANTS p1, p2, a1, a2, a3, a4
TwoAndTwo == (a1 :> p1) @@ (a2 :> p1) @@ (a3 :> p2) @@ (a4 :> p2)
====
