---------------------------- MODULE MCMemoryStore ----------------------------
(* Calls a and b push one key with different content, c repeats a under a key  *)
(* of its own.  One goroutine is in All, the other in Get of the first key.     *)
EXTENDS MemoryStore, TLC

CONSTANTS a, b, c1, k1, k2, f1, f2, g1, g2

MCKeyOf == (a :> k1) @@ (b :> k1) @@ (c1 :> k2)
MCAskedOf == (g1 :> Keys) @@ (g2 :> {k1})
MCFingerprintOf == (a :> f1) @@ (b :> f2) @@ (c1 :> f1)
=============================================================================
