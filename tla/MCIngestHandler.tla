--------------------------- MODULE MCIngestHandler ---------------------------
(* A small instance of IngestHandler.  Push p is sent twice; e comes from a      *)
(* producer whose label is cut inside a character; x breaks the contract, and u, *)
(* with the key of p, passes it and cannot be decoded.  A policy may reject a    *)
(* push, or accept it with another spelling of its type.                         *)
EXTENDS IngestHandler, TLC

CONSTANTS r1, r2, r4, r5, r6, p, e, x, u, kp, ke, lane, batch, lane_label, unknown_label,
          old, new, f1, f2, MaxInFlight

MCPushOf ==
  [r \in Requests |-> IF r = r4 THEN e ELSE IF r = r5 THEN x ELSE IF r = r6 THEN u ELSE p]
ETwice == [r \in Requests |-> e]
MCKeyOf == (p :> kp) @@ (e :> ke) @@ (x :> ke) @@ (u :> kp)
MCSourceOf == (p :> lane) @@ (e :> batch) @@ (x :> lane) @@ (u :> lane)
MCContractSays == (p :> 200) @@ (e :> 200) @@ (x :> 400) @@ (u :> 200)
MCLabelOf == (Unknown :> unknown_label) @@ (lane :> lane_label) @@ (batch :> NotUTF8)

Symmetric == Permutations({r1, r2})

OldVerdict == (p :> f1) @@ (e :> f1) @@ (x :> Rejected) @@ (u :> Rejected)
\* The type of p is respelt and that of e removed; the type of p is removed.
Respelt == (old :> OldVerdict) @@ (new :> [OldVerdict EXCEPT ![p] = f2, ![e] = Rejected])
Removed == (old :> OldVerdict) @@ (new :> [OldVerdict EXCEPT ![p] = Rejected])

\* Bounds: requests under way at once; and a behaviour has x or u, not both.
InFlight == {r \in Requests : pc[r] \notin {"idle", "done"}}

WithinBounds ==
  /\ Cardinality(InFlight) <= MaxInFlight
  /\ pc[r5] = "idle" \/ pc[r6] = "idle"

BoundedSpec == Init /\ [][Next /\ WithinBounds']_vars
=============================================================================
