--------------------------- MODULE MCOutboxRelay ---------------------------
(* Small instances of OutboxRelay.  Relays are model values and interchangeable. *)
EXTENDS OutboxRelay, TLC

Symmetric == Permutations(Relays)
=============================================================================
