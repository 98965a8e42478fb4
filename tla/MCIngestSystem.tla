--------------------------- MODULE MCIngestSystem ---------------------------
(* Two producers send different content under one key; the events of b are   *)
(* never accepted by the transport.  The store and the relay share a budget  *)
(* of faults, which disables no step that fairness asks for.                 *)
EXTENDS IngestSystem, TLC

CONSTANTS a, b, k1, f1, f2, Budget

OneKey == [p \in Producers |-> k1]
TwoPushes == [p \in Producers |-> 2]
TwoContents == [p \in Producers |-> IF p = b THEN f2 ELSE f1]

WithinBudget == faults' + relayFaults' <= Budget

BudgetedSpec == SystemInit /\ [][SystemNext /\ WithinBudget]_systemVars /\ SystemFairness
=============================================================================
