--------------------------- MODULE MCPostgresStore ---------------------------
(* Small instances of PostgresStore: producers a and b use one key with        *)
(* different content, c1 sends once what a sends.                              *)
EXTENDS PostgresStore, TLC

CONSTANTS a, b, c1, k1, f1, f2

OneKey == [p \in Producers |-> k1]
MCMaxCalls == [p \in Producers |-> IF p = c1 THEN 1 ELSE 2]
TwoContents == [p \in Producers |-> IF p = b THEN f2 ELSE f1]
=============================================================================
