--------------------------- MODULE IngestContract ---------------------------
(***************************************************************************)
(* The promise of transaction.Store (src/internal/transaction/store.go):   *)
(* each call of Ingest takes effect in one step, the first call with a key *)
(* records its transaction for good, and every answered call reports what  *)
(* is recorded under its key.  A call that answers with an error may have  *)
(* taken effect or may yet do so.                                          *)
(***************************************************************************)
EXTENDS Integers

CONSTANTS
  Calls, Keys,
  KeyOf,           \* [Calls -> Keys]
  FingerprintOf,   \* the fingerprint of each call's transaction
  NoCall           \* no call: nothing is recorded under a key

VARIABLES table,   \* [Keys -> the call whose transaction is recorded, or NoCall]
          answer   \* [Calls -> answer]

vars == <<table, answer>>

Pending == [status |-> "pending", id |-> NoCall, divergent |-> FALSE]
Error == [status |-> "error", id |-> NoCall, divergent |-> FALSE]
Created(c) == [status |-> "created", id |-> c, divergent |-> FALSE]
\* Divergent compares the stored fingerprint with the submitted one.
Duplicate(c, stored) ==
  [status |-> "duplicate", id |-> stored,
   divergent |-> FingerprintOf[stored] # FingerprintOf[c]]

Init ==
  /\ table = [k \in Keys |-> NoCall]
  /\ answer = [c \in Calls |-> Pending]

Record(c) ==
  /\ table[KeyOf[c]] = NoCall
  /\ table' = [table EXCEPT ![KeyOf[c]] = c]
  /\ UNCHANGED answer

Answer(c) ==
  LET stored == table[KeyOf[c]]
  IN  /\ answer[c] = Pending
      /\ stored # NoCall
      /\ answer' = [answer EXCEPT ![c] = IF stored = c THEN Created(c) ELSE Duplicate(c, stored)]
      /\ UNCHANGED table

Fail(c) ==
  /\ answer[c] = Pending
  /\ answer' = [answer EXCEPT ![c] = Error]
  /\ UNCHANGED table

\* The atomic case of an implementation that holds a mutex.
RecordAndAnswer(c) ==
  /\ answer[c] = Pending
  /\ table[KeyOf[c]] = NoCall
  /\ table' = [table EXCEPT ![KeyOf[c]] = c]
  /\ answer' = [answer EXCEPT ![c] = Created(c)]

Next == \E c \in Calls : Record(c) \/ Answer(c) \/ Fail(c) \/ RecordAndAnswer(c)

Spec == Init /\ [][Next]_vars
=============================================================================
