----------------------------- MODULE MemoryStore -----------------------------
(***************************************************************************)
(* The in-memory transaction.Store of src/internal/store/memory/memory.go: *)
(* goroutines that ingest and read under one mutex.  Ingest updates two    *)
(* maps, one after the other, and reads both for a duplicate.  A call's    *)
(* name stands for the transaction it brings.                              *)
(***************************************************************************)
EXTENDS Integers, FiniteSets

CONSTANTS
  Calls, Keys,
  KeyOf,           \* [Calls -> Keys], (source, source_reference)
  FingerprintOf,   \* the fingerprint of each call's transaction
  Readers,         \* goroutines in Get or All
  AskedOf,         \* [Readers -> SUBSET Keys], one key in Get, all of them in All
  NoCall           \* no entry in a map, which reads as ""; the mutex is free

ASSUME CallsAssumption ==
  /\ KeyOf \in [Calls -> Keys] /\ AskedOf \in [Readers -> SUBSET Keys]
  /\ NoCall \notin Calls \cup Readers /\ Calls \cap Readers = {}

VARIABLES
  mu,             \* who holds the mutex
  byKey,          \* the transaction stored under each key
  fingerprints,   \* the fingerprint stored under each key
  pc,             \* the goroutine's place
  answer,         \* what Ingest returned to each call
  left,           \* the keys each reader has still to look under
  view            \* the transactions each reader has copied

vars == <<mu, byKey, fingerprints, pc, answer, left, view>>

Contract == INSTANCE IngestContract WITH table <- byKey

Goroutines == Calls \cup Readers

Init ==
  /\ mu = NoCall
  /\ byKey = [k \in Keys |-> NoCall]
  /\ fingerprints = [k \in Keys |-> NoCall]
  /\ pc = [g \in Goroutines |-> "start"]
  /\ answer = [c \in Calls |-> Contract!Pending]
  /\ left = AskedOf
  /\ view = [g \in Readers |-> {}]

Goto(g, place) == pc' = [pc EXCEPT ![g] = place]

\* Mutated form of Lock: an RWMutex whose read lock lets callers in together.
LockShared(g) ==
  /\ pc[g] = "start"
  /\ mu' = g
  /\ Goto(g, "locked")
  /\ UNCHANGED <<byKey, fingerprints, answer, left, view>>

Lock(g) ==
  /\ pc[g] = "start"
  /\ mu = NoCall
  /\ mu' = g
  /\ Goto(g, "locked")
  /\ UNCHANGED <<byKey, fingerprints, answer, left, view>>

\* Mutated form of Found: the transaction that was submitted is returned.
FoundSubmitted(c) ==
  /\ pc[c] = "locked" /\ byKey[KeyOf[c]] # NoCall
  /\ answer' = [answer EXCEPT ![c] =
       [status |-> "duplicate", id |-> c,
        divergent |-> fingerprints[KeyOf[c]] # FingerprintOf[c]]]
  /\ Goto(c, "unlock")
  /\ UNCHANGED <<mu, byKey, fingerprints, left, view>>

Found(c) ==
  /\ pc[c] = "locked" /\ byKey[KeyOf[c]] # NoCall
  /\ answer' = [answer EXCEPT ![c] =
       [status |-> "duplicate", id |-> byKey[KeyOf[c]],
        divergent |-> fingerprints[KeyOf[c]] # FingerprintOf[c]]]
  /\ Goto(c, "unlock")
  /\ UNCHANGED <<mu, byKey, fingerprints, left, view>>

Missing(c) ==
  /\ pc[c] = "locked" /\ byKey[KeyOf[c]] = NoCall
  /\ Goto(c, "insert")
  /\ UNCHANGED <<mu, byKey, fingerprints, answer, left, view>>

Insert(c) ==
  /\ pc[c] = "insert"
  /\ byKey' = [byKey EXCEPT ![KeyOf[c]] = c]
  /\ Goto(c, "fingerprint")
  /\ UNCHANGED <<mu, fingerprints, answer, left, view>>

InsertFingerprint(c) ==
  /\ pc[c] = "fingerprint"
  /\ fingerprints' = [fingerprints EXCEPT ![KeyOf[c]] = FingerprintOf[c]]
  /\ answer' = [answer EXCEPT ![c] = Contract!Created(c)]
  /\ Goto(c, "unlock")
  /\ UNCHANGED <<mu, byKey, left, view>>

\* The map is copied entry by entry, in any order.
Copy(g, k) ==
  /\ pc[g] = "locked" /\ k \in left[g]
  /\ left' = [left EXCEPT ![g] = @ \ {k}]
  /\ view' = [view EXCEPT ![g] = @ \cup ({byKey[k]} \ {NoCall})]
  /\ UNCHANGED <<mu, byKey, fingerprints, pc, answer>>

\* Get or All returns, and the deferred Unlock is next.
ReadReturns(g) ==
  /\ pc[g] = "locked" /\ left[g] = {}
  /\ Goto(g, "unlock")
  /\ UNCHANGED <<mu, byKey, fingerprints, answer, left, view>>

Unlock(g) ==
  /\ pc[g] = "unlock"
  /\ mu' = NoCall
  /\ Goto(g, "done")
  /\ UNCHANGED <<byKey, fingerprints, answer, left, view>>

Ingest(c) ==
  \/ Lock(c) \/ Found(c) \/ Missing(c) \/ Insert(c) \/ InsertFingerprint(c) \/ Unlock(c)

Reader(g) == Lock(g) \/ (\E k \in AskedOf[g] : Copy(g, k)) \/ ReadReturns(g) \/ Unlock(g)

\* All goroutines have returned.
Done == (\A g \in Goroutines : pc[g] = "done") /\ UNCHANGED vars

Next ==
  \/ \E c \in Calls : Ingest(c)
  \/ \E g \in Readers : Reader(g)
  \/ Done

Spec == Init /\ [][Next]_vars

\* Ingest takes effect in one step, as transaction.Store demands, although it
\* updates two maps.
ImplementsContract == Contract!Spec

\* What is stored under some keys.
Stored(keys) == {byKey[k] : k \in keys} \ {NoCall}

\* A reader that returns, with something or with nothing, returns one state of the
\* store though it has copied entry by entry: what is stored under its keys and
\* nothing else, so nothing that was answered is missing.
ReadersSeeSnapshot ==
  \A g \in Readers : pc[g] = "unlock" =>
    /\ view[g] = Stored(AskedOf[g])
    /\ \A c \in Calls : answer[c].status # "pending" /\ KeyOf[c] \in AskedOf[g] =>
         answer[c].id \in view[g]

-----------------------------------------------------------------------------
(* The inductive invariant behind both                                     *)

Places == {"start", "locked", "insert", "fingerprint", "unlock", "done"}

\* The variables keep to their types.
TypeOK ==
  /\ mu \in Goroutines \cup {NoCall}
  /\ byKey \in [Keys -> Calls \cup {NoCall}]
  /\ fingerprints \in [Keys -> {NoCall} \cup {FingerprintOf[c] : c \in Calls}]
  /\ pc \in [Goroutines -> Places]
  /\ answer \in [Calls -> [status : {"pending", "created", "duplicate"},
                           id : Calls \cup {NoCall}, divergent : BOOLEAN]]
  /\ left \in [Readers -> SUBSET Keys]
  /\ view \in [Readers -> SUBSET Calls]

\* One goroutine at a time is between Lock and Unlock.
MutexOK == \A g \in Goroutines : pc[g] \in {"locked", "insert", "fingerprint", "unlock"} => mu = g

\* A call and the entry under its key fit together.
CallOK(c) ==
  LET stored == byKey[KeyOf[c]]
  IN  /\ pc[c] \in {"start", "locked", "insert", "fingerprint"} => answer[c] = Contract!Pending
      /\ pc[c] \in {"start", "locked", "insert"} => stored # c
      /\ pc[c] = "insert" => stored = NoCall
      /\ pc[c] = "fingerprint" => stored = c
      /\ answer[c].status # "pending" => stored # NoCall /\ answer[c].id = stored

\* The second map lags behind the first only while the mutex is held.
MapsOK ==
  \A k \in Keys : byKey[k] # NoCall =>
    /\ KeyOf[byKey[k]] = k
    /\ pc[byKey[k]] = "fingerprint" \/ fingerprints[k] = FingerprintOf[byKey[k]]

\* A reader's copy is what is stored under the keys it has looked under; nothing
\* changes there as long as it has the mutex.
ReaderOK(g) ==
  /\ left[g] \subseteq AskedOf[g]
  /\ pc[g] = "start" => left[g] = AskedOf[g] /\ view[g] = {}
  /\ pc[g] = "unlock" => left[g] = {}
  /\ pc[g] \in {"locked", "unlock"} => view[g] = Stored(AskedOf[g] \ left[g])
  /\ pc[g] \in {"start", "locked", "unlock", "done"}

MemoryOK ==
  /\ TypeOK /\ MutexOK /\ MapsOK
  /\ \A c \in Calls : CallOK(c)
  /\ \A g \in Readers : ReaderOK(g)
=============================================================================
