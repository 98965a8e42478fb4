------------------------- MODULE MemoryStoreProofs -------------------------
(***************************************************************************)
(* Proofs about MemoryStore for any number of callers and readers.         *)
(* MemoryOK is the inductive invariant: under the mutex the two maps may   *)
(* disagree, but only about the call that holds it, and a reader's copy is *)
(* what is stored under the keys it has looked under.                      *)
(***************************************************************************)
EXTENDS MemoryStore, TLAPS

\* Callers have keys, are not readers, and are not the mark of an empty entry.
LEMMA Constants ==
  /\ \A c \in Calls : KeyOf[c] \in Keys /\ c # NoCall /\ c \in Goroutines
  /\ \A g \in Readers : g \notin Calls /\ g # NoCall /\ g \in Goroutines
BY CallsAssumption DEF Goroutines

\* What a reader does under the mutex.
Reads(g) == (\E k \in AskedOf[g] : Copy(g, k)) \/ ReadReturns(g)

LEMMA MemoryInit == Init => MemoryOK
<1>. SUFFICES ASSUME Init PROVE MemoryOK
  OBVIOUS
<1>1. TypeOK
  BY CallsAssumption DEF Init, TypeOK, Places, Contract!Pending
<1>2. MutexOK /\ MapsOK
  BY DEF Init, MutexOK, MapsOK
<1>3. ASSUME NEW c \in Calls PROVE CallOK(c)
  BY Constants DEF Init, CallOK, Contract!Pending
<1>4. ASSUME NEW g \in Readers PROVE ReaderOK(g)
  BY Constants DEF Init, ReaderOK
<1>. QED
  BY <1>1, <1>2, <1>3, <1>4 DEF MemoryOK

LEMMA TypeStep ==
  ASSUME MemoryOK, [Next]_vars
  PROVE  TypeOK'
<1>. USE DEF MemoryOK, TypeOK, Goto
<1>1. ASSUME NEW g \in Goroutines, Lock(g) \/ Unlock(g) PROVE TypeOK'
  BY <1>1 DEF Lock, Unlock, Places
<1>2. ASSUME NEW c \in Calls, Found(c) PROVE TypeOK'
  <2>1. answer' \in [Calls -> [status : {"pending", "created", "duplicate"},
                               id : Calls \cup {NoCall}, divergent : BOOLEAN]]
    BY <1>2, Constants DEF Found
  <2>2. pc' \in [Goroutines -> Places]
    BY <1>2, Constants DEF Found, Places
  <2>. QED
    BY <1>2, <2>1, <2>2 DEF Found
<1>3. ASSUME NEW c \in Calls, Missing(c) \/ Insert(c) PROVE TypeOK'
  BY <1>3, Constants DEF Missing, Insert, Places
<1>4. ASSUME NEW c \in Calls, InsertFingerprint(c) PROVE TypeOK'
  <2>1. answer' \in [Calls -> [status : {"pending", "created", "duplicate"},
                               id : Calls \cup {NoCall}, divergent : BOOLEAN]]
    BY <1>4, Constants DEF InsertFingerprint, Contract!Created
  <2>2. pc' \in [Goroutines -> Places]
    BY <1>4, Constants DEF InsertFingerprint, Places
  <2>. QED
    BY <1>4, <2>1, <2>2 DEF InsertFingerprint
<1>5. ASSUME NEW g \in Readers, Reads(g) PROVE TypeOK'
  <2>1. ASSUME NEW k \in AskedOf[g], Copy(g, k) PROVE TypeOK'
    <3>1. k \in Keys /\ {byKey[k]} \ {NoCall} \subseteq Calls
      BY CallsAssumption
    <3>. QED
      BY <2>1, <3>1 DEF Copy
  <2>2. CASE ReadReturns(g)
    BY <2>2, Constants DEF ReadReturns, Places
  <2>. QED
    BY <1>5, <2>1, <2>2 DEF Reads
<1>6. CASE Done \/ UNCHANGED vars
  BY <1>6 DEF Done, vars
<1>. QED
  BY <1>1, <1>2, <1>3, <1>4, <1>5, <1>6, Constants DEF Next, Ingest, Reader, Reads

LEMMA MutexStep ==
  ASSUME MemoryOK, [Next]_vars
  PROVE  MutexOK'
<1>. USE DEF MemoryOK, TypeOK, MutexOK, Goto
<1>1. ASSUME NEW g \in Goroutines, Lock(g) \/ Unlock(g) PROVE MutexOK'
  BY <1>1, CallsAssumption DEF Lock, Unlock, Goroutines
<1>2. ASSUME NEW c \in Calls, Found(c) \/ Missing(c) \/ Insert(c) \/ InsertFingerprint(c)
      PROVE  MutexOK'
  BY <1>2, Constants DEF Found, Missing, Insert, InsertFingerprint
<1>3. ASSUME NEW g \in Readers, Reads(g) PROVE MutexOK'
  BY <1>3, Constants DEF Reads, Copy, ReadReturns
<1>4. CASE Done \/ UNCHANGED vars
  BY <1>4 DEF Done, vars
<1>. QED
  BY <1>1, <1>2, <1>3, <1>4, Constants DEF Next, Ingest, Reader, Reads

\* A goroutine that takes or gives back the mutex, or reads, changes no entry.
LEMMA EntriesStay ==
  ASSUME MemoryOK, NEW g \in Goroutines,
         Lock(g) \/ Unlock(g) \/ (g \in Readers /\ Reads(g))
  PROVE  (\A c \in Calls : CallOK(c)') /\ MapsOK'
<1>1. UNCHANGED <<byKey, fingerprints, answer>>
  BY DEF Lock, Unlock, Reads, Copy, ReadReturns
<1>2. \A c \in Calls :
        \/ pc'[c] = pc[c]
        \/ pc[c] = "start" /\ pc'[c] = "locked"
        \/ pc[c] = "unlock" /\ pc'[c] = "done"
  BY Constants DEF Lock, Unlock, Reads, Copy, ReadReturns, Goto, MemoryOK, TypeOK
<1>3. \A c \in Calls : CallOK(c)'
  BY <1>1, <1>2 DEF MemoryOK, CallOK
<1>4. MapsOK'
  BY <1>1, <1>2 DEF MemoryOK, MapsOK, TypeOK
<1>. QED
  BY <1>3, <1>4

LEMMA EntriesStep ==
  ASSUME MemoryOK, [Next]_vars
  PROVE  (\A c \in Calls : CallOK(c)') /\ MapsOK'
<1>. USE DEF MemoryOK, TypeOK, Goto
<1>1. ASSUME NEW c \in Calls, Found(c) PROVE (\A d \in Calls : CallOK(d)') /\ MapsOK'
  <2>1. MapsOK'
    BY <1>1, Constants DEF Found, MapsOK
  <2>2. ASSUME NEW d \in Calls PROVE CallOK(d)'
    BY <1>1, Constants DEF Found, CallOK, Contract!Pending
  <2>. QED
    BY <2>1, <2>2
<1>2. ASSUME NEW c \in Calls, Missing(c) PROVE (\A d \in Calls : CallOK(d)') /\ MapsOK'
  <2>1. MapsOK'
    BY <1>2, Constants DEF Missing, MapsOK
  <2>2. ASSUME NEW d \in Calls PROVE CallOK(d)'
    BY <1>2, Constants DEF Missing, CallOK
  <2>. QED
    BY <2>1, <2>2
<1>3. ASSUME NEW c \in Calls, Insert(c) PROVE (\A d \in Calls : CallOK(d)') /\ MapsOK'
  <2>1. byKey[KeyOf[c]] = NoCall /\ byKey' = [byKey EXCEPT ![KeyOf[c]] = c]
        /\ pc' = [pc EXCEPT ![c] = "fingerprint"] /\ UNCHANGED <<fingerprints, answer>>
    BY <1>3 DEF Insert, CallOK
  <2>2. MapsOK'
    BY <2>1, Constants DEF MapsOK
  <2>3. ASSUME NEW d \in Calls PROVE CallOK(d)'
    <3>1. CASE d = c
      BY <1>3, <2>1, <3>1, Constants DEF Insert, CallOK, Contract!Pending
    <3>2. CASE d # c
      <4>1. pc[d] \notin {"locked", "insert", "fingerprint", "unlock"}
        BY <1>3, <3>2, Constants DEF Insert, MutexOK
      <4>. QED
        BY <2>1, <3>2, <4>1, Constants DEF CallOK
    <3>. QED
      BY <3>1, <3>2
  <2>. QED
    BY <2>2, <2>3
<1>4. ASSUME NEW c \in Calls, InsertFingerprint(c)
      PROVE  (\A d \in Calls : CallOK(d)') /\ MapsOK'
  <2>1. MapsOK'
    BY <1>4, Constants DEF InsertFingerprint, MapsOK, CallOK
  <2>2. ASSUME NEW d \in Calls PROVE CallOK(d)'
    BY <1>4, Constants DEF InsertFingerprint, CallOK, Contract!Created, Contract!Pending
  <2>. QED
    BY <2>1, <2>2
<1>5. ASSUME NEW g \in Goroutines, Lock(g) \/ Unlock(g) \/ (g \in Readers /\ Reads(g))
      PROVE  (\A d \in Calls : CallOK(d)') /\ MapsOK'
  BY <1>5, EntriesStay
<1>6. CASE Done \/ UNCHANGED vars
  BY <1>6 DEF Done, vars, CallOK, MapsOK
<1>. QED
  BY <1>1, <1>2, <1>3, <1>4, <1>5, <1>6, Constants DEF Next, Ingest, Reader, Reads

\* A goroutine that stores or reads has the mutex, so every other reader, if it has
\* begun, has returned: its copy is not touched.
LEMMA ReaderStep ==
  ASSUME MemoryOK, [Next]_vars, NEW h \in Readers
  PROVE  ReaderOK(h)'
<1>. USE DEF MemoryOK, TypeOK, Goto
<1>0. ReaderOK(h) /\ h \in Goroutines /\ h \notin Calls
  BY Constants
<1>1. ASSUME NEW c \in Calls, Insert(c) PROVE ReaderOK(h)'
  <2>1. pc[h] \in {"start", "done"}
    BY <1>0, <1>1, Constants DEF Insert, MutexOK, ReaderOK
  <2>2. UNCHANGED <<left, view>> /\ pc'[h] = pc[h]
    BY <1>0, <1>1 DEF Insert
  <2>. QED
    BY <1>0, <2>1, <2>2 DEF ReaderOK
<1>2. ASSUME NEW c \in Calls, Found(c) \/ Missing(c) \/ InsertFingerprint(c)
      PROVE  ReaderOK(h)'
  <2>1. UNCHANGED <<byKey, left, view>> /\ pc'[h] = pc[h]
    BY <1>0, <1>2 DEF Found, Missing, InsertFingerprint
  <2>. QED
    BY <1>0, <2>1 DEF ReaderOK, Stored
<1>3. ASSUME NEW g \in Goroutines, Lock(g) \/ Unlock(g) PROVE ReaderOK(h)'
  <2>1. UNCHANGED <<byKey, left, view>>
    BY <1>3 DEF Lock, Unlock
  <2>2. \/ pc'[h] = pc[h]
        \/ pc[h] = "start" /\ pc'[h] = "locked"
        \/ pc[h] = "unlock" /\ pc'[h] = "done"
    BY <1>0, <1>3 DEF Lock, Unlock
  <2>3. Stored({}) = {}
    BY DEF Stored
  <2>4. pc[h] = "start" => view[h] = Stored(AskedOf[h] \ left[h])
    BY <1>0, <2>3 DEF ReaderOK
  <2>5. Stored(AskedOf[h] \ left[h])' = Stored(AskedOf[h] \ left[h])
    BY <2>1 DEF Stored
  <2>. QED
    BY <1>0, <2>1, <2>2, <2>4, <2>5 DEF ReaderOK
<1>4. ASSUME NEW g \in Readers, NEW k \in AskedOf[g], Copy(g, k) PROVE ReaderOK(h)'
  <2>1. byKey' = byKey /\ pc' = pc
    BY <1>4 DEF Copy
  <2>2. CASE h # g
    BY <1>0, <1>4, <2>1, <2>2 DEF Copy, ReaderOK, Stored
  <2>3. CASE h = g
    <3>1. /\ pc[g] = "locked" /\ k \in left[g] /\ left[g] \subseteq AskedOf[g]
          /\ left'[g] = left[g] \ {k}
          /\ view'[g] = view[g] \cup ({byKey[k]} \ {NoCall})
      BY <1>0, <1>4, <2>3 DEF Copy, ReaderOK
    <3>2. AskedOf[g] \ left'[g] = (AskedOf[g] \ left[g]) \cup {k}
      BY <3>1
    <3>3. Stored(AskedOf[g] \ left'[g]) =
            Stored(AskedOf[g] \ left[g]) \cup ({byKey[k]} \ {NoCall})
      BY <3>2 DEF Stored
    <3>4. view'[g] = Stored(AskedOf[g] \ left[g])'
      BY <1>0, <2>1, <2>3, <3>1, <3>3 DEF ReaderOK, Stored
    <3>. QED
      BY <2>1, <2>3, <3>1, <3>4 DEF ReaderOK
  <2>. QED
    BY <2>2, <2>3
<1>5. ASSUME NEW g \in Readers, ReadReturns(g) PROVE ReaderOK(h)'
  BY <1>0, <1>5, Constants DEF ReadReturns, ReaderOK, Stored
<1>6. CASE Done \/ UNCHANGED vars
  BY <1>0, <1>6 DEF Done, vars, ReaderOK, Stored
<1>. QED
  BY <1>1, <1>2, <1>3, <1>4, <1>5, <1>6, Constants DEF Next, Ingest, Reader

\* The inductive invariant holds for any number of goroutines.
THEOREM MemoryCorrect == Spec => []MemoryOK
<1>1. MemoryOK /\ [Next]_vars => MemoryOK'
  BY TypeStep, MutexStep, EntriesStep, ReaderStep DEF MemoryOK
<1>. QED
  BY MemoryInit, <1>1, PTL DEF Spec

\* Store.Ingest in memory keeps the contract of transaction.Store: its two
\* updates and its two reads count as one.
THEOREM MemoryImplementsContract == Spec => ImplementsContract
<1>1. Init => Contract!Init
  BY DEF Init, Contract!Init
<1>2. MemoryOK /\ [Next]_vars => [Contract!Next]_(Contract!vars)
  <2>. SUFFICES ASSUME MemoryOK, [Next]_vars PROVE [Contract!Next]_(Contract!vars)
    OBVIOUS
  <2>. USE DEF MemoryOK, TypeOK
  <2>1. ASSUME NEW c \in Calls, Insert(c) PROVE Contract!Record(c)
    BY <2>1 DEF Insert, CallOK, Contract!Record
  <2>2. ASSUME NEW c \in Calls, InsertFingerprint(c) PROVE Contract!Answer(c)
    BY <2>2, Constants DEF InsertFingerprint, CallOK, Contract!Answer
  <2>3. ASSUME NEW c \in Calls, Found(c) PROVE Contract!Answer(c)
    <3>1. /\ answer[c] = Contract!Pending /\ byKey[KeyOf[c]] \notin {c, NoCall}
          /\ pc[byKey[KeyOf[c]]] # "fingerprint"
      BY <2>3, Constants DEF Found, CallOK, MutexOK
    <3>2. fingerprints[KeyOf[c]] = FingerprintOf[byKey[KeyOf[c]]]
      BY <3>1, Constants DEF MapsOK
    <3>. QED
      BY <2>3, <3>1, <3>2 DEF Found, Contract!Answer, Contract!Duplicate
  <2>4. CASE UNCHANGED <<byKey, answer>>
    BY <2>4 DEF Contract!vars
  <2>. QED
    BY <2>1, <2>2, <2>3, <2>4
    DEF Next, Ingest, Reader, Lock, Missing, Copy, ReadReturns, Unlock, Done, vars, Contract!Next
<1>. QED
  BY <1>1, <1>2, MemoryCorrect, PTL DEF Spec, ImplementsContract, Contract!Spec

\* Get and All return what is stored under the keys they were asked for, no more and
\* no less, and so every transaction that a producer has been answered about.
THEOREM ReadersAreCurrent == Spec => []ReadersSeeSnapshot
<1>1. MemoryOK => ReadersSeeSnapshot
  <2>. SUFFICES ASSUME MemoryOK, NEW g \in Readers, pc[g] = "unlock"
                PROVE  /\ view[g] = Stored(AskedOf[g])
                       /\ \A c \in Calls :
                            answer[c].status # "pending" /\ KeyOf[c] \in AskedOf[g] =>
                              answer[c].id \in view[g]
    BY DEF ReadersSeeSnapshot
  <2>1. view[g] = Stored(AskedOf[g])
    <3>1. left[g] = {} /\ view[g] = Stored(AskedOf[g] \ left[g])
      BY DEF MemoryOK, ReaderOK
    <3>2. AskedOf[g] \ left[g] = AskedOf[g]
      BY <3>1
    <3>. QED
      BY <3>1, <3>2
  <2>2. ASSUME NEW c \in Calls, answer[c].status # "pending", KeyOf[c] \in AskedOf[g]
        PROVE  answer[c].id \in view[g]
    <3>1. answer[c].id = byKey[KeyOf[c]] /\ byKey[KeyOf[c]] # NoCall
      BY <2>2 DEF MemoryOK, CallOK
    <3>. QED
      BY <2>1, <2>2, <3>1 DEF Stored
  <2>. QED
    BY <2>1, <2>2
<1>. QED
  BY <1>1, MemoryCorrect, PTL
=============================================================================
