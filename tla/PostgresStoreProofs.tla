------------------------ MODULE PostgresStoreProofs ------------------------
(***************************************************************************)
(* Proofs about PostgresStore for every set of producers, every key and    *)
(* content they send, every pool size and any number of faults.  StoreOK   *)
(* is the inductive invariant; one lemma per action shows what the action  *)
(* does to its own call, and Local carries the other calls along.          *)
(***************************************************************************)
EXTENDS PostgresStore, FiniteSetTheorems, TLAPS

-----------------------------------------------------------------------------
(* Constants                                                               *)

\* Every call has a key, and none of them is the mark of an empty one.
LEMMA CallsHaveKeys == KeyOf \in [Calls -> Keys] /\ NoCall \notin Calls
BY ProducersAssumption DEF KeyOf, Calls

\* The four kinds of answers can be told apart.
LEMMA AnswerKinds ==
  /\ Pending \in Answers /\ Error \in Answers /\ Pending # Error
  /\ Pending.status = "pending" /\ Error.status = "error"
  /\ \A c \in Calls : /\ Created(c) \in Answers
                      /\ Created(c).status = "created" /\ Created(c).id = c
                      /\ ~Created(c).divergent
  /\ \A c, d \in Calls : /\ Duplicate(c, d) \in Answers
                         /\ Duplicate(c, d).status = "duplicate" /\ Duplicate(c, d).id = d
                         /\ Duplicate(c, d).divergent <=> FingerprintOf[d] # FingerprintOf[c]
BY DEF Pending, Error, Created, Duplicate, Answers,
       Contract!Pending, Contract!Error, Contract!Created, Contract!Duplicate

-----------------------------------------------------------------------------
(* Steps that leave the tables alone                                       *)

\* The step is c's: the other calls stay as they are.
OnlyCall(c) ==
  \A d \in Calls \ {c} :
    /\ pc'[d] = pc[d] /\ tx'[d] = tx[d] /\ written'[d] = written[d]
    /\ outcome'[d] = outcome[d] /\ answer'[d] = answer[d]

\* A step of one call that changes neither table preserves the invariant when
\* the call itself is in order afterwards, takes no key and stays committed.
LEMMA Local ==
  ASSUME StoreOK, NEW c \in Calls, TypeOK', OnlyCall(c), CallOK(c)',
         table' = table, events' = events,
         HoldsKey(c)' => HoldsKey(c),
         tx[c] = "committed" => tx'[c] = "committed" /\ written'[c] = written[c]
  PROVE  StoreOK'
<1>1. ASSUME NEW d \in Calls
      PROVE  CallOK(d)'
  <2>1. CASE d = c
    BY <2>1
  <2>2. CASE d # c
    BY <2>2 DEF StoreOK, OnlyCall, CallOK, Live, Decided
  <2> QED
    BY <2>1, <2>2
<1>2. \A d \in Calls : HoldsKey(d)' => HoldsKey(d)
  BY DEF OnlyCall, HoldsKey, Live
<1>3. KeyOK'
  <2> SUFFICES ASSUME NEW d \in Calls, HoldsKey(d)'
               PROVE  /\ table[KeyOf[d]] = NoCall
                      /\ \A e \in Calls \ {d} : KeyOf[e] = KeyOf[d] => ~HoldsKey(e)'
    BY DEF KeyOK
  <2> QED
    BY <1>2 DEF StoreOK, KeyOK
<1>4. RecordOK'
  <2> SUFFICES ASSUME NEW k \in Keys, table[k] # NoCall
               PROVE  /\ KeyOf[table[k]] = k
                      /\ tx'[table[k]] = "committed"
                      /\ "row" \in written'[table[k]]
    BY DEF RecordOK
  <2>1. table[k] \in Calls
    BY DEF StoreOK, TypeOK
  <2> QED
    BY <2>1 DEF StoreOK, RecordOK, OnlyCall
<1>5. RowIffEvent'
  BY DEF StoreOK, RowIffEvent
<1> QED
  BY <1>1, <1>3, <1>4, <1>5 DEF StoreOK

\* Ingest returns an error.
LEMMA ReturnError ==
  ASSUME StoreOK, NEW c \in Calls, NEW place \in {"answered", "gone"},
         pc[c] \in Working \cup {"begin"},
         pc' = [pc EXCEPT ![c] = place],
         answer' = [answer EXCEPT ![c] = Error],
         tx' = tx \/ tx' = [tx EXCEPT ![c] = "rolledback"],
         place = "answered" => tx'[c] = "rolledback",
         tx[c] = "committed" => tx'[c] = "committed",
         faults' \in 0..MaxFaults,
         UNCHANGED <<table, events, written, outcome>>
  PROVE  StoreOK'
<1>1. TypeOK'
  <2>1. tx' \in [Calls -> Sessions]
    BY DEF StoreOK, TypeOK, Sessions
  <2>2. pc' \in [Calls -> Places]
    BY DEF StoreOK, TypeOK, Places
  <2>3. answer' \in [Calls -> Answers]
    BY AnswerKinds DEF StoreOK, TypeOK
  <2> QED
    BY <2>1, <2>2, <2>3 DEF StoreOK, TypeOK
<1>2. pc'[c] = place /\ answer'[c] = Error /\ tx'[c] \in {tx[c], "rolledback"}
  BY DEF StoreOK, TypeOK
<1>3. OnlyCall(c)
  BY DEF OnlyCall, StoreOK, TypeOK
<1>4. CallOK(c)' /\ (HoldsKey(c)' => HoldsKey(c))
  BY <1>2 DEF StoreOK, CallOK, Live, HoldsKey, Decided, Working
<1> QED
  BY <1>1, <1>3, <1>4, Local

-----------------------------------------------------------------------------
(* The invariant                                                           *)

\* Initially no call has begun and nothing is recorded.
LEMMA StoreInit == Init => StoreOK
<1> SUFFICES ASSUME Init PROVE StoreOK
  OBVIOUS
<1>1. TypeOK
  BY CallsHaveKeys, AnswerKinds, BoundsAssumption DEF Init, TypeOK, Places, Sessions
<1>2. \A c \in Calls : CallOK(c)
  BY DEF Init, CallOK, Live
<1>3. KeyOK /\ RecordOK
  BY DEF Init, KeyOK, RecordOK, HoldsKey
<1>4. RowIffEvent
  BY CallsHaveKeys DEF Init, RowIffEvent
<1> QED
  BY <1>1, <1>2, <1>3, <1>4 DEF StoreOK

\* Push only makes a call begin.
LEMMA PushStep ==
  ASSUME StoreOK, NEW c \in Calls, pc[c] = "idle", Goto(c, "begin"),
         UNCHANGED <<table, events, tx, written, outcome, answer, faults>>
  PROVE  StoreOK'
<1>1. TypeOK' /\ OnlyCall(c) /\ pc'[c] = "begin"
  BY DEF StoreOK, TypeOK, Goto, OnlyCall, Places
<1>2. CallOK(c)' /\ (HoldsKey(c)' => HoldsKey(c))
  BY <1>1 DEF StoreOK, CallOK, Live, HoldsKey
<1> QED
  BY <1>1, <1>2, Local

\* Begin opens a session with nothing written in it.
LEMMA BeginStep ==
  ASSUME StoreOK, NEW c \in Calls, Begin(c)
  PROVE  StoreOK'
<1>1. TypeOK'
  BY DEF StoreOK, TypeOK, Begin, Goto, Places, Working, Sessions
<1>2. OnlyCall(c) /\ pc'[c] = "insert" /\ tx'[c] = "open"
  BY DEF StoreOK, TypeOK, Begin, Goto, OnlyCall
<1>3. CallOK(c)' /\ (HoldsKey(c)' => HoldsKey(c)) /\ tx[c] # "committed"
  BY <1>2 DEF StoreOK, CallOK, Begin, Live, HoldsKey
<1> QED
  BY <1>1, <1>2, <1>3, Local DEF Begin

\* The insert takes the key, which nobody holds.
LEMMA InsertNewStep ==
  ASSUME StoreOK, NEW c \in Calls, InsertNew(c)
  PROVE  StoreOK'
<1>1. TypeOK'
  BY DEF StoreOK, TypeOK, InsertNew, Goto, Places, Working
<1>2. /\ OnlyCall(c) /\ pc'[c] = "event" /\ tx'[c] = "open" /\ written'[c] = {"row"}
      /\ answer'[c] = answer[c] /\ table' = table
  BY DEF StoreOK, TypeOK, InsertNew, Goto, OnlyCall
<1>3. ASSUME NEW d \in Calls
      PROVE  CallOK(d)'
  <2>1. CASE d = c
    BY <1>2, <2>1 DEF StoreOK, CallOK, InsertNew, Live
  <2>2. CASE d # c
    BY <1>2, <2>2 DEF StoreOK, CallOK, OnlyCall, Live, Decided
  <2> QED
    BY <2>1, <2>2
<1>4. \A d \in Calls \ {c} : HoldsKey(d)' <=> HoldsKey(d)
  BY <1>2 DEF OnlyCall, HoldsKey, Live
<1>5. \A d \in Calls \ {c} : KeyOf[d] = KeyOf[c] => ~HoldsKey(d)
  BY DEF InsertNew, KeyBusy, HoldsKey
<1>6. table[KeyOf[c]] = NoCall
  BY DEF InsertNew
<1>7. KeyOK'
  BY <1>2, <1>4, <1>5, <1>6 DEF StoreOK, KeyOK
<1>8. RecordOK'
  <2> SUFFICES ASSUME NEW k \in Keys, table[k] # NoCall
               PROVE  /\ KeyOf[table[k]] = k
                      /\ tx'[table[k]] = "committed"
                      /\ "row" \in written'[table[k]]
    BY <1>2 DEF RecordOK
  <2>1. table[k] \in Calls /\ tx[c] = "open"
    BY DEF StoreOK, TypeOK, InsertNew
  <2> QED
    BY <1>2, <2>1 DEF StoreOK, RecordOK, OnlyCall
<1>9. RowIffEvent'
  BY DEF StoreOK, RowIffEvent, InsertNew
<1> QED
  BY <1>1, <1>3, <1>7, <1>8, <1>9 DEF StoreOK

\* A conflicting insert has waited for the key and found a committed row.
LEMMA InsertConflictStep ==
  ASSUME StoreOK, NEW c \in Calls, InsertConflict(c)
  PROVE  StoreOK'
<1>1. TypeOK' /\ OnlyCall(c) /\ pc'[c] = "readback"
  BY DEF StoreOK, TypeOK, InsertConflict, Goto, OnlyCall, Places, Working
<1>2. CallOK(c)' /\ (HoldsKey(c)' => HoldsKey(c))
  BY <1>1 DEF StoreOK, CallOK, InsertConflict, Live, HoldsKey
<1> QED
  BY <1>1, <1>2, Local DEF InsertConflict

\* With its event written the call is to answer that it has created the record.
LEMMA WriteOutboxEventStep ==
  ASSUME StoreOK, NEW c \in Calls, WriteOutboxEvent(c)
  PROVE  StoreOK'
<1>1. /\ written' = [written EXCEPT ![c] = written[c] \cup {"event"}]
      /\ outcome' = [outcome EXCEPT ![c] = Created(c)]
      /\ pc' = [pc EXCEPT ![c] = "commit"]
      /\ UNCHANGED <<table, events, tx, answer, faults>>
  BY DEF WriteOutboxEvent, Goto
<1>2. TypeOK'
  <2>1. written' \in [Calls -> SUBSET {"row", "event"}]
    BY <1>1 DEF StoreOK, TypeOK
  <2>2. outcome' \in [Calls -> Answers]
    BY <1>1, AnswerKinds DEF StoreOK, TypeOK
  <2> QED
    BY <1>1, <2>1, <2>2 DEF StoreOK, TypeOK, Places, Working
<1>3. OnlyCall(c) /\ pc'[c] = "commit" /\ outcome'[c] = Created(c)
  BY <1>1 DEF StoreOK, TypeOK, OnlyCall
<1>4. written'[c] = {"row", "event"}
  BY <1>1 DEF StoreOK, TypeOK, CallOK, WriteOutboxEvent
<1>5. CallOK(c)' /\ (HoldsKey(c)' => HoldsKey(c))
  BY <1>1, <1>3, <1>4 DEF StoreOK, CallOK, WriteOutboxEvent, Live, HoldsKey, Decided
<1> QED
  BY <1>1, <1>2, <1>3, <1>5, Local DEF WriteOutboxEvent

\* The read-back finds a row that is final and another call's.
LEMMA ReadBackStep ==
  ASSUME StoreOK, NEW c \in Calls, ReadBack(c)
  PROVE  StoreOK'
<1> DEFINE stored == table[KeyOf[c]]
<1>1. stored # NoCall
  BY DEF StoreOK, CallOK, ReadBack
<1>2. stored \in Calls /\ stored # c
  <2>1. KeyOf[c] \in Keys
    BY CallsHaveKeys
  <2>2. stored \in Calls
    BY <1>1, <2>1 DEF StoreOK, TypeOK
  <2>3. tx[stored] = "committed"
    BY <1>1, <2>1 DEF StoreOK, RecordOK
  <2> QED
    BY <2>2, <2>3 DEF ReadBack
<1>3. /\ outcome' = [outcome EXCEPT ![c] = Duplicate(c, stored)]
      /\ pc' = [pc EXCEPT ![c] = "commit"]
      /\ UNCHANGED <<table, events, tx, written, answer, faults>>
  BY <1>1 DEF ReadBack, Goto
<1>4. TypeOK'
  <2>1. Duplicate(c, stored) \in Answers
    BY <1>2, AnswerKinds
  <2>2. outcome' \in [Calls -> Answers]
    BY <1>3, <2>1 DEF StoreOK, TypeOK
  <2>3. pc' \in [Calls -> Places]
    BY <1>3 DEF StoreOK, TypeOK, Places, Working
  <2> QED
    BY <1>3, <2>2, <2>3 DEF StoreOK, TypeOK
<1>5. OnlyCall(c) /\ pc'[c] = "commit" /\ outcome'[c] = Duplicate(c, stored)
  BY <1>3 DEF StoreOK, TypeOK, OnlyCall
<1>6. CallOK(c)' /\ (HoldsKey(c)' => HoldsKey(c))
  BY <1>1, <1>2, <1>3, <1>5 DEF StoreOK, CallOK, ReadBack, Live, HoldsKey, Decided
<1> QED
  BY <1>3, <1>4, <1>5, <1>6, Local DEF ReadBack

\* Sending COMMIT changes nothing but the place.
LEMMA SendCommitStep ==
  ASSUME StoreOK, NEW c \in Calls, SendCommit(c)
  PROVE  StoreOK'
<1>1. TypeOK'
  BY DEF StoreOK, TypeOK, SendCommit, Goto, Places, Working, Sessions
<1>2. OnlyCall(c) /\ pc'[c] = "committing" /\ tx'[c] = "committing"
  BY DEF StoreOK, TypeOK, SendCommit, Goto, OnlyCall
<1>3. CallOK(c)' /\ (HoldsKey(c)' => HoldsKey(c))
  BY <1>2 DEF StoreOK, CallOK, SendCommit, Live, HoldsKey, Decided
<1> QED
  BY <1>1, <1>2, <1>3, Local DEF SendCommit

\* COMMIT returns what was decided.
LEMMA CommitReturnsStep ==
  ASSUME StoreOK, NEW c \in Calls, CommitReturns(c)
  PROVE  StoreOK'
<1>1. TypeOK'
  BY DEF StoreOK, TypeOK, CommitReturns, Return, Goto, Places, Working
<1>2. OnlyCall(c) /\ pc'[c] = "answered" /\ answer'[c] = outcome[c]
  BY DEF StoreOK, TypeOK, CommitReturns, Return, Goto, OnlyCall
<1>3. CallOK(c)' /\ (HoldsKey(c)' => HoldsKey(c))
  BY <1>2 DEF StoreOK, CallOK, CommitReturns, Live, HoldsKey, Decided
<1> QED
  BY <1>1, <1>2, <1>3, Local DEF CommitReturns

\* The calls that end with an error, and the sessions that end without a commit.
LEMMA FailingStep ==
  ASSUME StoreOK, NEW c \in Calls,
         StatementFails(c) \/ IngestFails(c) \/ Abandon(c)
  PROVE  StoreOK'
<1>1. CASE StatementFails(c)
  BY <1>1, ReturnError DEF StatementFails, Return, Goto, StoreOK, TypeOK
<1>2. CASE IngestFails(c)
  <2>1. faults' \in 0..MaxFaults
    BY <1>2, BoundsAssumption DEF IngestFails, Fault, StoreOK, TypeOK
  <2>2. tx' = [tx EXCEPT ![c] = "rolledback"] /\ tx'[c] = "rolledback" /\ tx[c] # "committed"
    BY <1>2 DEF IngestFails, StoreOK, TypeOK
  <2> QED
    BY <1>2, <2>1, <2>2, ReturnError DEF IngestFails, Return, Goto, Working
<1>3. CASE Abandon(c)
  <2>1. faults' \in 0..MaxFaults
    BY <1>3, BoundsAssumption DEF Abandon, Fault, StoreOK, TypeOK
  <2> QED
    BY <1>3, <2>1, ReturnError DEF Abandon, Goto
<1> QED
  BY <1>1, <1>2, <1>3

\* A session that ends without a commit gives up its key.
LEMMA SessionEndsStep ==
  ASSUME StoreOK, NEW c \in Calls, ServerRollback(c) \/ LoseSession(c)
  PROVE  StoreOK'
<1>1. /\ Live(c) /\ tx' = [tx EXCEPT ![c] = "rolledback"]
      /\ UNCHANGED <<table, events, pc, written, outcome, answer>>
  BY DEF ServerRollback, LoseSession
<1>2. faults' \in 0..MaxFaults
  BY BoundsAssumption DEF ServerRollback, LoseSession, Fault, StoreOK, TypeOK
<1>3. TypeOK'
  BY <1>1, <1>2 DEF StoreOK, TypeOK, Sessions
<1>4. OnlyCall(c) /\ tx'[c] = "rolledback"
  BY <1>1 DEF StoreOK, TypeOK, OnlyCall
<1>5. CallOK(c)' /\ (HoldsKey(c)' => HoldsKey(c)) /\ tx[c] # "committed"
  BY <1>1, <1>4 DEF StoreOK, CallOK, Live, HoldsKey, Decided
<1> QED
  BY <1>1, <1>3, <1>4, <1>5, Local

\* A commit without a row changes the session only.
LEMMA CommitDuplicate ==
  ASSUME StoreOK, NEW c \in Calls, ServerCommit(c), "row" \notin written[c]
  PROVE  StoreOK'
<1>1. written[c] = {} /\ Decided(c)
  BY DEF StoreOK, CallOK, ServerCommit, Decided
<1>2. /\ tx' = [tx EXCEPT ![c] = "committed"]
      /\ UNCHANGED <<table, events, pc, written, outcome, answer, faults>>
  BY <1>1 DEF ServerCommit
<1>3. TypeOK'
  BY <1>2 DEF StoreOK, TypeOK, Sessions
<1>4. OnlyCall(c) /\ tx'[c] = "committed"
  BY <1>2 DEF StoreOK, TypeOK, OnlyCall
<1>5. CallOK(c)' /\ (HoldsKey(c)' => HoldsKey(c)) /\ tx[c] # "committed"
  BY <1>1, <1>2, <1>4 DEF StoreOK, CallOK, ServerCommit, Live, HoldsKey, Decided
<1> QED
  BY <1>2, <1>3, <1>4, <1>5, Local

\* A commit with a row records it under a key that had none, with its event.
LEMMA CommitNew ==
  ASSUME StoreOK, NEW c \in Calls, ServerCommit(c), "row" \in written[c]
  PROVE  /\ StoreOK'
         /\ table[KeyOf[c]] = NoCall
         /\ table' = [table EXCEPT ![KeyOf[c]] = c]
         /\ events' = events \cup {c}
<1>1. written[c] = {"row", "event"} /\ Decided(c)
  BY DEF StoreOK, CallOK, ServerCommit, Decided
<1>2. /\ tx' = [tx EXCEPT ![c] = "committed"]
      /\ table' = [table EXCEPT ![KeyOf[c]] = c]
      /\ events' = events \cup {c}
      /\ UNCHANGED <<pc, written, outcome, answer, faults>>
  BY <1>1 DEF ServerCommit
<1>3. table[KeyOf[c]] = NoCall /\ \A d \in Calls \ {c} : KeyOf[d] = KeyOf[c] => ~HoldsKey(d)
  BY DEF StoreOK, KeyOK, HoldsKey, Live, ServerCommit
<1>4. TypeOK'
  BY <1>2, CallsHaveKeys DEF StoreOK, TypeOK, Sessions
<1>5. OnlyCall(c) /\ tx'[c] = "committed" /\ table'[KeyOf[c]] = c
  BY <1>2, CallsHaveKeys DEF StoreOK, TypeOK, OnlyCall
<1>6. \A k \in Keys : table[k] # NoCall => table'[k] = table[k] /\ k # KeyOf[c]
  BY <1>2, <1>3 DEF StoreOK, TypeOK
<1>7. \A k \in Keys : table'[k] = IF k = KeyOf[c] THEN c ELSE table[k]
  BY <1>2 DEF StoreOK, TypeOK
<1>8. ASSUME NEW d \in Calls
      PROVE  CallOK(d)'
  <2>1. CASE d = c
    BY <1>1, <1>2, <1>5, <2>1, CallsHaveKeys
       DEF StoreOK, CallOK, ServerCommit, Live, Decided
  <2>2. CASE d # c
    <3>1. KeyOf[d] \in Keys /\ d # NoCall
      BY CallsHaveKeys
    <3>2. table[KeyOf[d]] # NoCall => table'[KeyOf[d]] = table[KeyOf[d]]
      BY <1>6, <3>1
    <3>3. CallOK(d)
      BY DEF StoreOK
    <3> QED
      BY <1>5, <2>2, <3>1, <3>2, <3>3, CallsHaveKeys DEF CallOK, OnlyCall, Live, Decided
  <2> QED
    BY <2>1, <2>2
<1>9. KeyOK'
  <2> SUFFICES ASSUME NEW d \in Calls, HoldsKey(d)'
               PROVE  /\ table'[KeyOf[d]] = NoCall
                      /\ \A e \in Calls \ {d} : KeyOf[e] = KeyOf[d] => ~HoldsKey(e)'
    BY DEF KeyOK
  <2>1. d # c /\ HoldsKey(d)
    BY <1>5 DEF HoldsKey, Live, OnlyCall
  <2>2. KeyOf[d] # KeyOf[c] /\ KeyOf[d] \in Keys
    BY <1>3, <2>1, CallsHaveKeys
  <2>3. table'[KeyOf[d]] = NoCall
    BY <1>7, <2>1, <2>2 DEF StoreOK, KeyOK
  <2>4. \A e \in Calls : HoldsKey(e)' => HoldsKey(e)
    BY <1>5 DEF HoldsKey, Live, OnlyCall
  <2> QED
    BY <2>1, <2>3, <2>4 DEF StoreOK, KeyOK
<1>10. RecordOK'
  <2> SUFFICES ASSUME NEW k \in Keys, table'[k] # NoCall
               PROVE  /\ KeyOf[table'[k]] = k
                      /\ tx'[table'[k]] = "committed"
                      /\ "row" \in written'[table'[k]]
    BY DEF RecordOK
  <2>1. CASE k = KeyOf[c]
    BY <1>2, <1>5, <2>1
  <2>2. CASE k # KeyOf[c]
    <3>1. table'[k] = table[k] /\ table[k] \in Calls
      BY <1>7, <2>2 DEF StoreOK, TypeOK
    <3> QED
      BY <1>2, <3>1 DEF StoreOK, RecordOK, TypeOK
  <2> QED
    BY <2>1, <2>2
<1>11. RowIffEvent'
  <2>1. events = {d \in Calls : table[KeyOf[d]] = d}
    BY DEF StoreOK, RowIffEvent
  <2>2. ASSUME NEW d \in Calls
        PROVE  table'[KeyOf[d]] = d <=> d = c \/ table[KeyOf[d]] = d
    BY <1>3, <1>5, <1>7, CallsHaveKeys
  <2> QED
    BY <1>2, <2>1, <2>2 DEF RowIffEvent
<1> QED
  BY <1>2, <1>3, <1>4, <1>8, <1>9, <1>10, <1>11 DEF StoreOK

\* StoreOK is inductive.
LEMMA StoreInductive ==
  ASSUME StoreOK, [Next]_vars
  PROVE  StoreOK'
<1>1. ASSUME NEW p \in Producers, NEW n \in 1..MaxCalls[p], Push(p, n)
      PROVE  StoreOK'
  <2>1. <<p, n>> \in Calls
    BY DEF Calls
  <2> QED
    BY <1>1, <2>1, PushStep DEF Push
<1>2. ASSUME NEW c \in Calls, Handler(c)
      PROVE  StoreOK'
  BY <1>2, BeginStep, InsertNewStep, InsertConflictStep, WriteOutboxEventStep, ReadBackStep,
     SendCommitStep, CommitReturnsStep, FailingStep
     DEF Handler
<1>3. ASSUME NEW c \in Calls, Server(c)
      PROVE  StoreOK'
  BY <1>3, CommitDuplicate, CommitNew, SessionEndsStep DEF Server
<1>4. ASSUME NEW c \in Calls, Failure(c)
      PROVE  StoreOK'
  BY <1>4, FailingStep, SessionEndsStep DEF Failure
<1>5. CASE UNCHANGED vars
  BY <1>5 DEF vars, StoreOK, TypeOK, CallOK, KeyOK, RecordOK, RowIffEvent, HoldsKey, Live, Decided
<1>6. CASE Done
  BY <1>5, <1>6 DEF Done
<1> QED
  BY <1>1, <1>2, <1>3, <1>4, <1>5, <1>6 DEF Next

\* In every state of every behaviour the calls, the sessions and the tables fit
\* together as StoreOK says.
THEOREM StoreCorrect == Spec => []StoreOK
BY StoreInit, StoreInductive, PTL DEF Spec

\* Every variable of Ingest's model keeps its type.
THEOREM TypeCorrect == Spec => []TypeOK
<1>1. StoreOK => TypeOK
  BY DEF StoreOK
<1> QED
  BY <1>1, StoreCorrect, PTL

-----------------------------------------------------------------------------
(* Safety                                                                  *)

\* The row and its outbox event are recorded together or not at all, however
\* many handlers ingest and whatever fails.
THEOREM OutboxIsTransactional == Spec => []RowIffEvent
<1>1. StoreOK => RowIffEvent
  BY DEF StoreOK
<1> QED
  BY <1>1, StoreCorrect, PTL

\* An accepted call has committed, and its answer is what was decided.
LEMMA AcceptedIsDecided ==
  ASSUME StoreOK, NEW c \in Calls, Accepted(c)
  PROVE  tx[c] = "committed" /\ answer[c] = outcome[c] /\ Decided(c)
BY AnswerKinds DEF StoreOK, CallOK, Accepted

\* No two producers are told different ids for a key, 201 goes to the call whose
\* transaction is recorded and to no other, and a divergent replay is reported as
\* one, and nothing else is.
THEOREM AnswersCarryOneId == Spec => []AnswersAgree
<1>1. StoreOK => AnswersAgree
  <2> SUFFICES ASSUME StoreOK, NEW c \in Calls, Accepted(c)
               PROVE  /\ table[KeyOf[c]] = answer[c].id
                      /\ answer[c].status = "created" <=> table[KeyOf[c]] = c
                      /\ answer[c].divergent <=> FingerprintOf[c] # FingerprintOf[answer[c].id]
    BY DEF AnswersAgree
  <2>1. CASE written[c] = {"row", "event"} /\ outcome[c] = Created(c)
    BY <2>1, AcceptedIsDecided, AnswerKinds DEF StoreOK, CallOK
  <2>2. CASE table[KeyOf[c]] \notin {NoCall, c} /\ outcome[c] = Duplicate(c, table[KeyOf[c]])
    <3>1. table[KeyOf[c]] \in Calls
      BY <2>2, CallsHaveKeys DEF StoreOK, TypeOK
    <3> QED
      BY <2>2, <3>1, AcceptedIsDecided, AnswerKinds
  <2> QED
    BY <2>1, <2>2, AcceptedIsDecided DEF Decided
<1> QED
  BY <1>1, StoreCorrect, PTL

\* The read-back after a conflict always finds the row, so ErrNotFound never
\* leaves Ingest.
THEOREM ReadBackSucceeds == Spec => []ReadBackFindsRow
<1>1. StoreOK => ReadBackFindsRow
  BY DEF StoreOK, CallOK, ReadBackFindsRow
<1> QED
  BY <1>1, StoreCorrect, PTL

\* Whoever holds a key is past the pool and past its insert, so it waits for nobody.
LEMMA KeyHolderGoesOn ==
  ASSUME StoreOK, NEW d \in Calls, HoldsKey(d)
  PROVE  ~Waits(d)
BY DEF StoreOK, CallOK, HoldsKey, Waits, WaitsForConnection, WaitsForKey

\* Handlers that share a pool of any size and wait for each other's keys never
\* wait in a circle.
THEOREM WaitsAreNotCircular == Spec => []NoCircularWait
<1>1. ASSUME StoreOK, NEW c \in Calls, WaitsForKey(c)
      PROVE  \E d \in Calls : ~Waits(d) /\ Blocks(d, c)
  <2>1. PICK d \in Calls \ {c} : KeyOf[d] = KeyOf[c] /\ HoldsKey(d)
    BY <1>1 DEF WaitsForKey, KeyBusy, HoldsKey
  <2> QED
    BY <1>1, <2>1, KeyHolderGoesOn DEF Blocks
<1>2. StoreOK => NoCircularWait
  <2> SUFFICES ASSUME StoreOK, NEW c \in Calls, Waits(c)
               PROVE  \E d \in Calls :
                        /\ ~Waits(d)
                        /\ Blocks(d, c) \/ \E e \in Calls : Blocks(e, c) /\ Blocks(d, e)
    BY DEF NoCircularWait
  <2>1. CASE WaitsForKey(c)
    BY <1>1, <2>1
  <2>2. CASE WaitsForConnection(c)
    <3>1. PICK e \in Connections : TRUE
      <4>1. Connections # {}
        BY <2>2, PoolAssumption, FS_EmptySet DEF WaitsForConnection
      <4> QED
        BY <4>1
    <3>2. e \in Calls /\ Blocks(e, c) /\ ~WaitsForConnection(e)
      BY <2>2, <3>1 DEF Blocks, Connections, Working, WaitsForConnection
    <3> QED
      BY <1>1, <3>2 DEF Waits
  <2> QED
    BY <2>1, <2>2 DEF Waits
<1> QED
  BY <1>2, StoreCorrect, PTL

\* What each action does to the tables and the answers is a step of the contract.
LEMMA ContractStep ==
  ASSUME StoreOK, [Next]_vars
  PROVE  [Contract!Next]_(Contract!vars)
<1>1. ASSUME NEW c \in Calls, ServerCommit(c)
      PROVE  [Contract!Next]_(Contract!vars)
  <2>1. CASE "row" \in written[c]
    BY <1>1, <2>1, CommitNew DEF ServerCommit, Contract!Next, Contract!Record
  <2>2. CASE "row" \notin written[c]
    BY <1>1, <2>2 DEF StoreOK, CallOK, Decided, ServerCommit, Contract!vars
  <2> QED
    BY <2>1, <2>2
<1>2. ASSUME NEW c \in Calls, CommitReturns(c)
      PROVE  Contract!Next
  <2>1. answer[c] = Pending /\ Decided(c)
    BY <1>2 DEF StoreOK, CallOK, CommitReturns
  <2>2. answer' = [answer EXCEPT ![c] = outcome[c]] /\ table' = table
    BY <1>2 DEF CommitReturns, Return
  <2>3. CASE written[c] = {"row", "event"} /\ outcome[c] = Created(c)
    <3>1. table[KeyOf[c]] = c
      BY <1>2, <2>3 DEF StoreOK, CallOK, CommitReturns
    <3>2. Contract!Answer(c)
      BY <2>1, <2>2, <2>3, <3>1, CallsHaveKeys DEF Contract!Answer, Pending, Created
    <3> QED
      BY <3>2 DEF Contract!Next
  <2>4. CASE table[KeyOf[c]] \notin {NoCall, c} /\ outcome[c] = Duplicate(c, table[KeyOf[c]])
    <3>1. Contract!Answer(c)
      BY <2>1, <2>2, <2>4 DEF Contract!Answer, Pending, Duplicate
    <3> QED
      BY <3>1 DEF Contract!Next
  <2> QED
    BY <2>1, <2>3, <2>4 DEF Decided
<1>3. ASSUME NEW c \in Calls, StatementFails(c) \/ IngestFails(c) \/ Abandon(c)
      PROVE  Contract!Next
  <2>1. answer[c] = Pending
    BY <1>3 DEF StoreOK, CallOK, StatementFails, IngestFails, Abandon, Working
  <2>2. answer' = [answer EXCEPT ![c] = Error] /\ table' = table
    BY <1>3 DEF StatementFails, IngestFails, Abandon, Return
  <2>3. Contract!Fail(c)
    BY <2>1, <2>2 DEF Contract!Fail, Pending, Error
  <2> QED
    BY <2>3 DEF Contract!Next
<1>4. ASSUME NEW c \in Calls,
             \/ Begin(c) \/ InsertNew(c) \/ InsertConflict(c) \/ WriteOutboxEvent(c)
             \/ SendCommit(c) \/ ServerRollback(c) \/ LoseSession(c)
      PROVE  UNCHANGED <<table, answer>>
  BY <1>4 DEF Begin, InsertNew, InsertConflict, WriteOutboxEvent, SendCommit,
              ServerRollback, LoseSession
<1>5. ASSUME NEW c \in Calls, ReadBack(c)
      PROVE  UNCHANGED <<table, answer>>
  BY <1>5 DEF ReadBack, StoreOK, CallOK
<1>6. ASSUME NEW p \in Producers, NEW n \in 1..MaxCalls[p], Push(p, n)
      PROVE  UNCHANGED <<table, answer>>
  BY <1>6 DEF Push
<1>7. CASE Done \/ UNCHANGED vars
  BY <1>7 DEF Done, vars, Contract!vars
<1> QED
  BY <1>1, <1>2, <1>3, <1>4, <1>5, <1>6, <1>7
     DEF Next, Handler, Server, Failure, Contract!vars

\* Ingest, statement by statement, implements the atomic keyed ingest that
\* transaction.Store demands: overlapping calls, ambiguous commits and all.
THEOREM StoreImplementsContract == Spec => ImplementsContract
<1>1. Init => Contract!Init
  BY DEF Init, Contract!Init, Pending
<1>2. StoreOK /\ [Next]_vars => [Contract!Next]_(Contract!vars)
  BY ContractStep
<1> QED
  BY <1>1, <1>2, StoreCorrect, PTL DEF Spec, ImplementsContract, Contract!Spec

\* A row, once committed, is never overwritten, and an event never withdrawn.
THEOREM Immutable == Spec => RecordsAreImmutable
<1>1. StoreOK /\ [Next]_vars =>
        [/\ \A k \in Keys : table[k] # NoCall => table'[k] = table[k]
         /\ events \subseteq events']_vars
  <2> SUFFICES ASSUME StoreOK, [Next]_vars
               PROVE  /\ \A k \in Keys : table[k] # NoCall => table'[k] = table[k]
                      /\ events \subseteq events'
    OBVIOUS
  <2>1. ASSUME NEW c \in Calls, ServerCommit(c)
        PROVE  /\ \A k \in Keys : table[k] # NoCall => table'[k] = table[k]
               /\ events \subseteq events'
    <3>1. CASE "row" \in written[c]
      BY <2>1, <3>1, CommitNew DEF StoreOK, TypeOK
    <3>2. CASE "row" \notin written[c]
      BY <2>1, <3>2 DEF StoreOK, CallOK, Decided, ServerCommit
    <3> QED
      BY <3>1, <3>2
  <2>2. CASE UNCHANGED <<table, events>>
    BY <2>2
  <2> QED
    BY <2>1, <2>2
       DEF Next, Push, Handler, Server, Failure, Begin, InsertNew, InsertConflict,
           WriteOutboxEvent, ReadBack, SendCommit, CommitReturns, StatementFails, IngestFails,
           ServerRollback, LoseSession, Abandon, Done, vars
<1> QED
  BY <1>1, StoreCorrect, PTL DEF Spec, RecordsAreImmutable
=============================================================================
