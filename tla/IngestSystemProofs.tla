------------------------- MODULE IngestSystemProofs -------------------------
(***************************************************************************)
(* Proofs about IngestSystem.  The store goes through the same steps as on *)
(* its own, so what PostgresStoreProofs shows of it carries over, and the  *)
(* relay adds RelayOK to the inductive invariant.                          *)
(***************************************************************************)
EXTENDS IngestSystem, PostgresStoreProofs

\* The relay writes nothing the store reads.
LEMMA StoreIsUndisturbed == [SystemNext]_systemVars => [Next]_vars
BY DEF SystemNext, StoreStep, RelayStep, RelayWorks, StartRelay, CountPending, ReadOldest,
       BacklogQueryFails, Claim, Publish, PublishFails, PublishUnacknowledged, CommitPass,
       PassFails, RelayStops, systemVars

\* A run of the system is, seen from the store, a run of the store.
LEMMA StoreRunsAsBefore == SystemSpec => Spec
<1>1. SystemInit => Init
  BY DEF SystemInit
<1>. QED
  BY <1>1, StoreIsUndisturbed, PTL DEF SystemSpec, Spec

\* No step of the store withdraws an event.
LEMMA EventsStay ==
  ASSUME StoreOK, [Next]_vars
  PROVE  events \subseteq events'
BY DEF StoreOK, Next, Push, Handler, Server, Failure, Begin, InsertNew, InsertConflict,
       WriteOutboxEvent, ReadBack, SendCommit, CommitReturns, StatementFails, IngestFails,
       ServerCommit, ServerRollback, LoseSession, Abandon, Done, vars

\* Every step keeps the relay to committed events.
LEMMA RelayStays ==
  ASSUME SystemOK, [SystemNext]_systemVars
  PROVE  RelayOK'
<1>. USE DEF RelayOK
<1>1. CASE StoreStep
  <2>1. UNCHANGED <<claimed, marked, settled, billed>>
    BY <1>1 DEF StoreStep, relayVars
  <2>2. events \subseteq events'
    BY <1>1, EventsStay DEF StoreStep, SystemOK
  <2>. QED
    BY <2>1, <2>2 DEF SystemOK
<1>2. CASE StartRelay \/ CountPending \/ ReadOldest \/ BacklogQueryFails
  BY <1>2 DEF StartRelay, CountPending, ReadOldest, BacklogQueryFails, SystemOK, vars
<1>3. CASE Claim
  BY <1>3 DEF Claim, SystemOK, Unsettled, vars
<1>4. ASSUME NEW c \in Calls, Publish(c) \/ PublishFails(c) \/ PublishUnacknowledged(c)
      PROVE  RelayOK'
  BY <1>4 DEF Publish, PublishFails, PublishUnacknowledged, SystemOK, vars
<1>5. CASE CommitPass \/ PassFails \/ RelayStops
  BY <1>5 DEF CommitPass, PassFails, RelayStops, SystemOK, vars
<1>6. CASE UNCHANGED systemVars
  BY <1>6 DEF systemVars, relayVars, vars, SystemOK
<1>. QED
  BY <1>1, <1>2, <1>3, <1>4, <1>5, <1>6 DEF SystemNext, RelayStep, RelayWorks

\* Relay and store keep each other in order.
THEOREM SystemCorrect == SystemSpec => []SystemOK
<1>1. SystemInit => RelayOK
  BY DEF SystemInit, Init, RelayOK
<1>2. StoreOK /\ RelayOK /\ [SystemNext]_systemVars => RelayOK'
  BY RelayStays DEF SystemOK
<1>3. SystemOK <=> StoreOK /\ RelayOK
  BY DEF SystemOK
<1>. QED
  BY <1>1, <1>2, <1>3, StoreRunsAsBefore, StoreCorrect, PTL DEF SystemSpec

\* The consumer's side of ADR-0007: with any number of producers, pushes,
\* failures and deliveries, a key is billed once, under the id that was
\* answered.
THEOREM KeysAreBilledOnce == SystemSpec => []BilledOnce
<1>1. SystemOK /\ AnswersAgree => BilledOnce
  <2>. SUFFICES ASSUME SystemOK, AnswersAgree, NEW c \in billed
                PROVE  /\ \A d \in billed : KeyOf[d] = KeyOf[c] => d = c
                       /\ \A d \in Calls : KeyOf[d] = KeyOf[c] /\ Accepted(d) =>
                                             answer[d].id = c
    BY DEF BilledOnce
  <2>1. \A d \in billed : d \in Calls /\ table[KeyOf[d]] = d
    BY DEF SystemOK, RelayOK, StoreOK, RowIffEvent
  <2>2. \A d \in billed : KeyOf[d] = KeyOf[c] => d = c
    BY <2>1
  <2>3. \A d \in Calls : KeyOf[d] = KeyOf[c] /\ Accepted(d) => answer[d].id = c
    BY <2>1 DEF AnswersAgree
  <2>. QED
    BY <2>2, <2>3
<1>. QED
  BY <1>1, SystemCorrect, StoreRunsAsBefore, AnswersCarryOneId, PTL

\* To the producers the store is the atomic one of transaction.Store, whatever
\* the relay does to the same database.
THEOREM SystemImplementsStore == SystemSpec => ImplementsContract
BY StoreRunsAsBefore, StoreImplementsContract, PTL

\* Every step of store and relay is a step of the outbox, or none.
LEMMA OutboxStep ==
  ASSUME SystemOK, [SystemNext]_systemVars
  PROVE  [Outbox!Next]_(Outbox!vars)
<1>. USE DEF Outbox!Next, Outbox!vars
<1>1. CASE StoreStep
  <2>1. UNCHANGED <<settled, billed>>
    BY <1>1 DEF StoreStep, relayVars
  <2>2. ASSUME NEW c \in Calls, ServerCommit(c) PROVE [Outbox!Next]_(Outbox!vars)
    <3>1. CASE events' = events
      BY <2>1, <3>1
    <3>2. CASE events' # events
      <4>1. Outbox!Queue(c)
        BY <2>1, <2>2, <3>2 DEF ServerCommit, Outbox!Queue
      <4>. QED
        BY <4>1
    <3>. QED
      BY <3>1, <3>2
  <2>3. CASE events' = events
    BY <2>1, <2>3
  <2>. QED
    BY <1>1, <2>2, <2>3
       DEF StoreStep, Next, Push, Handler, Server, Failure, Begin, InsertNew, InsertConflict,
           WriteOutboxEvent, ReadBack, SendCommit, CommitReturns, StatementFails, IngestFails,
           ServerRollback, LoseSession, Abandon, Done, vars
<1>2. CASE StartRelay \/ CountPending \/ ReadOldest \/ BacklogQueryFails \/ Claim
  BY <1>2 DEF StartRelay, CountPending, ReadOldest, BacklogQueryFails, Claim, vars
<1>3. ASSUME NEW c \in Calls, Publish(c) \/ PublishUnacknowledged(c)
      PROVE  [Outbox!Next]_(Outbox!vars)
  <2>1. Outbox!Deliver(c)
    BY <1>3 DEF Publish, PublishUnacknowledged, Outbox!Deliver, SystemOK, RelayOK, vars
  <2>. QED
    BY <2>1
<1>4. ASSUME NEW c \in Calls, PublishFails(c) PROVE [Outbox!Next]_(Outbox!vars)
  BY <1>4 DEF PublishFails, vars
<1>5. CASE CommitPass
  <2>1. marked \in SUBSET Calls
    BY DEF SystemOK, RelayOK, StoreOK, TypeOK
  <2>2. Outbox!Settle(marked)
    BY <1>5 DEF CommitPass, Outbox!Settle, SystemOK, RelayOK, vars
  <2>. QED
    BY <2>1, <2>2
<1>6. CASE PassFails \/ RelayStops \/ UNCHANGED systemVars
  BY <1>6 DEF PassFails, RelayStops, systemVars, relayVars, vars
<1>. QED
  BY <1>1, <1>2, <1>3, <1>4, <1>5, <1>6 DEF SystemNext, RelayStep, RelayWorks

\* From the commit of a push to the bill, nothing is lost and nothing is made
\* up: store and relay together implement the transactional outbox.
THEOREM SystemImplementsOutbox == SystemSpec => ImplementsOutbox
<1>1. SystemInit => Outbox!Init
  BY DEF SystemInit, Init, Outbox!Init
<1>2. SystemOK /\ [SystemNext]_systemVars => [Outbox!Next]_(Outbox!vars)
  BY OutboxStep
<1>. QED
  BY <1>1, <1>2, SystemCorrect, PTL DEF SystemSpec, ImplementsOutbox, Outbox!Spec
=============================================================================
