------------------------- MODULE OutboxRelayProofs -------------------------
(***************************************************************************)
(* Proofs about OutboxRelay for every set of events and relays and every   *)
(* value of the options.                                                   *)
(***************************************************************************)
EXTENDS OutboxRelay, TLAPS

-----------------------------------------------------------------------------
(* Type correctness                                                        *)

LEMMA NestedUpdate ==
  ASSUME NEW A, NEW B, NEW V, NEW f \in [A -> [B -> V]], NEW a \in A, NEW b \in B, NEW v \in V
  PROVE  [f EXCEPT ![a][b] = v] \in [A -> [B -> V]]
OBVIOUS

LEMMA BackoffType ==
  ASSUME NEW attempts \in Nat
  PROVE  RetryDelay(attempts) \in Nat \ {0}
<1>1. 2 ^ (attempts - 1) \in Int
  OBVIOUS
<1> QED
  BY <1>1, OptionsAssumption DEF RetryDelay, BackoffFor

LEMMA UpdatedType ==
  ASSUME TypeOK, NEW r \in Relays, NEW e \in Events
  PROVE  Updated(r, e) \in Rows
<1>1. Saturate(row[e].attempts + 1) \in 0..MaxAttempts
  BY OptionsAssumption DEF TypeOK, Rows, Saturate
<1>2. /\ draft[r][e].kind \in {"none", "published", "failed"}
      /\ draft[r][e].backoff \in Nat
      /\ clock[r] \in Nat
      /\ row[e] \in Rows
  BY DEF TypeOK, Updates
<1> QED
  BY <1>1, <1>2 DEF Updated, Rows

LEMMA EndPassType ==
  ASSUME TypeOK, NEW r \in Relays, NEW next \in Phases, EndPass(r, next)
  PROVE  /\ pc' \in [Relays -> Phases]
         /\ clock' \in [Relays -> Nat]
         /\ snapshot' \in [Relays -> SUBSET Events]
         /\ held' \in [Relays -> SUBSET Events]
         /\ todo' \in [Relays -> SUBSET Events]
         /\ seen' \in [Relays -> [Events -> 0..MaxAttempts]]
         /\ draft' \in [Relays -> [Events -> Updates]]
         /\ sent' \in [Relays -> BOOLEAN]
         /\ lost' \in [Relays -> BOOLEAN]
         /\ cancelled' \in [Relays -> BOOLEAN]
<1>1. NoDraft \in [Events -> Updates]
  BY DEF NoDraft, NoUpdate, Updates
<1>2. [e \in Events |-> 0] \in [Events -> 0..MaxAttempts]
  BY OptionsAssumption
<1> QED
  BY <1>1, <1>2 DEF TypeOK, EndPass

LEMMA TypeInit == Init => TypeOK
BY OptionsAssumption, BoundsAssumption
   DEF Init, TypeOK, Rows, Phases, InPass, NoDraft, NoUpdate, Updates

LEMMA TypeStep ==
  ASSUME TypeOK, NEW r \in Relays, Step(r)
  PROVE  TypeOK'
<1>1. CASE Start(r)
  BY <1>1 DEF TypeOK, Start, Phases
<1>2. CASE Begin(r)
  BY <1>2 DEF TypeOK, Begin, Phases, InPass
<1>3. CASE StopIdle(r)
  <2>1. "stopped" \in Phases
    BY DEF Phases
  <2> QED
    BY <1>3, <2>1, EndPassType DEF TypeOK, StopIdle
<1>4. CASE Wake(r)
  BY <1>4 DEF TypeOK, Wake, Phases
<1>5. CASE TakeSnapshot(r)
  BY <1>5 DEF TypeOK, TakeSnapshot, Phases, InPass
<1>6. CASE ClaimReturns(r)
  BY <1>6 DEF TypeOK, ClaimReturns, Phases, InPass
<1>7. CASE ClaimReturnsNothing(r)
  <2>1. "sleep" \in Phases
    BY DEF Phases
  <2> QED
    BY <1>7, <2>1, EndPassType DEF TypeOK, ClaimReturnsNothing
<1>8. CASE PassFails(r)
  <2>1. AfterError(r) \in Phases
    BY DEF AfterError, Phases
  <2> QED
    BY <1>8, <2>1, EndPassType DEF TypeOK, PassFails
<1>9. ASSUME NEW e \in Events, PublishOk(r, e)
      PROVE  TypeOK'
  BY <1>9 DEF TypeOK, PublishOk, Phases, InPass
<1>10. ASSUME NEW e \in Events, PublishFails(r, e)
       PROVE  TypeOK'
  BY <1>10 DEF TypeOK, PublishFails, Phases, InPass
<1>11. CASE Commit(r)
  <2>1. row' \in [Events -> Rows]
    BY <1>11, UpdatedType DEF Commit
  <2>2. (IF sent[r] THEN "begin" ELSE "sleep") \in Phases
    BY DEF Phases
  <2> QED
    BY <1>11, <2>1, <2>2, EndPassType DEF TypeOK, Commit
<1>12. ASSUME NEW e \in Events, LockRow(r, e)
       PROVE  TypeOK'
  <2>1. row[e].attempts \in 0..MaxAttempts
    BY DEF TypeOK, Rows
  <2>2. snapshot' \in [Relays -> SUBSET Events]
    BY <1>12 DEF TypeOK, LockRow
  <2>3. CASE Claimable(r, e)
    <3>1. /\ held' = [held EXCEPT ![r] = held[r] \cup {e}]
          /\ todo' = [todo EXCEPT ![r] = todo[r] \cup {e}]
          /\ seen' = [seen EXCEPT ![r][e] = row[e].attempts]
      BY <1>12, <2>3 DEF LockRow
    <3>2. held' \in [Relays -> SUBSET Events] /\ todo' \in [Relays -> SUBSET Events]
      BY <3>1 DEF TypeOK
    <3>3. seen' \in [Relays -> [Events -> 0..MaxAttempts]]
      BY <2>1, <3>1, NestedUpdate DEF TypeOK
    <3> QED
      BY <1>12, <2>2, <3>2, <3>3 DEF TypeOK, LockRow
  <2>4. CASE ~Claimable(r, e)
    BY <1>12, <2>2, <2>4 DEF TypeOK, LockRow
  <2> QED
    BY <2>3, <2>4
<1>13. ASSUME NEW e \in Events, MarkPublished(r, e)
       PROVE  TypeOK'
  <2>1. Published \in Updates
    BY DEF Published, Updates
  <2>2. draft' \in [Relays -> [Events -> Updates]] /\ sent' \in [Relays -> BOOLEAN]
    <3>1. CASE Usable(r)
      <4>1. /\ draft' = [draft EXCEPT ![r][e] = Published]
            /\ sent' = [sent EXCEPT ![r] = TRUE]
        BY <1>13, <3>1 DEF MarkPublished
      <4> QED
        BY <2>1, <4>1, NestedUpdate DEF TypeOK
    <3>2. CASE ~Usable(r)
      BY <1>13, <3>2 DEF TypeOK, MarkPublished
    <3> QED
      BY <3>1, <3>2
  <2>3. todo' \in [Relays -> SUBSET Events] /\ pc' \in [Relays -> Phases]
    BY <1>13 DEF TypeOK, MarkPublished, NextEvent, Phases, InPass
  <2> QED
    BY <1>13, <2>2, <2>3 DEF TypeOK, MarkPublished
<1>14. ASSUME NEW e \in Events, RecordFailure(r, e)
       PROVE  TypeOK'
  <2>1. seen[r][e] + 1 \in Nat
    BY OptionsAssumption DEF TypeOK
  <2>2. Failed(RetryDelay(seen[r][e] + 1)) \in Updates
    BY <2>1, BackoffType DEF Failed, Updates
  <2>3. draft' \in [Relays -> [Events -> Updates]]
    <3>1. CASE Usable(r)
      <4>1. draft' = [draft EXCEPT ![r][e] = Failed(RetryDelay(seen[r][e] + 1))]
        BY <1>14, <3>1 DEF RecordFailure
      <4> QED
        BY <2>2, <4>1, NestedUpdate DEF TypeOK
    <3>2. CASE ~Usable(r)
      BY <1>14, <3>2 DEF TypeOK, RecordFailure
    <3> QED
      BY <3>1, <3>2
  <2>4. todo' \in [Relays -> SUBSET Events] /\ pc' \in [Relays -> Phases]
    BY <1>14 DEF TypeOK, RecordFailure, NextEvent, Phases, InPass
  <2> QED
    BY <1>14, <2>3, <2>4 DEF TypeOK, RecordFailure
<1> QED
  BY <1>1, <1>2, <1>3, <1>4, <1>5, <1>6, <1>7, <1>8, <1>9, <1>10, <1>11, <1>12,
     <1>13, <1>14 DEF Step, Publish

LEMMA DisruptType ==
  ASSUME TypeOK, Disrupt
  PROVE  disruptions' \in 0..MaxDisruptions
BY BoundsAssumption DEF TypeOK, Disrupt

LEMMA TypeDisruption ==
  ASSUME TypeOK, NEW r \in Relays, Disruption(r)
  PROVE  TypeOK'
<1>1. "sleep" \in Phases /\ "stopped" \in Phases
  BY DEF Phases
<1>2. CASE BeginFails(r)
  BY <1>1, <1>2, DisruptType, EndPassType DEF TypeOK, BeginFails
<1>3. CASE Crash(r)
  BY <1>1, <1>3, DisruptType, EndPassType DEF TypeOK, Crash
<1>4. CASE LoseConnection(r)
  <2>1. NoDraft \in [Events -> Updates]
    BY DEF NoDraft, NoUpdate, Updates
  <2> QED
    BY <1>4, <2>1, DisruptType DEF TypeOK, LoseConnection
<1>5. CASE Cancel(r)
  BY <1>5, DisruptType DEF TypeOK, Cancel
<1>6. CASE CommitUnacknowledged(r)
  <2>1. row' \in [Events -> Rows]
    BY <1>6, UpdatedType DEF CommitUnacknowledged
  <2> QED
    BY <1>1, <1>6, <2>1, DisruptType, EndPassType DEF TypeOK, CommitUnacknowledged
<1>7. ASSUME NEW e \in Events, PublishUnacknowledged(r, e)
      PROVE  TypeOK'
  BY <1>7, DisruptType DEF TypeOK, PublishUnacknowledged, Phases, InPass
<1> QED
  BY <1>2, <1>3, <1>4, <1>5, <1>6, <1>7 DEF Disruption

LEMMA RequeuedRow ==
  ASSUME TypeOK, NEW e \in Events
  PROVE  [state |-> row[e].state, attempts |-> 0, wait |-> 0] \in Rows
<1>1. row[e] \in Rows
  BY DEF TypeOK
<1>2. 0 \in 0..MaxAttempts
  BY OptionsAssumption
<1> QED
  BY <1>1, <1>2 DEF Rows

LEMMA EnqueuedRow ==
  ASSUME NEW age \in 0..MaxPass
  PROVE  [state |-> "pending", attempts |-> 0, wait |-> -age] \in Rows
<1>1. -age \in Int
  BY BoundsAssumption
<1> QED
  BY <1>1, OptionsAssumption DEF Rows

LEMMA TickRow ==
  ASSUME Tick, NEW e \in Events
  PROVE  row'[e] = IF row[e].state = "pending" /\ row[e].wait > -MaxPass
                     THEN [row[e] EXCEPT !.wait = @ - 1]
                     ELSE row[e]
BY DEF Tick

LEMMA TickRowType ==
  ASSUME TypeOK, Tick, NEW e \in Events
  PROVE  row'[e] \in Rows
<1>1. row[e] \in Rows
  BY DEF TypeOK
<1>2. [row[e] EXCEPT !.wait = @ - 1] \in Rows
  BY <1>1 DEF Rows
<1> QED
  BY <1>1, <1>2, TickRow

LEMMA TypeNext == TypeOK /\ [Next]_vars => TypeOK'
<1> SUFFICES ASSUME TypeOK, [Next]_vars
             PROVE  TypeOK'
  OBVIOUS
<1>1. ASSUME NEW r \in Relays, Step(r)
      PROVE  TypeOK'
  BY <1>1, TypeStep
<1>2. ASSUME NEW r \in Relays, Disruption(r)
      PROVE  TypeOK'
  BY <1>2, TypeDisruption
<1>3. ASSUME NEW e \in Events, Requeue(e)
      PROVE  TypeOK'
  <2> DEFINE requeued == [state |-> row[e].state, attempts |-> 0, wait |-> 0]
  <2>1. requeued \in Rows
    BY RequeuedRow
  <2>2. row' = [row EXCEPT ![e] = requeued]
    BY <1>3 DEF Requeue
  <2> HIDE DEF requeued
  <2>3. row' \in [Events -> Rows]
    BY <2>1, <2>2 DEF TypeOK
  <2> QED
    BY <1>3, <2>3, DisruptType DEF TypeOK, Requeue, relayVars
<1>4. ASSUME NEW e \in Events, NEW age \in 0..MaxPass, Enqueue(e, age)
      PROVE  TypeOK'
  <2> DEFINE queued == [state |-> "pending", attempts |-> 0, wait |-> -age]
  <2>1. queued \in Rows
    BY EnqueuedRow
  <2>2. row' = [row EXCEPT ![e] = queued]
    BY <1>4 DEF Enqueue
  <2> HIDE DEF queued
  <2>3. row' \in [Events -> Rows]
    BY <2>1, <2>2 DEF TypeOK
  <2> QED
    BY <1>4, <2>3 DEF TypeOK, Enqueue, relayVars
<1>5. CASE Tick
  <2>1. row' \in [Events -> Rows]
    BY <1>5, TickRowType DEF Tick
  <2>2. clock' \in [Relays -> Nat]
    BY <1>5 DEF TypeOK, Tick
  <2> QED
    BY <1>5, <2>1, <2>2 DEF TypeOK, Tick
<1>6. CASE UNCHANGED vars
  BY <1>6 DEF TypeOK, vars, relayVars
<1> QED
  BY <1>1, <1>2, <1>3, <1>4, <1>5, <1>6 DEF Next

\* Every variable keeps its type, for every set of events and relays.
THEOREM TypeCorrect == Spec => []TypeOK
<1> QED
  BY TypeInit, TypeNext, PTL DEF Spec

-----------------------------------------------------------------------------
(* Claims                                                                  *)

\* A relay that is not touched keeps its claim as long as its rows are not.
LEMMA PassFrame ==
  ASSUME NEW r \in Relays, PassOK(r),
         pc'[r] = pc[r], clock'[r] = clock[r], held'[r] = held[r],
         todo'[r] = todo[r], seen'[r] = seen[r], draft'[r] = draft[r],
         lost'[r] = lost[r],
         \A e \in held[r] : row'[e] = row[e]
  PROVE  PassOK(r)'
BY DEF PassOK

LEMMA EndPassOK ==
  ASSUME TypeOK, LockInv, NEW r \in Relays, NEW next \in Phases \ InPass, EndPass(r, next),
         \A s \in Relays \ {r} : \A e \in held[s] : row'[e] = row[e]
  PROVE  LockInv'
<1>1. /\ pc'[r] = next /\ held'[r] = {} /\ todo'[r] = {}
      /\ draft'[r] = NoDraft /\ lost'[r] = FALSE
  BY DEF EndPass, TypeOK
<1>2. PassOK(r)'
  BY <1>1 DEF PassOK, NoDraft, NoUpdate
<1>3. ASSUME NEW s \in Relays \ {r}
      PROVE  /\ held'[s] = held[s]
             /\ PassOK(s)'
  <2>1. /\ pc'[s] = pc[s] /\ clock'[s] = clock[s] /\ held'[s] = held[s]
        /\ todo'[s] = todo[s] /\ seen'[s] = seen[s] /\ draft'[s] = draft[s]
        /\ lost'[s] = lost[s]
    BY DEF EndPass, TypeOK
  <2>2. PassOK(s)
    BY DEF LockInv
  <2> QED
    BY <2>1, <2>2, PassFrame
<1> QED
  BY <1>1, <1>2, <1>3 DEF LockInv

\* A commit changes no row that another relay holds.
LEMMA CommitTouchesOwnRows ==
  ASSUME TypeOK, LockInv, NEW r \in Relays, ~lost[r],
         row' = [e \in Events |-> Updated(r, e)],
         NEW s \in Relays \ {r}, NEW e \in held[s]
  PROVE  row'[e] = row[e]
<1>1. e \in Events /\ e \notin held[r]
  BY DEF TypeOK, LockInv
<1>2. draft[r][e].kind = "none"
  BY <1>1 DEF LockInv, PassOK
<1> QED
  BY <1>1, <1>2 DEF Updated

LEMMA LockInit == Init => LockInv
BY DEF Init, LockInv, PassOK, InPass, NoDraft, NoUpdate

\* The common shape of a step of relay r that leaves the table alone.
LEMMA LocalStep ==
  ASSUME TypeOK, LockInv, NEW r \in Relays, PassOK(r)', row' = row,
         \A s \in Relays \ {r} :
           /\ pc'[s] = pc[s] /\ clock'[s] = clock[s] /\ held'[s] = held[s]
           /\ todo'[s] = todo[s] /\ seen'[s] = seen[s] /\ draft'[s] = draft[s]
           /\ lost'[s] = lost[s],
         \A e \in held'[r] \ held[r] : ~Locked(e)
  PROVE  LockInv'
<1>1. ASSUME NEW s \in Relays \ {r}
      PROVE  PassOK(s)'
  <2>1. PassOK(s)
    BY DEF LockInv
  <2> QED
    BY <2>1, PassFrame
<1>2. ASSUME NEW s \in Relays, NEW t \in Relays, s # t
      PROVE  held'[s] \cap held'[t] = {}
  BY <1>2 DEF LockInv, Locked
<1> QED
  BY <1>1, <1>2 DEF LockInv

LEMMA LockStep ==
  ASSUME TypeOK, LockInv, NEW r \in Relays, Step(r)
  PROVE  LockInv'
<1>0. PassOK(r)
  BY DEF LockInv
<1>1. CASE Start(r)
  <2>1. PassOK(r)'
    BY <1>0, <1>1 DEF TypeOK, Start, PassOK, InPass
  <2> QED
    BY <1>1, <2>1, LocalStep DEF TypeOK, Start
<1>2. CASE Begin(r)
  <2>1. PassOK(r)'
    BY <1>0, <1>2 DEF TypeOK, Begin, PassOK, InPass, NoDraft, NoUpdate
  <2> QED
    BY <1>2, <2>1, LocalStep DEF TypeOK, Begin
<1>3. CASE StopIdle(r)
  BY <1>3, EndPassOK DEF StopIdle, TypeOK, Phases, InPass
<1>4. CASE Wake(r)
  <2>1. PassOK(r)'
    BY <1>0, <1>4 DEF TypeOK, Wake, PassOK, InPass
  <2> QED
    BY <1>4, <2>1, LocalStep DEF TypeOK, Wake
<1>5. CASE TakeSnapshot(r)
  <2>1. PassOK(r)'
    BY <1>0, <1>5 DEF TypeOK, TakeSnapshot, PassOK, InPass
  <2> QED
    BY <1>5, <2>1, LocalStep DEF TypeOK, TakeSnapshot
<1>6. CASE ClaimReturns(r)
  <2>1. PassOK(r)'
    BY <1>0, <1>6 DEF TypeOK, ClaimReturns, PassOK, InPass
  <2> QED
    BY <1>6, <2>1, LocalStep DEF TypeOK, ClaimReturns
<1>7. CASE ClaimReturnsNothing(r)
  BY <1>7, EndPassOK DEF ClaimReturnsNothing, TypeOK, Phases, InPass
<1>8. CASE PassFails(r)
  BY <1>8, EndPassOK DEF PassFails, AfterError, TypeOK, Phases, InPass
<1>9. ASSUME NEW e \in Events, PublishOk(r, e)
      PROVE  LockInv'
  <2>1. PassOK(r)'
    BY <1>0, <1>9 DEF TypeOK, PublishOk, PassOK, InPass
  <2> QED
    BY <1>9, <2>1, LocalStep DEF TypeOK, PublishOk
<1>10. ASSUME NEW e \in Events, PublishFails(r, e)
       PROVE  LockInv'
  <2>1. PassOK(r)'
    BY <1>0, <1>10 DEF TypeOK, PublishFails, PassOK, InPass
  <2> QED
    BY <1>10, <2>1, LocalStep DEF TypeOK, PublishFails
<1>11. CASE Commit(r)
  <2>1. \A s \in Relays \ {r} : \A e \in held[s] : row'[e] = row[e]
    BY <1>11, CommitTouchesOwnRows DEF Commit, Usable
  <2>2. (IF sent[r] THEN "begin" ELSE "sleep") \in Phases \ InPass
    BY DEF Phases, InPass
  <2> QED
    BY <1>11, <2>1, <2>2, EndPassOK DEF Commit
<1>12. ASSUME NEW e \in Events, LockRow(r, e)
       PROVE  LockInv'
  <2>1. CASE Claimable(r, e)
    <3>1. /\ held' = [held EXCEPT ![r] = held[r] \cup {e}]
          /\ todo' = [todo EXCEPT ![r] = todo[r] \cup {e}]
          /\ seen' = [seen EXCEPT ![r][e] = row[e].attempts]
          /\ UNCHANGED <<row, pc, clock, draft, lost>>
      BY <1>12, <2>1 DEF LockRow
    <3>2. /\ held'[r] = held[r] \cup {e}
          /\ todo'[r] = todo[r] \cup {e}
          /\ seen'[r][e] = row[e].attempts
          /\ \A f \in Events \ {e} : seen'[r][f] = seen[r][f]
      BY <3>1 DEF TypeOK
    <3>3. row[e].state = "pending" /\ row[e].wait <= -clock[r] /\ ~Locked(e)
      BY <2>1 DEF Claimable, Due
    <3>4. pc[r] = "lock" /\ ~lost[r]
      BY <1>12 DEF LockRow, Usable
    <3>5. PassOK(r)'
      BY <1>0, <3>1, <3>2, <3>3, <3>4 DEF PassOK, InPass
    <3>6. \A s \in Relays \ {r} : held'[s] = held[s] /\ todo'[s] = todo[s] /\ seen'[s] = seen[s]
      BY <3>1 DEF TypeOK
    <3> QED
      BY <3>1, <3>2, <3>3, <3>5, <3>6, LocalStep
  <2>2. CASE ~Claimable(r, e)
    <3>1. UNCHANGED <<row, pc, clock, held, todo, seen, draft, lost>>
      BY <1>12, <2>2 DEF LockRow
    <3>2. PassOK(r)'
      BY <1>0, <3>1, PassFrame
    <3> QED
      BY <3>1, <3>2, LocalStep
  <2> QED
    BY <2>1, <2>2
<1>13. ASSUME NEW e \in Events, MarkPublished(r, e)
       PROVE  LockInv'
  <2>1. PassOK(r)'
    BY <1>0, <1>13
       DEF TypeOK, MarkPublished, NextEvent, PassOK, InPass, Usable, First, Published
  <2> QED
    BY <1>13, <2>1, LocalStep DEF TypeOK, MarkPublished, NextEvent
<1>14. ASSUME NEW e \in Events, RecordFailure(r, e)
       PROVE  LockInv'
  <2>1. PassOK(r)'
    BY <1>0, <1>14
       DEF TypeOK, RecordFailure, NextEvent, PassOK, InPass, Usable, First, Failed
  <2> QED
    BY <1>14, <2>1, LocalStep DEF TypeOK, RecordFailure, NextEvent
<1> QED
  BY <1>1, <1>2, <1>3, <1>4, <1>5, <1>6, <1>7, <1>8, <1>9, <1>10, <1>11, <1>12,
     <1>13, <1>14 DEF Step, Publish

LEMMA LockDisruption ==
  ASSUME TypeOK, LockInv, NEW r \in Relays, Disruption(r)
  PROVE  LockInv'
<1>0. PassOK(r)
  BY DEF LockInv
<1>1. "sleep" \in Phases \ InPass /\ "stopped" \in Phases \ InPass
  BY DEF Phases, InPass
<1>2. CASE BeginFails(r)
  BY <1>1, <1>2, EndPassOK DEF BeginFails, TypeOK
<1>3. CASE Crash(r)
  BY <1>1, <1>3, EndPassOK DEF Crash, TypeOK
<1>4. CASE LoseConnection(r)
  <2>1. PassOK(r)'
    BY <1>0, <1>4 DEF TypeOK, LoseConnection, PassOK
  <2> QED
    BY <1>4, <2>1, LocalStep DEF TypeOK, LoseConnection
<1>5. CASE Cancel(r)
  <2>1. PassOK(r)'
    BY <1>0, <1>5, PassFrame DEF Cancel
  <2> QED
    BY <1>5, <2>1, LocalStep DEF TypeOK, Cancel
<1>6. CASE CommitUnacknowledged(r)
  <2>1. \A s \in Relays \ {r} : \A e \in held[s] : row'[e] = row[e]
    BY <1>6, CommitTouchesOwnRows DEF CommitUnacknowledged, Usable
  <2> QED
    BY <1>1, <1>6, <2>1, EndPassOK DEF CommitUnacknowledged
<1>7. ASSUME NEW e \in Events, PublishUnacknowledged(r, e)
      PROVE  LockInv'
  <2>1. PassOK(r)'
    BY <1>0, <1>7 DEF TypeOK, PublishUnacknowledged, PassOK, InPass
  <2> QED
    BY <1>7, <2>1, LocalStep DEF TypeOK, PublishUnacknowledged
<1> QED
  BY <1>2, <1>3, <1>4, <1>5, <1>6, <1>7 DEF Disruption

\* Only rows nobody holds are written by an ingest or by the operator.
LEMMA ForeignWrite ==
  ASSUME TypeOK, LockInv, NEW e \in Events, UNCHANGED relayVars, ~Locked(e),
         \A f \in Events \ {e} : row'[f] = row[f]
  PROVE  LockInv'
<1>1. ASSUME NEW r \in Relays
      PROVE  PassOK(r)'
  <2>1. \A f \in held[r] : row'[f] = row[f]
    BY DEF Locked, TypeOK
  <2>2. PassOK(r)
    BY DEF LockInv
  <2> QED
    BY <2>1, <2>2, PassFrame DEF relayVars
<1> QED
  BY <1>1 DEF LockInv, relayVars

\* What Tick leaves alone, and that it makes every due row as much older as it
\* makes the clocks.
LEMMA TickKeeps ==
  ASSUME TypeOK, Tick, NEW e \in Events
  PROVE  /\ row'[e].state = row[e].state
         /\ row'[e].attempts = row[e].attempts
         /\ row[e].state = "pending" =>
              row'[e].wait = IF row[e].wait > -MaxPass THEN row[e].wait - 1 ELSE row[e].wait
<1>1. row[e] \in [state : {"absent", "pending", "published"}, attempts : 0..MaxAttempts, wait : Int]
  BY DEF TypeOK, Rows
<1> QED
  BY <1>1, TickRow

LEMMA LockTick ==
  ASSUME TypeOK, LockInv, Tick
  PROVE  LockInv'
<1>1. ASSUME NEW r \in Relays
      PROVE  PassOK(r)'
  <2>1. PassOK(r)
    BY DEF LockInv
  <2>2. ASSUME NEW e \in held[r]
        PROVE  row'[e].wait <= -clock'[r]
    <3>1. e \in Events /\ row[e].state = "pending" /\ row[e].wait <= -clock[r]
      BY <2>1 DEF TypeOK, PassOK
    <3>2. pc[r] \in InPass
      BY <2>1 DEF PassOK
    <3>3. clock[r] < MaxPass /\ clock'[r] = clock[r] + 1
      BY <3>2 DEF Tick, InPass
    <3>4. row[e].wait \in Int /\ clock[r] \in Nat
      BY <3>1 DEF TypeOK, Rows
    <3> QED
      BY <3>1, <3>3, <3>4, TickKeeps, BoundsAssumption
  <2> QED
    BY <2>1, <2>2, TickKeeps DEF TypeOK, PassOK, Tick
<1> QED
  BY <1>1 DEF LockInv, Tick

LEMMA LockNext == TypeOK /\ LockInv /\ [Next]_vars => LockInv'
<1> SUFFICES ASSUME TypeOK, LockInv, [Next]_vars
             PROVE  LockInv'
  OBVIOUS
<1>1. ASSUME NEW r \in Relays, Step(r)
      PROVE  LockInv'
  BY <1>1, LockStep
<1>2. ASSUME NEW r \in Relays, Disruption(r)
      PROVE  LockInv'
  BY <1>2, LockDisruption
<1>3. ASSUME NEW e \in Events, Requeue(e)
      PROVE  LockInv'
  BY <1>3, ForeignWrite DEF Requeue, TypeOK
<1>4. ASSUME NEW e \in Events, NEW age \in 0..MaxPass, Enqueue(e, age)
      PROVE  LockInv'
  <2>1. ~Locked(e)
    BY <1>4 DEF Enqueue, Locked, LockInv, PassOK
  <2> QED
    BY <1>4, <2>1, ForeignWrite DEF Enqueue, TypeOK
<1>5. CASE Tick
  BY <1>5, LockTick
<1>6. CASE UNCHANGED vars
  BY <1>6, PassFrame DEF LockInv, vars, relayVars
<1> QED
  BY <1>1, <1>2, <1>3, <1>4, <1>5, <1>6 DEF Next

\* What a relay in a pass has locked, claimed and drafted fits the table.
THEOREM LocksCorrect == Spec => []LockInv
<1> QED
  BY LockInit, LockNext, TypeCorrect, PTL DEF Spec

LEMMA LockInvImplies == TypeOK /\ LockInv => ClaimsAreExclusive /\ ClaimsAreDue
BY DEF TypeOK, LockInv, PassOK, ClaimsAreExclusive, ClaimsAreDue

\* Replicas never work on the same event through live transactions, and their
\* view of its attempts is current: SKIP LOCKED and the row locks suffice.
THEOREM ExclusiveClaims == Spec => []ClaimsAreExclusive
<1> QED
  BY TypeCorrect, LocksCorrect, LockInvImplies, PTL

\* No relay publishes an event before its backoff has elapsed, although other
\* relays back events off between a claim's snapshot and its row locks.
THEOREM DueClaims == Spec => []ClaimsAreDue
<1> QED
  BY TypeCorrect, LocksCorrect, LockInvImplies, PTL

-----------------------------------------------------------------------------
(* Delivery                                                                *)

LEMMA DeliveryInit == Init => DeliveryInv
BY DEF Init, DeliveryInv, SettledWasDelivered, NoDraft, NoUpdate

\* The event a relay is at is unique.
LEMMA FirstUnique ==
  ASSUME NEW S \in SUBSET Events, NEW e \in Events, NEW f \in Events, First(e, S), First(f, S)
  PROVE  e = f
BY EventsAssumption DEF First

\* Rows that are pending or absent and drafts may change as long as nothing is
\* settled or drafted as published without a delivery.
LEMMA DeliveryFrame ==
  ASSUME TypeOK, DeliveryInv,
         \A e \in Events : delivered[e] > 0 => delivered'[e] > 0,
         \A e \in Events : row'[e].state = "published" => row[e].state = "published" \/ delivered'[e] > 0,
         \A e \in Events : row[e].state # "absent" => row'[e].state # "absent",
         \A r \in Relays : \A e \in todo'[r] : e \in todo[r] \/ row'[e].state # "absent",
         \A r \in Relays, e \in Events :
           draft'[r][e].kind = "published" => draft[r][e].kind = "published" \/ delivered'[e] > 0,
         \A r \in Relays, e \in Events :
           pc'[r] = "mark" /\ First(e, todo'[r]) =>
             delivered'[e] > 0 \/ (pc[r] = "mark" /\ todo'[r] = todo[r])
  PROVE  DeliveryInv'
BY DEF TypeOK, DeliveryInv, SettledWasDelivered, First

LEMMA EndPassDelivery ==
  ASSUME TypeOK, DeliveryInv, NEW r \in Relays, NEW next \in Phases \ InPass, EndPass(r, next),
         delivered' = delivered,
         \A e \in Events : row'[e].state = "published" => row[e].state = "published" \/ delivered[e] > 0,
         \A e \in Events : row[e].state # "absent" => row'[e].state # "absent"
  PROVE  DeliveryInv'
<1>1. \A s \in Relays : \A e \in todo'[s] : e \in todo[s]
  BY DEF EndPass, TypeOK
<1>2. \A s \in Relays, e \in Events :
        draft'[s][e].kind = "published" => draft[s][e].kind = "published"
  BY DEF EndPass, TypeOK, NoDraft, NoUpdate
<1>3. \A s \in Relays : pc'[s] = "mark" => pc[s] = "mark" /\ todo'[s] = todo[s]
  BY DEF EndPass, TypeOK, InPass
<1> QED
  BY <1>1, <1>2, <1>3, DeliveryFrame

\* What a commit does to the state column.
LEMMA CommitStates ==
  ASSUME TypeOK, NEW r \in Relays, row' = [e \in Events |-> Updated(r, e)], NEW e \in Events
  PROVE  row'[e].state = IF draft[r][e].kind = "published" THEN "published" ELSE row[e].state
<1>1. draft[r][e].kind \in {"none", "published", "failed"}
  BY DEF TypeOK, Updates
<1> QED
  BY <1>1 DEF Updated

LEMMA DraftUpdate ==
  ASSUME TypeOK, NEW r \in Relays, NEW e \in Events, NEW u,
         draft' = [draft EXCEPT ![r][e] = u],
         NEW s \in Relays, NEW f \in Events
  PROVE  draft'[s][f] = u \/ draft'[s][f] = draft[s][f]
BY DEF TypeOK

LEMMA DeliveryStep ==
  ASSUME TypeOK, LockInv, DeliveryInv, NEW r \in Relays, Step(r)
  PROVE  DeliveryInv'
<1>1. CASE Start(r)
  BY <1>1, DeliveryFrame DEF TypeOK, Start
<1>2. CASE Begin(r)
  BY <1>2, DeliveryFrame DEF TypeOK, Begin
<1>3. CASE StopIdle(r)
  BY <1>3, EndPassDelivery DEF StopIdle, Phases, InPass
<1>4. CASE Wake(r)
  BY <1>4, DeliveryFrame DEF TypeOK, Wake
<1>5. CASE TakeSnapshot(r)
  BY <1>5, DeliveryFrame DEF TypeOK, TakeSnapshot
<1>6. CASE ClaimReturns(r)
  BY <1>6, DeliveryFrame DEF TypeOK, ClaimReturns
<1>7. CASE ClaimReturnsNothing(r)
  BY <1>7, EndPassDelivery DEF ClaimReturnsNothing, Phases, InPass
<1>8. CASE PassFails(r)
  BY <1>8, EndPassDelivery DEF PassFails, AfterError, Phases, InPass
<1>9. ASSUME NEW e \in Events, PublishOk(r, e)
      PROVE  DeliveryInv'
  <2>1. \A f \in Events : delivered[f] > 0 \/ f = e => delivered'[f] > 0
    BY <1>9 DEF PublishOk, TypeOK
  <2>2. \A f \in Events : First(f, todo[r]) => f = e
    BY <1>9, FirstUnique DEF PublishOk, TypeOK
  <2> QED
    BY <1>9, <2>1, <2>2, DeliveryFrame DEF TypeOK, PublishOk
<1>10. ASSUME NEW e \in Events, PublishFails(r, e)
       PROVE  DeliveryInv'
  BY <1>10, DeliveryFrame DEF TypeOK, PublishFails
<1>11. CASE Commit(r)
  <2>1. \A e \in Events : draft[r][e].kind = "published" => delivered[e] > 0
    BY DEF DeliveryInv
  <2>2. (IF sent[r] THEN "begin" ELSE "sleep") \in Phases \ InPass
    BY DEF Phases, InPass
  <2> QED
    BY <1>11, <2>1, <2>2, CommitStates, EndPassDelivery DEF Commit
<1>12. ASSUME NEW e \in Events, LockRow(r, e)
       PROVE  DeliveryInv'
  <2>1. \A s \in Relays : \A f \in todo'[s] : f \in todo[s] \/ row[f].state # "absent"
    <3>1. CASE Claimable(r, e)
      <4>1. todo' = [todo EXCEPT ![r] = todo[r] \cup {e}]
        BY <1>12, <3>1 DEF LockRow
      <4>2. row[e].state # "absent"
        BY <3>1 DEF Claimable, Due
      <4> QED
        BY <4>1, <4>2 DEF TypeOK
    <3>2. CASE ~Claimable(r, e)
      BY <1>12, <3>2 DEF LockRow
    <3> QED
      BY <3>1, <3>2
  <2>2. UNCHANGED <<row, pc, draft, delivered>>
    BY <1>12 DEF LockRow
  <2>3. \A s \in Relays : pc[s] = "mark" => todo'[s] = todo[s]
    BY <1>12 DEF LockRow, TypeOK
  <2> QED
    BY <2>1, <2>2, <2>3, DeliveryFrame
<1>13. ASSUME NEW e \in Events, MarkPublished(r, e)
       PROVE  DeliveryInv'
  <2>1. delivered[e] > 0
    BY <1>13 DEF MarkPublished, DeliveryInv
  <2>2. \A s \in Relays, f \in Events :
          draft'[s][f].kind = "published" => draft[s][f].kind = "published" \/ delivered[f] > 0
    <3>1. CASE Usable(r)
      <4>1. draft' = [draft EXCEPT ![r][e] = Published]
        BY <1>13, <3>1 DEF MarkPublished
      <4> QED
        BY <2>1, <4>1 DEF TypeOK
    <3>2. CASE ~Usable(r)
      BY <1>13, <3>2 DEF MarkPublished
    <3> QED
      BY <3>1, <3>2
  <2>3. /\ \A s \in Relays : \A f \in todo'[s] : f \in todo[s]
        /\ \A s \in Relays : pc'[s] = "mark" => pc[s] = "mark" /\ todo'[s] = todo[s]
    BY <1>13 DEF MarkPublished, NextEvent, TypeOK
  <2> QED
    BY <1>13, <2>2, <2>3, DeliveryFrame DEF MarkPublished
<1>14. ASSUME NEW e \in Events, RecordFailure(r, e)
       PROVE  DeliveryInv'
  <2>1. \A s \in Relays, f \in Events :
          draft'[s][f].kind = "published" => draft[s][f].kind = "published"
    <3>1. CASE Usable(r)
      <4> DEFINE update == Failed(RetryDelay(seen[r][e] + 1))
      <4>1. update.kind = "failed"
        BY DEF Failed
      <4>2. draft' = [draft EXCEPT ![r][e] = update]
        BY <1>14, <3>1 DEF RecordFailure
      <4> HIDE DEF update
      <4> QED
        BY <4>1, <4>2, DraftUpdate
    <3>2. CASE ~Usable(r)
      BY <1>14, <3>2 DEF RecordFailure
    <3> QED
      BY <3>1, <3>2
  <2>2. /\ \A s \in Relays : \A f \in todo'[s] : f \in todo[s]
        /\ \A s \in Relays : pc'[s] = "mark" => pc[s] = "mark" /\ todo'[s] = todo[s]
    BY <1>14 DEF RecordFailure, NextEvent, TypeOK
  <2> QED
    BY <1>14, <2>1, <2>2, DeliveryFrame DEF RecordFailure
<1> QED
  BY <1>1, <1>2, <1>3, <1>4, <1>5, <1>6, <1>7, <1>8, <1>9, <1>10, <1>11, <1>12,
     <1>13, <1>14 DEF Step, Publish

LEMMA DeliveryDisruption ==
  ASSUME TypeOK, LockInv, DeliveryInv, NEW r \in Relays, Disruption(r)
  PROVE  DeliveryInv'
<1>1. "sleep" \in Phases \ InPass /\ "stopped" \in Phases \ InPass
  BY DEF Phases, InPass
<1>2. CASE BeginFails(r)
  BY <1>1, <1>2, EndPassDelivery DEF BeginFails
<1>3. CASE Crash(r)
  BY <1>1, <1>3, EndPassDelivery DEF Crash
<1>4. CASE LoseConnection(r)
  <2>1. \A s \in Relays, f \in Events :
          draft'[s][f].kind = "published" => draft[s][f].kind = "published"
    BY <1>4 DEF LoseConnection, NoDraft, NoUpdate, TypeOK
  <2> QED
    BY <1>4, <2>1, DeliveryFrame DEF LoseConnection
<1>5. CASE Cancel(r)
  BY <1>5, DeliveryFrame DEF Cancel
<1>6. CASE CommitUnacknowledged(r)
  <2>1. \A e \in Events : draft[r][e].kind = "published" => delivered[e] > 0
    BY DEF DeliveryInv
  <2> QED
    BY <1>1, <1>6, <2>1, CommitStates, EndPassDelivery DEF CommitUnacknowledged
<1>7. ASSUME NEW e \in Events, PublishUnacknowledged(r, e)
      PROVE  DeliveryInv'
  <2>1. \A f \in Events : delivered[f] > 0 => delivered'[f] > 0
    BY <1>7 DEF PublishUnacknowledged, TypeOK
  <2> QED
    BY <1>7, <2>1, DeliveryFrame DEF TypeOK, PublishUnacknowledged
<1> QED
  BY <1>2, <1>3, <1>4, <1>5, <1>6, <1>7 DEF Disruption

LEMMA DeliveryNext == TypeOK /\ LockInv /\ DeliveryInv /\ [Next]_vars => DeliveryInv'
<1> SUFFICES ASSUME TypeOK, LockInv, DeliveryInv, [Next]_vars
             PROVE  DeliveryInv'
  OBVIOUS
<1>1. ASSUME NEW r \in Relays, Step(r)
      PROVE  DeliveryInv'
  BY <1>1, DeliveryStep
<1>2. ASSUME NEW r \in Relays, Disruption(r)
      PROVE  DeliveryInv'
  BY <1>2, DeliveryDisruption
<1>3. ASSUME NEW e \in Events, Requeue(e)
      PROVE  DeliveryInv'
  <2>1. \A f \in Events : row'[f].state = row[f].state
    BY <1>3 DEF Requeue, TypeOK
  <2> QED
    BY <1>3, <2>1, DeliveryFrame DEF Requeue, relayVars
<1>4. ASSUME NEW e \in Events, NEW age \in 0..MaxPass, Enqueue(e, age)
      PROVE  DeliveryInv'
  <2>1. \A f \in Events : row'[f].state = row[f].state \/ row'[f].state = "pending"
    BY <1>4 DEF Enqueue, TypeOK
  <2> QED
    BY <1>4, <2>1, DeliveryFrame DEF Enqueue, relayVars
<1>5. CASE Tick
  BY <1>5, TickKeeps, DeliveryFrame DEF Tick
<1>6. CASE UNCHANGED vars
  BY <1>6, DeliveryFrame DEF vars, relayVars
<1> QED
  BY <1>1, <1>2, <1>3, <1>4, <1>5, <1>6 DEF Next

\* A drafted or committed success has a delivery behind it.
THEOREM DeliveryCorrect == Spec => []DeliveryInv
<1> QED
  BY DeliveryInit, DeliveryNext, TypeCorrect, LocksCorrect, PTL DEF Spec

\* published_at is never set on an event the transport has not accepted.
THEOREM NothingLost == Spec => []SettledWasDelivered
<1>1. DeliveryInv => SettledWasDelivered
  BY DEF DeliveryInv
<1> QED
  BY <1>1, DeliveryCorrect, PTL

-----------------------------------------------------------------------------
(* What a step may never do                                                *)

\* A pass with a live transaction has drafted nothing for a published row.
LEMMA CommitSparesPublished ==
  ASSUME TypeOK, LockInv, NEW r \in Relays, ~lost[r],
         row' = [e \in Events |-> Updated(r, e)],
         NEW e \in Events, row[e].state = "published"
  PROVE  row'[e] = row[e]
<1>1. draft[r][e].kind = "none"
  BY DEF LockInv, PassOK
<1> QED
  BY <1>1 DEF Updated

LEMMA FinalStep ==
  ASSUME TypeOK, LockInv, [Next]_vars, NEW e \in Events, row[e].state = "published"
  PROVE  /\ row'[e].state = "published"
         /\ row'[e].attempts # row[e].attempts => Requeue(e)
<1>1. ASSUME NEW r \in Relays, Commit(r) \/ CommitUnacknowledged(r)
      PROVE  row'[e] = row[e]
  BY <1>1, CommitSparesPublished DEF Commit, CommitUnacknowledged, Usable
<1>2. ASSUME NEW r \in Relays, Step(r) \/ Disruption(r)
      PROVE  row'[e] = row[e]
  BY <1>1, <1>2
     DEF Step, Disruption, Publish, Start, Begin, StopIdle, Wake, TakeSnapshot, ClaimReturns,
         ClaimReturnsNothing, PassFails, PublishOk, PublishFails, LockRow, MarkPublished,
         RecordFailure, BeginFails, LoseConnection, Cancel, Crash, PublishUnacknowledged
<1>3. ASSUME NEW f \in Events, Requeue(f)
      PROVE  row'[e].state = "published" /\ (f = e \/ row'[e] = row[e])
  BY <1>3 DEF Requeue, TypeOK
<1>4. ASSUME NEW f \in Events, NEW age \in 0..MaxPass, Enqueue(f, age)
      PROVE  row'[e] = row[e]
  BY <1>4 DEF Enqueue, TypeOK
<1>5. CASE Tick
  BY <1>5, TickKeeps
<1>6. CASE UNCHANGED vars
  BY <1>6 DEF vars
<1> QED
  BY <1>2, <1>3, <1>4, <1>5, <1>6 DEF Next

\* Once published_at is committed no relay writes the row again.
THEOREM AuditTrail == Spec => PublishedRowIsFinal
<1>1. TypeOK /\ LockInv /\ [Next]_vars =>
        [\A e \in Events : row[e].state = "published" =>
           /\ row'[e].state = "published"
           /\ row'[e].attempts # row[e].attempts => Requeue(e)]_vars
  BY FinalStep
<1> QED
  BY <1>1, TypeCorrect, LocksCorrect, PTL DEF Spec, PublishedRowIsFinal

-----------------------------------------------------------------------------
(* Backoff                                                                 *)

\* The choice of recordFailure reaches past the pass, whatever the attempts.
LEMMA DelayOutlastsPass ==
  ASSUME BackoffOutlastsPass, NEW attempts \in Nat \ {0}
  PROVE  RetryDelay(attempts) > MaxPass
<1>1. CASE attempts <= MaxAttempts
  BY <1>1, OptionsAssumption DEF BackoffOutlastsPass
<1>2. CASE attempts > MaxAttempts
  <2>1. RetryDelay(attempts) = RetryDelay(MaxAttempts)
    BY <1>2, OptionsAssumption DEF RetryDelay
  <2>2. MaxAttempts \in 1..MaxAttempts
    BY OptionsAssumption
  <2> QED
    BY <2>1, <2>2 DEF BackoffOutlastsPass
<1> QED
  BY <1>1, <1>2, OptionsAssumption

LEMMA BackoffInit == Init => BackoffInv
BY BoundsAssumption DEF Init, BackoffInv, InPass, NoDraft, NoUpdate

\* The invariant speaks of pc, clock and draft, and a pass begins at zero.
LEMMA BackoffFrame ==
  ASSUME TypeOK, BackoffInv,
         \A r \in Relays :
           /\ pc'[r] \in InPass => (pc[r] \in InPass /\ clock'[r] = clock[r]) \/ clock'[r] = 0
           /\ \A e \in Events : draft'[r][e].kind = "failed" =>
                draft'[r][e] = draft[r][e] \/ draft'[r][e].backoff > MaxPass
  PROVE  BackoffInv'
BY BoundsAssumption DEF BackoffInv

LEMMA EndPassBackoff ==
  ASSUME TypeOK, BackoffInv, NEW r \in Relays, NEW next \in Phases, EndPass(r, next)
  PROVE  BackoffInv'
<1>1. \A s \in Relays : (pc'[s] = pc[s] /\ clock'[s] = clock[s]) \/ clock'[s] = 0
  BY DEF EndPass, TypeOK
<1>2. \A s \in Relays : draft'[s] = draft[s] \/ draft'[s] = NoDraft
  BY DEF EndPass, TypeOK
<1> QED
  BY <1>1, <1>2, BackoffFrame DEF NoDraft, NoUpdate

LEMMA BackoffNext ==
  ASSUME BackoffOutlastsPass, TypeOK, BackoffInv, [Next]_vars
  PROVE  BackoffInv'
<1> USE DEF InPass
<1>1. ASSUME NEW r \in Relays, Start(r) \/ Begin(r) \/ Wake(r) \/ TakeSnapshot(r) \/ ClaimReturns(r)
                                \/ Cancel(r)
      PROVE  BackoffInv'
  BY <1>1, BackoffFrame
     DEF TypeOK, Start, Begin, Wake, TakeSnapshot, ClaimReturns, Cancel
<1>2. ASSUME NEW r \in Relays, \/ StopIdle(r) \/ ClaimReturnsNothing(r) \/ PassFails(r)
                                \/ Commit(r) \/ CommitUnacknowledged(r) \/ BeginFails(r) \/ Crash(r)
      PROVE  BackoffInv'
  <2>1. \E next \in {"stopped", "sleep", "begin"} : EndPass(r, next)
    BY <1>2 DEF StopIdle, ClaimReturnsNothing, PassFails, AfterError, Commit,
                CommitUnacknowledged, BeginFails, Crash
  <2> QED
    BY <2>1, EndPassBackoff DEF Phases
<1>3. ASSUME NEW r \in Relays, NEW e \in Events,
             \/ PublishOk(r, e) \/ PublishFails(r, e) \/ PublishUnacknowledged(r, e)
             \/ LockRow(r, e)
      PROVE  BackoffInv'
  BY <1>3, BackoffFrame DEF TypeOK, PublishOk, PublishFails, PublishUnacknowledged, LockRow
<1>4. ASSUME NEW r \in Relays, NEW e \in Events, MarkPublished(r, e)
      PROVE  BackoffInv'
  <2>1. \A s \in Relays, f \in Events : draft'[s][f] = Published \/ draft'[s][f] = draft[s][f]
    <3>1. CASE Usable(r)
      <4>1. draft' = [draft EXCEPT ![r][e] = Published]
        BY <1>4, <3>1 DEF MarkPublished
      <4> QED
        BY <4>1, DraftUpdate
    <3>2. CASE ~Usable(r)
      BY <1>4, <3>2 DEF MarkPublished
    <3> QED
      BY <3>1, <3>2
  <2> QED
    BY <1>4, <2>1, BackoffFrame DEF TypeOK, MarkPublished, NextEvent, Published
<1>5. ASSUME NEW r \in Relays, NEW e \in Events, RecordFailure(r, e)
      PROVE  BackoffInv'
  <2> DEFINE update == Failed(RetryDelay(seen[r][e] + 1))
  <2>1. update.backoff > MaxPass
    BY DelayOutlastsPass, OptionsAssumption DEF Failed, TypeOK
  <2>2. draft' = draft \/ draft' = [draft EXCEPT ![r][e] = update]
    BY <1>5 DEF RecordFailure
  <2> HIDE DEF update
  <2>3. \A s \in Relays, f \in Events : draft'[s][f] = update \/ draft'[s][f] = draft[s][f]
    <3>1. CASE draft' = draft
      BY <3>1
    <3>2. CASE draft' = [draft EXCEPT ![r][e] = update]
      BY <3>2, DraftUpdate
    <3> QED
      BY <2>2, <3>1, <3>2
  <2>4. \A s \in Relays : pc'[s] \in InPass => pc[s] \in InPass /\ clock'[s] = clock[s]
    BY <1>5 DEF TypeOK, RecordFailure, NextEvent
  <2> QED
    BY <2>1, <2>3, <2>4, BackoffFrame
<1>6. ASSUME NEW r \in Relays, LoseConnection(r)
      PROVE  BackoffInv'
  <2>1. \A s \in Relays : draft'[s] = draft[s] \/ draft'[s] = NoDraft
    BY <1>6 DEF TypeOK, LoseConnection
  <2> QED
    BY <1>6, <2>1, BackoffFrame DEF LoseConnection, NoDraft, NoUpdate
<1>7. CASE Tick
  <2>1. ASSUME NEW r \in Relays, pc[r] \in InPass
        PROVE  clock'[r] <= MaxPass
    <3>1. clock[r] < MaxPass
      BY <1>7, <2>1 DEF Tick
    <3>2. clock'[r] = clock[r] + 1
      BY <1>7, <2>1 DEF Tick
    <3> QED
      BY <3>1, <3>2, BoundsAssumption DEF TypeOK
  <2> QED
    BY <1>7, <2>1 DEF Tick, BackoffInv
<1>8. ASSUME UNCHANGED <<pc, clock, draft>>
      PROVE  BackoffInv'
  BY <1>8, BackoffFrame
<1>9. ASSUME NEW r \in Relays, Step(r) \/ Disruption(r)
      PROVE  BackoffInv'
  BY <1>1, <1>2, <1>3, <1>4, <1>5, <1>6, <1>9 DEF Step, Disruption, Publish
<1> QED
  BY <1>7, <1>8, <1>9 DEF Next, Requeue, Enqueue, vars, relayVars

\* The update of markFailed as the commit leaves it.
LEMMA FailedRowIsAhead ==
  ASSUME TypeOK, BackoffInv, NEW r \in Relays, NEW e \in Events, pc[r] = "commit",
         row' = [f \in Events |-> Updated(r, f)], draft[r][e].kind = "failed"
  PROVE  row'[e].wait > 0
<1>1. row'[e].wait = draft[r][e].backoff - clock[r]
  BY DEF Updated
<1>2. draft[r][e].backoff \in Nat /\ clock[r] \in Nat
  BY DEF TypeOK, Updates
<1> QED
  BY <1>1, <1>2, BoundsAssumption DEF BackoffInv, InPass

\* recordFailure: an event that could not be published is never due again at once,
\* provided no pass lasts as long as a backoff.
THEOREM FailuresScheduledAhead ==
  ASSUME BackoffOutlastsPass
  PROVE  Spec => FailureIsScheduledAhead
<1>1. TypeOK /\ BackoffInv /\ [Next]_vars => BackoffInv'
  BY BackoffNext
<1>2. TypeOK /\ BackoffInv =>
        [\A r \in Relays, e \in Events :
           (Commit(r) \/ CommitUnacknowledged(r)) /\ draft[r][e].kind = "failed" =>
             row'[e].wait > 0]_vars
  BY FailedRowIsAhead DEF Commit, CommitUnacknowledged
<1> QED
  BY <1>1, <1>2, BackoffInit, TypeCorrect, PTL DEF Spec, FailureIsScheduledAhead

-----------------------------------------------------------------------------
(* The relays implement the contract of the outbox                         *)

LEMMA ContractStutter ==
  ASSUME \A e \in Events : row'[e].state = row[e].state,
         \A e \in Events : delivered'[e] = delivered[e]
  PROVE  UNCHANGED Contract!vars
BY DEF Contract!vars

LEMMA ContractDeliver ==
  ASSUME TypeOK, DeliveryInv, NEW r \in Relays, NEW e \in Events, e \in todo[r],
         row' = row, delivered' = [delivered EXCEPT ![e] = @ + 1]
  PROVE  Contract!Deliver(e)
<1>1. row[e].state # "absent"
  BY DEF DeliveryInv
<1>2. {f \in Events : delivered'[f] > 0} = {f \in Events : delivered[f] > 0} \cup {e}
  BY DEF TypeOK
<1> QED
  BY <1>1, <1>2 DEF Contract!Deliver

LEMMA ContractSettle ==
  ASSUME TypeOK, DeliveryInv, NEW r \in Relays,
         row' = [e \in Events |-> Updated(r, e)], delivered' = delivered,
         \A e \in Events : draft[r][e].kind = "published" => row[e].state # "absent"
  PROVE  Contract!Next
<1> DEFINE S == {e \in Events : draft[r][e].kind = "published"}
<1>1. S \subseteq {e \in Events : delivered[e] > 0}
  BY DEF DeliveryInv
<1>2. {e \in Events : row'[e].state = "published"} = {e \in Events : row[e].state = "published"} \cup S
  BY CommitStates
<1>3. {e \in Events : row'[e].state # "absent"} = {e \in Events : row[e].state # "absent"}
  BY CommitStates
<1>4. S \in SUBSET Events
  OBVIOUS
<1> HIDE DEF S
<1> QED
  BY <1>1, <1>2, <1>3, <1>4 DEF Contract!Next, Contract!Settle

LEMMA ContractStep ==
  ASSUME TypeOK, LockInv, DeliveryInv, [Next]_vars
  PROVE  [Contract!Next]_(Contract!vars)
<1>1. ASSUME NEW r \in Relays, NEW e \in Events, PublishOk(r, e) \/ PublishUnacknowledged(r, e)
      PROVE  Contract!Next
  <2>1. Contract!Deliver(e)
    BY <1>1, ContractDeliver DEF PublishOk, PublishUnacknowledged, First
  <2> QED
    BY <2>1 DEF Contract!Next
<1>2. ASSUME NEW r \in Relays, Commit(r) \/ CommitUnacknowledged(r)
      PROVE  Contract!Next
  <2>1. \A e \in Events : draft[r][e].kind = "published" => row[e].state # "absent"
    BY <1>2 DEF Commit, CommitUnacknowledged, Usable, LockInv, PassOK
  <2> QED
    BY <1>2, <2>1, ContractSettle DEF Commit, CommitUnacknowledged
<1>3. ASSUME NEW r \in Relays, Step(r) \/ Disruption(r)
      PROVE  Contract!Next \/ UNCHANGED <<row, delivered>>
  BY <1>1, <1>2, <1>3
     DEF Step, Disruption, Publish, Start, Begin, StopIdle, Wake, TakeSnapshot, ClaimReturns,
         ClaimReturnsNothing, PassFails, PublishFails, LockRow, MarkPublished,
         RecordFailure, BeginFails, LoseConnection, Cancel, Crash
<1>4. ASSUME NEW e \in Events, Requeue(e)
      PROVE  UNCHANGED Contract!vars
  <2>1. \A f \in Events : row'[f].state = row[f].state
    BY <1>4 DEF Requeue, TypeOK
  <2> QED
    BY <1>4, <2>1, ContractStutter DEF Requeue
<1>5. ASSUME NEW e \in Events, NEW age \in 0..MaxPass, Enqueue(e, age)
      PROVE  Contract!Next
  <2>1. /\ row[e].state = "absent" /\ row'[e].state = "pending"
        /\ \A f \in Events \ {e} : row'[f] = row[f]
        /\ delivered' = delivered
    BY <1>5 DEF Enqueue, TypeOK
  <2>2. Contract!Queue(e)
    BY <2>1 DEF Contract!Queue
  <2> QED
    BY <2>2 DEF Contract!Next
<1>6. CASE Tick
  BY <1>6, TickKeeps, ContractStutter DEF Tick
<1>7. CASE UNCHANGED vars
  BY <1>7, ContractStutter DEF vars
<1> QED
  BY <1>3, <1>4, <1>5, <1>6, <1>7, ContractStutter DEF Next

\* Whatever relays run and crash, the outbox delivers at least once: nothing is
\* settled before it is delivered, and nothing queued is forgotten.
THEOREM RelayImplementsContract == Spec => ImplementsContract
<1>1. Init => Contract!Init
  BY DEF Init, Contract!Init
<1>2. TypeOK /\ LockInv /\ DeliveryInv /\ [Next]_vars => [Contract!Next]_(Contract!vars)
  BY ContractStep
<1> QED
  BY <1>1, <1>2, TypeCorrect, LocksCorrect, DeliveryCorrect, PTL
     DEF Spec, ImplementsContract, Contract!Spec
=============================================================================
