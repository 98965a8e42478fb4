----------------------- MODULE OutboxDuplicatesProofs -----------------------
(***************************************************************************)
(* At-least-once delivery has a price: proofs that an event is delivered   *)
(* once and then once more for each disruption at most, for any finite     *)
(* number of relays.  DuplicateInv is an account per event: deliveries,    *)
(* and the relays adrift that may still deliver, against the disruptions   *)
(* so far and the one delivery under way.                                  *)
(***************************************************************************)
EXTENDS OutboxRelayProofs, FiniteSetTheorems

\* The account of one event.
Balance(e) ==
  delivered[e] + Cardinality(Adrift(e)) <= disruptions + (IF Underway(e) THEN 1 ELSE 0)

\* What has been drafted for is no longer to do.
DraftsOK ==
  \A r \in Relays :
    /\ pc[r] \in {"claim", "lock"} => draft[r] = NoDraft
    /\ \A e \in todo[r] : draft[r][e].kind = "none"

LEMMA DuplicateInvParts == DuplicateInv <=> DraftsOK /\ \A e \in Events : Balance(e)
BY DEF DuplicateInv, DraftsOK, Balance

-----------------------------------------------------------------------------
(* Counting relays                                                         *)

\* For e, no relay but r has changed.
Untouched(r, e) ==
  \A s \in Relays \ {r} :
    /\ s \in Adrift(e)' <=> s \in Adrift(e)
    /\ Usable(s)' /\ Delivering(s, e)' <=> Usable(s) /\ Delivering(s, e)

LEMMA AdriftCount ==
  ASSUME NEW r \in Relays, NEW e, Untouched(r, e)
  PROVE  /\ Cardinality(Adrift(e)) \in Nat /\ Cardinality(Adrift(e))' \in Nat
         /\ (r \in Adrift(e) <=> r \in Adrift(e)') =>
              Cardinality(Adrift(e))' = Cardinality(Adrift(e))
         /\ r \in Adrift(e) /\ r \notin Adrift(e)' =>
              Cardinality(Adrift(e))' = Cardinality(Adrift(e)) - 1
         /\ r \notin Adrift(e) /\ r \in Adrift(e)' =>
              Cardinality(Adrift(e))' = Cardinality(Adrift(e)) + 1
<1>1. PICK S, T : S = Adrift(e) /\ T = Adrift(e)'
  OBVIOUS
<1>2. S \subseteq Relays /\ T \subseteq Relays
  BY <1>1 DEF Adrift
<1>3. IsFiniteSet(S) /\ IsFiniteSet(T) /\ Cardinality(S) \in Nat /\ Cardinality(T) \in Nat
  BY <1>2, RelaysAssumption, FS_Subset, FS_CardinalityType
<1>4. \A s \in Relays \ {r} : s \in S <=> s \in T
  BY <1>1 DEF Untouched
<1>5. CASE r \in S <=> r \in T
  <2>1. S = T
    BY <1>2, <1>4, <1>5
  <2>. QED
    BY <1>1, <1>3, <1>5, <2>1
<1>6. CASE r \in S /\ r \notin T
  <2>1. S = T \cup {r}
    BY <1>2, <1>4, <1>6
  <2>2. Cardinality(S) = Cardinality(T) + 1
    BY <1>3, <1>6, <2>1, FS_AddElement
  <2>. QED
    BY <1>1, <1>3, <1>6, <2>2
<1>7. CASE r \notin S /\ r \in T
  <2>1. T = S \cup {r}
    BY <1>2, <1>4, <1>7
  <2>2. Cardinality(T) = Cardinality(S) + 1
    BY <1>3, <1>7, <2>1, FS_AddElement
  <2>. QED
    BY <1>1, <1>3, <1>7, <2>2
<1>. QED
  BY <1>5, <1>6, <1>7

\* A step of r that delivers nothing, unless it gives up a delivery or casts r
\* adrift, which has to be paid for.
LEMMA BalanceKept ==
  ASSUME TypeOK, NEW r \in Relays, NEW e \in Events, Balance(e), Untouched(r, e),
         delivered'[e] = delivered[e],
         row[e].state = "published" => row'[e].state = "published",
         \/ /\ disruptions' = disruptions
            /\ r \in Adrift(e)' => r \in Adrift(e)
            /\ Usable(r) /\ Delivering(r, e) =>
                 row'[e].state = "published" \/ (Usable(r)' /\ Delivering(r, e)')
         \/ /\ disruptions' = disruptions + 1
            /\ Usable(r) /\ Delivering(r, e) => r \notin Adrift(e)'
  PROVE  Balance(e)'
<1>. USE AdriftCount
<1>1. delivered[e] \in Nat /\ disruptions \in Nat
  BY BoundsAssumption DEF TypeOK
<1>2. CASE Usable(r) /\ Delivering(r, e)
  <2>1. r \notin Adrift(e) /\ Underway(e)
    BY <1>2 DEF Adrift, Underway
  <2>2. Cardinality(Adrift(e))' = Cardinality(Adrift(e)) /\ Cardinality(Adrift(e)) \in Nat
    BY <2>1, <1>2
  <2>3. disruptions' = disruptions + 1 \/ (disruptions' = disruptions /\ Underway(e)')
    BY <1>2 DEF Underway
  <2>. QED
    BY <1>1, <2>1, <2>2, <2>3 DEF Balance
<1>3. CASE ~(Usable(r) /\ Delivering(r, e))
  <2>1. Underway(e) => Underway(e)'
    BY <1>3 DEF Underway, Untouched
  <2>2. /\ Cardinality(Adrift(e)) \in Nat /\ Cardinality(Adrift(e))' \in Nat
        /\ Cardinality(Adrift(e))' <= Cardinality(Adrift(e)) + (disruptions' - disruptions)
    BY <1>1
  <2>3. disruptions' \in Nat
    BY <1>1
  <2>. QED
    BY <1>1, <2>1, <2>2, <2>3 DEF Balance
<1>. QED
  BY <1>2, <1>3

\* What a relay step does not do to the other relays.
LEMMA OthersUntouched ==
  ASSUME TypeOK, NEW r \in Relays, NEW e \in Events,
         \A s \in Relays \ {r} : /\ pc'[s] = pc[s] /\ todo'[s] = todo[s] /\ draft'[s] = draft[s]
                                 /\ lost'[s] = lost[s] /\ cancelled'[s] = cancelled[s]
  PROVE  Untouched(r, e)
BY DEF Untouched, Adrift, Delivering, Usable, First

LEMMA RelayFrame ==
  ASSUME TypeOK, NEW r \in Relays, Step(r) \/ Disruption(r), NEW s \in Relays \ {r}
  PROVE  /\ pc'[s] = pc[s] /\ todo'[s] = todo[s] /\ draft'[s] = draft[s]
         /\ lost'[s] = lost[s] /\ cancelled'[s] = cancelled[s]
<1>. USE DEF TypeOK
<1>1. CASE \E next \in Phases : EndPass(r, next)
  BY <1>1 DEF EndPass
<1>2. CASE Start(r) \/ Begin(r) \/ Wake(r) \/ TakeSnapshot(r) \/ ClaimReturns(r) \/ Publish(r)
  BY <1>2 DEF Start, Begin, Wake, TakeSnapshot, ClaimReturns, Publish, PublishOk, PublishFails
<1>3. CASE StopIdle(r) \/ ClaimReturnsNothing(r) \/ PassFails(r) \/ Commit(r)
  BY <1>1, <1>3 DEF StopIdle, ClaimReturnsNothing, PassFails, Commit, AfterError, Phases
<1>4. ASSUME NEW e \in Events, LockRow(r, e) \/ MarkPublished(r, e) \/ RecordFailure(r, e)
      PROVE  /\ pc'[s] = pc[s] /\ todo'[s] = todo[s] /\ draft'[s] = draft[s]
             /\ lost'[s] = lost[s] /\ cancelled'[s] = cancelled[s]
  BY <1>4 DEF LockRow, MarkPublished, RecordFailure, NextEvent
<1>5. CASE BeginFails(r) \/ Crash(r) \/ CommitUnacknowledged(r)
  BY <1>1, <1>5 DEF BeginFails, Crash, CommitUnacknowledged, Phases
<1>6. CASE LoseConnection(r) \/ Cancel(r)
  BY <1>6 DEF LoseConnection, Cancel
<1>7. ASSUME NEW e \in Events, PublishUnacknowledged(r, e)
      PROVE  /\ pc'[s] = pc[s] /\ todo'[s] = todo[s] /\ draft'[s] = draft[s]
             /\ lost'[s] = lost[s] /\ cancelled'[s] = cancelled[s]
  BY <1>7 DEF PublishUnacknowledged
<1>. QED
  BY <1>2, <1>3, <1>4, <1>5, <1>6, <1>7 DEF Step, Disruption

-----------------------------------------------------------------------------
(* Drafts                                                                  *)

LEMMA DraftsStep ==
  ASSUME TypeOK, LockInv, DraftsOK, [Next]_vars
  PROVE  DraftsOK'
<1>. USE DEF DraftsOK, TypeOK
<1>1. ASSUME NEW r \in Relays, Step(r) \/ Disruption(r) PROVE DraftsOK'
  <2>. DEFINE Mine == /\ pc'[r] \in {"claim", "lock"} => draft'[r] = NoDraft
                      /\ \A e \in todo'[r] : draft'[r][e].kind = "none"
  <2>0. \A s \in Relays \ {r} :
          pc'[s] = pc[s] /\ todo'[s] = todo[s] /\ draft'[s] = draft[s]
    BY <1>1, RelayFrame
  <2>. SUFFICES Mine
    <3>1. ASSUME Mine, NEW s \in Relays
          PROVE  /\ pc'[s] \in {"claim", "lock"} => draft'[s] = NoDraft
                 /\ \A e \in todo'[s] : draft'[s][e].kind = "none"
      <4>1. CASE s = r
        BY <3>1, <4>1
      <4>2. CASE s # r
        BY <2>0, <4>2
      <4>. QED
        BY <4>1, <4>2
    <3>. QED
      BY <3>1
  <2>1. ASSUME NEW next \in Phases, EndPass(r, next) PROVE Mine
    BY <2>1 DEF EndPass
  <2>2. CASE Begin(r) \/ Start(r) \/ Wake(r)
    BY <2>2 DEF Begin, Start, Wake, LockInv, PassOK, InPass
  <2>3. CASE TakeSnapshot(r) \/ ClaimReturns(r)
    BY <2>3 DEF TakeSnapshot, ClaimReturns
  <2>4. ASSUME NEW e \in Events, LockRow(r, e) PROVE Mine
    <3>1. draft'[r] = NoDraft /\ todo'[r] \subseteq Events
      BY <2>4 DEF LockRow
    <3>. QED
      BY <3>1 DEF NoDraft, NoUpdate
  <2>5. CASE Publish(r)
    BY <2>5 DEF Publish, PublishOk, PublishFails
  <2>6. ASSUME NEW e \in Events, MarkPublished(r, e) \/ RecordFailure(r, e) PROVE Mine
    <3>1. todo'[r] = todo[r] \ {e} /\ pc'[r] \in {"commit", "publish"}
      BY <2>6 DEF MarkPublished, RecordFailure, NextEvent
    <3>2. \A f \in Events \ {e} : draft'[r][f] = draft[r][f]
      BY <2>6 DEF MarkPublished, RecordFailure
    <3>. QED
      BY <3>1, <3>2
  <2>7. ASSUME NEW e \in Events, PublishUnacknowledged(r, e) PROVE Mine
    BY <2>7 DEF PublishUnacknowledged
  <2>8. CASE LoseConnection(r)
    BY <2>8 DEF LoseConnection, NoDraft, NoUpdate
  <2>9. CASE Cancel(r)
    BY <2>9 DEF Cancel
  <2>10. CASE StopIdle(r) \/ ClaimReturnsNothing(r) \/ PassFails(r) \/ Commit(r)
    BY <2>1, <2>10 DEF StopIdle, ClaimReturnsNothing, PassFails, Commit, AfterError, Phases
  <2>11. CASE BeginFails(r) \/ Crash(r) \/ CommitUnacknowledged(r)
    BY <2>1, <2>11 DEF BeginFails, Crash, CommitUnacknowledged, Phases
  <2>. QED
    BY <1>1, <2>2, <2>3, <2>4, <2>5, <2>6, <2>7, <2>8, <2>9, <2>10, <2>11
    DEF Step, Disruption
<1>2. CASE UNCHANGED <<pc, todo, draft>>
  BY <1>2
<1>. QED
  BY <1>1, <1>2 DEF Next, Requeue, Enqueue, Tick, relayVars, vars

-----------------------------------------------------------------------------
(* Accounts                                                                *)

\* A relay whose pass is over delivers nothing any more.
LEMMA PassEnded ==
  ASSUME TypeOK, NEW r \in Relays, NEW e \in Events, NEW next \in Phases \ InPass,
         EndPass(r, next)
  PROVE  r \notin Adrift(e)' /\ ~Delivering(r, e)'
<1>1. todo'[r] = {} /\ draft'[r] = NoDraft /\ pc'[r] = next
  BY DEF TypeOK, EndPass
<1>. QED
  BY <1>1 DEF Adrift, Delivering, NoDraft, NoUpdate, InPass

\* Two live transactions never deliver the same event.
LEMMA OneDelivery ==
  ASSUME TypeOK, LockInv, DraftsOK, NEW r \in Relays, NEW e \in Events,
         Usable(r), e \in todo[r], pc[r] = "publish"
  PROVE  ~Underway(e)
<1>1. e \in held[r] /\ row[e].state = "pending" /\ ~Delivering(r, e)
  BY DEF Usable, LockInv, PassOK, DraftsOK, Delivering
<1>2. ASSUME NEW s \in Relays \ {r}, Usable(s), Delivering(s, e) PROVE FALSE
  <2>1. e \in todo[s] \/ draft[s][e].kind # "none"
    BY <1>2 DEF Delivering, First
  <2>2. e \in held[s]
    BY <1>2, <2>1 DEF Usable, LockInv, PassOK
  <2>. QED
    BY <1>1, <2>2 DEF LockInv
<1>. QED
  BY <1>1, <1>2 DEF Underway

LEMMA BalanceStep ==
  ASSUME TypeOK, LockInv, DraftsOK, NEW r \in Relays, NEW e \in Events, Balance(e), Step(r)
  PROVE  Balance(e)'
<1>0. Untouched(r, e)
  BY OthersUntouched, RelayFrame
<1>1. CASE StopIdle(r) \/ ClaimReturnsNothing(r) \/ PassFails(r)
  <2>1. PICK next \in Phases \ InPass : EndPass(r, next)
    BY <1>1 DEF StopIdle, ClaimReturnsNothing, PassFails, AfterError, Phases, InPass
  <2>2. ~(Usable(r) /\ Delivering(r, e))
    BY <1>1 DEF StopIdle, ClaimReturnsNothing, PassFails, Usable, Delivering, DraftsOK, NoDraft,
                NoUpdate
  <2>3. UNCHANGED <<row, delivered, disruptions>>
    BY <1>1 DEF StopIdle, ClaimReturnsNothing, PassFails
  <2>. QED
    BY <1>0, <2>1, <2>2, <2>3, PassEnded, BalanceKept
<1>2. CASE Commit(r)
  <2>1. PICK next \in Phases \ InPass : EndPass(r, next)
    BY <1>2 DEF Commit, Phases, InPass
  <2>2. row'[e].state = IF draft[r][e].kind = "published" THEN "published" ELSE row[e].state
    BY <1>2, CommitStates DEF Commit
  <2>3. Delivering(r, e) => row'[e].state = "published"
    BY <1>2, <2>2 DEF Commit, Delivering
  <2>4. UNCHANGED <<delivered, disruptions>>
    BY <1>2 DEF Commit
  <2>. QED
    BY <1>0, <2>1, <2>2, <2>3, <2>4, PassEnded, BalanceKept
<1>3. CASE \/ Start(r) \/ Begin(r) \/ Wake(r) \/ TakeSnapshot(r) \/ ClaimReturns(r)
           \/ \E f \in Events : PublishFails(r, f)
  <2>1. /\ pc[r] # "mark" /\ pc'[r] # "mark"
        /\ UNCHANGED <<row, todo, draft, lost, cancelled, delivered, disruptions>>
    BY <1>3 DEF TypeOK, Start, Begin, Wake, TakeSnapshot, ClaimReturns, PublishFails
  <2>2. /\ r \in Adrift(e)' <=> r \in Adrift(e)
        /\ Usable(r)' /\ Delivering(r, e)' <=> Usable(r) /\ Delivering(r, e)
    BY <2>1 DEF Adrift, Delivering, Usable
  <2>. QED
    BY <1>0, <2>1, <2>2, BalanceKept
<1>4. ASSUME NEW f \in Events, LockRow(r, f) PROVE Balance(e)'
  <2>1. /\ Usable(r) /\ Usable(r)' /\ pc[r] = "lock" /\ pc' = pc
        /\ UNCHANGED <<row, draft, delivered, disruptions>>
    BY <1>4 DEF LockRow, Usable
  <2>2. r \notin Adrift(e)' /\ (Delivering(r, e) => Delivering(r, e)')
    BY <2>1 DEF Adrift, Delivering
  <2>. QED
    BY <1>0, <2>1, <2>2, BalanceKept
<1>5. ASSUME NEW f \in Events, MarkPublished(r, f) PROVE Balance(e)'
  <2>1. /\ pc[r] = "mark" /\ First(f, todo[r]) /\ todo'[r] = todo[r] \ {f}
        /\ pc'[r] \in {"commit", "publish"}
        /\ UNCHANGED <<row, lost, cancelled, delivered, disruptions>>
    BY <1>5 DEF MarkPublished, NextEvent, TypeOK
  <2>2. draft'[r][e] = IF Usable(r) /\ e = f THEN Published ELSE draft[r][e]
    BY <1>5 DEF MarkPublished, TypeOK
  <2>3. First(e, todo[r]) => e = f
    BY <2>1, FirstUnique DEF TypeOK
  <2>4. Usable(r)' <=> Usable(r)
    BY <2>1 DEF Usable
  <2>5. Usable(r) /\ Delivering(r, e) => Delivering(r, e)'
    BY <2>2, <2>3 DEF Delivering, Published
  <2>6. r \in Adrift(e)' => r \in Adrift(e)
    BY <2>1, <2>2, <2>3, <2>4 DEF Adrift, Delivering
  <2>. QED
    BY <1>0, <2>1, <2>4, <2>5, <2>6, BalanceKept
<1>6. ASSUME NEW f \in Events, RecordFailure(r, f) PROVE Balance(e)'
  <2>1. /\ pc[r] = "record" /\ f \in todo[r] /\ todo'[r] = todo[r] \ {f}
        /\ pc'[r] \in {"commit", "publish"}
        /\ UNCHANGED <<row, lost, cancelled, delivered, disruptions>>
    BY <1>6 DEF RecordFailure, NextEvent, TypeOK, First
  <2>2. draft'[r][e] = draft[r][e] \/ (e = f /\ draft'[r][e].kind = "failed")
    BY <1>6 DEF RecordFailure, TypeOK, Failed
  <2>3. draft[r][f].kind = "none"
    BY <2>1 DEF DraftsOK
  <2>4. Delivering(r, e)' <=> Delivering(r, e)
    BY <2>1, <2>2, <2>3 DEF Delivering
  <2>5. Usable(r)' <=> Usable(r)
    BY <2>1 DEF Usable
  <2>. QED
    BY <1>0, <2>1, <2>4, <2>5, BalanceKept DEF Adrift
<1>7. ASSUME NEW f \in Events, PublishOk(r, f) PROVE Balance(e)'
  <2>1. /\ pc[r] = "publish" /\ pc'[r] = "mark" /\ First(f, todo[r])
        /\ UNCHANGED <<row, todo, draft, lost, cancelled, disruptions>>
    BY <1>7 DEF PublishOk, TypeOK
  <2>2. CASE e # f
    <3>1. ~First(e, todo[r]) /\ delivered'[e] = delivered[e]
      BY <1>7, <2>1, <2>2, FirstUnique DEF PublishOk, TypeOK
    <3>2. /\ r \in Adrift(e)' <=> r \in Adrift(e)
          /\ Usable(r)' /\ Delivering(r, e)' <=> Usable(r) /\ Delivering(r, e)
      BY <2>1, <3>1 DEF Adrift, Delivering, Usable
    <3>. QED
      BY <1>0, <2>1, <3>1, <3>2, BalanceKept
  <2>3. CASE e = f
    <3>1. /\ delivered'[e] = delivered[e] + 1 /\ delivered[e] \in Nat /\ disruptions \in Nat
          /\ e \in todo[r] /\ Delivering(r, e)' /\ r \notin Adrift(e)' /\ ~Delivering(r, e)
      BY <1>7, <2>1, <2>3, BoundsAssumption
      DEF PublishOk, TypeOK, First, Delivering, Adrift, DraftsOK
    <3>2. CASE Usable(r)
      <4>1. ~Underway(e) /\ Underway(e)'
        BY <2>1, <3>1, <3>2, OneDelivery DEF Underway, Usable
      <4>2. r \notin Adrift(e)
        BY <3>2 DEF Adrift
      <4>3. Cardinality(Adrift(e)) \in Nat /\ Cardinality(Adrift(e))' = Cardinality(Adrift(e))
        BY <1>0, <3>1, <4>2, AdriftCount
      <4>. QED
        BY <2>1, <3>1, <4>1, <4>3 DEF Balance
    <3>3. CASE ~Usable(r)
      <4>1. r \in Adrift(e)
        BY <3>1, <3>3 DEF Adrift
      <4>2. /\ Cardinality(Adrift(e)) \in Nat
            /\ Cardinality(Adrift(e))' = Cardinality(Adrift(e)) - 1
        BY <1>0, <3>1, <4>1, AdriftCount
      <4>3. Underway(e) => Underway(e)'
        BY <1>0, <2>1, <3>3 DEF Underway, Untouched
      <4>. QED
        BY <2>1, <3>1, <4>2, <4>3 DEF Balance
    <3>. QED
      BY <3>2, <3>3
  <2>. QED
    BY <2>2, <2>3
<1>. QED
  BY <1>1, <1>2, <1>3, <1>4, <1>5, <1>6, <1>7 DEF Step, Publish

LEMMA BalanceDisruption ==
  ASSUME TypeOK, LockInv, DraftsOK, NEW r \in Relays, NEW e \in Events, Balance(e),
         Disruption(r)
  PROVE  Balance(e)'
<1>0. Untouched(r, e)
  BY OthersUntouched, RelayFrame
<1>1. CASE BeginFails(r) \/ Crash(r)
  <2>1. PICK next \in Phases \ InPass : EndPass(r, next)
    BY <1>1 DEF BeginFails, Crash, Phases, InPass
  <2>2. disruptions' = disruptions + 1 /\ UNCHANGED <<row, delivered>>
    BY <1>1 DEF BeginFails, Crash, Disrupt
  <2>. QED
    BY <1>0, <2>1, <2>2, PassEnded, BalanceKept
<1>2. CASE CommitUnacknowledged(r)
  <2>1. PICK next \in Phases \ InPass : EndPass(r, next)
    BY <1>2 DEF CommitUnacknowledged, Phases, InPass
  <2>2. row'[e].state = IF draft[r][e].kind = "published" THEN "published" ELSE row[e].state
    BY <1>2, CommitStates DEF CommitUnacknowledged
  <2>3. disruptions' = disruptions + 1 /\ delivered' = delivered
    BY <1>2 DEF CommitUnacknowledged, Disrupt
  <2>. QED
    BY <1>0, <2>1, <2>2, <2>3, PassEnded, BalanceKept
<1>3. CASE LoseConnection(r) \/ Cancel(r)
  <2>1. disruptions' = disruptions + 1 /\ UNCHANGED <<row, pc, todo, delivered>>
    BY <1>3 DEF LoseConnection, Cancel, Disrupt
  <2>2. Delivering(r, e) => r \notin Adrift(e)'
    <3>1. CASE pc[r] = "mark" /\ First(e, todo[r])
      BY <2>1, <3>1 DEF Adrift, Delivering
    <3>2. CASE draft[r][e].kind = "published"
      BY <2>1, <3>2 DEF Adrift, DraftsOK
    <3>. QED
      BY <3>1, <3>2 DEF Delivering
  <2>. QED
    BY <1>0, <2>1, <2>2, BalanceKept
<1>4. ASSUME NEW f \in Events, PublishUnacknowledged(r, f) PROVE Balance(e)'
  <2>1. /\ pc[r] = "publish" /\ pc'[r] = "record"
        /\ disruptions' = disruptions + 1
        /\ UNCHANGED <<row, todo, draft, lost, cancelled>>
    BY <1>4 DEF PublishUnacknowledged, TypeOK, Disrupt
  <2>2. delivered'[e] \in {delivered[e], delivered[e] + 1} /\ delivered[e] \in Nat
    BY <1>4 DEF PublishUnacknowledged, TypeOK
  <2>3. /\ r \in Adrift(e)' <=> r \in Adrift(e)
        /\ Usable(r)' /\ Delivering(r, e)' <=> Usable(r) /\ Delivering(r, e)
    BY <2>1 DEF Adrift, Delivering, Usable
  <2>4. Cardinality(Adrift(e)) \in Nat /\ Cardinality(Adrift(e))' = Cardinality(Adrift(e))
    BY <1>0, <2>3, AdriftCount
  <2>5. Underway(e)' <=> Underway(e)
    BY <1>0, <2>1, <2>3 DEF Underway, Untouched
  <2>6. disruptions \in Nat
    BY BoundsAssumption DEF TypeOK
  <2>. QED
    BY <2>1, <2>2, <2>4, <2>5, <2>6 DEF Balance
<1>. QED
  BY <1>1, <1>2, <1>3, <1>4 DEF Disruption

\* Rows that change from outside leave the relays and the published alone.
LEMMA BalanceForeign ==
  ASSUME TypeOK, NEW e \in Events, Balance(e),
         UNCHANGED <<pc, todo, draft, lost, cancelled, delivered>>,
         row'[e].state = "published" <=> row[e].state = "published",
         disruptions' \in {disruptions, disruptions + 1}
  PROVE  Balance(e)'
<1>1. Adrift(e)' = Adrift(e)
  BY DEF Adrift, Usable, Delivering
<1>2. Underway(e)' <=> Underway(e)
  BY DEF Underway, Usable, Delivering
<1>3. delivered[e] \in Nat /\ disruptions \in Nat /\ Cardinality(Adrift(e)) \in Nat
  <2>1. Adrift(e) \subseteq Relays
    BY DEF Adrift
  <2>. QED
    BY <2>1, RelaysAssumption, FS_Subset, FS_CardinalityType, BoundsAssumption DEF TypeOK
<1>. QED
  BY <1>1, <1>2, <1>3 DEF Balance

LEMMA DuplicateNext ==
  ASSUME TypeOK, LockInv, DuplicateInv, [Next]_vars
  PROVE  DuplicateInv'
<1>. SUFFICES ASSUME NEW e \in Events PROVE Balance(e)'
  BY DraftsStep, DuplicateInvParts DEF DuplicateInv, DraftsOK, Balance
<1>1. DraftsOK /\ Balance(e)
  BY DuplicateInvParts
<1>2. ASSUME NEW r \in Relays, Step(r) \/ Disruption(r) PROVE Balance(e)'
  BY <1>1, <1>2, BalanceStep, BalanceDisruption
<1>3. ASSUME NEW f \in Events, Requeue(f) PROVE Balance(e)'
  <2>1. row'[e].state = row[e].state
    BY <1>3 DEF Requeue, TypeOK
  <2>. QED
    BY <1>1, <1>3, <2>1, BalanceForeign DEF Requeue, relayVars, Disrupt
<1>4. ASSUME NEW f \in Events, NEW age \in 0..MaxPass, Enqueue(f, age) PROVE Balance(e)'
  <2>1. row'[e].state = "published" <=> row[e].state = "published"
    BY <1>4 DEF Enqueue, TypeOK
  <2>. QED
    BY <1>1, <1>4, <2>1, BalanceForeign DEF Enqueue, relayVars
<1>5. CASE Tick
  <2>1. row'[e].state = row[e].state
    BY <1>5, TickKeeps
  <2>. QED
    BY <1>1, <1>5, <2>1, BalanceForeign DEF Tick
<1>6. CASE UNCHANGED vars
  BY <1>1, <1>6, BalanceForeign DEF vars, relayVars
<1>. QED
  BY <1>2, <1>3, <1>4, <1>5, <1>6 DEF Next

LEMMA DuplicateInit == Init => DuplicateInv
<1>. SUFFICES ASSUME Init PROVE DuplicateInv
  OBVIOUS
<1>1. DraftsOK
  BY DEF Init, DraftsOK
<1>2. ASSUME NEW e \in Events PROVE Balance(e)
  <2>1. Adrift(e) = {}
    BY DEF Init, Adrift
  <2>2. ~Underway(e)
    BY DEF Init, Underway, Delivering, NoDraft, NoUpdate
  <2>3. delivered[e] = 0 /\ disruptions = 0
    BY DEF Init
  <2>. QED
    BY <2>1, <2>2, <2>3, FS_EmptySet DEF Balance
<1>. QED
  BY <1>1, <1>2, DuplicateInvParts

\* The accounts balance in every run.
THEOREM AccountsBalance == Spec => []DuplicateInv
<1>1. TypeOK /\ LockInv /\ DuplicateInv /\ [Next]_vars => DuplicateInv'
  BY DuplicateNext
<1>. QED
  BY DuplicateInit, <1>1, TypeCorrect, LocksCorrect, PTL DEF Spec

\* relay.go's claim that more than one relay may run: replicas alone deliver
\* nothing twice, and every duplicate has its own crash, lost connection,
\* shutdown or lost answer to explain it.
THEOREM DuplicatesArePaidFor == Spec => []DuplicatesBoundedByDisruptions
<1>1. TypeOK /\ DuplicateInv => DuplicatesBoundedByDisruptions
  <2>. SUFFICES ASSUME TypeOK, DuplicateInv, NEW e \in Events
                PROVE  delivered[e] <= 1 + disruptions
    BY DEF DuplicatesBoundedByDisruptions
  <2>1. Adrift(e) \subseteq Relays
    BY DEF Adrift
  <2>2. Cardinality(Adrift(e)) \in Nat
    BY <2>1, RelaysAssumption, FS_Subset, FS_CardinalityType
  <2>3. delivered[e] \in Nat /\ disruptions \in Nat
    BY BoundsAssumption DEF TypeOK
  <2>. QED
    BY <2>2, <2>3 DEF DuplicateInv
<1>. QED
  BY <1>1, AccountsBalance, TypeCorrect, PTL
=============================================================================
