---------------------------- MODULE OutboxRelay ----------------------------
(***************************************************************************)
(* The outbox_events table and the relays that drain it                    *)
(* (src/internal/outbox/relay.go).  Every relay runs Run's loop: a pass    *)
(* opens a transaction, claims due rows with FOR UPDATE SKIP LOCKED,       *)
(* publishes them one after the other and records each outcome inside the  *)
(* transaction, then commits.  Relays crash, are cancelled by SIGTERM and  *)
(* lose their connection; the transport refuses events or accepts them and *)
(* reports an error.                                                       *)
(*                                                                         *)
(* Time is relative.  wait[e] is next_attempt_at minus the present, in     *)
(* ticks, and clock[r] is how long ago relay r entered its present phase:  *)
(* SQL's now() is the start of the transaction, so it is clock[r] ticks    *)
(* old.                                                                    *)
(***************************************************************************)
EXTENDS Integers, FiniteSets

CONSTANTS
  Events,         \* the BIGSERIAL ids of outbox_events
  Relays,         \* replicas of cmd/outbox-relay
  Poison,         \* events the transport never accepts
  BatchSize,
  MaxAttempts,
  BaseBackoff, MaxBackoff, ParkedBackoff, PollInterval,
  MaxPass,        \* bound: ticks a relay spends in a pass, or before one
  MaxDisruptions  \* bound: crashes, losses, ambiguous answers, operator actions

ASSUME EventsAssumption == Events \subseteq Nat /\ Poison \subseteq Events
ASSUME RelaysAssumption == IsFiniteSet(Relays)
ASSUME OptionsAssumption ==
  /\ BatchSize \in Nat \ {0} /\ MaxAttempts \in Nat \ {0}
  /\ BaseBackoff \in Nat \ {0} /\ MaxBackoff \in Nat \ {0}
  /\ ParkedBackoff \in Nat \ {0} /\ PollInterval \in Nat \ {0}
ASSUME BoundsAssumption == MaxPass \in Nat /\ MaxDisruptions \in Nat

VARIABLES
  row,        \* [Events -> row], the committed version of outbox_events
  pc,         \* where each relay is in Run, RunOnce and publishOne
  clock,      \* ticks since the relay began its pass, its wait or its nap
  snapshot,   \* rows the claim statement's snapshot returned, not yet locked
  held,       \* rows the relay's transaction has locked
  todo,       \* claimed events that RunOnce has not worked through yet
  seen,       \* claimed.attempts: the attempts column as the claim read it
  draft,      \* the row updates of the open transaction
  sent,       \* published > 0
  lost,       \* the connection is gone; the relay does not know it yet
  cancelled,  \* ctx is cancelled
  delivered,  \* how often the transport accepted each event
  disruptions \* how many of MaxDisruptions have been used

relayVars == <<pc, clock, snapshot, held, todo, seen, draft, sent, lost, cancelled>>
vars == <<row, relayVars, delivered, disruptions>>

InPass == {"claim", "lock", "publish", "mark", "record", "commit"}
Phases == InPass \cup {"stopped", "begin", "sleep"}

\* published_at IS NULL is "pending".  attempts saturates at MaxAttempts, from
\* where every further failure is treated alike.
Rows == [state : {"absent", "pending", "published"},
         attempts : 0..MaxAttempts,
         wait : Int]

NoUpdate == [kind |-> "none", backoff |-> 0]
Published == [kind |-> "published", backoff |-> 0]
Failed(backoff) == [kind |-> "failed", backoff |-> backoff]
Updates == [kind : {"none", "published", "failed"}, backoff : Nat]
NoDraft == [e \in Events |-> NoUpdate]

Init ==
  /\ row = [e \in Events |-> [state |-> "absent", attempts |-> 0, wait |-> 0]]
  /\ pc = [r \in Relays |-> "begin"]
  /\ clock = [r \in Relays |-> 0]
  /\ snapshot = [r \in Relays |-> {}]
  /\ held = [r \in Relays |-> {}]
  /\ todo = [r \in Relays |-> {}]
  /\ seen = [r \in Relays |-> [e \in Events |-> 0]]
  /\ draft = [r \in Relays |-> NoDraft]
  /\ sent = [r \in Relays |-> FALSE]
  /\ lost = [r \in Relays |-> FALSE]
  /\ cancelled = [r \in Relays |-> FALSE]
  /\ delivered = [e \in Events |-> 0]
  /\ disruptions = 0

-----------------------------------------------------------------------------
(* Helpers                                                                 *)

\* ORDER BY id
First(e, S) == e \in S /\ \A f \in S : e <= f

\* A statement on this transaction's connection can still succeed.
Usable(r) == ~lost[r] /\ ~cancelled[r]

\* Mutated form of Due: the claim forgets published_at IS NULL.
DueThoughPublished(r, e) == row[e].state # "absent" /\ row[e].wait <= -clock[r]

\* published_at IS NULL AND next_attempt_at <= now()
Due(r, e) == row[e].state = "pending" /\ row[e].wait <= -clock[r]

Locked(e) == \E r \in Relays : e \in held[r]

\* Mutated forms of Claimable: no FOR UPDATE SKIP LOCKED; and no second look.
ClaimableThoughLocked(r, e) == Due(r, e)
ClaimableThoughStale(r, e) == ~Locked(e)

\* SKIP LOCKED, and the second look at the newest version of a row that
\* READ COMMITTED takes once the lock is granted.
Claimable(r, e) == ~Locked(e) /\ Due(r, e)

Saturate(n) == IF n > MaxAttempts THEN MaxAttempts ELSE n

\* BaseBackoff doubled per attempt and capped by MaxBackoff; the first delay is
\* not capped.
BackoffFor(attempts) ==
  LET doubled == BaseBackoff * 2 ^ (attempts - 1)
  IN  IF attempts <= 1 THEN BaseBackoff
      ELSE IF doubled <= 0 \/ doubled > MaxBackoff THEN MaxBackoff
      ELSE doubled

\* Mutated form of RetryDelay: exhausted events are not parked.
NeverParked(attempts) == BackoffFor(attempts)

\* recordFailure's choice: park the event once its attempts are exhausted.
RetryDelay(attempts) ==
  IF attempts >= MaxAttempts THEN ParkedBackoff ELSE BackoffFor(attempts)

Disrupt ==
  /\ disruptions < MaxDisruptions
  /\ disruptions' = disruptions + 1

\* Mutated forms of Updated: attempts counts down; a failure does not move
\* next_attempt_at; an exhausted event is deleted instead of parked.
UpdatedCountingDown(r, e) ==
  IF draft[r][e].kind = "failed"
    THEN [row[e] EXCEPT !.attempts = @ - 1, !.wait = draft[r][e].backoff - clock[r]]
    ELSE row[e]

UpdatedWithoutBackoff(r, e) ==
  LET attempts == Saturate(row[e].attempts + 1)
  IN  CASE draft[r][e].kind = "none" -> row[e]
        [] draft[r][e].kind = "published" ->
             [state |-> "published", attempts |-> attempts, wait |-> row[e].wait]
        [] draft[r][e].kind = "failed" -> [row[e] EXCEPT !.attempts = attempts]

UpdatedDeletingExhausted(r, e) ==
  LET attempts == Saturate(row[e].attempts + 1)
  IN  CASE draft[r][e].kind = "none" -> row[e]
        [] draft[r][e].kind = "published" ->
             [state |-> "published", attempts |-> attempts, wait |-> row[e].wait]
        [] draft[r][e].kind = "failed" ->
             [state |-> IF attempts = MaxAttempts THEN "absent" ELSE row[e].state,
              attempts |-> attempts, wait |-> draft[r][e].backoff - clock[r]]

\* The row as the committed update of relay r leaves it.  next_attempt_at is
\* now() + backoff, and now() is the start of the transaction.
Updated(r, e) ==
  LET update == draft[r][e]
      old == row[e]
      attempts == Saturate(old.attempts + 1)
  IN  CASE update.kind = "none" -> old
        [] update.kind = "published" ->
             [state |-> "published", attempts |-> attempts, wait |-> old.wait]
        [] update.kind = "failed" ->
             [state |-> old.state, attempts |-> attempts,
              wait |-> update.backoff - clock[r]]

\* The transaction of r is over, committed or rolled back: its locks are free
\* and the local state of the pass is gone.
EndPass(r, next) ==
  /\ pc' = [pc EXCEPT ![r] = next]
  /\ clock' = [clock EXCEPT ![r] = 0]
  /\ snapshot' = [snapshot EXCEPT ![r] = {}]
  /\ held' = [held EXCEPT ![r] = {}]
  /\ todo' = [todo EXCEPT ![r] = {}]
  /\ draft' = [draft EXCEPT ![r] = NoDraft]
  /\ sent' = [sent EXCEPT ![r] = FALSE]
  /\ lost' = [lost EXCEPT ![r] = FALSE]
  /\ cancelled' = [cancelled EXCEPT ![r] = cancelled[r] /\ next # "stopped"]
  /\ seen' = [seen EXCEPT ![r] = [e \in Events |-> 0]]

\* Where Run goes after a pass that returned an error: it returns when the
\* context is cancelled, else it sleeps.
AfterError(r) == IF cancelled[r] THEN "stopped" ELSE "sleep"

-----------------------------------------------------------------------------
(* Run and RunOnce                                                         *)

Start(r) ==
  /\ pc[r] = "stopped"
  /\ pc' = [pc EXCEPT ![r] = "begin"]
  /\ clock' = [clock EXCEPT ![r] = 0]
  /\ UNCHANGED <<row, snapshot, held, todo, seen, draft, sent, lost, cancelled,
                 delivered, disruptions>>

Begin(r) ==
  /\ pc[r] = "begin"
  /\ ~cancelled[r]
  /\ pc' = [pc EXCEPT ![r] = "claim"]
  /\ clock' = [clock EXCEPT ![r] = 0]
  /\ UNCHANGED <<row, snapshot, held, todo, seen, draft, sent, lost, cancelled,
                 delivered, disruptions>>

\* A cancelled relay stops at Begin or in the select it sleeps in.
StopIdle(r) ==
  /\ pc[r] \in {"begin", "sleep"}
  /\ cancelled[r]
  /\ EndPass(r, "stopped")
  /\ UNCHANGED <<row, delivered, disruptions>>

Wake(r) ==
  /\ pc[r] = "sleep"
  /\ clock[r] = PollInterval
  /\ pc' = [pc EXCEPT ![r] = "begin"]
  /\ clock' = [clock EXCEPT ![r] = 0]
  /\ UNCHANGED <<row, snapshot, held, todo, seen, draft, sent, lost, cancelled,
                 delivered, disruptions>>

\* claim: the statement's snapshot ...
TakeSnapshot(r) ==
  /\ pc[r] = "claim"
  /\ Usable(r)
  /\ snapshot' = [snapshot EXCEPT ![r] = {e \in Events : Due(r, e)}]
  /\ pc' = [pc EXCEPT ![r] = "lock"]
  /\ UNCHANGED <<row, clock, held, todo, seen, draft, sent, lost, cancelled,
                 delivered, disruptions>>

\* ... and its rows, locked in id order until the LIMIT is reached.
LockRow(r, e) ==
  /\ pc[r] = "lock"
  /\ Usable(r)
  /\ First(e, snapshot[r])
  /\ Cardinality(todo[r]) < BatchSize
  /\ snapshot' = [snapshot EXCEPT ![r] = @ \ {e}]
  /\ IF Claimable(r, e)
       THEN /\ held' = [held EXCEPT ![r] = @ \cup {e}]
            /\ todo' = [todo EXCEPT ![r] = @ \cup {e}]
            /\ seen' = [seen EXCEPT ![r][e] = row[e].attempts]
       ELSE UNCHANGED <<held, todo, seen>>
  /\ UNCHANGED <<row, pc, clock, draft, sent, lost, cancelled, delivered, disruptions>>

ClaimReturns(r) ==
  /\ pc[r] = "lock"
  /\ Usable(r)
  /\ snapshot[r] = {} \/ Cardinality(todo[r]) = BatchSize
  /\ todo[r] # {}
  /\ snapshot' = [snapshot EXCEPT ![r] = {}]
  /\ pc' = [pc EXCEPT ![r] = "publish"]
  /\ UNCHANGED <<row, clock, held, todo, seen, draft, sent, lost, cancelled,
                 delivered, disruptions>>

\* len(claimed) == 0: the deferred Rollback, then the select.
ClaimReturnsNothing(r) ==
  /\ pc[r] = "lock"
  /\ Usable(r)
  /\ snapshot[r] = {}
  /\ todo[r] = {}
  /\ EndPass(r, "sleep")
  /\ UNCHANGED <<row, delivered, disruptions>>

\* The claim or the commit fails: RunOnce returns the error and rolls back.
PassFails(r) ==
  /\ pc[r] \in {"claim", "lock", "commit"}
  /\ ~Usable(r)
  /\ EndPass(r, AfterError(r))
  /\ UNCHANGED <<row, delivered, disruptions>>

-----------------------------------------------------------------------------
(* publishOne and recordFailure                                            *)

\* The transport accepts the event and says so.
PublishOk(r, e) ==
  /\ pc[r] = "publish"
  /\ First(e, todo[r])
  /\ e \notin Poison
  /\ delivered' = [delivered EXCEPT ![e] = @ + 1]
  /\ pc' = [pc EXCEPT ![r] = "mark"]
  /\ UNCHANGED <<row, clock, snapshot, held, todo, seen, draft, sent, lost, cancelled,
                 disruptions>>

PublishFails(r, e) ==
  /\ pc[r] = "publish"
  /\ First(e, todo[r])
  /\ pc' = [pc EXCEPT ![r] = "record"]
  /\ UNCHANGED <<row, clock, snapshot, held, todo, seen, draft, sent, lost, cancelled,
                 delivered, disruptions>>

\* The transport accepts the event, yet Publish returns an error.
PublishUnacknowledged(r, e) ==
  /\ pc[r] = "publish"
  /\ First(e, todo[r])
  /\ e \notin Poison
  /\ Disrupt
  /\ delivered' = [delivered EXCEPT ![e] = @ + 1]
  /\ pc' = [pc EXCEPT ![r] = "record"]
  /\ UNCHANGED <<row, clock, snapshot, held, todo, seen, draft, sent, lost, cancelled>>

\* The loop goes to the next claimed event, whatever became of this one.
NextEvent(r, e) ==
  /\ todo' = [todo EXCEPT ![r] = @ \ {e}]
  /\ pc' = [pc EXCEPT ![r] = IF todo[r] = {e} THEN "commit" ELSE "publish"]

\* Execs that fail return an error that the loop swallows with continue.
MarkPublished(r, e) ==
  /\ pc[r] = "mark"
  /\ First(e, todo[r])
  /\ IF Usable(r)
       THEN /\ draft' = [draft EXCEPT ![r][e] = Published]
            /\ sent' = [sent EXCEPT ![r] = TRUE]
       ELSE UNCHANGED <<draft, sent>>
  /\ NextEvent(r, e)
  /\ UNCHANGED <<row, clock, snapshot, held, seen, lost, cancelled, delivered, disruptions>>

\* Mutated form of RecordFailure: an exhausted event is marked published so that
\* the relay is rid of it.
RecordFailureAsPublished(r, e) ==
  /\ pc[r] = "record"
  /\ First(e, todo[r])
  /\ LET attempts == seen[r][e] + 1
     IN  draft' = [draft EXCEPT ![r][e] =
                     IF ~Usable(r) THEN @
                     ELSE IF attempts >= MaxAttempts THEN Published
                     ELSE Failed(RetryDelay(attempts))]
  /\ NextEvent(r, e)
  /\ UNCHANGED <<row, clock, snapshot, held, seen, sent, lost, cancelled,
                 delivered, disruptions>>

RecordFailure(r, e) ==
  /\ pc[r] = "record"
  /\ First(e, todo[r])
  /\ IF Usable(r)
       THEN draft' = [draft EXCEPT ![r][e] = Failed(RetryDelay(seen[r][e] + 1))]
       ELSE UNCHANGED draft
  /\ NextEvent(r, e)
  /\ UNCHANGED <<row, clock, snapshot, held, seen, sent, lost, cancelled,
                 delivered, disruptions>>

\* The commit installs the row updates.  published > 0 loops at once, else the
\* relay sleeps.
Commit(r) ==
  /\ pc[r] = "commit"
  /\ Usable(r)
  /\ row' = [e \in Events |-> Updated(r, e)]
  /\ EndPass(r, IF sent[r] THEN "begin" ELSE "sleep")
  /\ UNCHANGED <<delivered, disruptions>>

\* The database commits but the relay does not hear of it, because the
\* connection or the context went away under the COMMIT.
CommitUnacknowledged(r) ==
  /\ pc[r] = "commit"
  /\ Usable(r)
  /\ Disrupt
  /\ row' = [e \in Events |-> Updated(r, e)]
  /\ EndPass(r, "sleep")
  /\ UNCHANGED delivered

-----------------------------------------------------------------------------
(* The surroundings                                                        *)

\* An ingest commits its event.  Ids are handed out at the insert, so events
\* appear in any order, and next_attempt_at is the start of the ingest's own
\* transaction, age ticks ago.
Enqueue(e, age) ==
  /\ row[e].state = "absent"
  /\ row' = [row EXCEPT ![e] = [state |-> "pending", attempts |-> 0, wait |-> -age]]
  /\ UNCHANGED <<relayVars, delivered, disruptions>>

\* Mutated form of Requeue: the operator also clears published_at.
RequeueForAll(e) ==
  /\ row[e].state # "absent"
  /\ row[e].attempts = MaxAttempts
  /\ ~Locked(e)
  /\ Disrupt
  /\ row' = [row EXCEPT ![e] = [state |-> "pending", attempts |-> 0, wait |-> 0]]
  /\ UNCHANGED <<relayVars, delivered>>

\* The runbook's UPDATE for an event the operator saw parked.  It waits for the
\* row lock, and it does not look at published_at.
Requeue(e) ==
  /\ row[e].state # "absent"
  /\ row[e].attempts = MaxAttempts
  /\ ~Locked(e)
  /\ Disrupt
  /\ row' = [row EXCEPT ![e] = [state |-> row[e].state, attempts |-> 0, wait |-> 0]]
  /\ UNCHANGED <<relayVars, delivered>>

\* Begin fails: the database is briefly unreachable.
BeginFails(r) ==
  /\ pc[r] = "begin"
  /\ ~cancelled[r]
  /\ Disrupt
  /\ EndPass(r, "sleep")
  /\ UNCHANGED <<row, delivered>>

\* The server drops the session of an open transaction and rolls it back: the
\* locks are free at once, while the relay learns of it at its next statement.
LoseConnection(r) ==
  /\ pc[r] \in InPass
  /\ ~lost[r]
  /\ Disrupt
  /\ lost' = [lost EXCEPT ![r] = TRUE]
  /\ held' = [held EXCEPT ![r] = {}]
  /\ draft' = [draft EXCEPT ![r] = NoDraft]
  /\ UNCHANGED <<row, pc, clock, snapshot, todo, seen, sent, cancelled, delivered>>

\* SIGTERM cancels ctx.
Cancel(r) ==
  /\ pc[r] # "stopped"
  /\ ~cancelled[r]
  /\ Disrupt
  /\ cancelled' = [cancelled EXCEPT ![r] = TRUE]
  /\ UNCHANGED <<row, pc, clock, snapshot, held, todo, seen, draft, sent, lost, delivered>>

Crash(r) ==
  /\ pc[r] # "stopped"
  /\ Disrupt
  /\ EndPass(r, "stopped")
  /\ UNCHANGED <<row, delivered>>

\* A running relay is never slower than MaxPass and wakes on time.
Tick ==
  /\ \A r \in Relays :
       \/ pc[r] = "stopped"
       \/ clock[r] < (IF pc[r] = "sleep" THEN PollInterval ELSE MaxPass)
  /\ row' = [e \in Events |->
               IF row[e].state = "pending" /\ row[e].wait > -MaxPass
                 THEN [row[e] EXCEPT !.wait = @ - 1]
                 ELSE row[e]]
  /\ clock' = [r \in Relays |-> IF pc[r] = "stopped" THEN 0 ELSE clock[r] + 1]
  /\ UNCHANGED <<pc, snapshot, held, todo, seen, draft, sent, lost, cancelled,
                 delivered, disruptions>>

-----------------------------------------------------------------------------

Publish(r) == \E e \in Events : PublishOk(r, e) \/ PublishFails(r, e)

Step(r) ==
  \/ Start(r) \/ Begin(r) \/ StopIdle(r) \/ Wake(r)
  \/ TakeSnapshot(r) \/ ClaimReturns(r) \/ ClaimReturnsNothing(r) \/ PassFails(r)
  \/ Publish(r) \/ Commit(r)
  \/ \E e \in Events : LockRow(r, e) \/ MarkPublished(r, e) \/ RecordFailure(r, e)

Disruption(r) ==
  \/ BeginFails(r) \/ LoseConnection(r) \/ Cancel(r) \/ Crash(r) \/ CommitUnacknowledged(r)
  \/ \E e \in Events : PublishUnacknowledged(r, e)

Next ==
  \/ \E r \in Relays : Step(r) \/ Disruption(r)
  \/ \E e \in Events : Requeue(e)
  \/ \E e \in Events, age \in 0..MaxPass : Enqueue(e, age)
  \/ Tick

Spec == Init /\ [][Next]_vars

\* The scheduler runs every relay and the clock; a supervisor restarts a
\* stopped relay (Start is a Step); a transport asked for ever to take an event
\* that is not poison takes it.
Fairness ==
  /\ WF_vars(Tick)
  /\ \A r \in Relays : WF_vars(Step(r))
  /\ \A e \in Events \ Poison : SF_vars(\E r \in Relays : PublishOk(r, e))

FairSpec == Spec /\ Fairness

-----------------------------------------------------------------------------
(* Properties                                                              *)

\* The variables keep to their types; attempts saturate at MaxAttempts.
TypeOK ==
  /\ row \in [Events -> Rows]
  /\ pc \in [Relays -> Phases]
  /\ clock \in [Relays -> Nat]
  /\ snapshot \in [Relays -> SUBSET Events]
  /\ held \in [Relays -> SUBSET Events]
  /\ todo \in [Relays -> SUBSET Events]
  /\ seen \in [Relays -> [Events -> 0..MaxAttempts]]
  /\ draft \in [Relays -> [Events -> Updates]]
  /\ sent \in [Relays -> BOOLEAN]
  /\ lost \in [Relays -> BOOLEAN]
  /\ cancelled \in [Relays -> BOOLEAN]
  /\ delivered \in [Events -> Nat]
  /\ disruptions \in 0..MaxDisruptions

\* claimPending: replicas claim disjoint sets, and what a relay with a live
\* connection works on or has drafted is locked by it, still unpublished, and
\* has the attempts the claim read: the Go side (recordFailure's c.attempts)
\* and the SQL side (attempts = attempts + 1) count the same thing.
ClaimsAreExclusive ==
  /\ \A r, s \in Relays : r # s => held[r] \cap held[s] = {}
  /\ \A r \in Relays, e \in Events :
       ~lost[r] /\ (e \in todo[r] \/ draft[r][e].kind # "none") =>
         /\ e \in held[r]
         /\ row[e].state = "pending"
         /\ e \in todo[r] => row[e].attempts = seen[r][e]

\* The outbox never loses an event: published_at is set only on events the
\* transport accepted, whatever crashed, timed out or answered twice.
SettledWasDelivered ==
  \A e \in Events : row[e].state = "published" => delivered[e] > 0

\* Every redelivery is paid for by a disruption (a crash, a lost connection, a
\* cancelled pass, an ambiguous answer), at most one per event: running several
\* relays delivers nothing twice.
DuplicatesBoundedByDisruptions ==
  \A e \in Events : delivered[e] <= 1 + disruptions

\* The audit trail is final: once an event's published_at is committed it stays
\* set, and no relay's update touches the row again; only the operator's requeue
\* may reset its counter.
PublishedRowIsFinal ==
  [][\A e \in Events : row[e].state = "published" =>
       /\ row'[e].state = "published"
       /\ row'[e].attempts # row[e].attempts => Requeue(e)]_vars

\* A failed publish schedules its next attempt in the future, also when the relay
\* does not hear of the commit.
FailureIsScheduledAhead ==
  [][\A r \in Relays, e \in Events :
       (Commit(r) \/ CommitUnacknowledged(r)) /\ draft[r][e].kind = "failed" =>
         row'[e].wait > 0]_vars

\* A claim is never stale: between the claim's snapshot and the row lock another
\* relay may have failed to publish the event and backed it off, yet a relay with
\* a live connection holds only rows that were due when its pass began.
ClaimsAreDue ==
  \A r \in Relays : ~lost[r] => \A e \in held[r] : row[e].wait <= -clock[r]

\* One poison event must not stop the others: every event the transport can take
\* is eventually settled, whatever is disrupted and however many events fail.
HealthyEventsSettle ==
  \A e \in Events \ Poison : row[e].state = "pending" ~> row[e].state = "published"

\* The inductive strengthening of ClaimsAreExclusive and ClaimsAreDue: what a
\* relay holds is due and unpublished, it holds what it works on, and nothing
\* outside a pass or after its transaction was lost.
PassOK(r) ==
  /\ pc[r] \notin InPass \/ lost[r] => held[r] = {} /\ draft[r] = NoDraft
  /\ pc[r] \notin InPass => todo[r] = {} /\ ~lost[r]
  /\ \A e \in held[r] : row[e].state = "pending" /\ row[e].wait <= -clock[r]
  /\ \A e \in Events :
       ~lost[r] /\ (e \in todo[r] \/ draft[r][e].kind # "none") =>
         e \in held[r] /\ (e \in todo[r] => row[e].attempts = seen[r][e])

LockInv ==
  /\ \A r, s \in Relays : r # s => held[r] \cap held[s] = {}
  /\ \A r \in Relays : PassOK(r)

\* The inductive strengthening of SettledWasDelivered: an event about to be
\* marked, or marked in an open transaction, was delivered, and what a relay
\* works on exists, even when its transaction is gone.
DeliveryInv ==
  /\ SettledWasDelivered
  /\ \A r \in Relays : \A e \in todo[r] : row[e].state # "absent"
  /\ \A r \in Relays, e \in Events :
       \/ draft[r][e].kind = "published"
       \/ pc[r] = "mark" /\ First(e, todo[r])
       => delivered[e] > 0

\* The inductive strengthening of DuplicatesBoundedByDisruptions.  The transport
\* has been given e by r, whose transaction is to say so.
Delivering(r, e) ==
  draft[r][e].kind = "published" \/ (pc[r] = "mark" /\ First(e, todo[r]))

\* Relays that may yet deliver e though their transaction can no longer commit:
\* each has been paid for, and has delivered nothing for it so far.
Adrift(e) == {r \in Relays : ~Usable(r) /\ e \in todo[r] /\ ~Delivering(r, e)}

\* A delivery of e is settled, or will be unless something is disrupted.
Underway(e) ==
  row[e].state = "published" \/ \E r \in Relays : Usable(r) /\ Delivering(r, e)

DuplicateInv ==
  /\ \A r \in Relays :
       /\ pc[r] \in {"claim", "lock"} => draft[r] = NoDraft
       /\ \A e \in todo[r] : draft[r][e].kind = "none"
  /\ \A e \in Events :
       delivered[e] + Cardinality(Adrift(e)) <= disruptions + (IF Underway(e) THEN 1 ELSE 0)

\* The condition on the options under which FailureIsScheduledAhead holds: the
\* backoff counts from the start of the pass, so it has to reach past its end.
BackoffOutlastsPass ==
  \A attempts \in 1..MaxAttempts : RetryDelay(attempts) > MaxPass

\* The inductive invariant behind it.
BackoffInv ==
  \A r \in Relays :
    /\ pc[r] \in InPass => clock[r] <= MaxPass
    /\ \A e \in Events : draft[r][e].kind = "failed" => draft[r][e].backoff > MaxPass

\* The relays implement the at-least-once contract of the outbox.
Contract == INSTANCE OutboxContract WITH
  queued <- {e \in Events : row[e].state # "absent"},
  delivered <- {e \in Events : delivered[e] > 0},
  settled <- {e \in Events : row[e].state = "published"}

ImplementsContract == Contract!Spec
=============================================================================
