---------------------------- MODULE PostgresStore ----------------------------
(***************************************************************************)
(* Store.Ingest of src/internal/store/postgres/postgres.go: concurrent     *)
(* requests record transactions under their idempotency keys, each in a    *)
(* READ COMMITTED transaction of its own that also queues the outbox       *)
(* event.  A call is one run of Ingest; it mints the transaction id and    *)
(* the event id it uses, so its name stands for both.  A producer sends    *)
(* one submission, again after an error or a timeout and again when it     *)
(* merely replays, each time as a new call.                                *)
(*                                                                         *)
(* The two ends of a transaction are kept apart: pc is the handler, tx the *)
(* server's session, which outlives a handler whose context is cancelled   *)
(* and may still carry out a COMMIT that was under way.                    *)
(***************************************************************************)
EXTENDS Integers, FiniteSets

CONSTANTS
  Producers, Keys,
  KeyFor,         \* [Producers -> Keys], (source, source_reference)
  ContentFor,     \* the fingerprint of each producer's submission
  PoolSize,       \* DATABASE_MAX_CONNS
  NoCall,         \* no row under a key
  MaxCalls,       \* bound: pushes of each producer, [Producers -> Nat]
  MaxFaults       \* bound: failing statements, timeouts, lost sessions

Calls == UNION {{p} \X (1..MaxCalls[p]) : p \in Producers}
KeyOf == [c \in Calls |-> KeyFor[c[1]]]
FingerprintOf == [c \in Calls |-> ContentFor[c[1]]]

ASSUME ProducersAssumption == KeyFor \in [Producers -> Keys] /\ NoCall \notin Calls
ASSUME PoolAssumption == PoolSize \in Nat \ {0}
ASSUME BoundsAssumption == MaxCalls \in [Producers -> Nat] /\ MaxFaults \in Nat

VARIABLES
  table,    \* transactions: the call recorded under each key, or NoCall
  events,   \* outbox_events: the calls whose event is committed
  pc,       \* the handler's place in Ingest
  tx,       \* the server's session for the call
  written,  \* the rows the session has inserted: "row", "event"
  outcome,  \* what ingestInTx has returned
  answer,   \* what the producer was told
  faults    \* how many of MaxFaults have been used

vars == <<table, events, pc, tx, written, outcome, answer, faults>>

Contract == INSTANCE IngestContract

Pending == Contract!Pending
Error == Contract!Error
Created(c) == Contract!Created(c)
Duplicate(c, stored) == Contract!Duplicate(c, stored)
Answers == [status : {"pending", "error", "created", "duplicate"},
            id : Calls \cup {NoCall},
            divergent : BOOLEAN]

Working == {"insert", "event", "readback", "commit", "committing"}
Places == Working \cup {"idle", "begin", "answered", "gone"}
Sessions == {"none", "open", "committing", "committed", "rolledback"}

Init ==
  /\ table = [k \in Keys |-> NoCall]
  /\ events = {}
  /\ pc = [c \in Calls |-> "idle"]
  /\ tx = [c \in Calls |-> "none"]
  /\ written = [c \in Calls |-> {}]
  /\ outcome = [c \in Calls |-> Pending]
  /\ answer = [c \in Calls |-> Pending]
  /\ faults = 0

Live(c) == tx[c] \in {"open", "committing"}

\* Mutated form of Connections: a handler whose context is cancelled goes without
\* its deferred Rollback, so its connection never comes back.
ConnectionsKept == {c \in Calls : pc[c] \in Working \cup {"gone"} /\ tx[c] # "none"}

\* A pool connection belongs to a handler from Begin until Ingest returns.
Connections == {c \in Calls : pc[c] \in Working}

\* Another transaction has inserted the key and is not over: its row makes an
\* insert of the same key wait.
KeyBusy(c) ==
  \E d \in Calls \ {c} : KeyOf[d] = KeyOf[c] /\ Live(d) /\ "row" \in written[d]

Fault ==
  /\ faults < MaxFaults
  /\ faults' = faults + 1

Goto(c, place) == pc' = [pc EXCEPT ![c] = place]

\* Ingest returns: with an error after the deferred Rollback, or what was found.
Return(c, result) ==
  /\ Goto(c, "answered")
  /\ answer' = [answer EXCEPT ![c] = result]

-----------------------------------------------------------------------------
(* The producer                                                            *)

\* A producer pushes its submission again only when the last push is over: it
\* was answered, or the producer gave up on it.
Push(p, n) ==
  LET c == <<p, n>>
  IN  /\ pc[c] = "idle"
      /\ n > 1 => pc[<<p, n - 1>>] \in {"answered", "gone"}
      /\ Goto(c, "begin")
      /\ UNCHANGED <<table, events, tx, written, outcome, answer, faults>>

-----------------------------------------------------------------------------
(* Ingest and ingestInTx                                                   *)

Begin(c) ==
  /\ pc[c] = "begin"
  /\ Cardinality(Connections) < PoolSize
  /\ tx' = [tx EXCEPT ![c] = "open"]
  /\ Goto(c, "insert")
  /\ UNCHANGED <<table, events, written, outcome, answer, faults>>

\* Mutated form of InsertNew: a read-then-write, which does not wait for a
\* transaction that has inserted the key and not committed.
InsertWithoutArbiter(c) ==
  /\ pc[c] = "insert" /\ tx[c] = "open"
  /\ table[KeyOf[c]] = NoCall
  /\ written' = [written EXCEPT ![c] = {"row"}]
  /\ Goto(c, "event")
  /\ UNCHANGED <<table, events, tx, outcome, answer, faults>>

\* INSERT ... ON CONFLICT DO NOTHING RETURNING id.
InsertNew(c) ==
  /\ pc[c] = "insert" /\ tx[c] = "open"
  /\ ~KeyBusy(c)
  /\ table[KeyOf[c]] = NoCall
  /\ written' = [written EXCEPT ![c] = {"row"}]
  /\ Goto(c, "event")
  /\ UNCHANGED <<table, events, tx, outcome, answer, faults>>

\* Mutated form of InsertConflict: the insert does not wait for the other
\* transaction but counts its uncommitted row as a conflict.
InsertConflictAtOnce(c) ==
  /\ pc[c] = "insert" /\ tx[c] = "open"
  /\ KeyBusy(c) \/ table[KeyOf[c]] # NoCall
  /\ Goto(c, "readback")
  /\ UNCHANGED <<table, events, tx, written, outcome, answer, faults>>

InsertConflict(c) ==
  /\ pc[c] = "insert" /\ tx[c] = "open"
  /\ ~KeyBusy(c)
  /\ table[KeyOf[c]] # NoCall
  /\ Goto(c, "readback")
  /\ UNCHANGED <<table, events, tx, written, outcome, answer, faults>>

\* Mutated form of WriteOutboxEvent: the event is written outside the
\* transaction, through the pool.
WriteEventOutsideTx(c) ==
  /\ pc[c] = "event" /\ tx[c] = "open"
  /\ events' = events \cup {c}
  /\ outcome' = [outcome EXCEPT ![c] = Created(c)]
  /\ Goto(c, "commit")
  /\ UNCHANGED <<table, tx, written, answer, faults>>

\* Mutated form of WriteOutboxEvent: the event is queued with a call of its own,
\* which asks the pool for another connection while the row is held.
WriteEventThroughPool(c) ==
  /\ pc[c] = "event" /\ tx[c] = "open"
  /\ written' = [written EXCEPT ![c] = @ \cup {"event"}]
  /\ outcome' = [outcome EXCEPT ![c] = Created(c)]
  /\ Goto(c, "begin")
  /\ UNCHANGED <<table, events, tx, answer, faults>>

WriteOutboxEvent(c) ==
  /\ pc[c] = "event" /\ tx[c] = "open"
  /\ written' = [written EXCEPT ![c] = @ \cup {"event"}]
  /\ outcome' = [outcome EXCEPT ![c] = Created(c)]
  /\ Goto(c, "commit")
  /\ UNCHANGED <<table, events, tx, answer, faults>>

\* Mutated form of ReadBack: a divergent replay is answered with a status of its
\* own.
ReadBackConflict(c) ==
  LET found == Duplicate(c, table[KeyOf[c]])
  IN  /\ pc[c] = "readback" /\ tx[c] = "open" /\ table[KeyOf[c]] # NoCall
      /\ outcome' = [outcome EXCEPT ![c] =
                       IF found.divergent THEN [found EXCEPT !.status = "conflict"] ELSE found]
      /\ Goto(c, "commit")
      /\ UNCHANGED <<table, events, tx, written, answer, faults>>

\* The second statement has a snapshot of its own, so it sees the row that made
\* the insert a no-op; without a row it is ErrNotFound.
ReadBack(c) ==
  LET stored == table[KeyOf[c]]
  IN  /\ pc[c] = "readback" /\ tx[c] = "open"
      /\ IF stored # NoCall
           THEN /\ outcome' = [outcome EXCEPT ![c] = Duplicate(c, stored)]
                /\ Goto(c, "commit")
                /\ UNCHANGED <<tx, answer>>
           ELSE /\ Return(c, Error)
                /\ tx' = [tx EXCEPT ![c] = "rolledback"]
                /\ UNCHANGED outcome
      /\ UNCHANGED <<table, events, written, faults>>

SendCommit(c) ==
  /\ pc[c] = "commit" /\ tx[c] = "open"
  /\ tx' = [tx EXCEPT ![c] = "committing"]
  /\ Goto(c, "committing")
  /\ UNCHANGED <<table, events, written, outcome, answer, faults>>

\* Mutated forms of CommitReturns: the error of Commit is dropped; and the
\* deferred Rollback's "tx is closed" becomes the error of Ingest.
CommitReturnsAnyway(c) ==
  /\ pc[c] = "committing" /\ tx[c] \in {"committed", "rolledback"}
  /\ Return(c, outcome[c])
  /\ UNCHANGED <<table, events, tx, written, outcome, faults>>

CommitReturnsRollbackError(c) ==
  /\ pc[c] = "committing" /\ tx[c] = "committed"
  /\ Return(c, Error)
  /\ UNCHANGED <<table, events, tx, written, outcome, faults>>

CommitReturns(c) ==
  /\ pc[c] = "committing" /\ tx[c] = "committed"
  /\ Return(c, outcome[c])
  /\ UNCHANGED <<table, events, tx, written, outcome, faults>>

\* A statement finds that its transaction is gone.
StatementFails(c) ==
  /\ pc[c] \in Working /\ tx[c] = "rolledback"
  /\ Return(c, Error)
  /\ UNCHANGED <<table, events, tx, written, outcome, faults>>

\* Any statement but COMMIT fails on its own account (a constraint, a payload
\* that cannot be marshalled, a stored currency no longer known), and the
\* deferred Rollback undoes what was written.
IngestFails(c) ==
  /\ pc[c] \in {"begin", "insert", "event", "readback"}
  /\ tx[c] \in {"none", "open"}
  /\ Fault
  /\ tx' = [tx EXCEPT ![c] = "rolledback"]
  /\ Return(c, Error)
  /\ UNCHANGED <<table, events, written, outcome>>

-----------------------------------------------------------------------------
(* The server's end                                                        *)

\* Mutated form of ServerCommit: ON CONFLICT DO UPDATE, a duplicate overwrites.
ServerCommitOverwriting(c) ==
  /\ tx[c] = "committing"
  /\ tx' = [tx EXCEPT ![c] = "committed"]
  /\ table' = [table EXCEPT ![KeyOf[c]] = c]
  /\ events' = IF "event" \in written[c] THEN events \cup {c} ELSE events
  /\ UNCHANGED <<pc, written, outcome, answer, faults>>

ServerCommit(c) ==
  /\ tx[c] = "committing"
  /\ tx' = [tx EXCEPT ![c] = "committed"]
  /\ table' = IF "row" \in written[c] THEN [table EXCEPT ![KeyOf[c]] = c] ELSE table
  /\ events' = IF "event" \in written[c] THEN events \cup {c} ELSE events
  /\ UNCHANGED <<pc, written, outcome, answer, faults>>

\* Mutated form of ServerRollback: the session of a gone handler stays open.
ServerNeverRollsBack(c) ==
  /\ pc[c] = "gone" /\ Live(c)
  /\ UNCHANGED vars

\* The session of a handler that is gone ends without a commit.
ServerRollback(c) ==
  /\ pc[c] = "gone" /\ Live(c)
  /\ tx' = [tx EXCEPT ![c] = "rolledback"]
  /\ UNCHANGED <<table, events, pc, written, outcome, answer, faults>>

\* Failover or a dropped connection, noticed by the server first.
LoseSession(c) ==
  /\ Live(c)
  /\ Fault
  /\ tx' = [tx EXCEPT ![c] = "rolledback"]
  /\ UNCHANGED <<table, events, pc, written, outcome, answer>>

\* The producer disconnects or times out, or the API process dies: the context
\* is cancelled and the handler is gone, its session not yet.
Abandon(c) ==
  /\ pc[c] \in Working \cup {"begin"}
  /\ Fault
  /\ Goto(c, "gone")
  /\ answer' = [answer EXCEPT ![c] = Error]
  /\ UNCHANGED <<table, events, tx, written, outcome>>

-----------------------------------------------------------------------------

Handler(c) ==
  \/ Begin(c) \/ InsertNew(c) \/ InsertConflict(c) \/ WriteOutboxEvent(c) \/ ReadBack(c)
  \/ SendCommit(c) \/ CommitReturns(c) \/ StatementFails(c)

Server(c) == ServerCommit(c) \/ ServerRollback(c)

Failure(c) == IngestFails(c) \/ LoseSession(c) \/ Abandon(c)

\* The bounded run is over: every push has been made and answered.
Done ==
  /\ \A c \in Calls : pc[c] \in {"answered", "gone"} /\ ~Live(c)
  /\ UNCHANGED vars

Next ==
  \/ \E p \in Producers : \E n \in 1..MaxCalls[p] : Push(p, n)
  \/ \E c \in Calls : Handler(c) \/ Server(c) \/ Failure(c)
  \/ Done

Spec == Init /\ [][Next]_vars

Accepted(c) == answer[c].status \in {"created", "duplicate"}

\* Some handler, session or producer that can go on does.  Pushes are finite
\* here, so none can be overtaken for ever in the pool or at an insert.
Works ==
  \/ \E p \in Producers : \E n \in 1..MaxCalls[p] : Push(p, n)
  \/ \E c \in Calls : Handler(c) \/ Server(c)

Fairness == WF_vars(Works)

FairSpec == Spec /\ Fairness

-----------------------------------------------------------------------------
(* Properties                                                              *)

\* The variables keep to their types: every row and every answer is some call's.
TypeOK ==
  /\ table \in [Keys -> Calls \cup {NoCall}]
  /\ events \subseteq Calls
  /\ pc \in [Calls -> Places]
  /\ tx \in [Calls -> Sessions]
  /\ written \in [Calls -> SUBSET {"row", "event"}]
  /\ outcome \in [Calls -> Answers]
  /\ answer \in [Calls -> Answers]
  /\ faults \in 0..MaxFaults

\* The transactional outbox: a recorded transaction has its event and an event
\* its transaction, in every state another process can see, also after crashes,
\* lost sessions and replays.
RowIffEvent == events = {c \in Calls : table[KeyOf[c]] = c}

\* Billed once: whatever calls overlap, the id a producer is given with 201 or
\* 200 is the one recorded under its key, and 201 goes to the call that recorded
\* it and to no other.  ADR-0006: a duplicate is reported divergent exactly when
\* its content differs from what is recorded under the key.
AnswersAgree ==
  \A c \in Calls : Accepted(c) =>
    /\ table[KeyOf[c]] = answer[c].id
    /\ answer[c].status = "created" <=> table[KeyOf[c]] = c
    /\ answer[c].divergent <=> FingerprintOf[c] # FingerprintOf[answer[c].id]

\* ErrNotFound cannot happen in Ingest: a no-op insert left a committed row
\* behind it for the read-back.
ReadBackFindsRow ==
  \A c \in Calls : pc[c] = "readback" /\ tx[c] = "open" => table[KeyOf[c]] # NoCall

\* What a handler may wait for: a connection of the pool, which any of those that
\* have one may give back, and the key that another session holds.
HoldsKey(c) == Live(c) /\ "row" \in written[c]
WaitsForConnection(c) == pc[c] = "begin" /\ Cardinality(Connections) >= PoolSize
WaitsForKey(c) == pc[c] = "insert" /\ tx[c] = "open" /\ KeyBusy(c)
Waits(c) == WaitsForConnection(c) \/ WaitsForKey(c)

Blocks(d, c) ==
  \/ WaitsForConnection(c) /\ d \in Connections
  \/ WaitsForKey(c) /\ d # c /\ KeyOf[d] = KeyOf[c] /\ HoldsKey(d)

\* A pool smaller than the pushes under way and locks held across statements make
\* no circle: behind every call that waits, at once or behind one other, is a
\* call that waits for nothing.  Whoever holds a key has its connection.
NoCircularWait ==
  \A c \in Calls : Waits(c) =>
    \E d \in Calls :
      /\ ~Waits(d)
      /\ Blocks(d, c) \/ \E e \in Calls : Blocks(e, c) /\ Blocks(d, e)

\* A recorded transaction and a queued event stay as they are.
RecordsAreImmutable ==
  [][/\ \A k \in Keys : table[k] # NoCall => table'[k] = table[k]
     /\ events \subseteq events']_vars

\* Nobody waits for ever, though more handlers than the pool has connections wait
\* for one, and those that have one wait for each other's keys, held also by
\* sessions whose handler is gone: again and again there is a time when every push
\* that has begun is answered or given up.
EveryPushEnds == []<>(\A c \in Calls : pc[c] \in {"idle", "answered", "gone"})

-----------------------------------------------------------------------------
(* The inductive invariant behind the safety properties                    *)

\* What c is to answer if its transaction commits agrees with what it has
\* written and with the row it has read, which is final.
Decided(c) ==
  \/ /\ written[c] = {"row", "event"}
     /\ outcome[c] = Created(c)
  \/ /\ written[c] = {}
     /\ table[KeyOf[c]] \notin {NoCall, c}
     /\ outcome[c] = Duplicate(c, table[KeyOf[c]])

\* One call: its handler, its session and its answer fit together.
CallOK(c) ==
  /\ pc[c] \in {"idle", "begin"} => tx[c] = "none" /\ written[c] = {}
  /\ pc[c] \in {"insert", "event", "readback", "commit"} => tx[c] \in {"open", "rolledback"}
  /\ pc[c] = "committing" => tx[c] \in {"committing", "committed", "rolledback"}
  /\ pc[c] = "answered" => ~Live(c)
  /\ pc[c] \in {"insert", "readback"} => written[c] = {}
  /\ pc[c] = "event" => written[c] = {"row"}
  /\ pc[c] = "readback" /\ tx[c] = "open" => table[KeyOf[c]] # NoCall
  /\ pc[c] = "commit" \/ tx[c] \in {"committing", "committed"} => Decided(c)
  /\ tx[c] = "committed" /\ "row" \in written[c] => table[KeyOf[c]] = c
  /\ pc[c] \notin {"answered", "gone"} => answer[c] = Pending
  /\ pc[c] \in {"answered", "gone"} =>
       \/ answer[c] = Error
       \/ tx[c] = "committed" /\ answer[c] = outcome[c]

\* The unique index: one uncommitted row under a key, and only a key without a
\* committed row has one.
KeyOK ==
  \A c \in Calls : HoldsKey(c) =>
    /\ table[KeyOf[c]] = NoCall
    /\ \A d \in Calls \ {c} : KeyOf[d] = KeyOf[c] => ~HoldsKey(d)

\* A row is there because the transaction of its call is committed.
RecordOK ==
  \A k \in Keys : table[k] # NoCall =>
    /\ KeyOf[table[k]] = k
    /\ tx[table[k]] = "committed"
    /\ "row" \in written[table[k]]

StoreOK == TypeOK /\ (\A c \in Calls : CallOK(c)) /\ KeyOK /\ RecordOK /\ RowIffEvent

\* Calls take effect atomically, as transaction.Store demands.
ImplementsContract == Contract!Spec
=============================================================================
