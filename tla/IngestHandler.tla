---------------------------- MODULE IngestHandler ----------------------------
(***************************************************************************)
(* One instance of the HTTP API of src/internal/httpapi serving pushes     *)
(* concurrently: the middleware chain, contract validation, acceptance     *)
(* under the operator's policy, the store (one atomic step, as             *)
(* IngestContract promises) and the metrics, whose producer labels are     *)
(* bounded by src/internal/platform/metrics/labels.go.                     *)
(*                                                                         *)
(* A request carries a push.  What the operator's configuration makes of a *)
(* push is the constant Verdict; TransactionRules looks inside it.         *)
(***************************************************************************)
EXTENDS Integers, Sequences, FiniteSets

CONSTANTS
  Requests, Pushes, Keys, Sources, Policies,
  PushOf,        \* [Requests -> Pushes]
  KeyOf,         \* [Pushes -> Keys]
  SourceOf,      \* [Pushes -> Sources]
  Unknown,       \* sourceUnknown, the source of what breaks the contract
  ContractSays,  \* [Pushes -> {200, 400, 413}], the OpenAPI validator's status
  Unreadable,    \* pushes that the validator lets through and the handler cannot decode
  Verdict,       \* [Policies -> [Pushes -> the fingerprint accepted, or Rejected]]
  FirstPolicy,   \* the configuration the process starts with
  Rejected,
  LabelOf,       \* [Sources -> its label, cut at 64 bytes, or NotUTF8]
  NotUTF8,       \* the cut went through a character
  LabelLimit,    \* maxTrackedSources
  Other,         \* sourceOverflow
  NoRequest,     \* nothing is recorded under a key
  MaxFaults      \* bound: failing stores and id generators

ASSUME PushesAssumption ==
  /\ PushOf \in [Requests -> Pushes]
  /\ KeyOf \in [Pushes -> Keys] /\ SourceOf \in [Pushes -> Sources]
  /\ Unknown \in Sources
  /\ ContractSays \in [Pushes -> {200, 400, 413}]
  /\ Unreadable \subseteq Pushes
  /\ FirstPolicy \in Policies /\ NoRequest \notin Requests
ASSUME LabelAssumption == Other # NotUTF8
ASSUME LimitsAssumption == LabelLimit \in Nat /\ MaxFaults \in Nat

VARIABLES
  policy,    \* the configuration in force
  table,     \* the request that recorded each key's transaction, or NoRequest
  accepted,  \* the fingerprint Accept computed for each request
  replay,    \* whether the request's own push was on record when it arrived
  pc,        \* the request's place
  status,    \* the status its handler has decided on, 0 before that
  emit,      \* the counters its handler still has to increment, in order
  label,     \* the label of the increment under way, else Other
  seen,      \* the producers that have a label of their own
  counters,  \* the increments made: [counter, label, request]
  answer,    \* the status the producer was sent, 0 before that
  served,    \* http_requests_total: [status, request]
  faults     \* how many of MaxFaults have been used

vars == <<policy, table, accepted, replay, pc, status, emit, label, seen, counters, answer, served, faults>>

Places == {"idle", "accept", "ingest", "look", "track", "count", "respond",
           "panic", "serve", "done"}
Statuses == {0, 200, 201, 400, 413, 500}

Init ==
  /\ policy = FirstPolicy
  /\ table = [k \in Keys |-> NoRequest]
  /\ accepted = [r \in Requests |-> Rejected]
  /\ replay = [r \in Requests |-> FALSE]
  /\ pc = [r \in Requests |-> "idle"]
  /\ status = [r \in Requests |-> 0]
  /\ emit = [r \in Requests |-> <<>>]
  /\ label = [r \in Requests |-> Other]
  /\ seen = {}
  /\ counters = {}
  /\ answer = [r \in Requests |-> 0]
  /\ served = {}
  /\ faults = 0

\* The validator and the decoder have both let the push through.
Readable(u) == ContractSays[u] = 200 /\ u \notin Unreadable

\* The producer that the request's counters are labelled with.
Source(r) == IF Readable(PushOf[r]) THEN SourceOf[PushOf[r]] ELSE Unknown

Key(r) == KeyOf[PushOf[r]]

Fault ==
  /\ faults < MaxFaults
  /\ faults' = faults + 1

Goto(r, place) == pc' = [pc EXCEPT ![r] = place]

\* The handler has decided: it increments counters and then answers code.
Conclude(r, code, increments) ==
  /\ status' = [status EXCEPT ![r] = code]
  /\ emit' = [emit EXCEPT ![r] = increments]
  /\ Goto(r, IF increments = <<>> THEN "respond" ELSE "look")

-----------------------------------------------------------------------------
(* The request                                                             *)

\* The middleware chain, MaxBody and specValidator, which share nothing with
\* other requests.  What breaks the contract is counted as a failure of the source
\* "unknown", which competes for a label like any other.  (Here and in Accept the
\* code increments once a field: one increment stands for all, which have the label
\* of one source in common.)
Receive(r) ==
  LET code == ContractSays[PushOf[r]]
  IN  /\ pc[r] = "idle"
      /\ replay' = [replay EXCEPT ![r] =
           table[Key(r)] # NoRequest /\ PushOf[table[Key(r)]] = PushOf[r]]
      /\ CASE code = 200 -> Goto(r, "accept") /\ UNCHANGED <<status, emit>>
           [] code = 413 -> Conclude(r, 413, <<>>)
           [] OTHER -> Conclude(r, code, <<"validation_failure">>)
      /\ UNCHANGED <<policy, table, accepted, label, seen, counters, answer, served, faults>>

\* The body does not decode into the generated type, so its source is unknown.
DecodeFails(r) ==
  /\ pc[r] = "accept" /\ ~Readable(PushOf[r])
  /\ Conclude(r, 400, <<"rejected">>)
  /\ UNCHANGED <<policy, table, accepted, replay, label, seen, counters, answer, served, faults>>

\* Rules.Accept under the policy in force.
Accept(r) ==
  LET verdict == Verdict[policy][PushOf[r]]
  IN  /\ pc[r] = "accept" /\ Readable(PushOf[r])
      /\ accepted' = [accepted EXCEPT ![r] = verdict]
      /\ IF verdict = Rejected
           THEN Conclude(r, 400, <<"validation_failure", "rejected">>)
           ELSE Goto(r, "ingest") /\ UNCHANGED <<status, emit>>
      /\ UNCHANGED <<policy, table, replay, label, seen, counters, answer, served, faults>>

\* The entropy source fails, after the rules have passed the push.
NewIDFails(r) ==
  /\ pc[r] = "accept" /\ Readable(PushOf[r])
  /\ Verdict[policy][PushOf[r]] # Rejected
  /\ Fault
  /\ Conclude(r, 500, <<"error">>)
  /\ UNCHANGED <<policy, table, accepted, replay, label, seen, counters, answer, served>>

\* Mutated forms of Ingest: a duplicate overwrites the record; and a divergent
\* replay is not counted.
IngestOverwriting(r) ==
  /\ pc[r] = "ingest"
  /\ table' = [table EXCEPT ![Key(r)] = r]
  /\ Conclude(r, IF table[Key(r)] = NoRequest THEN 201 ELSE 200, <<"created">>)
  /\ UNCHANGED <<policy, accepted, replay, label, seen, counters, answer, served, faults>>

IngestDivergenceDropped(r) ==
  /\ pc[r] = "ingest"
  /\ table' = IF table[Key(r)] = NoRequest THEN [table EXCEPT ![Key(r)] = r] ELSE table
  /\ IF table[Key(r)] = NoRequest
       THEN Conclude(r, 201, <<"created">>)
       ELSE Conclude(r, 200, <<"duplicate">>)
  /\ UNCHANGED <<policy, accepted, replay, label, seen, counters, answer, served, faults>>

Ingest(r) ==
  LET stored == table[Key(r)]
      divergent == accepted[stored] # accepted[r]
  IN  /\ pc[r] = "ingest"
      /\ IF stored = NoRequest
           THEN /\ table' = [table EXCEPT ![Key(r)] = r]
                /\ Conclude(r, 201, <<"created">>)
           ELSE /\ Conclude(r, 200, IF divergent THEN <<"divergent", "duplicate">>
                                                 ELSE <<"duplicate">>)
                /\ UNCHANGED table
      /\ UNCHANGED <<policy, accepted, replay, label, seen, counters, answer, served, faults>>

\* Mutated form of IngestFails: the failure is not counted.
IngestFailsUncounted(r) ==
  /\ pc[r] = "ingest"
  /\ Fault
  /\ Conclude(r, 500, <<>>)
  /\ UNCHANGED <<policy, table, accepted, replay, label, seen, counters, answer, served>>

\* The store returns an error; the transaction may have been recorded.
IngestFails(r) ==
  /\ pc[r] = "ingest"
  /\ Fault
  /\ \/ UNCHANGED table
     \/ table[Key(r)] = NoRequest /\ table' = [table EXCEPT ![Key(r)] = r]
  /\ Conclude(r, 500, <<"error">>)
  /\ UNCHANGED <<policy, accepted, replay, label, seen, counters, answer, served>>

-----------------------------------------------------------------------------
(* A labelled increment: sourceLabels.label, then the counter              *)

Full == Cardinality(seen) >= LabelLimit

\* The fast path, under the read lock.
Look(r) ==
  LET own == LabelOf[Source(r)]
  IN  /\ pc[r] = "look"
      /\ label' = [label EXCEPT ![r] = IF own \in seen THEN own ELSE Other]
      /\ Goto(r, IF own \in seen \/ Full THEN "count" ELSE "track")
      /\ UNCHANGED <<policy, table, accepted, status, emit, seen, counters, replay, answer, served, faults>>

\* Mutated forms of Track: no second look for a slot under the write lock; and
\* a label that has been added meanwhile is not looked for.
TrackUnchecked(r) ==
  LET own == LabelOf[Source(r)]
  IN  /\ pc[r] = "track"
      /\ label' = [label EXCEPT ![r] = own]
      /\ seen' = seen \cup {own}
      /\ Goto(r, "count")
      /\ UNCHANGED <<policy, table, accepted, status, emit, counters, replay, answer, served, faults>>

TrackWithoutLookup(r) ==
  LET own == LabelOf[Source(r)]
  IN  /\ pc[r] = "track"
      /\ label' = [label EXCEPT ![r] = IF Full THEN Other ELSE own]
      /\ seen' = IF Full THEN seen ELSE seen \cup {own}
      /\ Goto(r, "count")
      /\ UNCHANGED <<policy, table, accepted, status, emit, counters, replay, answer, served, faults>>

\* The second look, under the write lock.
Track(r) ==
  LET own == LabelOf[Source(r)]
  IN  /\ pc[r] = "track"
      /\ IF own \in seen \/ ~Full
           THEN label' = [label EXCEPT ![r] = own] /\ seen' = seen \cup {own}
           ELSE label' = [label EXCEPT ![r] = Other] /\ UNCHANGED seen
      /\ Goto(r, "count")
      /\ UNCHANGED <<policy, table, accepted, status, emit, counters, replay, answer, served, faults>>

\* Mutated form of Count: the label is not checked.
CountAnyLabel(r) ==
  /\ pc[r] = "count"
  /\ counters' = counters \cup
       {[counter |-> Head(emit[r]), label |-> label[r], request |-> r]}
  /\ emit' = [emit EXCEPT ![r] = Tail(@)]
  /\ label' = [label EXCEPT ![r] = Other]
  /\ Goto(r, IF Len(emit[r]) = 1 THEN "respond" ELSE "look")
  /\ UNCHANGED <<policy, table, accepted, replay, status, seen, answer, served, faults>>

\* WithLabelValues(...).Inc(), which panics when the label is not UTF-8.
Count(r) ==
  /\ pc[r] = "count"
  /\ IF label[r] = NotUTF8
       THEN Goto(r, "panic") /\ UNCHANGED <<counters, emit>>
       ELSE /\ counters' = counters \cup
                 {[counter |-> Head(emit[r]), label |-> label[r], request |-> r]}
            /\ emit' = [emit EXCEPT ![r] = Tail(@)]
            /\ Goto(r, IF Len(emit[r]) = 1 THEN "respond" ELSE "look")
  /\ label' = [label EXCEPT ![r] = Other]
  /\ UNCHANGED <<policy, table, accepted, status, replay, seen, answer, served, faults>>

-----------------------------------------------------------------------------
(* The answer                                                              *)

\* writeJSON or writeError.
Respond(r) ==
  /\ pc[r] = "respond"
  /\ answer' = [answer EXCEPT ![r] = status[r]]
  /\ Goto(r, "serve")
  /\ UNCHANGED <<policy, table, accepted, status, emit, replay, label, seen, counters, served, faults>>

\* Mutated form of Recovered: Recover is outside Metrics in the chain.
RecoveredOutsideMetrics(r) ==
  /\ pc[r] = "panic"
  /\ answer' = [answer EXCEPT ![r] = 500]
  /\ status' = [status EXCEPT ![r] = 500]
  /\ Goto(r, "done")
  /\ UNCHANGED <<policy, table, accepted, emit, replay, label, seen, counters, served, faults>>

\* The Recover middleware turns the panic into an answer.
Recovered(r) ==
  /\ pc[r] = "panic"
  /\ answer' = [answer EXCEPT ![r] = 500]
  /\ status' = [status EXCEPT ![r] = 500]
  /\ Goto(r, "serve")
  /\ UNCHANGED <<policy, table, accepted, emit, replay, label, seen, counters, served, faults>>

\* The Metrics middleware, around Recover, counts the status that was written.
Serve(r) ==
  /\ pc[r] = "serve"
  /\ served' = served \cup {[status |-> status[r], request |-> r]}
  /\ Goto(r, "done")
  /\ UNCHANGED <<policy, table, accepted, status, emit, replay, label, seen, counters, answer, faults>>

\* TypeSet.Replace: the operator's types change while requests are in flight.
\* (As it stands the service only calls it at start-up; a restart with another
\* TRANSACTION_TYPES or DEFAULT_CURRENCY does the same to the pushes that follow.)
Reconfigure(p) ==
  /\ p # policy
  /\ policy' = p
  /\ UNCHANGED <<table, accepted, pc, status, emit, replay, label, seen, counters, answer, served, faults>>

-----------------------------------------------------------------------------

Handle(r) ==
  \/ Receive(r) \/ DecodeFails(r) \/ Accept(r) \/ Ingest(r) \/ Look(r) \/ Track(r) \/ Count(r)
  \/ Respond(r) \/ Recovered(r) \/ Serve(r)

Next ==
  \/ \E r \in Requests : Handle(r) \/ NewIDFails(r) \/ IngestFails(r)
  \/ \E p \in Policies : Reconfigure(p)

Spec == Init /\ [][Next]_vars

-----------------------------------------------------------------------------
(* Properties                                                              *)

Holder(r) == table[Key(r)]

Increments(counter) == {i.request : i \in {i \in counters : i.counter = counter}}

Counters == {"validation_failure", "rejected", "error", "created", "divergent", "duplicate"}

\* What a handler may still have to count: at most two increments, in the order
\* of the code.
Emissions ==
  {<<>>} \cup {<<c>> : c \in Counters}
    \cup {<<"validation_failure", "rejected">>, <<"divergent", "duplicate">>}

\* The variables keep to their types; no series carries a label that is not UTF-8.
TypeOK ==
  /\ policy \in Policies
  /\ table \in [Keys -> Requests \cup {NoRequest}]
  /\ accepted \in [Requests ->
       {Rejected} \cup {Verdict[q][u] : q \in Policies, u \in Pushes}]
  /\ replay \in [Requests -> BOOLEAN]
  /\ pc \in [Requests -> Places]
  /\ status \in [Requests -> Statuses]
  /\ emit \in [Requests -> Emissions]
  /\ seen \subseteq {LabelOf[s] : s \in Sources}
  /\ label \in [Requests -> {LabelOf[s] : s \in Sources} \cup {Other}]
  /\ counters \subseteq
       [counter : Counters,
        label : ({LabelOf[s] : s \in Sources} \cup {Other}) \ {NotUTF8},
        request : Requests]
  /\ answer \in [Requests -> Statuses]
  /\ served \subseteq [status : Statuses \ {0}, request : Requests]
  /\ faults \in 0..MaxFaults

\* Whatever happens to the other requests, a producer that is told 201 made the
\* record under its key, one that is told 200 did not, though there is one, and
\* one that is told 400 or 413 has left none.
StatusIsTrue ==
  \A r \in Requests :
    /\ answer[r] = 201 => Holder(r) = r
    /\ answer[r] = 200 => Holder(r) \notin {NoRequest, r}
    /\ answer[r] \in {400, 413} => Holder(r) # r

\* A replay with another fingerprint, as the content and the operator's spelling of
\* the type make it, is never answered 200 without having been counted as divergent,
\* and nothing else is counted so (ADR-0006).
DivergenceIsCounted ==
  \A r \in Requests :
    /\ answer[r] = 200 /\ accepted[Holder(r)] # accepted[r] => r \in Increments("divergent")
    /\ r \in Increments("divergent") => accepted[Holder(r)] # accepted[r]

\* The number of producer series has a ceiling, however many requests of new
\* producers race for the last slot.
SeriesAreBounded == Cardinality({i.label : i \in counters} \ {Other}) <= LabelLimit

\* A producer is counted under its own label or under "other", never under one
\* first and the other later, or its rates would break without notice.
OneSeriesPerSource ==
  \A i, j \in counters : Source(i.request) = Source(j.request) => i.label = j.label

\* http_requests_total counts every answer, panics included, with the status
\* that the producer got.
AnswersAreServed ==
  \A r \in Requests : pc[r] = "done" => [status |-> answer[r], request |-> r] \in served

\* openapi.yaml: a push sent again returns 200 with the existing record; only a
\* failure of the service itself, counted as an error, excuses it.
ReplayIsDuplicate ==
  \A r \in Requests :
    replay[r] /\ ContractSays[PushOf[r]] = 200 /\ answer[r] # 0 =>
      answer[r] = 200 \/ r \in Increments("error")

\* What ReplayIsDuplicate needs of the pushes that are sent again: no configuration
\* rejects one that another accepts, and the label of its source is not cut inside a
\* character.  MCIngestHandlerCut shows what happens without.
Steady(u) ==
  /\ LabelOf[SourceOf[u]] # NotUTF8
  /\ \A p, q \in Policies : Verdict[p][u] # Rejected => Verdict[q][u] # Rejected

ReplaysAreSteady ==
  \A r, s \in Requests :
    r # s /\ PushOf[r] = PushOf[s] /\ ContractSays[PushOf[r]] = 200 => Steady(PushOf[r])

-----------------------------------------------------------------------------
(* The inductive invariant behind the safety properties                    *)

\* Before its handler has decided, a request has no status and has counted
\* nothing; afterwards the answer is the status.
ProgressOK ==
  \A r \in Requests :
    /\ pc[r] \in {"idle", "accept", "ingest"} <=> status[r] = 0
    /\ pc[r] \in {"look", "track", "count"} => emit[r] # <<>>
    /\ pc[r] = "respond" => emit[r] = <<>>
    /\ pc[r] \in {"serve", "done"} => emit[r] = <<>> \/ status[r] = 500
    /\ answer[r] = IF pc[r] \in {"serve", "done"} THEN status[r] ELSE 0

\* A record is there because a handler made it, one that is going to answer 201
\* or has met a failure.
RecordOK ==
  /\ \A k \in Keys : table[k] # NoRequest =>
       Key(table[k]) = k /\ status[table[k]] \in {201, 500}
  /\ \A r \in Requests :
       /\ status[r] = 201 => Holder(r) = r
       /\ status[r] = 200 => Holder(r) # NoRequest

\* A divergent replay is about to be counted or has been, and nothing else has.
DivergenceOK ==
  \A r \in Requests :
    /\ status[r] = 200 /\ accepted[Holder(r)] # accepted[r] =>
         emit[r] = <<"divergent", "duplicate">> \/ r \in Increments("divergent")
    /\ emit[r] # <<>> /\ Head(emit[r]) = "divergent" =>
         status[r] \in {200, 500} /\ Holder(r) # NoRequest /\ accepted[Holder(r)] # accepted[r]
    /\ r \in Increments("divergent") =>
         status[r] # 0 /\ Holder(r) # NoRequest /\ accepted[Holder(r)] # accepted[r]

\* A request is in the store, or has recorded its push, only after it was decoded and
\* some policy passed it.
Passed(r) == PushOf[r] \notin Unreadable /\ \E q \in Policies : Verdict[q][PushOf[r]] # Rejected

PassedOK ==
  \A r \in Requests : pc[r] = "ingest" \/ Holder(r) = r => Passed(r)

\* A replay finds the record and is on its way to 200, unless an error has been
\* counted or is about to be; it never panics.
ReplayOf(r) ==
  replay[r] /\ ContractSays[PushOf[r]] = 200 =>
    /\ Holder(r) \notin {NoRequest, r} /\ PushOf[Holder(r)] = PushOf[r]
    /\ pc[r] # "panic"
    /\ pc[r] \in {"respond", "serve", "done"} => emit[r] = <<>>
    /\ status[r] \in {0, 200, 500}
    /\ status[r] = 500 => emit[r] = <<"error">> \/ r \in Increments("error")

ReplayOK == PassedOK /\ (\A r \in Requests : ReplayOf(r))

\* A producer with a label of its own uses it; one without has come too late,
\* and stays too late.
LabelledFor(r, l) ==
  LET own == LabelOf[Source(r)]
  IN  (own \in seen /\ l = own) \/ (own \notin seen /\ l = Other /\ Full)

LabelsOK ==
  /\ IsFiniteSet(seen) /\ Cardinality(seen) <= LabelLimit
  /\ \A r \in Requests : pc[r] = "count" => LabelledFor(r, label[r])
  /\ \A i \in counters : LabelledFor(i.request, i.label)

HandlerOK ==
  TypeOK /\ ProgressOK /\ RecordOK /\ DivergenceOK /\ LabelsOK /\ AnswersAreServed
=============================================================================
