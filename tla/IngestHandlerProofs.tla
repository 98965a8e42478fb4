------------------------- MODULE IngestHandlerProofs -------------------------
(***************************************************************************)
(* Proofs about IngestHandler for any number of requests and producers,    *)
(* any contract, any sequence of policies and any number of failures.      *)
(* HandlerOK is the inductive invariant; its parts are shown one by one,   *)
(* by what each action does to its own request.                            *)
(***************************************************************************)
EXTENDS IngestHandler, FiniteSetTheorems, TLAPS

\* Every push of a request has a key and a source with a label.
LEMMA Constants ==
  ASSUME NEW r \in Requests
  PROVE  /\ PushOf[r] \in Pushes /\ Key(r) \in Keys /\ Source(r) \in Sources
         /\ ContractSays[PushOf[r]] \in {200, 400, 413}
BY PushesAssumption DEF Key, Source

\* What is left to count, one increment at a time.
LEMMA Emitting ==
  ASSUME NEW e \in Emissions, e # <<>>
  PROVE  /\ Head(e) \in Counters /\ Tail(e) \in Emissions
         /\ Len(e) = 1 <=> Tail(e) = <<>>
         /\ Tail(e) # <<>> => Head(Tail(e)) # "divergent"
<1>1. CASE \E c \in Counters : e = <<c>>
  BY <1>1 DEF Emissions
<1>2. CASE e = <<"validation_failure", "rejected">>
  <2>1. Tail(e) = <<"rejected">> /\ Head(e) = "validation_failure" /\ Len(e) = 2
    BY <1>2
  <2>. QED
    BY <2>1 DEF Emissions, Counters
<1>3. CASE e = <<"divergent", "duplicate">>
  <2>1. Tail(e) = <<"duplicate">> /\ Head(e) = "divergent" /\ Len(e) = 2
    BY <1>3
  <2>. QED
    BY <2>1 DEF Emissions, Counters
<1>. QED
  BY <1>1, <1>2, <1>3 DEF Emissions

\* The increments that the code decides on.
LEMMA Decisions ==
  /\ <<>> \in Emissions /\ <<"validation_failure", "rejected">> \in Emissions
  /\ <<"divergent", "duplicate">> \in Emissions
  /\ \A c \in Counters : <<c>> \in Emissions
BY DEF Emissions

-----------------------------------------------------------------------------
(* Types                                                                   *)

\* Conclude leaves a status, increments and a place of the right types.
LEMMA ConcludeTyped ==
  ASSUME TypeOK, NEW r \in Requests, NEW code \in Statuses, NEW increments \in Emissions,
         Conclude(r, code, increments)
  PROVE  /\ status' \in [Requests -> Statuses] /\ emit' \in [Requests -> Emissions]
         /\ pc' \in [Requests -> Places]
BY DEF TypeOK, Conclude, Goto, Places

LEMMA TypeStep ==
  ASSUME TypeOK, ProgressOK, [Next]_vars
  PROVE  TypeOK'
<1>. USE DEF TypeOK
<1>1. ASSUME NEW r \in Requests, Receive(r) PROVE TypeOK'
  <2>1. CASE ContractSays[PushOf[r]] = 200
    BY <1>1, <2>1 DEF Receive, Goto, Places
  <2>2. CASE ContractSays[PushOf[r]] = 413
    <3>1. Conclude(r, 413, <<>>)
      BY <1>1, <2>2 DEF Receive
    <3>. QED
      BY <1>1, <3>1, ConcludeTyped, Decisions DEF Receive, Statuses
  <2>3. CASE ContractSays[PushOf[r]] = 400
    <3>1. Conclude(r, 400, <<"validation_failure">>)
      BY <1>1, <2>3 DEF Receive
    <3>. QED
      BY <1>1, <3>1, ConcludeTyped, Decisions DEF Receive, Statuses, Counters
  <2>. QED
    BY <2>1, <2>2, <2>3, Constants
<1>2. ASSUME NEW r \in Requests, Accept(r) PROVE TypeOK'
  <2>1. accepted' \in [Requests ->
          {Rejected} \cup {Verdict[q][u] : q \in Policies, u \in Pushes}]
    BY <1>2, Constants DEF Accept
  <2>2. CASE Verdict[policy][PushOf[r]] = Rejected
    BY <1>2, <2>1, <2>2, ConcludeTyped, Decisions DEF Accept, Statuses
  <2>3. CASE Verdict[policy][PushOf[r]] # Rejected
    BY <1>2, <2>1, <2>3 DEF Accept, Goto, Places
  <2>. QED
    BY <2>2, <2>3
<1>3. ASSUME NEW r \in Requests, DecodeFails(r) \/ NewIDFails(r) PROVE TypeOK'
  <2>1. CASE DecodeFails(r)
    BY <2>1, ConcludeTyped, Decisions
    DEF DecodeFails, Statuses, Counters
  <2>2. CASE NewIDFails(r)
    BY <2>2, ConcludeTyped, Decisions, LimitsAssumption
    DEF NewIDFails, Fault, Statuses, Counters
  <2>. QED
    BY <1>3, <2>1, <2>2
<1>4. ASSUME NEW r \in Requests, Ingest(r) PROVE TypeOK'
  <2>1. table' \in [Keys -> Requests \cup {NoRequest}]
    BY <1>4 DEF Ingest
  <2>2. \E code \in Statuses, increments \in Emissions : Conclude(r, code, increments)
    BY <1>4, Decisions DEF Ingest, Statuses, Counters
  <2>. QED
    BY <1>4, <2>1, <2>2, ConcludeTyped DEF Ingest
<1>5. ASSUME NEW r \in Requests, IngestFails(r) PROVE TypeOK'
  <2>1. table' \in [Keys -> Requests \cup {NoRequest}]
    BY <1>5 DEF IngestFails
  <2>. QED
    BY <1>5, <2>1, ConcludeTyped, Decisions, LimitsAssumption
    DEF IngestFails, Fault, Statuses, Counters
<1>6. ASSUME NEW r \in Requests, Look(r) \/ Track(r) PROVE TypeOK'
  <2>1. LabelOf[Source(r)] \in {LabelOf[s] : s \in Sources}
    BY Constants
  <2>2. label' \in [Requests -> {LabelOf[s] : s \in Sources} \cup {Other}]
    BY <1>6, <2>1 DEF Look, Track
  <2>3. pc' \in [Requests -> Places]
    BY <1>6 DEF Look, Track, Goto, Places
  <2>4. seen' \subseteq {LabelOf[s] : s \in Sources}
    BY <1>6, <2>1 DEF Look, Track
  <2>. QED
    BY <1>6, <2>2, <2>3, <2>4 DEF Look, Track
<1>7. ASSUME NEW r \in Requests, Count(r) PROVE TypeOK'
  <2>1. emit[r] \in Emissions /\ emit[r] # <<>>
    BY <1>7 DEF ProgressOK, Count
  <2>2. Head(emit[r]) \in Counters /\ Tail(emit[r]) \in Emissions
    BY <2>1, Emitting
  <2>3. pc' \in [Requests -> Places]
    BY <1>7 DEF Count, Goto, Places
  <2>4. label' \in [Requests -> {LabelOf[s] : s \in Sources} \cup {Other}]
    BY <1>7 DEF Count
  <2>5. CASE label[r] = NotUTF8
    BY <1>7, <2>3, <2>4, <2>5 DEF Count
  <2>6. CASE label[r] # NotUTF8
    <3>1. emit' \in [Requests -> Emissions]
      <4>1. emit' = [emit EXCEPT ![r] = Tail(emit[r])]
        BY <1>7, <2>6 DEF Count
      <4>2. emit \in [Requests -> Emissions]
        OBVIOUS
      <4>. HIDE DEF TypeOK
      <4>. QED
        BY <2>2, <4>1, <4>2
    <3>2. counters' = counters \cup
             {[counter |-> Head(emit[r]), label |-> label[r], request |-> r]}
      BY <1>7, <2>6 DEF Count
    <3>3. label[r] \in ({LabelOf[s] : s \in Sources} \cup {Other}) \ {NotUTF8}
      BY <2>6
    <3>4. counters' \subseteq
            [counter : Counters,
             label : ({LabelOf[s] : s \in Sources} \cup {Other}) \ {NotUTF8},
             request : Requests]
      <4>. DEFINE made == [counter |-> Head(emit[r]), label |-> label[r], request |-> r]
                  Series == [counter : Counters,
                             label : ({LabelOf[s] : s \in Sources} \cup {Other}) \ {NotUTF8},
                             request : Requests]
      <4>1. made \in Series
        BY <2>2, <3>3
      <4>2. counters \subseteq Series
        OBVIOUS
      <4>. QED
        BY <3>2, <4>1, <4>2
    <3>5. UNCHANGED <<policy, table, accepted, status, replay, seen, answer, served, faults>>
      BY <1>7 DEF Count
    <3>. QED
      BY <2>3, <2>4, <3>1, <3>4, <3>5
  <2>. QED
    BY <2>5, <2>6
<1>8. ASSUME NEW r \in Requests, Respond(r) \/ Recovered(r) PROVE TypeOK'
  BY <1>8 DEF Respond, Recovered, Goto, Places, Statuses
<1>9. ASSUME NEW r \in Requests, Serve(r) PROVE TypeOK'
  <2>1. status[r] \in Statuses \ {0}
    BY <1>9 DEF ProgressOK, Serve
  <2>. QED
    BY <1>9, <2>1 DEF Serve, Goto, Places
<1>10. ASSUME NEW p \in Policies, Reconfigure(p) PROVE TypeOK'
  BY <1>10 DEF Reconfigure
<1>11. CASE UNCHANGED vars
  BY <1>11 DEF vars
<1>. QED
  BY <1>1, <1>2, <1>3, <1>4, <1>5, <1>6, <1>7, <1>8, <1>9, <1>10, <1>11 DEF Next, Handle

-----------------------------------------------------------------------------
(* What a step of one request does to it and to the others                 *)

\* The step is r's: the other requests keep their place, status, counters to
\* increment, label, answer and fingerprint.
OnlyRequest(r) ==
  \A q \in Requests \ {r} :
    /\ pc'[q] = pc[q] /\ status'[q] = status[q] /\ emit'[q] = emit[q]
    /\ label'[q] = label[q] /\ answer'[q] = answer[q] /\ accepted'[q] = accepted[q]

\* r's handler decides: it had no status, and gets one and something to do.
Decides(r, code, increments) ==
  /\ pc[r] \in {"idle", "accept", "ingest"}
  /\ status'[r] = code /\ emit'[r] = increments
  /\ pc'[r] = IF increments = <<>> THEN "respond" ELSE "look"

LEMMA ConcludeDecides ==
  ASSUME TypeOK, NEW r \in Requests, pc[r] \in {"idle", "accept", "ingest"},
         NEW code, NEW increments, Conclude(r, code, increments)
  PROVE  Decides(r, code, increments)
BY DEF TypeOK, Conclude, Goto, Decides

LEMMA Frame ==
  ASSUME TypeOK, NEW r \in Requests, Handle(r) \/ NewIDFails(r) \/ IngestFails(r)
  PROVE  OnlyRequest(r)
<1>. USE DEF TypeOK, OnlyRequest, Goto
<1>1. CASE Receive(r)
  BY <1>1, Constants DEF Receive, Conclude
<1>2. CASE Accept(r)
  BY <1>2 DEF Accept, Conclude
<1>3. CASE DecodeFails(r) \/ NewIDFails(r) \/ Ingest(r) \/ IngestFails(r)
  BY <1>3 DEF DecodeFails, NewIDFails, Ingest, IngestFails, Conclude
<1>4. CASE Look(r) \/ Track(r) \/ Count(r)
  BY <1>4 DEF Look, Track, Count
<1>5. CASE Respond(r) \/ Recovered(r) \/ Serve(r)
  BY <1>5 DEF Respond, Recovered, Serve
<1>. QED
  BY <1>1, <1>2, <1>3, <1>4, <1>5 DEF Handle

-----------------------------------------------------------------------------
(* Progress                                                                *)

\* The progress of one request.
ProgressOf(r) ==
  /\ pc[r] \in {"idle", "accept", "ingest"} <=> status[r] = 0
  /\ pc[r] \in {"look", "track", "count"} => emit[r] # <<>>
  /\ pc[r] = "respond" => emit[r] = <<>>
  /\ pc[r] \in {"serve", "done"} => emit[r] = <<>> \/ status[r] = 500
  /\ answer[r] = IF pc[r] \in {"serve", "done"} THEN status[r] ELSE 0

LEMMA ProgressStep ==
  ASSUME TypeOK, ProgressOK, [Next]_vars
  PROVE  ProgressOK'
<1>. SUFFICES ASSUME NEW q \in Requests PROVE ProgressOf(q)'
  BY DEF ProgressOK, ProgressOf
<1>0. ProgressOf(q)
  BY DEF ProgressOK, ProgressOf
<1>1. ASSUME NEW r \in Requests, Handle(r) \/ NewIDFails(r) \/ IngestFails(r)
      PROVE  ProgressOf(q)'
  <2>1. CASE q # r
    BY <1>0, <1>1, <2>1, Frame DEF OnlyRequest, ProgressOf
  <2>2. CASE q = r
    <3>. USE <1>0, <2>2 DEF ProgressOf
    <3>1. ASSUME NEW code \in Statuses \ {0}, NEW increments \in Emissions,
                 pc[r] \in {"idle", "accept", "ingest"}, Conclude(r, code, increments),
                 UNCHANGED answer
          PROVE  ProgressOf(r)'
      BY <3>1, ConcludeDecides DEF Decides
    <3>2. CASE Receive(r)
      <4>1. CASE ContractSays[PushOf[r]] = 200
        BY <3>2, <4>1 DEF Receive, Goto, TypeOK
      <4>2. CASE ContractSays[PushOf[r]] = 413
        BY <3>1, <3>2, <4>2, Decisions DEF Receive, Statuses
      <4>3. CASE ContractSays[PushOf[r]] = 400
        BY <3>1, <3>2, <4>3, Decisions DEF Receive, Statuses, Counters
      <4>. QED
        BY <4>1, <4>2, <4>3, Constants
    <3>3. CASE Accept(r)
      <4>1. CASE Verdict[policy][PushOf[r]] = Rejected
        BY <3>1, <3>3, <4>1, Decisions DEF Accept, Statuses
      <4>2. CASE Verdict[policy][PushOf[r]] # Rejected
        BY <3>3, <4>2 DEF Accept, Goto, TypeOK
      <4>. QED
        BY <4>1, <4>2
    <3>4. CASE DecodeFails(r) \/ NewIDFails(r)
      BY <3>1, <3>4, Decisions DEF DecodeFails, NewIDFails, Statuses, Counters
    <3>5. CASE Ingest(r)
      BY <3>1, <3>5, Decisions DEF Ingest, Statuses, Counters
    <3>6. CASE IngestFails(r)
      BY <3>1, <3>6, Decisions DEF IngestFails, Statuses, Counters
    <3>7. CASE Look(r) \/ Track(r)
      BY <3>7 DEF Look, Track, Goto, TypeOK
    <3>8. CASE Count(r)
      <4>1. emit[r] \in Emissions /\ emit[r] # <<>>
        BY <3>8 DEF Count, TypeOK
      <4>2. Len(emit[r]) = 1 <=> Tail(emit[r]) = <<>>
        BY <4>1, Emitting
      <4>3. answer' = answer /\ status' = status /\ answer[r] = 0 /\ status[r] # 0
        BY <3>8 DEF Count
      <4>4. CASE label[r] = NotUTF8
        <5>1. pc'[r] = "panic"
          BY <3>8, <4>4 DEF Count, Goto, TypeOK
        <5>. QED
          BY <4>3, <5>1
      <4>5. CASE label[r] # NotUTF8
        <5>1. emit'[r] = Tail(emit[r])
          BY <3>8, <4>5 DEF Count, TypeOK
        <5>2. pc'[r] = IF Len(emit[r]) = 1 THEN "respond" ELSE "look"
          BY <3>8, <4>5 DEF Count, Goto, TypeOK
        <5>. QED
          BY <4>2, <4>3, <5>1, <5>2
      <4>. QED
        BY <4>4, <4>5
    <3>9. CASE Respond(r) \/ Recovered(r) \/ Serve(r)
      BY <3>9 DEF Respond, Recovered, Serve, Goto, TypeOK
    <3>. QED
      BY <1>1, <3>2, <3>3, <3>4, <3>5, <3>6, <3>7, <3>8, <3>9 DEF Handle
  <2>. QED
    BY <2>1, <2>2
<1>2. CASE UNCHANGED <<pc, status, emit, answer>>
  BY <1>0, <1>2 DEF ProgressOf
<1>. QED
  BY <1>1, <1>2 DEF Next, Reconfigure, vars

-----------------------------------------------------------------------------
(* Records                                                                 *)

\* What one step does to the table, to the status of its request and to the
\* fingerprint it was accepted with.
LEMMA StepEffect ==
  ASSUME TypeOK, ProgressOK, NEW r \in Requests, Handle(r) \/ NewIDFails(r) \/ IngestFails(r)
  PROVE  /\ status[r] # 0 => status'[r] \in {status[r], 500} /\ accepted'[r] = accepted[r]
         /\ \/ table' = table
            \/ /\ table[Key(r)] = NoRequest /\ table' = [table EXCEPT ![Key(r)] = r]
               /\ status[r] = 0 /\ status'[r] \in {201, 500}
         /\ status'[r] = 201 => status[r] = 201 \/ table' = [table EXCEPT ![Key(r)] = r]
         /\ status'[r] = 200 => status[r] = 200 \/ table[Key(r)] # NoRequest
<1>. USE DEF TypeOK, ProgressOK, Goto
<1>1. CASE Receive(r)
  BY <1>1, Constants DEF Receive, Conclude
<1>2. CASE Accept(r)
  <2>1. CASE Verdict[policy][PushOf[r]] = Rejected
    BY <1>2, <2>1 DEF Accept, Conclude
  <2>2. CASE Verdict[policy][PushOf[r]] # Rejected
    BY <1>2, <2>2 DEF Accept
  <2>. QED
    BY <2>1, <2>2
<1>3. CASE DecodeFails(r) \/ NewIDFails(r)
  BY <1>3 DEF DecodeFails, NewIDFails, Conclude
<1>4. CASE Ingest(r) \/ IngestFails(r)
  BY <1>4 DEF Ingest, IngestFails, Conclude
<1>5. CASE Look(r) \/ Track(r) \/ Count(r)
  BY <1>5 DEF Look, Track, Count
<1>6. CASE Respond(r) \/ Recovered(r) \/ Serve(r)
  BY <1>6 DEF Respond, Recovered, Serve
<1>. QED
  BY <1>1, <1>2, <1>3, <1>4, <1>5, <1>6 DEF Handle

LEMMA RecordStep ==
  ASSUME TypeOK, ProgressOK, RecordOK, [Next]_vars
  PROVE  RecordOK'
<1>1. ASSUME NEW r \in Requests, Handle(r) \/ NewIDFails(r) \/ IngestFails(r)
      PROVE  RecordOK'
  <2>1. \A q \in Requests : status[q] # 0 => status'[q] \in {status[q], 500}
    BY <1>1, Frame, StepEffect DEF OnlyRequest
  <2>2. ASSUME NEW k \in Keys, table'[k] # NoRequest
        PROVE  Key(table'[k]) = k /\ status'[table'[k]] \in {201, 500}
    <3>1. CASE table'[k] = table[k]
      <4>1. table[k] \in Requests /\ Key(table[k]) = k /\ status[table[k]] \in {201, 500}
        BY <2>2, <3>1 DEF TypeOK, RecordOK
      <4>. QED
        BY <2>1, <3>1, <4>1
    <3>2. CASE table'[k] # table[k]
      <4>1. table' = [table EXCEPT ![Key(r)] = r] /\ status'[r] \in {201, 500}
        BY <1>1, <3>2, StepEffect
      <4>2. k = Key(r) /\ table'[k] = r
        BY <3>2, <4>1 DEF TypeOK
      <4>. QED
        BY <4>1, <4>2
    <3>. QED
      BY <3>1, <3>2
  <2>3. ASSUME NEW q \in Requests
        PROVE  /\ status'[q] = 201 => Holder(q)' = q
               /\ status'[q] = 200 => Holder(q)' # NoRequest
    <3>1. Key(q) \in Keys /\ Key(r) \in Keys
      BY Constants
    <3>2. table[Key(q)] # NoRequest => table'[Key(q)] = table[Key(q)]
      BY <1>1, <3>1, StepEffect DEF TypeOK
    <3>3. CASE q # r
      <4>1. status'[q] = status[q]
        BY <1>1, <3>3, Frame DEF OnlyRequest
      <4>. QED
        BY <3>2, <4>1, PushesAssumption DEF RecordOK, Holder
    <3>4. CASE q = r
      <4>1. status'[q] = 201 => table'[Key(q)] = q
        BY <1>1, <3>1, <3>2, <3>4, StepEffect, PushesAssumption DEF RecordOK, Holder, TypeOK
      <4>2. status'[q] = 200 => table'[Key(q)] # NoRequest
        BY <1>1, <3>1, <3>2, <3>4, StepEffect DEF RecordOK, Holder
      <4>. QED
        BY <4>1, <4>2 DEF Holder
    <3>. QED
      BY <3>3, <3>4
  <2>. QED
    BY <2>2, <2>3 DEF RecordOK
<1>2. CASE UNCHANGED <<table, status>>
  BY <1>2 DEF RecordOK, Holder
<1>. QED
  BY <1>1, <1>2 DEF Next, Reconfigure, vars

-----------------------------------------------------------------------------
(* Divergence                                                              *)

\* The divergence of one request.
DivergenceOf(q) ==
  /\ status[q] = 200 /\ accepted[Holder(q)] # accepted[q] =>
       emit[q] = <<"divergent", "duplicate">> \/ q \in Increments("divergent")
  /\ emit[q] # <<>> /\ Head(emit[q]) = "divergent" =>
       status[q] \in {200, 500} /\ Holder(q) # NoRequest /\ accepted[Holder(q)] # accepted[q]
  /\ q \in Increments("divergent") =>
       status[q] # 0 /\ Holder(q) # NoRequest /\ accepted[Holder(q)] # accepted[q]

\* What a decided request was compared with stays as it is.
LEMMA ComparisonStays ==
  ASSUME TypeOK, ProgressOK, RecordOK, NEW r \in Requests, NEW q \in Requests,
         Handle(r) \/ NewIDFails(r) \/ IngestFails(r)
  PROVE  /\ status[q] # 0 => status'[q] # 0 /\ accepted'[q] = accepted[q]
         /\ Holder(q) # NoRequest =>
              Holder(q)' = Holder(q) /\ accepted'[Holder(q)] = accepted[Holder(q)]
<1>1. \A d \in Requests : status[d] # 0 => status'[d] # 0 /\ accepted'[d] = accepted[d]
  BY Frame, StepEffect DEF OnlyRequest
<1>2. ASSUME Holder(q) # NoRequest
      PROVE  Holder(q)' = Holder(q) /\ accepted'[Holder(q)] = accepted[Holder(q)]
  <2>1. Key(q) \in Keys /\ Holder(q) = table[Key(q)] /\ Holder(q)' = table'[Key(q)]
    BY Constants DEF Holder
  <2>2. Holder(q) \in Requests /\ status[Holder(q)] # 0
    BY <1>2, <2>1 DEF TypeOK, RecordOK
  <2>3. table'[Key(q)] = table[Key(q)]
    BY <1>2, <2>1, StepEffect DEF TypeOK
  <2>. QED
    BY <1>1, <2>1, <2>2, <2>3
<1>. QED
  BY <1>1, <1>2

\* The increments that have been made are those before, or r's next one too; only a
\* label that is not UTF-8 panics.
LEMMA Counted ==
  ASSUME TypeOK, NEW r \in Requests, Count(r), NEW counter
  PROVE  \/ counters' = counters /\ emit' = emit /\ label[r] = NotUTF8
         \/ /\ Increments(counter)' =
                 Increments(counter) \cup {q \in {r} : Head(emit[r]) = counter}
            /\ emit'[r] = Tail(emit[r])
            /\ pc'[r] = IF Len(emit[r]) = 1 THEN "respond" ELSE "look"
<1>1. CASE label[r] = NotUTF8
  BY <1>1 DEF Count
<1>2. CASE label[r] # NotUTF8
  <2>1. counters' = counters \cup
          {[counter |-> Head(emit[r]), label |-> label[r], request |-> r]}
    BY <1>2 DEF Count
  <2>2. emit' = [emit EXCEPT ![r] = Tail(@)]
    BY <1>2 DEF Count
  <2>3. ASSUME NEW q
        PROVE  q \in Increments(counter)' <=>
                 q \in Increments(counter) \/ (q = r /\ Head(emit[r]) = counter)
    <3>. DEFINE made == [counter |-> Head(emit[r]), label |-> label[r], request |-> r]
    <3>1. made.counter = Head(emit[r]) /\ made.request = r
      OBVIOUS
    <3>2. q \in Increments(counter)' <=>
            \E i \in counters' : i.counter = counter /\ i.request = q
      BY DEF Increments
    <3>3. q \in Increments(counter) <=>
            \E i \in counters : i.counter = counter /\ i.request = q
      BY DEF Increments
    <3>4. counters' = counters \cup {made}
      BY <2>1
    <3>. HIDE DEF made
    <3>. QED
      BY <3>1, <3>2, <3>3, <3>4
  <2>4. emit'[r] = Tail(emit[r])
    BY <2>2 DEF TypeOK
  <2>5. pc'[r] = IF Len(emit[r]) = 1 THEN "respond" ELSE "look"
    BY <1>2 DEF Count, Goto, TypeOK
  <2>. QED
    BY <2>3, <2>4, <2>5
<1>. QED
  BY <1>1, <1>2

LEMMA DivergenceStep ==
  ASSUME TypeOK, ProgressOK, RecordOK, DivergenceOK, [Next]_vars
  PROVE  DivergenceOK'
<1>. SUFFICES ASSUME NEW q \in Requests PROVE DivergenceOf(q)'
  BY DEF DivergenceOK, DivergenceOf
<1>0. DivergenceOf(q)
  BY DEF DivergenceOK, DivergenceOf
<1>1. ASSUME NEW r \in Requests, Handle(r) \/ NewIDFails(r) \/ IngestFails(r)
      PROVE  DivergenceOf(q)'
  <2>1. /\ status[q] # 0 => status'[q] # 0 /\ accepted'[q] = accepted[q]
        /\ Holder(q) # NoRequest =>
             Holder(q)' = Holder(q) /\ accepted'[Holder(q)] = accepted[Holder(q)]
    BY <1>1, ComparisonStays
  <2>2. status[q] = 200 => Holder(q) # NoRequest
    BY DEF RecordOK
  <2>3. CASE /\ status'[q] \in {status[q], 500} /\ emit'[q] = emit[q]
             /\ q \in Increments("divergent")' <=> q \in Increments("divergent")
    BY <1>0, <2>1, <2>2, <2>3 DEF DivergenceOf
  <2>4. CASE q # r
    <3>1. status'[q] = status[q] /\ emit'[q] = emit[q]
      BY <1>1, <2>4, Frame DEF OnlyRequest
    <3>2. CASE Count(r)
      BY <2>3, <2>4, <3>1, <3>2, Counted DEF Increments
    <3>3. CASE counters' = counters
      BY <2>3, <3>1, <3>3 DEF Increments
    <3>. QED
      BY <1>1, <3>2, <3>3 DEF Handle, Receive, DecodeFails, Accept, NewIDFails, Ingest,
                              IngestFails, Look, Track, Respond, Recovered, Serve
  <2>5. CASE q = r
    <3>. USE <2>5
    <3>1. ASSUME NEW code \in Statuses \ {0, 200}, NEW increments \in Emissions,
                 increments # <<>> => Head(increments) # "divergent",
                 pc[r] \in {"idle", "accept", "ingest"}, Conclude(r, code, increments),
                 counters' = counters
          PROVE  DivergenceOf(q)'
      <4>1. Decides(r, code, increments)
        BY <3>1, ConcludeDecides
      <4>2. q \notin Increments("divergent")'
        BY <1>0, <3>1 DEF DivergenceOf, ProgressOK, Increments
      <4>. QED
        BY <3>1, <4>1, <4>2 DEF Decides, DivergenceOf
    <3>2. CASE Receive(r)
      <4>1. CASE ContractSays[PushOf[r]] = 200
        BY <2>3, <3>2, <4>1 DEF Receive, Increments
      <4>2. CASE ContractSays[PushOf[r]] = 413
        BY <3>1, <3>2, <4>2, Decisions DEF Receive, Statuses
      <4>3. CASE ContractSays[PushOf[r]] = 400
        BY <3>1, <3>2, <4>3, Decisions DEF Receive, Statuses, Counters
      <4>. QED
        BY <4>1, <4>2, <4>3, Constants
    <3>3. CASE Accept(r)
      <4>1. CASE Verdict[policy][PushOf[r]] = Rejected
        BY <3>1, <3>3, <4>1, Decisions DEF Accept, Statuses
      <4>2. CASE Verdict[policy][PushOf[r]] # Rejected
        BY <2>3, <3>3, <4>2 DEF Accept, Increments
      <4>. QED
        BY <4>1, <4>2
    <3>4. CASE DecodeFails(r) \/ NewIDFails(r)
      BY <3>1, <3>4, Decisions DEF DecodeFails, NewIDFails, Statuses, Counters
    <3>5. CASE Ingest(r) /\ Holder(r) = NoRequest
      BY <3>1, <3>5, Decisions DEF Ingest, Statuses, Counters, Holder
    <3>6. CASE Ingest(r) /\ Holder(r) # NoRequest
      <4>1. q \notin Increments("divergent")'
        BY <1>0, <3>6 DEF DivergenceOf, ProgressOK, Increments, Ingest
      <4>2. accepted' = accepted /\ Holder(q)' = Holder(q)
        BY <3>6 DEF Ingest, Holder
      <4>3. CASE accepted[Holder(r)] # accepted[r]
        <5>1. Conclude(r, 200, <<"divergent", "duplicate">>)
          BY <3>6, <4>3 DEF Ingest, Holder
        <5>2. status'[q] = 200 /\ emit'[q] = <<"divergent", "duplicate">>
          BY <3>6, <5>1, ConcludeDecides DEF Decides, Ingest
        <5>. QED
          BY <3>6, <4>1, <4>2, <4>3, <5>2 DEF DivergenceOf
      <4>4. CASE accepted[Holder(r)] = accepted[r]
        <5>1. Conclude(r, 200, <<"duplicate">>)
          BY <3>6, <4>4 DEF Ingest, Holder
        <5>2. emit'[q] = <<"duplicate">>
          BY <3>6, <5>1, ConcludeDecides DEF Decides, Ingest
        <5>. QED
          BY <4>1, <4>2, <4>4, <5>2 DEF DivergenceOf
      <4>. QED
        BY <4>3, <4>4
    <3>7. CASE IngestFails(r)
      BY <3>1, <3>7, Decisions DEF IngestFails, Statuses, Counters
    <3>8. CASE Look(r) \/ Track(r) \/ Respond(r) \/ Serve(r)
      BY <2>3, <3>8 DEF Look, Track, Respond, Serve, Increments
    <3>9. CASE Recovered(r)
      BY <2>3, <3>9 DEF Recovered, Increments, TypeOK
    <3>10. CASE Count(r)
      <4>1. emit[r] \in Emissions /\ emit[r] # <<>> /\ status' = status
            /\ Holder(q)' = Holder(q) /\ accepted' = accepted /\ status[q] # 0
        BY <3>10 DEF Count, TypeOK, ProgressOK, Holder
      <4>2. CASE counters' = counters /\ emit' = emit
        BY <2>3, <4>1, <4>2 DEF Increments
      <4>3. CASE /\ Increments("divergent")' =
                      Increments("divergent") \cup {d \in {r} : Head(emit[r]) = "divergent"}
                 /\ emit'[r] = Tail(emit[r])
        <5>1. emit'[q] # <<>> => Head(emit'[q]) # "divergent"
          BY <4>1, <4>3, Emitting
        <5>2. q \in Increments("divergent")' <=>
                q \in Increments("divergent") \/ Head(emit[q]) = "divergent"
          BY <4>3
        <5>3. emit[q] = <<"divergent", "duplicate">> => Head(emit[q]) = "divergent"
          OBVIOUS
        <5>. QED
          BY <1>0, <4>1, <5>1, <5>2, <5>3 DEF DivergenceOf
      <4>. QED
        BY <3>10, <4>2, <4>3, Counted
    <3>. QED
      BY <1>1, <3>2, <3>3, <3>4, <3>5, <3>6, <3>7, <3>8, <3>9, <3>10 DEF Handle
  <2>. QED
    BY <2>4, <2>5
<1>2. CASE UNCHANGED <<table, accepted, status, emit, counters>>
  BY <1>0, <1>2 DEF DivergenceOf, Holder, Increments
<1>. QED
  BY <1>1, <1>2 DEF Next, Reconfigure, vars

-----------------------------------------------------------------------------
(* Labels                                                                  *)

\* The registry of labels grows by one label at a time, while it has a slot.
LEMMA RegistryStep ==
  ASSUME LabelsOK, [Next]_vars
  PROVE  \/ seen' = seen
         \/ ~Full /\ \E own : seen' = seen \cup {own}
<1>1. ASSUME NEW r \in Requests, Track(r)
      PROVE  seen' = seen \/ (~Full /\ \E own : seen' = seen \cup {own})
  BY <1>1 DEF Track
<1>. QED
  BY <1>1 DEF Next, Handle, Receive, DecodeFails, Accept, NewIDFails, Ingest, IngestFails,
              Look, Count, Respond, Recovered, Serve, Reconfigure, vars

\* Who has a label keeps it, and who was too late stays so.
LEMMA LabelStays ==
  ASSUME LabelsOK, [Next]_vars, NEW r, NEW l, LabelledFor(r, l)
  PROVE  LabelledFor(r, l)'
BY RegistryStep DEF LabelledFor, Full, Source

\* A handler in Look or Track chooses the right label.
LEMMA LabelChosen ==
  ASSUME TypeOK, LabelsOK, NEW r \in Requests, Look(r) \/ Track(r), pc'[r] = "count"
  PROVE  LabelledFor(r, label[r])'
<1>. DEFINE own == LabelOf[Source(r)]
<1>1. CASE Look(r)
  <2>1. own \in seen \/ Full
    BY <1>1 DEF Look, Goto, TypeOK
  <2>2. label'[r] = (IF own \in seen THEN own ELSE Other) /\ seen' = seen
    BY <1>1 DEF Look, TypeOK
  <2>. QED
    BY <2>1, <2>2 DEF LabelledFor, Full, Source
<1>2. CASE Track(r)
  <2>1. CASE own \in seen \/ ~Full
    BY <1>2, <2>1 DEF Track, TypeOK, LabelledFor, Source
  <2>2. CASE own \notin seen /\ Full
    BY <1>2, <2>2 DEF Track, TypeOK, LabelledFor, Source, Full
  <2>. QED
    BY <2>1, <2>2
<1>. QED
  BY <1>1, <1>2

LEMMA LabelsStep ==
  ASSUME TypeOK, LabelsOK, [Next]_vars
  PROVE  LabelsOK'
<1>1. IsFiniteSet(seen') /\ Cardinality(seen') <= LabelLimit
  <2>1. CASE seen' = seen
    BY <2>1 DEF LabelsOK
  <2>2. ASSUME NEW own, seen' = seen \cup {own}, ~Full
        PROVE  IsFiniteSet(seen') /\ Cardinality(seen') <= LabelLimit
    <3>1. /\ IsFiniteSet(seen \cup {own})
          /\ Cardinality(seen \cup {own}) \in {Cardinality(seen), Cardinality(seen) + 1}
      BY FS_AddElement DEF LabelsOK
    <3>2. Cardinality(seen) \in Nat
      BY FS_CardinalityType DEF LabelsOK
    <3>. QED
      BY <2>2, <3>1, <3>2, LimitsAssumption DEF Full
  <2>. QED
    BY <2>1, <2>2, RegistryStep
<1>2. ASSUME NEW q \in Requests, pc'[q] = "count" PROVE LabelledFor(q, label[q])'
  <2>1. CASE pc[q] = "count" /\ label'[q] = label[q]
    <3>1. PICK l : l = label[q]
      OBVIOUS
    <3>2. LabelledFor(q, l)
      BY <2>1, <3>1 DEF LabelsOK
    <3>3. LabelledFor(q, l)'
      BY <3>2, LabelStays
    <3>. QED
      BY <2>1, <3>1, <3>3 DEF LabelledFor
  <2>2. ASSUME NEW r \in Requests, Handle(r) \/ NewIDFails(r) \/ IngestFails(r)
        PROVE  LabelledFor(q, label[q])'
    <3>1. CASE q # r
      BY <1>2, <2>1, <2>2, <3>1, Frame DEF OnlyRequest
    <3>2. CASE q = r
      <4>1. CASE Look(r) \/ Track(r)
        BY <1>2, <3>2, <4>1, LabelChosen
      <4>2. pc'[r] = "count" => Look(r) \/ Track(r)
        BY <2>2 DEF TypeOK, Handle, Receive, DecodeFails, Accept, NewIDFails, Ingest,
                    IngestFails, Count, Respond, Recovered, Serve, Conclude, Goto
      <4>. QED
        BY <1>2, <3>2, <4>1, <4>2
    <3>. QED
      BY <3>1, <3>2
  <2>3. CASE UNCHANGED <<pc, label>>
    BY <1>2, <2>1, <2>3
  <2>. QED
    BY <2>2, <2>3 DEF Next, Reconfigure, vars
<1>3. ASSUME NEW i \in counters' PROVE LabelledFor(i.request, i.label)'
  <2>1. CASE i \in counters
    BY <2>1, LabelStays DEF LabelsOK
  <2>2. ASSUME NEW r \in Requests, Count(r), i \notin counters
        PROVE  LabelledFor(i.request, i.label)'
    <3>1. i = [counter |-> Head(emit[r]), label |-> label[r], request |-> r]
      BY <1>3, <2>2 DEF Count
    <3>2. i.request = r /\ i.label = label[r]
      BY <3>1
    <3>3. LabelledFor(i.request, i.label)
      BY <2>2, <3>2 DEF LabelsOK, Count
    <3>. QED
      BY <3>3, LabelStays
  <2>3. CASE counters' = counters
    BY <1>3, <2>1, <2>3
  <2>. QED
    BY <2>1, <2>2, <2>3
    DEF Next, Handle, Receive, DecodeFails, Accept, NewIDFails, Ingest, IngestFails, Look,
        Track, Respond, Recovered, Serve, Reconfigure, vars
<1>. QED
  BY <1>1, <1>2, <1>3 DEF LabelsOK

-----------------------------------------------------------------------------
(* Answers                                                                 *)

\* Metrics wraps Recover, so a request is over only when it has been counted.
LEMMA ServedStep ==
  ASSUME TypeOK, ProgressOK, AnswersAreServed, [Next]_vars
  PROVE  AnswersAreServed'
<1>. SUFFICES ASSUME NEW q \in Requests, pc'[q] = "done"
              PROVE  [status |-> answer'[q], request |-> q] \in served'
  BY DEF AnswersAreServed
<1>1. served \subseteq served'
  BY DEF Next, Handle, Receive, DecodeFails, Accept, NewIDFails, Ingest, IngestFails, Look,
         Track, Count, Respond, Recovered, Serve, Reconfigure, vars
<1>2. CASE pc[q] = "done" /\ answer'[q] = answer[q]
  BY <1>1, <1>2 DEF AnswersAreServed
<1>3. ASSUME NEW r \in Requests, Handle(r) \/ NewIDFails(r) \/ IngestFails(r)
      PROVE  [status |-> answer'[q], request |-> q] \in served'
  <2>1. CASE q # r
    BY <1>2, <1>3, <2>1, Frame DEF OnlyRequest
  <2>2. CASE q = r
    <3>1. Serve(r)
      BY <1>3, <2>2 DEF TypeOK, Handle, Receive, DecodeFails, Accept, NewIDFails, Ingest,
                        IngestFails, Look, Track, Count, Respond, Recovered, Conclude, Goto
    <3>2. answer'[r] = status[r]
      BY <3>1 DEF Serve, ProgressOK
    <3>. QED
      BY <2>2, <3>1, <3>2 DEF Serve
  <2>. QED
    BY <2>1, <2>2
<1>4. CASE UNCHANGED <<pc, answer>>
  BY <1>2, <1>4
<1>. QED
  BY <1>3, <1>4 DEF Next, Reconfigure, vars

-----------------------------------------------------------------------------
(* Replays                                                                 *)

\* A request that is passed on to the store has been passed by a policy, and so has
\* whoever holds a key.
LEMMA PassedStep ==
  ASSUME TypeOK, ProgressOK, PassedOK, [Next]_vars
  PROVE  PassedOK'
<1>. SUFFICES ASSUME NEW q \in Requests, pc'[q] = "ingest" \/ Holder(q)' = q
              PROVE  Passed(q)
  BY DEF PassedOK, Passed
<1>0. pc[q] = "ingest" \/ Holder(q) = q => Passed(q)
  BY DEF PassedOK
<1>1. ASSUME NEW r \in Requests, Handle(r) \/ NewIDFails(r) \/ IngestFails(r)
      PROVE  Passed(q)
  <2>1. CASE pc'[q] = "ingest"
    <3>1. CASE q # r
      BY <1>0, <1>1, <2>1, <3>1, Frame DEF OnlyRequest
    <3>2. CASE q = r /\ Accept(r)
      BY <2>1, <3>2 DEF Accept, Conclude, Goto, TypeOK, Passed, Readable
    <3>3. CASE q = r /\ ~Accept(r)
      BY <1>1, <2>1, <3>3, Constants
      DEF TypeOK, Handle, Receive, DecodeFails, NewIDFails, Ingest, IngestFails, Look, Track,
          Count, Respond, Recovered, Serve, Conclude, Goto
    <3>. QED
      BY <3>1, <3>2, <3>3
  <2>2. CASE Holder(q)' = q
    <3>1. CASE table' = table
      BY <1>0, <2>2, <3>1 DEF Holder
    <3>2. CASE Ingest(r) \/ IngestFails(r)
      <4>1. pc[r] = "ingest" /\ Key(q) \in Keys /\ Holder(q)' \in {Holder(q), r}
        BY <3>2, Constants DEF Ingest, IngestFails, Holder, TypeOK
      <4>. QED
        BY <1>0, <2>2, <4>1
    <3>. QED
      BY <1>1, <3>1, <3>2
      DEF Handle, Receive, DecodeFails, Accept, NewIDFails, Look, Track, Count, Respond,
          Recovered, Serve
  <2>. QED
    BY <1>1, <2>1, <2>2
<1>2. CASE UNCHANGED <<table, pc>>
  BY <1>0, <1>2 DEF Holder
<1>. QED
  BY <1>1, <1>2 DEF Next, Reconfigure, vars

\* A replay whose contract and configuration are steady stays on its way to 200.
LEMMA ReplayStep ==
  ASSUME ReplaysAreSteady, HandlerOK, ReplayOK, [Next]_vars
  PROVE  \A q \in Requests : ReplayOf(q)'
<1>. SUFFICES ASSUME NEW q \in Requests, replay'[q], ContractSays[PushOf[q]] = 200
              PROVE  /\ Holder(q)' \notin {NoRequest, q} /\ PushOf[Holder(q)'] = PushOf[q]
                     /\ pc'[q] # "panic"
                     /\ pc'[q] \in {"respond", "serve", "done"} => emit'[q] = <<>>
                     /\ status'[q] \in {0, 200, 500}
                     /\ status'[q] = 500 => emit'[q] = <<"error">> \/ q \in Increments("error")'
  BY DEF ReplayOf
<1>. USE DEF HandlerOK
<1>0. ReplayOf(q) /\ Key(q) \in Keys
  BY Constants DEF ReplayOK
<1>1. ASSUME NEW r \in Requests, Handle(r) \/ NewIDFails(r) \/ IngestFails(r)
      PROVE  ReplayOf(q)'
  <2>1. Holder(q) # NoRequest => Holder(q)' = Holder(q)
    BY <1>1, ComparisonStays
  <2>2. counters \subseteq counters'
    BY <1>1 DEF Handle, Receive, DecodeFails, Accept, NewIDFails, Ingest, IngestFails, Look,
                Track, Count, Respond, Recovered, Serve
  <2>3. q \in Increments("error") => q \in Increments("error")'
    BY <2>2 DEF Increments
  <2>4. CASE q # r
    <3>1. replay'[q] = replay[q]
      <4>1. CASE Receive(r)
        BY <2>4, <4>1 DEF TypeOK, Receive
      <4>2. CASE replay' = replay
        BY <4>2
      <4>. QED
        BY <1>1, <4>1, <4>2 DEF Handle, DecodeFails, Accept, NewIDFails, Ingest, IngestFails,
                                Look, Track, Count, Respond, Recovered, Serve
    <3>. QED
      BY <1>0, <1>1, <2>1, <2>3, <2>4, <3>1, Frame DEF OnlyRequest, ReplayOf
  <2>5. CASE q = r /\ Receive(r)
    <3>1. pc'[r] = "accept" /\ status'[r] = status[r] /\ table' = table /\ status[r] = 0
      BY <2>5 DEF Receive, Goto, TypeOK, ProgressOK
    <3>2. Holder(r) # NoRequest /\ PushOf[Holder(r)] = PushOf[r]
      <4>. DEFINE sent == table[Key(r)] # NoRequest /\ PushOf[table[Key(r)]] = PushOf[r]
      <4>1. replay' = [replay EXCEPT ![r] = sent] /\ replay \in [Requests -> BOOLEAN]
        BY <2>5 DEF Receive, TypeOK
      <4>2. replay'[r] = sent
        BY <4>1, Zenon
      <4>. QED
        BY <2>5, <4>2 DEF Holder
    <3>3. Holder(r) # r
      BY <1>0, <2>5, <3>1, <3>2 DEF RecordOK, Holder
    <3>. QED
      BY <2>5, <3>1, <3>2, <3>3 DEF ReplayOf, Holder
  <2>6. CASE q = r /\ ~Receive(r)
    <3>1. /\ replay[r] /\ Holder(r) \notin {NoRequest, r} /\ PushOf[Holder(r)] = PushOf[r]
          /\ pc[r] # "panic"
          /\ pc[r] \in {"respond", "serve", "done"} => emit[r] = <<>>
          /\ status[r] \in {0, 200, 500}
          /\ status[r] = 500 => emit[r] = <<"error">> \/ r \in Increments("error")
      <4>1. replay'[r] = replay[r]
        BY <1>1, <2>6 DEF Handle, DecodeFails, Accept, NewIDFails, Ingest, IngestFails, Look,
                          Track, Count, Respond, Recovered, Serve
      <4>. QED
        BY <1>0, <2>6, <4>1 DEF ReplayOf
    <3>2. Holder(r) \in Requests /\ Steady(PushOf[r]) /\ Readable(PushOf[r])
      <4>1. Holder(r) \in Requests /\ Steady(PushOf[r])
        BY <1>0, <2>6, <3>1 DEF ReplaysAreSteady, Holder, TypeOK
      <4>2. Key(Holder(r)) = Key(r)
        BY <3>1 DEF Key
      <4>3. Passed(Holder(r))
        BY <3>1, <4>1, <4>2 DEF ReplayOK, PassedOK, Holder
      <4>. QED
        BY <2>6, <3>1, <4>1, <4>3 DEF Passed, Readable
    <3>3. ASSUME NEW code \in {200, 500}, NEW increments \in Emissions,
                 code = 500 => increments = <<"error">>, increments # <<>>,
                 pc[r] \in {"idle", "accept", "ingest"}, Conclude(r, code, increments)
          PROVE  ReplayOf(r)'
      BY <2>1, <2>6, <3>1, <3>3, ConcludeDecides DEF Decides, ReplayOf
    <3>4. CASE Accept(r)
      <4>1. Passed(Holder(r)) /\ Key(Holder(r)) = Key(r)
        BY <1>0, <2>6, <3>1, <3>2 DEF ReplayOK, PassedOK, Holder, Key
      <4>2. Verdict[policy][PushOf[r]] # Rejected
        BY <3>1, <3>2, <4>1 DEF Passed, Steady, TypeOK
      <4>3. pc'[r] = "ingest" /\ status'[r] = status[r] /\ status[r] = 0
        BY <3>4, <4>2 DEF Accept, Goto, TypeOK, ProgressOK
      <4>. QED
        BY <2>1, <2>6, <3>1, <4>3 DEF ReplayOf
    <3>5. CASE NewIDFails(r) \/ IngestFails(r)
      <4>1. pc[r] \in {"accept", "ingest"} /\ Conclude(r, 500, <<"error">>)
        BY <3>5 DEF NewIDFails, IngestFails
      <4>2. <<"error">> \in Emissions /\ <<"error">> # <<>>
        BY DEF Emissions, Counters
      <4>. QED
        BY <2>6, <3>3, <4>1, <4>2
    <3>6. CASE Ingest(r)
      BY <2>6, <3>1, <3>3, <3>6, Decisions DEF Ingest, Holder, Counters
    <3>7. CASE Look(r) \/ Track(r)
      BY <2>1, <2>3, <2>6, <3>1, <3>7 DEF Look, Track, Goto, TypeOK, ReplayOf
    <3>8. CASE Count(r)
      <4>1. label[r] # NotUTF8
        BY <2>6, <3>2, <3>8, LabelAssumption DEF Count, LabelsOK, LabelledFor, Source, Steady
      <4>2. /\ Increments("error")' =
                 Increments("error") \cup {d \in {r} : Head(emit[r]) = "error"}
            /\ emit'[r] = Tail(emit[r])
            /\ pc'[r] = IF Len(emit[r]) = 1 THEN "respond" ELSE "look"
        BY <3>8, <4>1, Counted
      <4>3. emit[r] \in Emissions /\ emit[r] # <<>>
        BY <3>8 DEF Count, TypeOK, ProgressOK
      <4>4. pc'[r] = "respond" => emit'[r] = <<>>
        BY <4>2, <4>3, Emitting
      <4>5. status' = status
        BY <3>8 DEF Count
      <4>6. status[r] = 500 => r \in Increments("error")'
        BY <3>1, <4>2
      <4>. QED
        BY <2>1, <2>6, <3>1, <4>2, <4>4, <4>5, <4>6 DEF ReplayOf
    <3>9. CASE Respond(r) \/ Serve(r)
      BY <2>1, <2>3, <2>6, <3>1, <3>9 DEF Respond, Serve, Goto, TypeOK, ReplayOf
    <3>. QED
      BY <1>1, <2>6, <3>1, <3>2, <3>4, <3>5, <3>6, <3>7, <3>8, <3>9
      DEF Handle, Recovered, DecodeFails
  <2>. QED
    BY <2>4, <2>5, <2>6
<1>2. CASE UNCHANGED <<table, replay, pc, status, emit, counters>>
  BY <1>0, <1>2 DEF ReplayOf, Holder, Increments
<1>. QED
  BY <1>1, <1>2 DEF Next, Reconfigure, vars, ReplayOf

-----------------------------------------------------------------------------
(* The theorems                                                            *)

LEMMA HandlerInit == Init => HandlerOK
<1>. SUFFICES ASSUME Init PROVE HandlerOK
  OBVIOUS
<1>1. TypeOK
  BY PushesAssumption, LimitsAssumption, Decisions DEF Init, TypeOK, Places, Statuses
<1>2. ProgressOK /\ RecordOK /\ DivergenceOK /\ AnswersAreServed
  BY Constants
  DEF Init, ProgressOK, RecordOK, DivergenceOK, Increments, AnswersAreServed, Holder
<1>3. LabelsOK
  BY FS_EmptySet, LimitsAssumption DEF Init, LabelsOK
<1>. QED
  BY <1>1, <1>2, <1>3 DEF HandlerOK

\* The inductive invariant holds whatever requests are served.
THEOREM HandlerCorrect == Spec => []HandlerOK
<1>1. HandlerOK /\ [Next]_vars => HandlerOK'
  BY TypeStep, ProgressStep, RecordStep, DivergenceStep, LabelsStep, ServedStep DEF HandlerOK
<1>. QED
  BY HandlerInit, <1>1, PTL DEF Spec

\* The variables keep to their types.
THEOREM TypeCorrect == Spec => []TypeOK
<1>1. HandlerOK => TypeOK
  BY DEF HandlerOK
<1>. QED
  BY HandlerCorrect, <1>1, PTL

\* handlers.go and respond.go: 201, 200 and 400 say the truth about the record.
THEOREM StatusesAreTrue == Spec => []StatusIsTrue
<1>1. HandlerOK => StatusIsTrue
  <2>. SUFFICES ASSUME HandlerOK, NEW r \in Requests
                PROVE  /\ answer[r] = 201 => Holder(r) = r
                       /\ answer[r] = 200 => Holder(r) \notin {NoRequest, r}
                       /\ answer[r] \in {400, 413} => Holder(r) # r
    BY DEF StatusIsTrue
  <2>1. answer[r] # 0 => answer[r] = status[r]
    BY DEF HandlerOK, ProgressOK
  <2>2. Holder(r) # NoRequest => status[Holder(r)] \in {201, 500}
    BY Constants DEF HandlerOK, RecordOK, Holder
  <2>. QED
    BY <2>1, <2>2, PushesAssumption DEF HandlerOK, RecordOK
<1>. QED
  BY HandlerCorrect, <1>1, PTL

\* ADR-0006 at the boundary: the divergence counter misses no divergent replay
\* that was answered, and counts nothing else.
THEOREM DivergenceCounted == Spec => []DivergenceIsCounted
<1>1. HandlerOK => DivergenceIsCounted
  <2>. SUFFICES ASSUME HandlerOK, NEW r \in Requests
                PROVE  /\ answer[r] = 200 /\ accepted[Holder(r)] # accepted[r] =>
                            r \in Increments("divergent")
                       /\ r \in Increments("divergent") => accepted[Holder(r)] # accepted[r]
    BY DEF DivergenceIsCounted
  <2>1. answer[r] = 200 => status[r] = 200 /\ emit[r] = <<>>
    BY DEF HandlerOK, ProgressOK
  <2>. QED
    BY <2>1 DEF HandlerOK, DivergenceOK
<1>. QED
  BY HandlerCorrect, <1>1, PTL

\* labels.go: the ceiling on producer series holds for any number of producers
\* that race for the last slot.
THEOREM SeriesBounded == Spec => []SeriesAreBounded
<1>1. HandlerOK => SeriesAreBounded
  <2>. SUFFICES ASSUME HandlerOK
                PROVE  Cardinality({i.label : i \in counters} \ {Other}) <= LabelLimit
    BY DEF SeriesAreBounded
  <2>. DEFINE shown == {i.label : i \in counters} \ {Other}
  <2>1. shown \subseteq seen
    BY DEF HandlerOK, LabelsOK, LabelledFor
  <2>2. IsFiniteSet(seen) /\ Cardinality(seen) <= LabelLimit
    BY DEF HandlerOK, LabelsOK
  <2>3. Cardinality(shown) <= Cardinality(seen) /\ IsFiniteSet(shown)
    BY <2>1, <2>2, FS_Subset
  <2>4. Cardinality(shown) \in Nat /\ Cardinality(seen) \in Nat
    BY <2>2, <2>3, FS_CardinalityType
  <2>. QED
    BY <2>2, <2>3, <2>4, LimitsAssumption
<1>. QED
  BY HandlerCorrect, <1>1, PTL

\* labels.go: no producer moves from a series of its own to "other" or back.
THEOREM SeriesAreStable == Spec => []OneSeriesPerSource
<1>1. HandlerOK => OneSeriesPerSource
  BY DEF HandlerOK, LabelsOK, LabelledFor, OneSeriesPerSource
<1>. QED
  BY HandlerCorrect, <1>1, PTL

\* openapi.yaml: where the configuration stays steady for what is sent again, and no
\* label is cut inside a character, every replay that is answered has got 200 or an
\* error that was counted, whatever other requests do and however often the store fails.
THEOREM ReplaysAreDuplicates ==
  ASSUME ReplaysAreSteady
  PROVE  Spec => []ReplayIsDuplicate
<1>1. Init => ReplayOK
  BY Constants, PushesAssumption DEF Init, ReplayOK, PassedOK, ReplayOf, Holder
<1>2. HandlerOK /\ ReplayOK /\ [Next]_vars => ReplayOK'
  BY PassedStep, ReplayStep DEF HandlerOK, ReplayOK
<1>3. HandlerOK /\ ReplayOK => ReplayIsDuplicate
  <2>. SUFFICES ASSUME HandlerOK, ReplayOK, NEW r \in Requests, replay[r],
                       ContractSays[PushOf[r]] = 200, answer[r] # 0
                PROVE  answer[r] = 200 \/ r \in Increments("error")
    BY DEF ReplayIsDuplicate
  <2>1. pc[r] \in {"serve", "done"} /\ answer[r] = status[r]
    BY DEF HandlerOK, ProgressOK
  <2>2. emit[r] = <<>> /\ status[r] \in {0, 200, 500}
        /\ (status[r] = 500 => emit[r] = <<"error">> \/ r \in Increments("error"))
    BY <2>1 DEF ReplayOK, ReplayOf
  <2>. QED
    BY <2>1, <2>2
<1>. QED
  BY <1>1, <1>2, <1>3, HandlerCorrect, PTL DEF Spec

\* middleware.go: every request that is over has been counted with the status
\* its producer was sent.
THEOREM EveryAnswerCounts == Spec => []AnswersAreServed
<1>1. HandlerOK => AnswersAreServed
  BY DEF HandlerOK
<1>. QED
  BY HandlerCorrect, <1>1, PTL
=============================================================================
