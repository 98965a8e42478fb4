-------------------------- MODULE TransactionRules --------------------------
(***************************************************************************)
(* What becomes of a submission: Rules.Accept (src/internal/transaction),  *)
(* money.Parse, the fingerprint, the columns the transaction is stored in, *)
(* what a replay reads back from them (src/internal/store/postgres) and    *)
(* the event that announces it (src/internal/outbox/outbox.go).            *)
(*                                                                         *)
(* Text is modelled as far as the code looks at it.  A name (a type or a   *)
(* currency code) is a word with its case and padding; an amount is a      *)
(* sequence of digits, Minus, Point and Junk; an identifier read is a      *)
(* sequence of "A", "a" and "-" (anything that is not alphanumeric).       *)
(***************************************************************************)
EXTENDS Integers, Sequences, FiniteSets, SequencesExt

CONSTANTS
  TypeNames,         \* TRANSACTION_TYPES, a sequence of names
  Exponents,         \* the currency table: [codes -> minor units]
  DefaultCurrency,   \* a code, or NoCode
  NoCode,
  MaxClockSkew, DefaultMaxClockSkew, Now,
  Micro,             \* ticks of the producer's clock in a microsecond
  ColumnDigits,      \* integer digits of NUMERIC(19, 4)
  Pairs              \* submissions pushed first and again under the same key

ASSUME MicroAssumption == Micro \in Nat \ {0}

Minus == -1
Point == -2
Junk == -3
Digits == 0..9

Names == [word : STRING, upper : BOOLEAN, padded : BOOLEAN]
Amounts == Seq(Digits \cup {Minus, Point, Junk})
Reads == Seq({"A", "a", "-"})
Submissions ==
  [type : Names, time : Nat, currency : Names, amount : Amounts,
   plate : [number : Reads, jurisdiction : Reads], transponder : Reads]

ASSUME PairsAssumption == \A pair \in Pairs : \A i \in 1..2 : pair[i] \in Submissions
ASSUME ConfigurationAssumption ==
  /\ TypeNames \in Seq(Names)
  /\ Exponents \in [DOMAIN Exponents -> Nat]
  /\ {Now, MaxClockSkew, DefaultMaxClockSkew} \subseteq Int

NoWord == ""
Blank == [word |-> NoWord, upper |-> FALSE, padded |-> FALSE]
NoRead == <<>>
NoPlate == [number |-> NoRead, jurisdiction |-> NoRead]

VARIABLES
  first, second,   \* two submissions under one idempotency key
  verdict,         \* what Accept made of the first and of the second
  row,             \* the row of the first, when it was accepted
  event,           \* the outbox event written with the row
  outcome          \* what the second, a replay, is told

vars == <<first, second, verdict, row, event, outcome>>

-----------------------------------------------------------------------------
(* Names                                                                   *)

\* TrimSpace and ToLower (of a type) or ToUpper (of a code).
NameKey(name) == name.word

Trimmed(name) == [name EXCEPT !.padded = FALSE]

\* NewTypeSet: the last spelling of a type counts, blank names do not.
TypeSet ==
  LET named(w) == {i \in DOMAIN TypeNames : NameKey(TypeNames[i]) = w}
      words == {NameKey(TypeNames[i]) : i \in DOMAIN TypeNames} \ {NoWord}
  IN  [w \in words |-> Trimmed(TypeNames[CHOOSE i \in named(w) : \A j \in named(w) : j <= i])]

-----------------------------------------------------------------------------
(* Amounts                                                                 *)

Unsigned(raw) == IF raw # <<>> /\ raw[1] = Minus THEN Tail(raw) ELSE raw

Points(raw) == {i \in DOMAIN raw : raw[i] = Point}

\* ^-?[0-9]+(\.[0-9]+)?$
DecimalSyntax(raw) ==
  LET body == Unsigned(raw)
  IN  /\ body # <<>>
      /\ \A i \in DOMAIN body : body[i] \in Digits \cup {Point}
      /\ Cardinality(Points(body)) <= 1
      /\ Points(body) \subseteq 2..(Len(body) - 1)

\* Mutated form of DecimalPlaces: trailing zeros are not counted.
SignificantPlaces(raw) ==
  LET end == {i \in DOMAIN raw : raw[i] # 0 \/ \A p \in Points(raw) : i <= p}
      last == CHOOSE i \in end : \A j \in end : j <= i
  IN  IF Points(raw) = {} THEN 0
      ELSE last - CHOOSE p \in Points(raw) : \A q \in Points(raw) : q <= p

DecimalPlaces(raw) ==
  IF Points(raw) = {} THEN 0
  ELSE Len(raw) - CHOOSE p \in Points(raw) : \A q \in Points(raw) : q <= p

PowerOfTen[n \in Nat] == IF n = 0 THEN 1 ELSE 10 * PowerOfTen[n - 1]

\* The number that the digits among the first i characters make.
Absolute(raw) ==
  LET value[i \in Nat] == IF i = 0 THEN 0
                          ELSE IF raw[i] \in Digits THEN 10 * value[i - 1] + raw[i]
                          ELSE value[i - 1]
  IN  value

\* decimal.NewFromString: coefficient * 10^(-places).
Decimal(raw) ==
  LET absolute == Absolute(raw)[Len(raw)]
  IN  [coefficient |-> IF raw[1] = Minus THEN -absolute ELSE absolute,
       places |-> DecimalPlaces(raw)]

\* Decimal.String: without trailing zeros, and without a sign for zero.
Canonical(d) ==
  LET divides(p) == d.coefficient % PowerOfTen[d.places - p] = 0
      places == CHOOSE p \in 0..d.places : divides(p) /\ \A q \in 0..d.places : divides(q) => p <= q
  IN  [coefficient |-> d.coefficient \div PowerOfTen[d.places - places], places |-> places]

-----------------------------------------------------------------------------
(* Identifiers                                                             *)

\* canonicalize: upper-case letters and digits only.
CanonicalRead(read) ==
  [i \in 1..Cardinality({j \in DOMAIN read : read[j] # "-"}) |-> "A"]

\* Mutated form of Usable: the read as sent is looked at.
UsableAsSent(read) == read # NoRead

\* Plate.IsEmpty and Transponder.IsEmpty, negated.
Usable(read) == CanonicalRead(read) # NoRead

-----------------------------------------------------------------------------
(* Rules.Accept                                                            *)

NoProblem == "none"

TypeProblem(s) ==
  IF NameKey(s.type) \in DOMAIN TypeSet THEN NoProblem ELSE "transaction_type"

Skew == IF MaxClockSkew <= 0 THEN DefaultMaxClockSkew ELSE MaxClockSkew

\* The zero time is year 1, tick 0.
TimeProblem(s) ==
  IF s.time = 0 \/ s.time > Now + Skew THEN "transaction_time_utc" ELSE NoProblem

Currency(s) == IF s.currency = Blank THEN DefaultCurrency ELSE NameKey(s.currency)

CurrencyProblem(s) ==
  IF Currency(s) \in DOMAIN Exponents THEN NoProblem ELSE "currency"

\* Without a currency there is no precision to check the amount against.
AmountProblem(s) ==
  IF CurrencyProblem(s) # NoProblem THEN NoProblem
  ELSE IF \/ ~DecimalSyntax(s.amount)
          \/ DecimalPlaces(s.amount) > Exponents[Currency(s)]
          \/ Decimal(s.amount).coefficient < 0
         THEN "base_amount" ELSE NoProblem

Plate(s) == IF Usable(s.plate.number) THEN s.plate ELSE NoPlate
Transponder(s) == IF Usable(s.transponder) THEN s.transponder ELSE NoRead

IdentityProblem(s) ==
  IF Plate(s) = NoPlate /\ Transponder(s) = NoRead THEN "identity" ELSE NoProblem

Transaction(s) ==
  [type |-> TypeSet[NameKey(s.type)], time |-> s.time, plate |-> Plate(s),
   transponder |-> Transponder(s), amount |-> s.amount, currency |-> Currency(s)]

AppendIf(problems, problem) ==
  IF problem = NoProblem THEN problems ELSE Append(problems, problem)

Problems(s) ==
  LET types == AppendIf(<<>>, TypeProblem(s))
      times == AppendIf(types, TimeProblem(s))
      currencies == AppendIf(times, CurrencyProblem(s))
      amounts == AppendIf(currencies, AmountProblem(s))
  IN  AppendIf(amounts, IdentityProblem(s))

Passes(s) == Problems(s) = <<>>

Accept(s) ==
  IF Passes(s) THEN [problems |-> <<>>, tx |-> Transaction(s)]
  ELSE [problems |-> Problems(s)]

\* Mutated form of Fingerprint: the amount as it was received.
FingerprintOfText(tx) == tx

Fingerprint(tx) == [tx EXCEPT !.amount = Canonical(Decimal(tx.amount))]

-----------------------------------------------------------------------------
(* The row, and what is read back                                          *)

\* An empty text is stored as NULL, and NULL is read as an empty text.
Row(tx) ==
  [type |-> tx.type, occurred_at |-> tx.time \div Micro,
   plate_number |-> tx.plate.number, plate_jurisdiction |-> tx.plate.jurisdiction,
   plate_number_key |-> CanonicalRead(tx.plate.number),
   transponder_number |-> tx.transponder,
   transponder_number_key |-> CanonicalRead(tx.transponder),
   base_amount |-> Decimal(tx.amount), base_amount_text |-> tx.amount,
   currency |-> tx.currency, fingerprint |-> Fingerprint(tx)]

\* Mutated form of ReadBack: the matching key is scanned into the number.
ReadBackOfKeys(r) ==
  [type |-> r.type, time |-> r.occurred_at * Micro,
   plate |-> IF r.plate_number = NoRead THEN NoPlate
             ELSE [number |-> r.plate_number_key, jurisdiction |-> r.plate_jurisdiction],
   transponder |-> r.transponder_number,
   amount |-> r.base_amount_text, currency |-> r.currency]

\* getByKeyTx: a plate is restored when its number is not NULL.
ReadBack(r) ==
  [type |-> r.type, time |-> r.occurred_at * Micro,
   plate |-> IF r.plate_number = NoRead THEN NoPlate
             ELSE [number |-> r.plate_number, jurisdiction |-> r.plate_jurisdiction],
   transponder |-> r.transponder_number,
   amount |-> r.base_amount_text, currency |-> r.currency]

-----------------------------------------------------------------------------
(* The event                                                               *)

\* Mutated form of StringFixed: two places for every currency.
StringFixedTwo(d, places) ==
  [coefficient |-> IF d.places <= 2 THEN d.coefficient * PowerOfTen[2 - d.places]
                   ELSE (d.coefficient + 5 * PowerOfTen[d.places - 3]) \div PowerOfTen[d.places - 2],
   places |-> 2]

\* Decimal.StringFixed: padded with zeros, or rounded half up, to so many places.
StringFixed(d, places) ==
  [coefficient |-> IF d.places <= places THEN d.coefficient * PowerOfTen[places - d.places]
                   ELSE (d.coefficient + 5 * PowerOfTen[d.places - places - 1])
                          \div PowerOfTen[d.places - places],
   places |-> places]

\* NewTransactionReceived: the reads as sent and their keys, the producer's clock
\* in full, the amount at the minor units of its currency.
TransactionReceived(tx) ==
  [transaction_type |-> tx.type, transaction_time_utc |-> tx.time,
   plate_number |-> tx.plate.number, plate_jurisdiction |-> tx.plate.jurisdiction,
   plate_number_key |-> CanonicalRead(tx.plate.number),
   transponder_number |-> tx.transponder,
   transponder_number_key |-> CanonicalRead(tx.transponder),
   base_amount |-> StringFixed(Decimal(tx.amount), Exponents[tx.currency]),
   currency |-> tx.currency]

-----------------------------------------------------------------------------
(* Two pushes under one key                                                *)

NotYet == [problems |-> <<"not yet">>]
NoRow == [currency |-> NoCode]
NoEvent == [currency |-> NoCode]
NoOutcome == [divergent |-> FALSE]

Init ==
  /\ \E pair \in Pairs : first = pair[1] /\ second = pair[2]
  /\ verdict = <<NotYet, NotYet>>
  /\ row = NoRow /\ event = NoEvent
  /\ outcome = NoOutcome

\* The first push is accepted and recorded with its event, or rejected.
PushFirst ==
  /\ verdict[1] = NotYet
  /\ verdict' = [verdict EXCEPT ![1] = Accept(first)]
  /\ IF Passes(first)
       THEN /\ row' = Row(Transaction(first))
            /\ event' = TransactionReceived(Transaction(first))
       ELSE UNCHANGED <<row, event>>
  /\ UNCHANGED <<first, second, outcome>>

\* The second push finds the row and reads it back.
PushSecond ==
  /\ row # NoRow
  /\ verdict[2] = NotYet
  /\ verdict' = [verdict EXCEPT ![2] = Accept(second)]
  /\ outcome' =
       IF Passes(second)
         THEN [divergent |-> row.fingerprint # Fingerprint(Transaction(second)), tx |-> ReadBack(row)]
         ELSE outcome
  /\ UNCHANGED <<first, second, row, event>>

Next == PushFirst \/ PushSecond

Spec == Init /\ [][Next]_vars

-----------------------------------------------------------------------------
(* Properties                                                              *)

\* The text is n digits, or n digits, a point and that many decimal places.
IsDecimal(text, n, places) ==
  /\ Len(text) = IF places = 0 THEN n ELSE n + 1 + places
  /\ SubSeq(text, 1, n) \in [1..n -> Digits]
  /\ places > 0 => /\ text[n + 1] = Point
                   /\ SubSeq(text, n + 2, Len(text)) \in [1..places -> Digits]

Zeros(raw) == \A i \in DOMAIN raw : raw[i] \in {Minus, Point, 0}

\* openapi.yaml and ADR-0004, ADR-0009: which fields a producer is owed a 400 for.
Faults(s) ==
  LET currency == IF s.currency = Blank THEN DefaultCurrency ELSE s.currency.word
      known == currency \in DOMAIN Exponents
      exact(text) == \E places \in 0..Exponents[currency], n \in 1..Len(text) :
                       IsDecimal(text, n, places)
      payable == \/ exact(s.amount)
                 \/ /\ s.amount # <<>> /\ Head(s.amount) = Minus
                    /\ exact(Tail(s.amount)) /\ Zeros(s.amount)
      seen(read) == \E i \in DOMAIN read : read[i] # "-"
  IN  {f \in {"transaction_type", "transaction_time_utc", "currency", "base_amount", "identity"} :
         \/ f = "transaction_type" /\
              s.type.word \notin {TypeNames[i].word : i \in DOMAIN TypeNames} \ {NoWord}
         \/ f = "transaction_time_utc" /\ (s.time = 0 \/ s.time - Now > Skew)
         \/ f = "currency" /\ ~known
         \/ f = "base_amount" /\ known /\ ~payable
         \/ f = "identity" /\ ~seen(s.plate.number) /\ ~seen(s.transponder)}

\* A submission is rejected exactly for what is wrong with it, and told all of
\* it at once, each field once.
ReportsEveryProblem ==
  verdict[1] # NotYet =>
    /\ ToSet(verdict[1].problems) = Faults(first)
    /\ Len(verdict[1].problems) = Cardinality(Faults(first))

\* The CHECK constraints never fail for what Accept lets through: a rejection is
\* a 400 from the rules, not a 500 from the database.
AcceptedPassesChecks ==
  row # NoRow =>
    /\ row.plate_number_key # NoRead \/ row.transponder_number_key # NoRead
    /\ ~(row.base_amount.coefficient < 0)

\* A replay is shown what was accepted, to the byte, and the transaction that is
\* read back has the fingerprint that is stored.
ReadBackIsFaithful ==
  "tx" \in DOMAIN outcome =>
    /\ outcome.tx = verdict[1].tx
    /\ Fingerprint(outcome.tx) = row.fingerprint

SameMoney(s, t) ==
  LET d == Decimal(s.amount)
      e == Decimal(t.amount)
  IN  d.coefficient * PowerOfTen[e.places] = e.coefficient * PowerOfTen[d.places]

\* A replay is divergent exactly when its billable content differs: formatting
\* of the amount and spelling of names do not count, raw reads do.
DivergentMeansDifferent ==
  "tx" \in DOMAIN outcome =>
    (outcome.divergent <=>
       ~ /\ first.type.word = second.type.word
         /\ first.time = second.time
         /\ Plate(first) = Plate(second) /\ Transponder(first) = Transponder(second)
         /\ Currency(first) = Currency(second)
         /\ SameMoney(first, second))

\* What an event says of the billable content, in the fingerprint's terms.
EventContent(e) ==
  [type |-> e.transaction_type, time |-> e.transaction_time_utc,
   plate |-> [number |-> e.plate_number, jurisdiction |-> e.plate_jurisdiction],
   transponder |-> e.transponder_number,
   amount |-> Canonical(e.base_amount), currency |-> e.currency]

\* The pipeline downstream is told what was accepted: the billable content of
\* the event is that of the recorded fingerprint, its matching keys are those of
\* the row, and its amount has every minor unit of its currency and no more.
EventAnnouncesRow ==
  row # NoRow =>
    /\ EventContent(event) = row.fingerprint
    /\ event.plate_number_key = row.plate_number_key
    /\ event.transponder_number_key = row.transponder_number_key
    /\ event.base_amount.places = Exponents[row.currency]

\* What the rules accept, the columns can hold.
AcceptedFitsColumn ==
  row # NoRow =>
    row.base_amount.coefficient < PowerOfTen[ColumnDigits + row.base_amount.places]

-----------------------------------------------------------------------------
(* The inductive invariant behind the properties                           *)

\* What is stored, announced or shown came about as the code says, from a push
\* that passed.
RulesOK ==
  /\ \E pair \in Pairs : first = pair[1] /\ second = pair[2]
  /\ verdict = <<verdict[1], verdict[2]>>
  /\ verdict[1] \in {NotYet, Accept(first)}
  /\ row # NoRow =>
       /\ Passes(first) /\ verdict[1] = Accept(first)
       /\ row = Row(Transaction(first))
       /\ event = TransactionReceived(Transaction(first))
  /\ "tx" \in DOMAIN outcome =>
       /\ row # NoRow /\ Passes(second)
       /\ outcome = [divergent |-> row.fingerprint # Fingerprint(Transaction(second)),
                     tx |-> ReadBack(row)]

\* The producer's clock has no fraction of a microsecond.
WholeMicroseconds == \A pair \in Pairs : pair[1].time % Micro = 0
=============================================================================
