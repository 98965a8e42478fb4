---------------------------- MODULE MCApiProcess ----------------------------
(* An instance of ApiProcess.  Half is 8, so that numbers have four bits.    *)
EXTENDS ApiProcess, TLC

CONSTANTS r1, r2, p1

TwoTicks == [k \in NumberKeys |-> IF k = "OUTBOX_BATCH_SIZE" THEN 5 ELSE 2]
Toll == <<Name("toll")>>
Usd == [Name("usd") EXCEPT !.upper = TRUE]

Defaults == [k \in ConfigKeys |-> Unset]
Url == [Defaults EXCEPT !["DATABASE_URL"] = "postgres"]

\* One key is set to something that Load may refuse.
Values(k) ==
  IF k \in NumberKeys THEN {Junk, -1, 0}
  ELSE IF k = "TRANSACTION_TYPES"
    THEN {<<Name("")>>, <<Name(""), Name("")>>, <<[Name("fee") EXCEPT !.padded = TRUE], Name("")>>}
  ELSE {[Name("usd") EXCEPT !.padded = TRUE], [Name("debug") EXCEPT !.upper = TRUE],
        [Name("debug") EXCEPT !.padded = TRUE], Name("text"), [Name("text") EXCEPT !.upper = TRUE]}

Refusable == ConfigKeys \ {"DATABASE_URL"}

OneKeySet == UNION {{[Defaults EXCEPT ![k] = v] : v \in Values(k)} : k \in Refusable}

Several ==
  {[Defaults EXCEPT !["SHUTDOWN_TIMEOUT"] = v, !["LOG_LEVEL"] = w, !["LOG_FORMAT"] = w,
                    !["TRANSACTION_TYPES"] = <<Name(""), Name("")>>, !["MAX_CLOCK_SKEW"] = Junk] :
     v \in {Junk, 0, 1}, w \in {Name("verbose"), [Name("info") EXCEPT !.upper = TRUE]}}

\* Half, 2 * Half and 2 * Half + 1 narrow to a negative number, to 0 and to 1.
Pools == {[Url EXCEPT !["DATABASE_MAX_CONNS"] = n] : n \in {8, 16, 17}}

Ones == [k \in ConfigKeys |-> IF k \in NumberKeys THEN 1 ELSE Unset]

MCEnvironments == {Defaults, Ones} \cup OneKeySet \cup Several \cup Pools
MCCurrencies == {"usd"}
=============================================================================
