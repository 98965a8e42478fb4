------------------------- MODULE MCTransactionRules -------------------------
(* Bounded inputs for TransactionRules: every text of up to four characters as *)
(* an amount, and then pairs of pushes with the amounts that matter.           *)
EXTENDS TransactionRules, TLC

Name(w, u, p) == [word |-> w, upper |-> u, padded |-> p]

\* "toll" is configured twice, in two spellings, with a blank name between.
MCTypeNames == <<Name("toll", FALSE, FALSE), Name("", FALSE, TRUE), Name("toll", TRUE, TRUE)>>
MCExponents == ("usd" :> 2) @@ ("jpy" :> 0) @@ ("bhd" :> 3)

Texts(n) == UNION {[1..k -> {Minus, Point, 0, 5}] : k \in 0..n} \cup {<<5, Junk>>}
Money == {<<5>>, <<0, 5>>, <<5, Point, 0>>, <<5, Point, 5>>, <<5, Point, 5, 0>>,
          <<0>>, <<Minus, 0>>, <<5, 5, 5>>, <<5, Point, 5, 5, 5>>}

Types == {Name("toll", FALSE, TRUE), Name("parking", FALSE, FALSE)}
Codes == {Blank, Name("usd", FALSE, FALSE), Name("jpy", TRUE, TRUE), Name("", FALSE, TRUE)}
NoDash == [number |-> <<"-">>, jurisdiction |-> <<"A">>]
Lower == [number |-> <<"a", "-">>, jurisdiction |-> <<"A">>]
Upper == [number |-> <<"A">>, jurisdiction |-> <<"A">>]

Submission(types, times, codes, amounts, plates, transponders) ==
  [type : types, time : times, currency : codes, amount : amounts, plate : plates,
   transponder : transponders]

\* Now is 10 and the skew 2, so 13 is the first tick too far ahead.
AllTexts == Submission(Types, {0, 3, 12, 13}, Codes, Texts(4), {NoPlate, NoDash}, {NoRead, <<"A">>})
Plain == Submission({Name("toll", TRUE, FALSE)}, {3}, {Blank}, {<<5>>}, {NoPlate}, {<<"A">>})

Billable == Submission({Name("toll", FALSE, TRUE)}, {3, 4},
                       {Blank, Name("jpy", TRUE, TRUE), Name("bhd", FALSE, FALSE)}, Money,
                       {NoPlate, NoDash, Lower, Upper}, {NoRead, <<"-">>, <<"A">>, <<"a", "-">>})
Again == Submission({Name("toll", TRUE, FALSE), Name("parking", FALSE, FALSE)}, {3},
                    {Blank, Name("usd", TRUE, FALSE)}, Money,
                    {NoPlate, Lower}, {NoRead, <<"A">>})

Replays == Billable \X Again
MCPairs == (AllTexts \X Plain) \cup Replays
=============================================================================
