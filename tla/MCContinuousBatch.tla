------------------------- MODULE MCContinuousBatch -------------------------
(* A small instance of ContinuousBatch: four pages of two tokens, three requests whose
   prompts share their first block. *)
EXTENDS ContinuousBatch

\* A deterministic model over the tokens 1 and 2 that repeats itself often enough for a
\* draft to be accepted, and ends some generations with the token 3.
MCNextToken(h) ==
    IF Len(h) = 5 /\ h[3] = 1 THEN 3 ELSE IF h[Len(h)] = 1 THEN 2 ELSE ((Len(h) \div 2) % 2) + 1

MCAsked ==
    [r \in Requests |-> {<<<<1, 2, 1>>, 3>>}
                        \cup (IF r > 1 THEN {<<<<1, 2, 2>>, 3>>} ELSE {})
                        \cup (IF r > 2 THEN {<<<<1, 2, 2>>, 0>>} ELSE {})]
=============================================================================
