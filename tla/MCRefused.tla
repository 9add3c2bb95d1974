------------------------------- MODULE MCRefused -------------------------------
(***************************************************************************)
(* Pipeline with a history of the refusals of quant_distill, to check what *)
(* the documentation says of them.  The run ends with the counterexample.  *)
(***************************************************************************)
EXTENDS Pipeline

VARIABLE refusals  \* refusals[i]: how many submissions of item i were answered 422

\* A submission of an item in Refused that raises was answered 422, or not at all.  (The
\* items of Refused have a text here, so one that is submitted is POSTed.)
CountRefusals ==
    \E answered \in SUBSET {i \in Refused : SubmitRaises(i)} :
        refusals' = [i \in Items |-> refusals[i] + IF i \in answered THEN 1 ELSE 0]

RefusalInit == Init /\ refusals = [i \in Items |-> 0]
RefusalNext == Next /\ CountRefusals
RefusalSpec == RefusalInit /\ [][RefusalNext]_<<vars, refusals>>

\* quant_reddit_spec.md: "Do not retry an unchanged HTTP 422 request".  The text of a
\* row never changes, so a second refusal answers the same request once more.
RefusedIsNotRetried == \A i \in Refused : refusals[i] <= 1
===============================================================================
