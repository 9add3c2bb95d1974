------------------------------ MODULE MCPipeline -------------------------------
(***************************************************************************)
(* Model checking of Pipeline, and a statement of the documentation the    *)
(* code does not keep: it is checked by a run of its own, which ends with  *)
(* the counterexample.                                                     *)
(***************************************************************************)
EXTENDS Pipeline

\* orchestrator.py: "Poll each submitted item's job; on succeeded persist".  The
\* poll list is cut to the oldest PollLimit items and those are not rotated, so
\* items whose jobs are lost keep later ones from ever being polled.
SucceededJob(i) ==
    rows[i].state = "submitted" /\ rows[i].job # NoJob /\ jobs[i][rows[i].job] = "ok"
EverySucceededJobIsPolled ==
    \A i \in Items \ Forgettable : SucceededJob(i) ~> rows[i].state = "distilled"
===============================================================================
