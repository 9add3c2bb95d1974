----------------------------- MODULE MCMaintenance -----------------------------
(***************************************************************************)
(* Model checking of Maintenance, and the statements that do not survive a *)
(* repair while the workers are running.                                   *)
(***************************************************************************)
EXTENDS Maintenance

\* README.md: "An item is marked distilled only after its request and successful
\* response are persisted".  A reset between insert_distillation and set_item_state
\* deletes the response, and the item is marked distilled all the same.
DistilledIsStoredOnline ==
    \A i \in Items : rows[i].state = "distilled" => results[i] # NoResult
===============================================================================
