---------------------------- MODULE ItemLifecycle -----------------------------
(***************************************************************************)
(* What quant_reddit promises about one ledger item, with no worker, no    *)
(* queue and no HTTP call in sight:                                        *)
(*                                                                         *)
(*   absent --Ingest--> pending --Complete--> distilled                    *)
(*                         |                                               *)
(*                         +------Exhaust---> failed                       *)
(*                                                                         *)
(* One result is stored while the item is pending, it is never replaced,   *)
(* and only an item that has one completes; an item that has one is never  *)
(* given up.  Pipeline implements this specification.                      *)
(***************************************************************************)
EXTENDS Naturals

CONSTANTS Items, NoResult

VARIABLES phase,     \* phase[i]: where the item stands
          result     \* result[i]: the stored distillation, or NoResult

lifeVars == <<phase, result>>

Init ==
    /\ phase \in [Items -> {"absent", "pending"}]
    /\ result = [i \in Items |-> NoResult]

Ingest(i) ==
    /\ phase[i] = "absent"
    /\ phase' = [phase EXCEPT ![i] = "pending"]
    /\ UNCHANGED result

StoreResult(i) ==
    /\ phase[i] = "pending"
    /\ result[i] = NoResult
    /\ result'[i] \in Nat \ {NoResult}
    /\ result' = [result EXCEPT ![i] = result'[i]]
    /\ UNCHANGED phase

Complete(i) ==
    /\ phase[i] = "pending"
    /\ result[i] # NoResult
    /\ phase' = [phase EXCEPT ![i] = "distilled"]
    /\ UNCHANGED result

Exhaust(i) ==
    /\ phase[i] = "pending"
    /\ result[i] = NoResult
    /\ phase' = [phase EXCEPT ![i] = "failed"]
    /\ UNCHANGED result

Next == \E i \in Items : Ingest(i) \/ StoreResult(i) \/ Complete(i) \/ Exhaust(i)

Spec == Init /\ [][Next]_lifeVars
===============================================================================
