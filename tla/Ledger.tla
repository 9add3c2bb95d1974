-------------------------------- MODULE Ledger --------------------------------
(***************************************************************************)
(* The rows of reddit_items and what each transaction of RedditRepository  *)
(* (app/repository/postgres.py) does to one of them.  There is no variable *)
(* here: Pipeline and Maintenance own the rows and apply these operators,  *)
(* one per transaction, in their actions.                                  *)
(*                                                                         *)
(* A row keeps process_state, job_id and distill_attempts.  job_id and     *)
(* distill_request are always written by the same UPDATE, so job stands    *)
(* for both; job k is the k-th job quant_distill created for the item and  *)
(* NoJob is SQL NULL.  The state "absent" is a fullname with no row, and   *)
(* "submitting" is the state older versions of the service left behind;   *)
(* a submitted row without a job is what migration 0004 leaves when it is  *)
(* downgraded, dropping job_id, and applied again.                         *)
(* ProcessState.skipped is never written by the code and is left out.      *)
(*                                                                         *)
(* An operator named Op_Something is not part of the model: it is Op with  *)
(* a plausible mistake in it, kept beside Op to show that the properties   *)
(* would notice.  The other modules follow the same convention.            *)
(***************************************************************************)
EXTENDS Naturals, FiniteSets

States == {"absent", "new", "submitting", "submitted", "distilled", "failed"}
NoJob == 0
Row == [state : States, job : Nat, attempts : Nat]

AbsentRow     == [state |-> "absent",     job |-> NoJob, attempts |-> 0]
LegacyRow     == [state |-> "submitting", job |-> NoJob, attempts |-> 0]
JoblessRow    == [state |-> "submitted",  job |-> NoJob, attempts |-> 0]
FreshRow      == [state |-> "new",        job |-> NoJob, attempts |-> 0]

(***************************************************************************)
(* insert_item: the first write of a fullname wins, a later one returns    *)
(* the stored row unchanged.                                               *)
(***************************************************************************)
InsertItem_Overwrites(row) == FreshRow
InsertItem(row) == IF row.state = "absent" THEN FreshRow ELSE row

(***************************************************************************)
(* set_item_state and mark_item_submitted: UPDATE ... WHERE fullname = f,  *)
(* whatever state the row is in; no row, no effect.                        *)
(***************************************************************************)
SetItemState_Skips(row, state) ==
    IF row.state = "absent" THEN row ELSE [row EXCEPT !.state = "skipped"]
SetItemState(row, state) ==
    IF row.state = "absent" THEN row ELSE [row EXCEPT !.state = state]

MarkItemSubmitted_KeepsJob(row, job) ==
    IF row.state = "absent" THEN row ELSE [row EXCEPT !.state = "submitted"]
MarkItemSubmitted(row, job) ==
    IF row.state = "absent" THEN row
    ELSE [row EXCEPT !.state = "submitted", !.job = job]

(***************************************************************************)
(* requeue_submitting_items: UPDATE ... WHERE process_state =              *)
(* 'submitting'; job_id is not touched.                                    *)
(***************************************************************************)
RequeueSubmitting_TakesSubmitted(row) ==
    IF row.state \in {"submitting", "submitted"}
    THEN [row EXCEPT !.state = "new"] ELSE row
RequeueSubmitting_TakesNothing(row) == row
RequeueSubmitting(row) ==
    IF row.state = "submitting" THEN [row EXCEPT !.state = "new"] ELSE row

(***************************************************************************)
(* record_distill_failure: one more attempt, job_id and distill_request    *)
(* cleared; "failed" once max attempts are used up, "new" until then.      *)
(* Only called for a row that exists (scalar_one raises otherwise).        *)
(***************************************************************************)
RecordDistillFailure_OffByOne(row, max) ==
    [state    |-> IF row.attempts + 1 > max THEN "failed" ELSE "new",
     job      |-> NoJob,
     attempts |-> row.attempts + 1]
RecordDistillFailure_ResetsAttempts(row, max) ==
    [state    |-> IF row.attempts + 1 >= max THEN "failed" ELSE "new",
     job      |-> NoJob,
     attempts |-> IF row.attempts + 1 >= max THEN row.attempts + 1 ELSE 0]
RecordDistillFailure(row, max) ==
    [state    |-> IF row.attempts + 1 >= max THEN "failed" ELSE "new",
     job      |-> NoJob,
     attempts |-> row.attempts + 1]

(***************************************************************************)
(* list_items_by_state: the items in a state, oldest first.  Items are     *)
(* numbered in the order ORDER BY created_utc, id gives them, so a list is *)
(* a set walked from its least member, and LIMIT n keeps the n least.      *)
(***************************************************************************)
InState(rows, state) == {i \in DOMAIN rows : rows[i].state = state}
Oldest(S, n) == {i \in S : Cardinality({j \in S : j < i}) < n}
IsFirst(i, S) == i \in S /\ \A j \in S : i <= j
===============================================================================
