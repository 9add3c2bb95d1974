------------------------------- MODULE RowCalls --------------------------------
(***************************************************************************)
(* What the methods of RedditRepository that write one item promise their  *)
(* callers: every call takes effect at one instant between its start and   *)
(* its return, the effect is the operator of Ledger, and the answer tells  *)
(* what that effect was.  This is the level at which Pipeline, Maintenance *)
(* and ApiReads describe them; RowTransactions implements it.              *)
(*                                                                         *)
(* Client c stands for any process that uses the repository; the job it    *)
(* writes, as the job of the item or in its result, is numbered c.         *)
(***************************************************************************)
EXTENDS Ledger

CONSTANTS
    Clients,      \* processes that call the repository, numbers from 1
    MaxAttempts   \* distill_max_attempts

VARIABLES
    row,     \* the item's row in reddit_items
    result,  \* the job whose result distillations holds for it, or NoJob
    purged,  \* whether a row of this item was ever deleted
    call     \* call[c]: what client c has called, and the answer once there is one

callVars == <<row, result, purged, call>>

Methods == {"insert", "distilled", "submitted", "requeue", "fail", "store", "purge"}
Answers == {"none", "new", "dup", "ok", "failed", "raised"}
NoCall == [op |-> "none", done |-> FALSE, answer |-> "none"]

Init ==
    /\ row \in {AbsentRow, FreshRow, LegacyRow}
    /\ result = NoJob
    /\ purged = FALSE
    /\ call = [c \in Clients |-> NoCall]

\* The workers and the repair script apply updates to items they have found in the
\* ledger, and record failures of items that are new or submitted.
MayCall(op, found) ==
    /\ op = "submitted" => found.state = "new"
    /\ op \in {"distilled", "store"} => found.state = "submitted"
    /\ op = "fail" => found.state \in {"new", "submitted"} /\ found.attempts < MaxAttempts

Call(c, op) ==
    /\ call[c] = NoCall
    /\ MayCall(op, row)
    /\ call' = [call EXCEPT ![c].op = op]
    /\ UNCHANGED <<row, result, purged>>

Open(c, op) == call[c].op = op /\ ~call[c].done
Answer(c, answer) == call' = [call EXCEPT ![c].done = TRUE, ![c].answer = answer]

Insert(c) ==
    /\ Open(c, "insert")
    /\ row' = InsertItem(row)
    /\ Answer(c, IF row.state = "absent" THEN "new" ELSE "dup")
    /\ UNCHANGED <<result, purged>>

Updated(op, c) ==
    CASE op = "distilled" -> SetItemState(row, "distilled")
      [] op = "submitted" -> MarkItemSubmitted(row, c)
      [] op = "requeue"   -> RequeueSubmitting(row)

Update(c) ==
    \E op \in {"distilled", "submitted", "requeue"} :
        /\ Open(c, op)
        /\ row' = Updated(op, c)
        /\ Answer(c, "ok")
        /\ UNCHANGED <<result, purged>>

Fail(c) ==
    /\ Open(c, "fail")
    /\ row.state # "absent"
    /\ row' = RecordDistillFailure(row, MaxAttempts)
    /\ Answer(c, row'.state)
    /\ UNCHANGED <<result, purged>>

Store(c) ==
    /\ Open(c, "store")
    /\ row.state # "absent"
    /\ result' = IF result = NoJob THEN c ELSE result
    /\ Answer(c, IF result = NoJob THEN "new" ELSE "dup")
    /\ UNCHANGED <<row, purged>>

\* The repair script deletes the result and the row in one transaction.
Purge(c) ==
    /\ Open(c, "purge")
    /\ row' = AbsentRow
    /\ result' = NoJob
    /\ purged' = (purged \/ row # AbsentRow)
    /\ Answer(c, "ok")

\* ... unless a result stored in the meantime refers to the row.
PurgeRefused(c) ==
    /\ Open(c, "purge")
    /\ result # NoJob
    /\ Answer(c, "raised")
    /\ UNCHANGED <<row, result, purged>>

\* Only a purge beside them makes the other calls raise.
Raise(c) ==
    /\ \E op \in {"insert", "fail", "store"} : Open(c, op)
    /\ purged
    /\ Answer(c, "raised")
    /\ UNCHANGED <<row, result, purged>>

\* ... and lets record_distill_failure find a row it has not counted in: one that was
\* inserted between its statements.
LateFail(c) ==
    /\ Open(c, "fail")
    /\ purged
    /\ \E state \in {"new", "failed"} :
         /\ row' \in {row, IF row.state = "absent" THEN row
                           ELSE [row EXCEPT !.state = state, !.job = NoJob]}
         /\ Answer(c, state)
    /\ UNCHANGED <<result, purged>>

Return(c) ==
    /\ call[c].done
    /\ call' = [call EXCEPT ![c] = NoCall]
    /\ UNCHANGED <<row, result, purged>>

\* The process dies: what it called has happened or has not.
Die(c) ==
    /\ call[c] # NoCall
    /\ call' = [call EXCEPT ![c] = NoCall]
    /\ UNCHANGED <<row, result, purged>>

Next == \E c \in Clients :
    \/ \E op \in Methods : Call(c, op)
    \/ Insert(c) \/ Update(c) \/ Fail(c) \/ Store(c) \/ Purge(c)
    \/ PurgeRefused(c) \/ Raise(c) \/ LateFail(c)
    \/ Return(c) \/ Die(c)

Spec == Init /\ [][Next]_callVars
===============================================================================
