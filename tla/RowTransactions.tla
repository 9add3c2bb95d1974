---------------------------- MODULE RowTransactions ----------------------------
(***************************************************************************)
(* The methods of RedditRepository that write one item, and the purge of   *)
(* the repair script, statement by statement (app/repository/postgres.py), *)
(* with any number of processes calling them at the same time.             *)
(*                                                                         *)
(* PostgreSQL is external and modelled at its default level, READ          *)
(* COMMITTED: a statement sees what is committed when it starts and what   *)
(* its own transaction wrote; an UPDATE or DELETE waits for the lock of    *)
(* the row and then looks at it again; an INSERT waits for a transaction   *)
(* that is inserting or deleting the same key; a foreign key takes a       *)
(* share lock on the row it names, which excludes its deletion but not its *)
(* UPDATE.  A transaction that raises or loses its client is rolled back.  *)
(***************************************************************************)
EXTENDS Ledger

CONSTANTS
    Clients,      \* processes that call the repository, numbers from 1
    MaxAttempts,  \* distill_max_attempts
    MaxDeaths     \* bound: processes that die in a call

ASSUME ClientsAssumption == Clients \subseteq Nat \ {0}
ASSUME MaxAttemptsAssumption == MaxAttempts \in Nat \ {0}
ASSUME DeathsAssumption == MaxDeaths \in Nat

VARIABLES
    item,    \* the committed row in reddit_items
    writer,  \* who holds its lock, having written draft, or Nobody
    draft,   \* the row as the open transaction of writer has it
    sharers, \* who holds a share lock on it for a foreign key
    result,  \* the job whose result is committed in distillations, or NoJob
    storer,  \* who is inserting or has deleted that result, or Nobody
    client,  \* client[c]: the method, the statement that comes next, the answer
    purged,  \* whether a row was ever deleted (kept to state the properties)
    deaths   \* processes that died so far

vars == <<item, writer, draft, sharers, result, storer, client, purged, deaths>>

Nobody == 0
Methods == {"insert", "distilled", "submitted", "requeue", "fail", "store", "purge"}
Steps == {"idle", "begin", "insert", "key", "select", "settle", "delete", "commit", "reread", "done"}
Verdicts == {"none", "new", "failed"}
Answers == {"none", "new", "dup", "ok", "failed", "raised"}
Idle == [op |-> "none", at |-> "idle", verdict |-> "none", answer |-> "none"]

\* A lock is held by an open transaction only, and a row is only written under its lock.
RowTypeOK ==
    /\ item \in Row /\ draft \in Row
    /\ writer \in Clients \union {Nobody} /\ storer \in Clients \union {Nobody}
    /\ sharers \subseteq Clients
    /\ result \in Nat /\ purged \in BOOLEAN
    /\ client \in [Clients -> [op : Methods \union {"none"}, at : Steps,
                               verdict : Verdicts, answer : Answers]]
    /\ deaths \in 0..MaxDeaths
    /\ \A c \in {writer, storer} \union sharers :
         c # Nobody => client[c].at \notin {"idle", "begin", "reread", "done"}

Init ==
    /\ item \in {AbsentRow, FreshRow, LegacyRow}
    /\ draft = AbsentRow
    /\ writer = Nobody /\ storer = Nobody /\ sharers = {}
    /\ result = NoJob
    /\ client = [c \in Clients |-> Idle]
    /\ purged = FALSE
    /\ deaths = 0

-------------------------------------------------------------------------------
(***************************************************************************)
(* Transactions.                                                           *)
(***************************************************************************)
At(c, ops, step) == client[c].op \in ops /\ client[c].at = step
Continue(c, step) == client' = [client EXCEPT ![c].at = step]
AnswerWith(c, answer) == client' = [client EXCEPT ![c].at = "done", ![c].answer = answer]

Locks == <<writer, draft, sharers, storer>>
Committed == <<item, result, purged>>

\* What a statement of client c sees.
Seen(c) == IF writer = c THEN draft ELSE item

Lock(c, written) == writer' = c /\ draft' = written /\ UNCHANGED <<sharers, storer>>

Release(c) ==
    /\ writer' = IF writer = c THEN Nobody ELSE writer
    /\ draft' = IF writer = c THEN AbsentRow ELSE draft
    /\ storer' = IF storer = c THEN Nobody ELSE storer
    /\ sharers' = sharers \ {c}

Rollback_KeepsLocks(c) == UNCHANGED <<Committed, Locks>>

Rollback(c) == Release(c) /\ UNCHANGED Committed

\* The caller has found the item in the ledger, in a state that calls for the method.
MayCall(op) ==
    /\ op = "submitted" => item.state = "new"
    /\ op \in {"distilled", "store"} => item.state = "submitted"
    /\ op = "fail" => item.state \in {"new", "submitted"} /\ item.attempts < MaxAttempts

Call(c, op) ==
    /\ client[c].at = "idle"
    /\ MayCall(op)
    /\ client' = [client EXCEPT ![c].op = op, ![c].at = "begin"]
    /\ UNCHANGED <<Committed, Locks, deaths>>

Return(c) ==
    /\ client[c].at = "done"
    /\ client' = [client EXCEPT ![c] = Idle]
    /\ UNCHANGED <<Committed, Locks, deaths>>

\* The process dies or loses its connection, and its transaction is rolled back.
Die(c) ==
    /\ client[c].at # "idle"
    /\ deaths < MaxDeaths
    /\ deaths' = deaths + 1
    /\ client' = [client EXCEPT ![c] = Idle]
    /\ Rollback(c)

-------------------------------------------------------------------------------
(***************************************************************************)
(* insert_item.                                                            *)
(***************************************************************************)

\* existing = self.get_item(...)
FindItem(c) ==
    /\ At(c, {"insert"}, "begin")
    /\ IF item.state # "absent" THEN AnswerWith(c, "dup") ELSE Continue(c, "insert")
    /\ UNCHANGED <<Committed, Locks, deaths>>

\* The INSERT; a row that got there first is an IntegrityError.
InsertRow(c) ==
    /\ At(c, {"insert"}, "insert")
    /\ writer = Nobody
    /\ IF item.state = "absent"
       THEN Lock(c, FreshRow) /\ Continue(c, "commit")
       ELSE Continue(c, "reread") /\ UNCHANGED Locks
    /\ UNCHANGED <<Committed, deaths>>

RereadItem_TriesAgain(c) ==
    /\ At(c, {"insert"}, "reread")
    /\ Continue(c, "begin")
    /\ UNCHANGED <<Committed, Locks, deaths>>

\* except IntegrityError: the row that got there first, unless it is gone again.
RereadItem(c) ==
    /\ At(c, {"insert"}, "reread")
    /\ AnswerWith(c, IF item.state # "absent" THEN "dup" ELSE "raised")
    /\ UNCHANGED <<Committed, Locks, deaths>>

-------------------------------------------------------------------------------
(***************************************************************************)
(* set_item_state, mark_item_submitted, requeue_submitting_items: one      *)
(* UPDATE each.                                                            *)
(***************************************************************************)
Matches(op, r) == IF op = "requeue" THEN r.state = "submitting" ELSE r.state # "absent"

Updated(op, c, r) ==
    CASE op = "distilled" -> SetItemState(r, "distilled")
      [] op = "submitted" -> MarkItemSubmitted(r, c)
      [] op = "requeue"   -> RequeueSubmitting(r)

UpdateRow(c) ==
    /\ At(c, {"distilled", "submitted", "requeue"}, "begin")
    /\ IF Matches(client[c].op, item)
       THEN /\ writer = Nobody
            /\ Lock(c, Updated(client[c].op, c, item))
            /\ Continue(c, "commit")
       ELSE AnswerWith(c, "ok") /\ UNCHANGED Locks
    /\ UNCHANGED <<Committed, deaths>>

-------------------------------------------------------------------------------
(***************************************************************************)
(* record_distill_failure: three statements in one transaction.            *)
(***************************************************************************)

\* SET distill_attempts = distill_attempts + 1, computed under the lock.
CountAttempt(c) ==
    /\ At(c, {"fail"}, "begin")
    /\ IF item.state # "absent"
       THEN writer = Nobody /\ Lock(c, [item EXCEPT !.attempts = @ + 1])
       ELSE UNCHANGED Locks
    /\ Continue(c, "select")
    /\ UNCHANGED <<Committed, deaths>>

Verdict(attempts) == IF attempts >= MaxAttempts THEN "failed" ELSE "new"

SelectAttempts_OutsideTheTransaction(c) ==
    /\ At(c, {"fail"}, "select")
    /\ IF item.state = "absent"
       THEN AnswerWith(c, "raised") /\ Rollback(c)
       ELSE /\ client' = [client EXCEPT ![c].at = "settle", ![c].verdict = Verdict(item.attempts)]
            /\ UNCHANGED <<Committed, Locks>>
    /\ UNCHANGED deaths

\* scalar_one() raises if there is no row.
SelectAttempts(c) ==
    /\ At(c, {"fail"}, "select")
    /\ IF Seen(c).state = "absent"
       THEN AnswerWith(c, "raised") /\ Rollback(c)
       ELSE /\ client' = [client EXCEPT ![c].at = "settle", ![c].verdict = Verdict(Seen(c).attempts)]
            /\ UNCHANGED <<Committed, Locks>>
    /\ UNCHANGED deaths

\* The second UPDATE; without the lock of the first it has to look for the row itself.
SettleRow(c) ==
    /\ At(c, {"fail"}, "settle")
    /\ IF Seen(c).state # "absent"
       THEN /\ writer \in {c, Nobody}
            /\ Lock(c, [Seen(c) EXCEPT !.state = client[c].verdict, !.job = NoJob])
            /\ Continue(c, "commit")
       ELSE AnswerWith(c, client[c].verdict) /\ UNCHANGED Locks
    /\ UNCHANGED <<Committed, deaths>>

-------------------------------------------------------------------------------
(***************************************************************************)
(* insert_distillation.                                                    *)
(***************************************************************************)
FindResult(c) ==
    /\ At(c, {"store"}, "begin")
    /\ IF result # NoJob THEN AnswerWith(c, "dup") ELSE Continue(c, "insert")
    /\ UNCHANGED <<Committed, Locks, deaths>>

\* The INSERT reaches the unique index ...
InsertResult(c) ==
    /\ At(c, {"store"}, "insert")
    /\ storer = Nobody
    /\ IF result = NoJob
       THEN storer' = c /\ Continue(c, "key") /\ UNCHANGED <<writer, draft, sharers>>
       ELSE Continue(c, "reread") /\ UNCHANGED Locks
    /\ UNCHANGED <<Committed, deaths>>

BeingDeleted == writer # Nobody /\ item.state # "absent" /\ draft.state = "absent"

\* ... and then its foreign key, which waits for a transaction that deletes the item.
CheckForeignKey(c) ==
    /\ At(c, {"store"}, "key")
    /\ ~BeingDeleted
    /\ IF item.state # "absent"
       THEN /\ sharers' = sharers \union {c}
            /\ Continue(c, "commit")
            /\ UNCHANGED <<Committed, writer, draft, storer>>
       ELSE Continue(c, "reread") /\ Rollback(c)
    /\ UNCHANGED deaths

\* except IntegrityError, of either kind.
RereadResult(c) ==
    /\ At(c, {"store"}, "reread")
    /\ AnswerWith(c, IF result # NoJob THEN "dup" ELSE "raised")
    /\ UNCHANGED <<Committed, Locks, deaths>>

-------------------------------------------------------------------------------
(***************************************************************************)
(* purge_items of the repair script: the results, then the items.          *)
(***************************************************************************)
DeleteResult(c) ==
    /\ At(c, {"purge"}, "begin")
    /\ IF result # NoJob
       THEN storer = Nobody /\ storer' = c /\ UNCHANGED <<writer, draft, sharers>>
       ELSE UNCHANGED Locks
    /\ Continue(c, "delete")
    /\ UNCHANGED <<Committed, deaths>>

DeleteItem_Unchecked(c) ==
    /\ At(c, {"purge"}, "delete")
    /\ IF item.state # "absent"
       THEN writer = Nobody /\ Lock(c, AbsentRow) /\ Continue(c, "commit")
       ELSE AnswerWith(c, "ok") /\ UNCHANGED Locks
    /\ UNCHANGED <<Committed, deaths>>

\* The DELETE raises if a result still refers to the row when it is done.
DeleteItem(c) ==
    /\ At(c, {"purge"}, "delete")
    /\ IF item.state # "absent"
       THEN /\ writer = Nobody /\ sharers = {}
            /\ IF result # NoJob /\ storer # c
               THEN AnswerWith(c, "raised") /\ Rollback(c)
               ELSE Lock(c, AbsentRow) /\ Continue(c, "commit") /\ UNCHANGED Committed
       ELSE AnswerWith(c, "ok") /\ UNCHANGED <<Committed, Locks>>
    /\ UNCHANGED deaths

-------------------------------------------------------------------------------
\* What a call that has written answers.
AnswerOf(c) ==
    CASE client[c].op \in {"insert", "store"} -> "new"
      [] client[c].op = "fail" -> client[c].verdict
      [] OTHER -> "ok"

Commit(c) ==
    /\ client[c].at = "commit"
    /\ item' = Seen(c)
    /\ result' = IF storer # c THEN result ELSE IF client[c].op = "store" THEN c ELSE NoJob
    /\ purged' = (purged \/ client[c].op = "purge")
    /\ Release(c)
    /\ AnswerWith(c, AnswerOf(c))
    /\ UNCHANGED deaths

Statement(c) ==
    \/ FindItem(c) \/ InsertRow(c) \/ RereadItem(c)
    \/ UpdateRow(c)
    \/ CountAttempt(c) \/ SelectAttempts(c) \/ SettleRow(c)
    \/ FindResult(c) \/ InsertResult(c) \/ CheckForeignKey(c) \/ RereadResult(c)
    \/ DeleteResult(c) \/ DeleteItem(c)
    \/ Commit(c)

Next == \E c \in Clients :
    (\E op \in Methods : Call(c, op)) \/ Statement(c) \/ Return(c) \/ Die(c)

Spec == Init /\ [][Next]_vars

\* Locks are granted in the order they were asked for, so a statement that can go on
\* again and again does.
Fairness == \A c \in Clients : SF_vars(Statement(c)) /\ WF_vars(Return(c))
FairSpec == Spec /\ Fairness

-------------------------------------------------------------------------------
(***************************************************************************)
(* Properties.                                                             *)
(***************************************************************************)

\* The check and the INSERT of insert_distillation, and the two DELETEs of a purge, may
\* interleave in any order: no result is ever left without its item.
ResultHasItem == result # NoJob => item.state # "absent"

\* Whatever the statements of several processes do in between, each call takes effect at
\* one instant, as the operator of Ledger that Pipeline applies for it: no attempt is
\* lost, one of several inserts creates the row and the others are told of it.
CallOf(c) ==
    [op     |-> client[c].op,
     done   |-> client[c].at = "done",
     answer |-> client[c].answer]
Calls == INSTANCE RowCalls WITH row <- item, call <- [c \in Clients |-> CallOf(c)]
ImplementsCalls == Calls!Spec

\* No call waits for ever: not two of them for each other, nor one for a lock whose
\* holder has died.
CallsReturn == \A c \in Clients : client[c].at # "idle" ~> client[c].at = "idle"
===============================================================================
