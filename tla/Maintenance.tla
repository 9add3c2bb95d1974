------------------------------ MODULE Maintenance ------------------------------
(***************************************************************************)
(* The pipeline while an operator repairs it with                          *)
(* scripts/requeue_distillations.py --apply.                               *)
(*                                                                         *)
(* A repair is one transaction of up to three statements.  PostgreSQL runs *)
(* it at READ COMMITTED: each statement sees what the workers committed    *)
(* before it, and the workers see nothing of the repair until it commits.  *)
(* The last statement and the commit are one action here, because the rows *)
(* it touches are locked in between; script.hit holds what the DELETE      *)
(* before it took, which the commit makes visible.                         *)
(*                                                                         *)
(* Nothing makes the operator stop the workers first, so a repair may run  *)
(* at any time; beside tells whether one ever met a running worker, which  *)
(* some of the promises do not survive.                                    *)
(*                                                                         *)
(* Purging takes rows away from under the workers: an UPDATE of a row that *)
(* is gone does nothing, record_distill_failure raises (scalar_one), and   *)
(* insert_distillation raises (the foreign key to reddit_items).           *)
(***************************************************************************)
EXTENDS Pipeline

CONSTANTS
    Repairs,         \* the repairs the operator runs
    EmptySummaries,  \* items whose results come without a summary
    MaxRepairs       \* bound: repairs started

RepairKinds == {"empty", "stuck", "both", "reset", "purge"}
ASSUME RepairsAssumption == Repairs \subseteq RepairKinds
ASSUME EmptyAssumption   == EmptySummaries \subseteq Items
ASSUME BoundAssumption   == MaxRepairs \in Nat

VARIABLES
    script,  \* the repair that is running: its kind, the statement it is at,
             \* the items it selected and the items whose results it deleted
    repairs, \* repairs started so far
    beside   \* whether a worker was in a cycle, or took any step, while a repair
             \* ran (kept to state the properties)

maintenanceVars == <<rows, results, jobs, ingest, process, faults, script, repairs, beside>>

NoScript == [kind |-> "none", at |-> "idle", found |-> {}, hit |-> {}]

MaintenanceInit == Init /\ script = NoScript /\ repairs = 0 /\ beside = FALSE

WithResult == {i \in Items : results[i] # NoResult}
WithEmptySummary == WithResult \intersect EmptySummaries

\* What the repairs make of a row: new, no job, no attempts.
Reset(row) == IF row.state = "absent" THEN row ELSE FreshRow

\* _stuck_items_where_clause
Stuck(row) ==
    \/ row.state \in {"failed", "submitted"}
    \/ row.state = "new" /\ row.attempts > 0

RequeueStuck_KeepsJob(row) ==
    IF Stuck(row) THEN [row EXCEPT !.state = "new", !.attempts = 0] ELSE row
RequeueStuck(row) == IF Stuck(row) THEN Reset(row) ELSE row

-------------------------------------------------------------------------------
(***************************************************************************)
(* The repairs.                                                            *)
(***************************************************************************)
Start(kind) ==
    /\ script = NoScript
    /\ kind \in Repairs
    /\ repairs < MaxRepairs
    /\ repairs' = repairs + 1
    /\ beside' = (beside \/ ingest # IdleIngest \/ process # IdleProcess)

Commit == script' = NoScript /\ UNCHANGED <<jobs, ingest, process, faults>>
Undecided == UNCHANGED <<rows, results, jobs, ingest, process, faults>>

\* purge_empty_summary_distillations: SELECT the fullnames ...
SelectEmpty(kind) ==
    /\ kind \in {"empty", "both"}
    /\ Start(kind)
    /\ WithEmptySummary # {}
    /\ script' = [NoScript EXCEPT !.kind = kind, !.at = "delete", !.found = WithEmptySummary]
    /\ Undecided

\* ... DELETE by the same condition, evaluated again ...
DeleteEmpty ==
    /\ script.at = "delete"
    /\ script' = [script EXCEPT !.at = "update", !.hit = WithEmptySummary]
    /\ UNCHANGED <<repairs, beside>>
    /\ Undecided

\* ... UPDATE the items that were selected; then requeue_stuck_items, unless
\* --only empty-summaries.
ResetEmpty_NotTheItems ==
    /\ script.at = "update" /\ script.kind \in {"empty", "both"}
    /\ results' = [i \in Items |-> IF i \in script.hit THEN NoResult ELSE results[i]]
    /\ UNCHANGED <<rows, repairs, beside>>
    /\ Commit
ResetEmpty ==
    /\ script.at = "update" /\ script.kind \in {"empty", "both"}
    /\ results' = [i \in Items |-> IF i \in script.hit THEN NoResult ELSE results[i]]
    /\ rows' = [i \in Items |->
                  IF i \in script.found THEN Reset(rows[i])
                  ELSE IF script.kind = "both" THEN RequeueStuck(rows[i]) ELSE rows[i]]
    /\ UNCHANGED <<repairs, beside>>
    /\ Commit

\* requeue_stuck_items alone, or after there was no empty summary to be found.
RequeueStuckItems(kind) ==
    /\ kind \in {"stuck", "both"}
    /\ kind = "both" => WithEmptySummary = {}
    /\ Start(kind)
    /\ rows' = [i \in Items |-> RequeueStuck(rows[i])]
    /\ UNCHANGED results
    /\ Commit

\* reset_everything and purge_items: DELETE FROM distillations ...
DeleteAll(kind) ==
    /\ kind \in {"reset", "purge"}
    /\ Start(kind)
    /\ script' = [NoScript EXCEPT !.kind = kind, !.at = "update", !.hit = WithResult]
    /\ Undecided

\* ... then UPDATE every item ...
ResetEverything_StuckOnly ==
    /\ script.at = "update" /\ script.kind = "reset"
    /\ results' = [i \in Items |-> IF i \in script.hit THEN NoResult ELSE results[i]]
    /\ rows' = [i \in Items |-> RequeueStuck(rows[i])]
    /\ UNCHANGED <<repairs, beside>>
    /\ Commit
ResetEverything ==
    /\ script.at = "update" /\ script.kind = "reset"
    /\ results' = [i \in Items |-> IF i \in script.hit THEN NoResult ELSE results[i]]
    /\ rows' = [i \in Items |-> Reset(rows[i])]
    /\ UNCHANGED <<repairs, beside>>
    /\ Commit

\* ... or DELETE every item, which the foreign key refuses while a result is left.
PurgeItems ==
    /\ script.at = "update" /\ script.kind = "purge"
    /\ WithResult \subseteq script.hit
    /\ results' = [i \in Items |-> NoResult]
    /\ rows' = [i \in Items |-> AbsentRow]
    /\ UNCHANGED <<repairs, beside>>
    /\ Commit

\* A statement fails (the foreign key among others) or the operator interrupts it.
Rollback ==
    /\ script # NoScript
    /\ script' = NoScript
    /\ UNCHANGED <<repairs, beside>>
    /\ Undecided

Repair ==
    \/ \E kind \in Repairs : SelectEmpty(kind) \/ RequeueStuckItems(kind) \/ DeleteAll(kind)
    \/ DeleteEmpty \/ ResetEmpty \/ ResetEverything \/ PurgeItems
    \/ Rollback

-------------------------------------------------------------------------------
(***************************************************************************)
(* The workers meet a row that is gone: the exception leaves the cycle.    *)
(***************************************************************************)
IngestRowGone(i) ==
    /\ ingest.at = "fail" /\ IsFirst(i, ingest.todo)
    /\ rows[i].state = "absent"
    /\ ingest' = IdleIngest
    /\ UNCHANGED <<rows, results, jobs, process, faults>>

ProcessRowGone(i) ==
    /\ process.at \in {"store", "fail"} /\ IsFirst(i, process.todo)
    /\ rows[i].state = "absent"
    /\ process' = IdleProcess
    /\ UNCHANGED <<rows, results, jobs, ingest, faults>>

Ingesting == Ingestion \/ \E i \in Items : IngestRowGone(i)
Polling   == Processing \/ \E i \in Items : ProcessRowGone(i)

\* A step of a worker, under a repair or not.
WorkersRun == beside' = (beside \/ script # NoScript) /\ UNCHANGED <<script, repairs>>

MaintenanceNext ==
    \/ (Ingesting \/ Polling \/ Aborts) /\ WorkersRun
    \/ Service /\ UNCHANGED <<script, repairs, beside>>
    \/ Repair

MaintenanceSpec == MaintenanceInit /\ [][MaintenanceNext]_maintenanceVars

\* As in Pipeline; and a repair that was started ends.
MaintenanceFairSpec ==
    /\ MaintenanceSpec
    /\ WF_maintenanceVars(Ingesting /\ ingest' # ingest /\ WorkersRun)
    /\ WF_maintenanceVars(Polling /\ WorkersRun)
    /\ \A i \in Items :
         /\ WF_maintenanceVars(JobEnds(i) /\ UNCHANGED <<script, repairs, beside>>)
         /\ SF_maintenanceVars(PollAnswered(i) /\ WorkersRun)
    /\ WF_maintenanceVars(script # NoScript /\ Repair)

-------------------------------------------------------------------------------
(***************************************************************************)
(* Properties.                                                             *)
(***************************************************************************)

\* README.md: "marked distilled only after its request and successful response are
\* persisted", and no repair takes the response away from under it, as long as the
\* workers are stopped for repairs, be it by a crash in mid-cycle.
DistilledIsStored ==
    ~beside => \A i \in Items : rows[i].state = "distilled" => results[i] # NoResult

\* requeue_distillations.py: a distillation is deleted "and its source item is reset
\* to new", in the same commit.  (Beside a worker the DELETE evaluates its condition
\* again, and may take a result stored since the items were selected.)
DeletedResultsAreRedone ==
    [][~beside' => \A i \in Items : results[i] # NoResult /\ results'[i] = NoResult =>
         rows'[i].state \in {"new", "absent"}]_maintenanceVars

\* A repair between two cycles forgets the job of an item together with its state, also
\* of an item whose worker crashed over it: what the ledger waits for is still the last
\* job that was created.
RepairsTrackNewestJob == ~beside => TracksNewestJob

\* Repairs, and the exceptions purging throws at the workers, only delay an item:
\* it settles, or is purged.
SettlesThroughRepairs ==
    \A i \in Items \ Forgettable :
        (rows[i].state # "absent") ~> (Settled(i) \/ rows[i].state = "absent")
===============================================================================
