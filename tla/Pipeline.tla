------------------------------- MODULE Pipeline --------------------------------
(***************************************************************************)
(* The distillation pipeline of quant_reddit: the ingest worker            *)
(* (run_ingest_and_submit_cycle), the process worker (run_process_cycle),  *)
(* the PostgreSQL ledger they share and the quant_distill service they     *)
(* call (app/services/orchestrator.py, app/repository/postgres.py).        *)
(*                                                                         *)
(* The workers are separate operating-system processes.  Every repository  *)
(* call is a transaction of its own and every HTTP call happens between    *)
(* two transactions, so each action below is one transaction or one call   *)
(* and everything else interleaves between them.  A worker keeps, in       *)
(* memory, the list it fetched and the items as they were when it fetched  *)
(* it.  A crash, a restart by supervisord or an exception that leaves the  *)
(* cycle drops that memory and starts the next cycle.                      *)
(*                                                                         *)
(* quant_distill is external: it creates a job for every POST it accepts,  *)
(* also when the answer never reaches the client, and a job ends once.     *)
(*                                                                         *)
(* An operator named Action_Something is Action with a plausible mistake   *)
(* in it and is not part of the model (see Ledger).                        *)
(***************************************************************************)
EXTENDS Ledger, Sequences

CONSTANTS
    Items,        \* the items Reddit has, numbered oldest first
    MaxAttempts,  \* distill_max_attempts
    HttpRetries,  \* http_retries: POSTs one submit call may send
    PollLimit,    \* _DEFAULT_DISTILL_LIMIT: items one process cycle polls
    Refused,      \* items quant_distill answers 422 or submit refuses as empty
    Forgettable,  \* items whose jobs quant_distill may forget
    MaxFaults     \* bound: cycles that crash or raise, over a behaviour

ASSUME ItemsAssumption     == Items \subseteq Nat
ASSUME AttemptsAssumption  == MaxAttempts \in Nat \ {0}
ASSUME RetriesAssumption   == HttpRetries \in Nat \ {0}
ASSUME LimitAssumption     == PollLimit \in Nat \ {0}
ASSUME OutcomesAssumption  == Refused \subseteq Items /\ Forgettable \subseteq Items
ASSUME FaultsAssumption    == MaxFaults \in Nat

VARIABLES
    rows,     \* rows[i]: the row of item i in reddit_items
    results,  \* results[i]: the job whose result distillations holds for i
    jobs,     \* jobs[i]: the jobs quant_distill created for i, by status
    ingest,   \* the ingest worker: where it is, what it still has to submit
    process,  \* the process worker: where it is, what it still has to poll
    faults    \* cycles aborted so far (counted only to bound the model)

vars == <<rows, results, jobs, ingest, process, faults>>

NoResult == NoJob

\* "orphan" is a job whose id was never returned to a client, "bad" a job that
\* failed or succeeded without a result object, "lost" a job that answers 404.
JobStatus == {"running", "ok", "bad", "lost", "orphan"}

IngestSteps  == {"ingest", "list", "submit", "mark", "fail"}
ProcessSteps == {"list", "poll", "store", "finish", "fail"}

TypeOK ==
    /\ rows \in [Items -> Row]
    /\ results \in [Items -> Nat]
    /\ jobs \in [Items -> Seq(JobStatus)]
    /\ ingest \in [at : IngestSteps, todo : SUBSET Items, job : Nat]
    /\ process \in [at : ProcessSteps, todo : SUBSET Items, seen : [Items -> Nat]]
    /\ faults \in 0..MaxFaults

IdleIngest  == [at |-> "ingest", todo |-> {}, job |-> NoJob]
IdleProcess == [at |-> "list", todo |-> {}, seen |-> [i \in Items |-> NoJob]]

\* The database this version takes over may hold rows an older one left submitting
\* or submitted without a job.
Init ==
    /\ rows \in [Items -> {AbsentRow, LegacyRow, JoblessRow}]
    /\ results = [i \in Items |-> NoResult]
    /\ jobs = [i \in Items |-> <<>>]
    /\ ingest = IdleIngest
    /\ process = IdleProcess
    /\ faults = 0

-------------------------------------------------------------------------------
(***************************************************************************)
(* The ingest worker.                                                      *)
(***************************************************************************)

\* ingest_once persists one fetched post or comment; a duplicate changes nothing.
PersistItem(i) ==
    /\ ingest.at = "ingest"
    /\ rows' = [rows EXCEPT ![i] = InsertItem(@)]
    /\ UNCHANGED <<results, jobs, ingest, process, faults>>

\* Ingestion is over; requeue_submitting_items.
RequeueLegacy ==
    /\ ingest.at = "ingest"
    /\ rows' = [i \in Items |-> RequeueSubmitting(rows[i])]
    /\ ingest' = [ingest EXCEPT !.at = "list"]
    /\ UNCHANGED <<results, jobs, process, faults>>

\* list_items_by_state(new, limit=None).
ListNew ==
    /\ ingest.at = "list"
    /\ ingest' = [ingest EXCEPT !.at = "submit", !.todo = InState(rows, "new")]
    /\ UNCHANGED <<rows, results, jobs, process, faults>>

\* The jobs of an item once n more were created whose id reached nobody.
WithOrphans(s, n) == [k \in 1..(Len(s) + n) |-> IF k <= Len(s) THEN s[k] ELSE "orphan"]

\* distill_client.submit returns a job id.  Each POST before the answered one may
\* have created a job too: its answer was lost, or was a 5xx.
SubmitAccepted(i) ==
    /\ ingest.at = "submit"
    /\ IsFirst(i, ingest.todo)
    /\ i \notin Refused
    /\ \E n \in 0..(HttpRetries - 1) :
         /\ jobs' = [jobs EXCEPT ![i] = Append(WithOrphans(@, n), "running")]
         /\ ingest' = [ingest EXCEPT !.at = "mark", !.job = Len(jobs[i]) + n + 1]
    /\ UNCHANGED <<rows, results, process, faults>>

\* distill_client.submit raises DistillApiError: refused, or every POST failed.
SubmitRaises(i) ==
    /\ ingest.at = "submit"
    /\ IsFirst(i, ingest.todo)
    /\ \E n \in 0..(IF i \in Refused THEN 0 ELSE HttpRetries) :
         jobs' = [jobs EXCEPT ![i] = WithOrphans(@, n)]
    /\ ingest' = [ingest EXCEPT !.at = "fail"]
    /\ UNCHANGED <<rows, results, process, faults>>

\* mark_item_submitted with the id submit returned.
MarkSubmitted(i) ==
    /\ ingest.at = "mark"
    /\ IsFirst(i, ingest.todo)
    /\ rows' = [rows EXCEPT ![i] = MarkItemSubmitted(@, ingest.job)]
    /\ ingest' = [at |-> "submit", todo |-> ingest.todo \ {i}, job |-> NoJob]
    /\ UNCHANGED <<results, jobs, process, faults>>

\* except DistillApiError: record_distill_failure, and on to the next item.
FailSubmission(i) ==
    /\ ingest.at = "fail"
    /\ IsFirst(i, ingest.todo)
    /\ rows[i].state # "absent"
    /\ rows' = [rows EXCEPT ![i] = RecordDistillFailure(@, MaxAttempts)]
    /\ ingest' = [ingest EXCEPT !.at = "submit", !.todo = @ \ {i}]
    /\ UNCHANGED <<results, jobs, process, faults>>

\* The list is exhausted: the cycle ends, and the next one starts by ingesting.
EndIngestCycle ==
    /\ ingest.at = "submit"
    /\ ingest.todo = {}
    /\ ingest' = IdleIngest
    /\ UNCHANGED <<rows, results, jobs, process, faults>>

\* The process is killed, or any other exception leaves the cycle.  One that was idle
\* has nothing to lose.
AbortIngestCycle ==
    /\ faults < MaxFaults
    /\ ingest' = IdleIngest
    /\ faults' = faults + 1
    /\ UNCHANGED <<rows, results, jobs, process>>

-------------------------------------------------------------------------------
(***************************************************************************)
(* The process worker.                                                     *)
(***************************************************************************)

\* list_items_by_state(submitted, limit): the oldest submitted items, as they are now.
ListSubmitted ==
    /\ process.at = "list"
    /\ LET found == Oldest(InState(rows, "submitted"), PollLimit)
       IN  process' = [at   |-> "poll",
                       todo |-> found,
                       seen |-> [i \in Items |-> IF i \in found THEN rows[i].job ELSE NoJob]]
    /\ UNCHANGED <<rows, results, jobs, ingest, faults>>

\* The status of the job the worker saw on item i.
SeenStatus(i) == jobs[i][process.seen[i]]

PollAgainLater_Fails(i) ==
    /\ process.at = "poll"
    /\ IsFirst(i, process.todo)
    /\ process' = [process EXCEPT !.at = "fail"]
    /\ UNCHANGED <<rows, results, jobs, ingest, faults>>

\* The job is queued or running, or get_job raises (the call failed, or 404):
\* the item is left as it is until the next cycle.
PollAgainLater(i) ==
    /\ process.at = "poll"
    /\ IsFirst(i, process.todo)
    /\ process.seen[i] # NoJob
    /\ process' = [process EXCEPT !.todo = @ \ {i}]
    /\ UNCHANGED <<rows, results, jobs, ingest, faults>>

PollSucceeded_StateFirst(i) ==
    /\ process.at = "poll"
    /\ IsFirst(i, process.todo)
    /\ process.seen[i] # NoJob
    /\ SeenStatus(i) = "ok"
    /\ process' = [process EXCEPT !.at = "finish"]
    /\ UNCHANGED <<rows, results, jobs, ingest, faults>>

\* The job succeeded and carries a result.
PollSucceeded(i) ==
    /\ process.at = "poll"
    /\ IsFirst(i, process.todo)
    /\ process.seen[i] # NoJob
    /\ SeenStatus(i) = "ok"
    /\ process' = [process EXCEPT !.at = "store"]
    /\ UNCHANGED <<rows, results, jobs, ingest, faults>>

\* The job failed or succeeded without a result, or the item never had one.
PollFailed(i) ==
    /\ process.at = "poll"
    /\ IsFirst(i, process.todo)
    /\ process.seen[i] # NoJob => SeenStatus(i) = "bad"
    /\ process' = [process EXCEPT !.at = "fail"]
    /\ UNCHANGED <<rows, results, jobs, ingest, faults>>

\* insert_distillation: the first result stored for an item wins.  Its foreign key
\* wants the row of the item to exist.
StoredResult(old, job) == IF old = NoResult THEN job ELSE old

StoreResult(i) ==
    /\ process.at = "store"
    /\ IsFirst(i, process.todo)
    /\ rows[i].state # "absent"
    /\ results' = [results EXCEPT ![i] = StoredResult(@, process.seen[i])]
    /\ process' = [process EXCEPT !.at = "finish"]
    /\ UNCHANGED <<rows, jobs, ingest, faults>>

\* set_item_state(distilled), after insert_distillation returned.
FinishItem(i) ==
    /\ process.at = "finish"
    /\ IsFirst(i, process.todo)
    /\ rows' = [rows EXCEPT ![i] = SetItemState(@, "distilled")]
    /\ process' = [process EXCEPT !.at = "poll", !.todo = @ \ {i}]
    /\ UNCHANGED <<results, jobs, ingest, faults>>

\* record_distill_failure for a job that came to nothing.
FailItem(i) ==
    /\ process.at = "fail"
    /\ IsFirst(i, process.todo)
    /\ rows[i].state # "absent"
    /\ rows' = [rows EXCEPT ![i] = RecordDistillFailure(@, MaxAttempts)]
    /\ process' = [process EXCEPT !.at = "poll", !.todo = @ \ {i}]
    /\ UNCHANGED <<results, jobs, ingest, faults>>

EndProcessCycle ==
    /\ process.at = "poll"
    /\ process.todo = {}
    /\ process' = IdleProcess
    /\ UNCHANGED <<rows, results, jobs, ingest, faults>>

AbortProcessCycle ==
    /\ faults < MaxFaults
    /\ process' = IdleProcess
    /\ faults' = faults + 1
    /\ UNCHANGED <<rows, results, jobs, ingest>>

-------------------------------------------------------------------------------
(***************************************************************************)
(* quant_distill (external): a running job ends once, for good.            *)
(***************************************************************************)
JobEnds(i) ==
    /\ \E k \in DOMAIN jobs[i] :
         /\ jobs[i][k] = "running"
         /\ \E verdict \in {"ok", "bad"} : jobs' = [jobs EXCEPT ![i][k] = verdict]
    /\ UNCHANGED <<rows, results, ingest, process, faults>>

\* The service loses a job: from here on GET /v1/jobs/k answers 404.
JobForgotten(i) ==
    /\ i \in Forgettable
    /\ \E k \in DOMAIN jobs[i] :
         /\ jobs[i][k] \in {"running", "ok", "bad"}
         /\ jobs' = [jobs EXCEPT ![i][k] = "lost"]
    /\ UNCHANGED <<rows, results, ingest, process, faults>>

-------------------------------------------------------------------------------
Ingestion ==
    \/ \E i \in Items : PersistItem(i)
    \/ RequeueLegacy
    \/ ListNew
    \/ \E i \in Items : SubmitAccepted(i) \/ SubmitRaises(i)
    \/ \E i \in Items : MarkSubmitted(i) \/ FailSubmission(i)
    \/ EndIngestCycle

Processing ==
    \/ ListSubmitted
    \/ \E i \in Items : PollAgainLater(i) \/ PollSucceeded(i) \/ PollFailed(i)
    \/ \E i \in Items : StoreResult(i) \/ FinishItem(i) \/ FailItem(i)
    \/ EndProcessCycle

Aborts == AbortIngestCycle \/ AbortProcessCycle

Service == \E i \in Items : JobEnds(i) \/ JobForgotten(i)

Next == Ingestion \/ Processing \/ Aborts \/ Service

Spec == Init /\ [][Next]_vars

(***************************************************************************)
(* Fairness: supervisord keeps both workers running and every loop body    *)
(* goes on to its next step; quant_distill ends every job it runs; and a   *)
(* job that has ended cannot be met with failing GETs only, for ever.      *)
(* Whether a submission is accepted is left to chance, and so is whether   *)
(* anything new is ingested.                                               *)
(***************************************************************************)
IngestStep == Ingestion /\ ingest' # ingest
PollAnswered(i) == PollSucceeded(i) \/ PollFailed(i)

Fairness ==
    /\ WF_vars(IngestStep)
    /\ WF_vars(Processing)
    /\ \A i \in Items : WF_vars(JobEnds(i)) /\ SF_vars(PollAnswered(i))

FairSpec == Spec /\ Fairness

-------------------------------------------------------------------------------
(***************************************************************************)
(* Properties.                                                             *)
(***************************************************************************)

\* No repository call is conditional on the state it read, yet what a worker
\* holds is never stale: an item the ingest worker is about to submit is still
\* new, and an item the process worker is about to settle is still submitted
\* under the very job whose status was fetched.  (set_item_state,
\* mark_item_submitted and record_distill_failure all update WHERE fullname only.)
HeldItemsAreCurrent ==
    /\ \A i \in ingest.todo : rows[i].state = "new"
    /\ \A i \in process.todo :
         rows[i].state = "submitted" /\ rows[i].job = process.seen[i]

\* README.md "marked distilled only after its request and successful response are
\* persisted": a distilled item has a result, and it is the result of the job its
\* row names.
DistilledHasResult ==
    \A i \in Items :
        rows[i].state = "distilled" => results[i] # NoResult /\ results[i] = rows[i].job

\* A crash between insert_distillation and set_item_state leaves a result behind an
\* item that is still submitted; such an item is never resubmitted or failed, so the
\* stored result and the ledger cannot end up disagreeing.
StoredResultIsKept ==
    \A i \in Items : results[i] # NoResult =>
        /\ rows[i].state \in {"submitted", "distilled"}
        /\ results[i] = rows[i].job

\* However submissions crash, time out and repeat, the job an item waits for is
\* the newest quant_distill created for it: an item under way is not submitted again.
TracksNewestJob ==
    \A i \in Items :
        /\ rows[i].state \in {"submitted", "distilled"} => rows[i].job = Len(jobs[i])
        /\ rows[i].state \notin {"submitted", "distilled"} => rows[i].job = NoJob

\* record_distill_failure is reached from both workers and from restarted cycles;
\* an item is failed exactly when its attempts are used up, never before or after.
FailedWhenExhausted ==
    \A i \in Items :
        /\ rows[i].attempts <= MaxAttempts
        /\ rows[i].state = "failed" <=> rows[i].attempts = MaxAttempts

\* What one item can cost quant_distill: http_retries jobs for each counted attempt,
\* for the one under way and for each cycle that crashed between submit and the
\* UPDATE that records it.
JobsAreBounded ==
    \A i \in Items : Len(jobs[i]) <= HttpRetries * (rows[i].attempts + faults + 1)

ResultsComeFromEndedJobs ==
    \A i \in Items : results[i] # NoResult => jobs[i][results[i]] \in {"ok", "lost"}

LedgerConsistent ==
    /\ DistilledHasResult
    /\ StoredResultIsKept
    /\ TracksNewestJob
    /\ FailedWhenExhausted
    /\ ResultsComeFromEndedJobs

\* What the position of each worker says of the items it holds and the one it is on.
IngestInStep ==
    /\ ingest.at \in {"ingest", "list"} => ingest.todo = {}
    /\ \A i \in ingest.todo :
         /\ rows[i].state = "new"
         /\ ingest.at = "mark" /\ IsFirst(i, ingest.todo)
              => ingest.job = Len(jobs[i]) /\ ingest.job # NoJob

ProcessInStep ==
    /\ process.at = "list" => process.todo = {}
    /\ \A i \in process.todo :
         /\ rows[i].state = "submitted"
         /\ rows[i].job = process.seen[i]
         /\ IsFirst(i, process.todo) =>
              /\ process.at = "store" => process.seen[i] # NoJob /\ SeenStatus(i) \in {"ok", "lost"}
              /\ process.at = "finish" => results[i] # NoResult
              /\ process.at = "fail" => results[i] = NoResult

\* Why the properties above survive every interleaving: together with the positions
\* of the workers they are inductive (PipelineProofs).  A distilled item has its
\* result because the worker is past the insert; the result stays its own because
\* nothing but that worker touches a submitted item and an ended job stays ended.
IInv ==
    /\ TypeOK
    /\ LedgerConsistent
    /\ IngestInStep
    /\ ProcessInStep

\* The pipeline does to each item what ItemLifecycle allows and nothing else: one
\* result, never replaced, before distilled; no way out of distilled or failed.
PhaseOf(state) == IF state \in {"new", "submitting", "submitted"} THEN "pending" ELSE state
Phase == [i \in Items |-> PhaseOf(rows[i].state)]

Lifecycle == INSTANCE ItemLifecycle WITH phase <- Phase, result <- results
ImplementsLifecycle == Lifecycle!Spec

\* Every item that enters the ledger ends distilled or failed, as long as quant_distill
\* keeps its jobs: an item whose job it has lost (404) is polled for ever.
Settled(i) == rows[i].state \in {"distilled", "failed"}
EveryItemSettles ==
    \A i \in Items : (rows[i].state # "absent") ~> Settled(i)
===============================================================================
