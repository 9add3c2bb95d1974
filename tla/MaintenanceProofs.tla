--------------------------- MODULE MaintenanceProofs ---------------------------
(***************************************************************************)
(* Theorems about Maintenance, for every set of items, repairs and bounds: *)
(* what a repair between two cycles keeps of what Pipeline promises.       *)
(*                                                                         *)
(* Nothing but the types is claimed once a repair has met a running worker *)
(* (beside); until then the ledger and the memory of the workers stay in   *)
(* step, and a running repair has the tables to itself.                    *)
(***************************************************************************)
EXTENDS Maintenance, PipelineProofs

USE DEF NoJob, NoResult

-------------------------------------------------------------------------------
(***************************************************************************)
(* The inductive invariant.                                                *)
(***************************************************************************)

\* A repair is at one of its statements, and has selected and deleted items.
ScriptStates ==
    [kind : RepairKinds \union {"none"}, at : {"idle", "delete", "update"},
     found : SUBSET Items, hit : SUBSET Items]

MaintenanceTypes ==
    /\ TypeOK
    /\ script \in ScriptStates
    /\ repairs \in 0..MaxRepairs
    /\ beside \in BOOLEAN

\* What the process worker holds is still submitted under the job it saw, and it is
\* past the insert when it is about to finish.
ProcessHolds ==
    \A i \in process.todo :
        /\ rows[i].state = "submitted"
        /\ rows[i].job = process.seen[i]
        /\ IsFirst(i, process.todo) =>
             /\ process.at = "store" => process.seen[i] # NoJob
             /\ process.at = "finish" => results[i] # NoResult

Stored == \A i \in Items : rows[i].state = "distilled" => results[i] # NoResult

\* Without the parts of IInv that a repair gives up: a requeued item may keep a result
\* it got before, a reset one jobs and attempts.
Core == IngestInStep /\ ProcessHolds /\ TracksNewestJob /\ Stored

\* A repair that meets no worker finds at its last statement what it found at its first.
ScriptInStep ==
    script # NoScript =>
      /\ ingest = IdleIngest /\ process = IdleProcess
      /\ script.at = "delete" => script.found = WithEmptySummary
      /\ script.at = "update" /\ script.kind \in {"empty", "both"} =>
           script.found = WithEmptySummary /\ script.hit = WithEmptySummary

MaintenanceInv == MaintenanceTypes /\ (~beside => Core /\ ScriptInStep)

-------------------------------------------------------------------------------
(***************************************************************************)
(* The steps of the workers and of quant_distill keep Core.                *)
(***************************************************************************)

\* Core says the same of each item by itself.
Tracked(i) ==
    /\ rows[i].state \in {"submitted", "distilled"} => rows[i].job = Len(jobs[i])
    /\ rows[i].state \notin {"submitted", "distilled"} => rows[i].job = NoJob
    /\ rows[i].state = "distilled" => results[i] # NoResult

LEMMA CoreByItem ==
    Core <=> IngestInStep /\ ProcessHolds /\ \A i \in Items : Tracked(i)
  BY DEF Core, Tracked, TracksNewestJob, Stored

\* A step that touches at most one item.
LEMMA CoreStep ==
    ASSUME Core, NEW i \in Items, Tracked(i)', IngestInStep', ProcessHolds',
           \A j \in Items : j # i =>
             rows'[j] = rows[j] /\ results'[j] = results[j] /\ Len(jobs'[j]) = Len(jobs[j])
    PROVE  Core'
  <1>1. ASSUME NEW j \in Items PROVE Tracked(j)'
    BY CoreByItem DEF Tracked
  <1>. QED
    BY <1>1 DEF Core, Tracked, TracksNewestJob, Stored

\* A step that touches none.
LEMMA CoreFrame ==
    ASSUME Core, IngestInStep', ProcessHolds', UNCHANGED <<rows, results, jobs>>
    PROVE  Core'
  BY DEF Core, TracksNewestJob, Stored

\* The process worker is undisturbed by what happens to items it does not hold.
LEMMA HoldsFrame ==
    ASSUME ProcessHolds, UNCHANGED process,
           \A j \in process.todo : rows'[j] = rows[j] /\ results'[j] = results[j]
    PROVE  ProcessHolds'
  BY DEF ProcessHolds

\* The ingest worker: the item it holds is new, so the process worker does not hold it.
LEMMA IngestKeepsCore ==
    ASSUME TypeOK, TypeOK', Core, NEW i \in Items
    PROVE  /\ PersistItem(i) => Core'
           /\ SubmitAccepted(i) \/ SubmitRaises(i) => Core'
           /\ MarkSubmitted(i) => Core'
           /\ FailSubmission(i) => Core'
  <1>t. /\ rows[i] \in Row /\ rows \in [Items -> Row] /\ Len(jobs[i]) \in Nat
        /\ ingest \in [at : IngestSteps, todo : SUBSET Items, job : Nat]
        /\ jobs \in [Items -> Seq(JobStatus)] /\ jobs[i] \in Seq(JobStatus)
    BY LenProperties DEF TypeOK
  <1>c. IngestInStep /\ ProcessHolds /\ Tracked(i)
    BY CoreByItem
  <1>h. IsFirst(i, ingest.todo) => rows[i].state = "new" /\ i \in ingest.todo /\ i \notin process.todo
    BY <1>c DEF IsFirst, IngestInStep, ProcessHolds
  <1>f. IsFirst(i, ingest.todo) => \A j \in ingest.todo : IsFirst(j, ingest.todo) => j = i
    BY <1>t, ItemsAssumption DEF IsFirst
  <1>1. ASSUME PersistItem(i) PROVE Core'
    <2>1. /\ rows'[i] = InsertItem(rows[i]) /\ \A j \in Items : j # i => rows'[j] = rows[j]
          /\ ingest.at = "ingest" /\ UNCHANGED <<results, jobs, ingest, process>>
      BY <1>t, <1>1 DEF PersistItem
    <2>2. Tracked(i)'
      BY <1>c, <2>1 DEF Tracked, InsertItem, FreshRow
    <2>3. IngestInStep'
      BY <1>c, <2>1 DEF IngestInStep
    <2>4. process.todo \subseteq Items
      BY DEF TypeOK
    <2>5. \A j \in process.todo : rows'[j] = rows[j]
      BY <1>c, <2>1, <2>4 DEF ProcessHolds, InsertItem
    <2>6. ProcessHolds'
      BY <1>c, <2>1, <2>5, HoldsFrame
    <2>. QED
      BY <2>1, <2>2, <2>3, <2>6, CoreStep
  <1>2. ASSUME SubmitAccepted(i) \/ SubmitRaises(i) PROVE Core'
    <2>1. /\ ingest.at = "submit" /\ IsFirst(i, ingest.todo) /\ UNCHANGED <<rows, results, process>>
          /\ \A j \in Items : j # i => jobs'[j] = jobs[j]
      BY <1>t, <1>2 DEF SubmitAccepted, SubmitRaises
    <2>2. Tracked(i)'
      BY <1>c, <1>h, <2>1 DEF Tracked
    <2>3. ProcessHolds'
      BY <1>c, <2>1, HoldsFrame
    <2>4. IngestInStep'
      <3>1. CASE SubmitAccepted(i)
        <4>1. PICK n \in 0..(HttpRetries - 1) :
                /\ jobs' = [jobs EXCEPT ![i] = Append(WithOrphans(jobs[i], n), "running")]
                /\ ingest' = [ingest EXCEPT !.at = "mark", !.job = Len(jobs[i]) + n + 1]
          BY <3>1 DEF SubmitAccepted
        <4>2. n \in Nat
          BY <4>1, RetriesAssumption
        <4>3. /\ WithOrphans(jobs[i], n) \in Seq(JobStatus)
              /\ Len(WithOrphans(jobs[i], n)) = Len(jobs[i]) + n
          BY <1>t, <4>2, OrphansType
        <4>4. Len(Append(WithOrphans(jobs[i], n), "running")) = Len(jobs[i]) + n + 1
          BY <4>3, AppendProperties DEF JobStatus
        <4>5. Len(jobs'[i]) = Len(jobs[i]) + n + 1
          BY <1>t, <4>1, <4>4
        <4>6. ingest'.at = "mark" /\ ingest'.todo = ingest.todo /\ ingest'.job = Len(jobs[i]) + n + 1
          BY <1>t, <4>1
        <4>7. \A j \in ingest'.todo : rows'[j].state = "new"
          BY <1>c, <2>1, <4>6 DEF IngestInStep
        <4>8. ASSUME NEW j \in ingest'.todo, IsFirst(j, ingest'.todo)
              PROVE  ingest'.job = Len(jobs'[j]) /\ ingest'.job # NoJob
          <5>1. j = i
            BY <1>f, <2>1, <4>6, <4>8
          <5>. QED
            BY <1>t, <4>2, <4>5, <4>6, <5>1
        <4>. QED
          BY <4>6, <4>7, <4>8 DEF IngestInStep
      <3>2. CASE SubmitRaises(i)
        <4>1. ingest'.at = "fail" /\ ingest'.todo = ingest.todo
          BY <1>t, <3>2 DEF SubmitRaises
        <4>. QED
          BY <1>c, <2>1, <4>1 DEF IngestInStep
      <3>. QED
        BY <1>2, <3>1, <3>2
    <2>. QED
      BY <2>1, <2>2, <2>3, <2>4, CoreStep
  <1>3. ASSUME MarkSubmitted(i) PROVE Core'
    <2>1. /\ rows' = [rows EXCEPT ![i] = MarkItemSubmitted(rows[i], ingest.job)]
          /\ ingest' = [at |-> "submit", todo |-> ingest.todo \ {i}, job |-> NoJob]
          /\ ingest.at = "mark" /\ IsFirst(i, ingest.todo) /\ UNCHANGED <<results, jobs, process>>
      BY <1>3 DEF MarkSubmitted
    <2>2. /\ rows'[i] = [rows[i] EXCEPT !.state = "submitted", !.job = ingest.job]
          /\ \A j \in Items : j # i => rows'[j] = rows[j]
      BY <1>t, <1>h, <2>1 DEF MarkItemSubmitted
    <2>3. rows'[i].state = "submitted" /\ rows'[i].job = ingest.job /\ ingest.job = Len(jobs[i])
      BY <1>t, <1>c, <1>h, <2>1, <2>2 DEF IngestInStep, Row
    <2>4. Tracked(i)'
      BY <2>1, <2>3 DEF Tracked
    <2>5. IngestInStep'
      <3>1. ingest'.at = "submit" /\ ingest'.todo = ingest.todo \ {i}
        BY <2>1
      <3>. QED
        BY <1>t, <1>c, <2>2, <3>1 DEF IngestInStep
    <2>6. ProcessHolds'
      BY <1>c, <1>h, <2>1, <2>2, HoldsFrame DEF TypeOK
    <2>. QED
      BY <2>1, <2>2, <2>4, <2>5, <2>6, CoreStep
  <1>4. ASSUME FailSubmission(i) PROVE Core'
    <2>1. /\ rows' = [rows EXCEPT ![i] = RecordDistillFailure(rows[i], MaxAttempts)]
          /\ ingest' = [ingest EXCEPT !.at = "submit", !.todo = ingest.todo \ {i}]
          /\ IsFirst(i, ingest.todo) /\ UNCHANGED <<results, jobs, process>>
      BY <1>4 DEF FailSubmission
    <2>2. /\ rows'[i] = RecordDistillFailure(rows[i], MaxAttempts)
          /\ \A j \in Items : j # i => rows'[j] = rows[j]
      BY <1>t, <2>1
    <2>3. rows'[i].state \in {"new", "failed"} /\ rows'[i].job = NoJob
      BY <2>2 DEF RecordDistillFailure
    <2>4. Tracked(i)'
      BY <2>3 DEF Tracked
    <2>5. IngestInStep'
      <3>1. ingest'.at = "submit" /\ ingest'.todo = ingest.todo \ {i}
        BY <1>t, <2>1
      <3>. QED
        BY <1>t, <1>c, <2>2, <3>1 DEF IngestInStep
    <2>6. ProcessHolds'
      BY <1>c, <1>h, <2>1, <2>2, HoldsFrame DEF TypeOK
    <2>. QED
      BY <2>1, <2>2, <2>4, <2>5, <2>6, CoreStep
  <1>. QED
    BY <1>1, <1>2, <1>3, <1>4

\* The process worker: the item it holds is submitted, so the ingest worker does not
\* hold it.
LEMMA ProcessKeepsCore ==
    ASSUME TypeOK, TypeOK', Core, NEW i \in Items
    PROVE  /\ PollAgainLater(i) \/ PollSucceeded(i) \/ PollFailed(i) => Core'
           /\ StoreResult(i) => Core'
           /\ FinishItem(i) => Core'
           /\ FailItem(i) => Core'
  <1>t. /\ rows[i] \in Row /\ rows \in [Items -> Row] /\ results \in [Items -> Nat]
        /\ process \in [at : ProcessSteps, todo : SUBSET Items, seen : [Items -> Nat]]
        /\ ingest.todo \subseteq Items
    BY DEF TypeOK
  <1>c. IngestInStep /\ ProcessHolds /\ Tracked(i)
    BY CoreByItem
  <1>h. IsFirst(i, process.todo) =>
          rows[i].state = "submitted" /\ i \in process.todo /\ i \notin ingest.todo
    BY <1>c DEF IsFirst, IngestInStep, ProcessHolds
  <1>f. IsFirst(i, process.todo) => \A j \in process.todo : IsFirst(j, process.todo) => j = i
    BY <1>t, ItemsAssumption DEF IsFirst
  <1>1. ASSUME PollAgainLater(i) \/ PollSucceeded(i) \/ PollFailed(i) PROVE Core'
    <2>1. /\ UNCHANGED <<rows, results, jobs, ingest>> /\ IsFirst(i, process.todo)
          /\ process.at = "poll"
      BY <1>1 DEF PollAgainLater, PollSucceeded, PollFailed
    <2>2. IngestInStep'
      BY <1>c, <2>1, IngestFrame
    <2>3. ProcessHolds'
      <3>1. CASE PollAgainLater(i)
        <4>1. process'.at = "poll" /\ process'.todo = process.todo \ {i} /\ process'.seen = process.seen
          BY <1>t, <2>1, <3>1 DEF PollAgainLater
        <4>. QED
          BY <1>c, <2>1, <4>1 DEF ProcessHolds
      <3>2. CASE PollSucceeded(i)
        <4>1. /\ process'.at = "store" /\ process'.todo = process.todo /\ process'.seen = process.seen
              /\ process.seen[i] # NoJob
          BY <1>t, <3>2 DEF PollSucceeded
        <4>. QED
          BY <1>c, <1>f, <2>1, <4>1 DEF ProcessHolds
      <3>3. CASE PollFailed(i)
        <4>1. process'.at = "fail" /\ process'.todo = process.todo /\ process'.seen = process.seen
          BY <1>t, <3>3 DEF PollFailed
        <4>. QED
          BY <1>c, <2>1, <4>1 DEF ProcessHolds
      <3>. QED
        BY <1>1, <3>1, <3>2, <3>3
    <2>. QED
      BY <2>1, <2>2, <2>3, CoreFrame
  <1>2. ASSUME StoreResult(i) PROVE Core'
    <2>1. /\ results' = [results EXCEPT ![i] = StoredResult(results[i], process.seen[i])]
          /\ process' = [process EXCEPT !.at = "finish"] /\ process.at = "store"
          /\ IsFirst(i, process.todo) /\ UNCHANGED <<rows, jobs, ingest>>
      BY <1>2 DEF StoreResult
    <2>2. process.seen[i] # NoJob
      BY <1>c, <1>h, <2>1 DEF ProcessHolds
    <2>3. results'[i] # NoResult /\ \A j \in Items : j # i => results'[j] = results[j]
      BY <1>t, <2>1, <2>2 DEF StoredResult
    <2>4. Tracked(i)'
      BY <1>c, <2>1, <2>3 DEF Tracked
    <2>5. process'.at = "finish" /\ process'.todo = process.todo /\ process'.seen = process.seen
      BY <1>t, <2>1
    <2>6. ProcessHolds'
      BY <1>c, <1>f, <2>1, <2>3, <2>5 DEF ProcessHolds
    <2>7. IngestInStep'
      BY <1>c, <2>1, IngestFrame
    <2>. QED
      BY <2>1, <2>3, <2>4, <2>6, <2>7, CoreStep
  <1>3. ASSUME FinishItem(i) PROVE Core'
    <2>1. /\ rows' = [rows EXCEPT ![i] = SetItemState(rows[i], "distilled")]
          /\ process' = [process EXCEPT !.at = "poll", !.todo = process.todo \ {i}]
          /\ process.at = "finish" /\ IsFirst(i, process.todo) /\ UNCHANGED <<results, jobs, ingest>>
      BY <1>3 DEF FinishItem
    <2>2. /\ rows'[i] = [rows[i] EXCEPT !.state = "distilled"]
          /\ \A j \in Items : j # i => rows'[j] = rows[j]
      BY <1>t, <1>h, <2>1 DEF SetItemState
    <2>3. rows'[i].state = "distilled" /\ rows'[i].job = rows[i].job
      BY <1>t, <2>2 DEF Row
    <2>4. results[i] # NoResult
      BY <1>c, <1>h, <2>1 DEF ProcessHolds
    <2>5. Tracked(i)'
      BY <1>c, <1>h, <2>1, <2>3, <2>4 DEF Tracked
    <2>6. IngestInStep'
      BY <1>c, <1>h, <1>t, <2>1, <2>2, IngestFrame
    <2>7. process'.at = "poll" /\ process'.todo = process.todo \ {i} /\ process'.seen = process.seen
      BY <1>t, <2>1
    <2>8. ProcessHolds'
      BY <1>c, <1>t, <2>1, <2>2, <2>7 DEF ProcessHolds
    <2>. QED
      BY <2>1, <2>2, <2>5, <2>6, <2>8, CoreStep
  <1>4. ASSUME FailItem(i) PROVE Core'
    <2>1. /\ rows' = [rows EXCEPT ![i] = RecordDistillFailure(rows[i], MaxAttempts)]
          /\ process' = [process EXCEPT !.at = "poll", !.todo = process.todo \ {i}]
          /\ IsFirst(i, process.todo) /\ UNCHANGED <<results, jobs, ingest>>
      BY <1>4 DEF FailItem
    <2>2. /\ rows'[i] = RecordDistillFailure(rows[i], MaxAttempts)
          /\ \A j \in Items : j # i => rows'[j] = rows[j]
      BY <1>t, <2>1
    <2>3. rows'[i].state \in {"new", "failed"} /\ rows'[i].job = NoJob
      BY <2>2 DEF RecordDistillFailure
    <2>4. Tracked(i)'
      BY <2>3 DEF Tracked
    <2>5. IngestInStep'
      BY <1>c, <1>h, <1>t, <2>1, <2>2, IngestFrame
    <2>6. process'.at = "poll" /\ process'.todo = process.todo \ {i} /\ process'.seen = process.seen
      BY <1>t, <2>1
    <2>7. ProcessHolds'
      BY <1>c, <1>t, <2>1, <2>2, <2>6 DEF ProcessHolds
    <2>. QED
      BY <2>1, <2>2, <2>4, <2>5, <2>7, CoreStep
  <1>. QED
    BY <1>1, <1>2, <1>3, <1>4

\* The steps that change what a worker holds, give it up, or requeue legacy rows.
LEMMA CycleKeepsCore ==
    ASSUME TypeOK, TypeOK', Core
    PROVE  /\ RequeueLegacy => Core'
           /\ ListNew \/ ListSubmitted => Core'
           /\ (\E i \in Items : JobEnds(i) \/ JobForgotten(i)) => Core'
           /\ /\ UNCHANGED <<rows, results, jobs>>
              /\ ingest' \in {ingest, IdleIngest} /\ process' \in {process, IdleProcess}
              => Core'
  <1>t. /\ rows \in [Items -> Row] /\ jobs \in [Items -> Seq(JobStatus)]
        /\ ingest \in [at : IngestSteps, todo : SUBSET Items, job : Nat]
        /\ process.todo \subseteq Items
    BY DEF TypeOK
  <1>c. IngestInStep /\ ProcessHolds /\ \A i \in Items : Tracked(i)
    BY CoreByItem
  <1>1. ASSUME RequeueLegacy PROVE Core'
    <2>1. /\ \A j \in Items : rows'[j] = RequeueSubmitting(rows[j]) /\ rows[j] \in Row
          /\ ingest.at = "ingest" /\ ingest'.at = "list" /\ ingest'.todo = ingest.todo
          /\ UNCHANGED <<results, jobs, process>>
      BY <1>t, <1>1 DEF RequeueLegacy
    <2>2. ASSUME NEW j \in Items PROVE Tracked(j)'
      <3>1. rows'[j] = rows[j] \/ (rows[j].state = "submitting" /\ rows'[j].state = "new"
                                    /\ rows'[j].job = rows[j].job)
        BY <2>1 DEF RequeueSubmitting, Row
      <3>2. Tracked(j)
        BY <1>c
      <3>. QED
        BY <2>1, <3>1, <3>2 DEF Tracked
    <2>3. IngestInStep'
      BY <1>c, <2>1 DEF IngestInStep
    <2>4. \A j \in process.todo : rows'[j] = rows[j]
      BY <1>c, <1>t, <2>1 DEF ProcessHolds, RequeueSubmitting
    <2>5. ProcessHolds'
      BY <1>c, <2>1, <2>4, HoldsFrame
    <2>. QED
      BY <2>2, <2>3, <2>5 DEF Core, Tracked, TracksNewestJob, Stored
  <1>2. ASSUME ListNew PROVE Core'
    <2>1. /\ ingest'.at = "submit" /\ ingest'.todo = InState(rows, "new")
          /\ UNCHANGED <<rows, results, jobs, process>>
      BY <1>t, <1>2 DEF ListNew
    <2>2. IngestInStep'
      BY <2>1 DEF IngestInStep, InState
    <2>3. ProcessHolds'
      BY <1>c, <2>1, HoldsFrame
    <2>. QED
      BY <2>1, <2>2, <2>3, CoreFrame
  <1>3. ASSUME ListSubmitted PROVE Core'
    <2>1. PICK found \in SUBSET InState(rows, "submitted") :
            process' = [at |-> "poll", todo |-> found,
                        seen |-> [i \in Items |-> IF i \in found THEN rows[i].job ELSE NoJob]]
      <3>1. Oldest(InState(rows, "submitted"), PollLimit) \in SUBSET InState(rows, "submitted")
        BY DEF Oldest
      <3>. QED
        BY <1>3, <3>1 DEF ListSubmitted
    <2>2. UNCHANGED <<rows, results, jobs, ingest>>
      BY <1>3 DEF ListSubmitted
    <2>3. IngestInStep'
      BY <1>c, <2>2, IngestFrame
    <2>4. ProcessHolds'
      BY <1>t, <2>1, <2>2 DEF ProcessHolds, InState
    <2>. QED
      BY <2>2, <2>3, <2>4, CoreFrame
  <1>4. ASSUME NEW i \in Items, JobEnds(i) \/ JobForgotten(i) PROVE Core'
    <2>1. PICK k \in DOMAIN jobs[i], v \in JobStatus : jobs' = [jobs EXCEPT ![i][k] = v]
      BY <1>4 DEF JobEnds, JobForgotten, JobStatus
    <2>2. UNCHANGED <<rows, results, ingest, process>>
      BY <1>4 DEF JobEnds, JobForgotten
    <2>3. jobs[i] \in Seq(JobStatus) /\ jobs' = [jobs EXCEPT ![i] = [jobs[i] EXCEPT ![k] = v]]
      BY <1>t, <2>1
    <2>4. Len([jobs[i] EXCEPT ![k] = v]) = Len(jobs[i])
      BY <2>3, JobUpdateType
    <2>5. \A j \in Items : Len(jobs'[j]) = Len(jobs[j])
      BY <1>t, <2>3, <2>4
    <2>6. \A j \in Items : Tracked(j)'
      BY <1>c, <2>2, <2>5 DEF Tracked
    <2>7. IngestInStep'
      BY <1>c, <1>t, <2>2, <2>5, IngestFrame
    <2>8. ProcessHolds'
      BY <1>c, <2>2, HoldsFrame
    <2>. QED
      BY <2>6, <2>7, <2>8 DEF Core, Tracked, TracksNewestJob, Stored
  <1>5. ASSUME UNCHANGED <<rows, results, jobs>>,
               ingest' \in {ingest, IdleIngest}, process' \in {process, IdleProcess}
        PROVE  Core'
    <2>1. IngestInStep'
      BY <1>c, <1>5 DEF IngestInStep, IdleIngest
    <2>2. ProcessHolds'
      <3>1. CASE process' = process
        BY <1>c, <1>5, <3>1, HoldsFrame
      <3>2. CASE process' = IdleProcess
        BY <3>2 DEF ProcessHolds, IdleProcess
      <3>. QED
        BY <1>5, <3>1, <3>2
    <2>. QED
      BY <1>5, <2>1, <2>2, CoreFrame
  <1>. QED
    BY <1>1, <1>2, <1>3, <1>4, <1>5

\* Whatever the workers and quant_distill do, rows that are gone included.
LEMMA WorkersKeepCore ==
    ASSUME TypeOK, TypeOK', Core, Ingesting \/ Polling \/ Aborts \/ Service
    PROVE  Core'
  <1>1. ASSUME NEW i \in Items, PersistItem(i) PROVE Core'
    BY <1>1, IngestKeepsCore
  <1>2. ASSUME NEW i \in Items, SubmitAccepted(i) \/ SubmitRaises(i) PROVE Core'
    BY <1>2, IngestKeepsCore
  <1>3. ASSUME NEW i \in Items, MarkSubmitted(i) PROVE Core'
    BY <1>3, IngestKeepsCore
  <1>4. ASSUME NEW i \in Items, FailSubmission(i) PROVE Core'
    BY <1>4, IngestKeepsCore
  <1>5. ASSUME NEW i \in Items, PollAgainLater(i) \/ PollSucceeded(i) \/ PollFailed(i) PROVE Core'
    BY <1>5, ProcessKeepsCore
  <1>6. ASSUME NEW i \in Items, StoreResult(i) PROVE Core'
    BY <1>6, ProcessKeepsCore
  <1>7. ASSUME NEW i \in Items, FinishItem(i) PROVE Core'
    BY <1>7, ProcessKeepsCore
  <1>8. ASSUME NEW i \in Items, FailItem(i) PROVE Core'
    BY <1>8, ProcessKeepsCore
  <1>9. ASSUME RequeueLegacy PROVE Core'
    BY <1>9, CycleKeepsCore
  <1>10. ASSUME ListNew \/ ListSubmitted PROVE Core'
    BY <1>10, CycleKeepsCore
  <1>11. ASSUME Service PROVE Core'
    BY <1>11, CycleKeepsCore DEF Service
  <1>12. ASSUME \/ EndIngestCycle \/ EndProcessCycle \/ Aborts
                \/ \E i \in Items : IngestRowGone(i) \/ ProcessRowGone(i)
         PROVE  Core'
    <2>1. /\ UNCHANGED <<rows, results, jobs>>
          /\ ingest' \in {ingest, IdleIngest} /\ process' \in {process, IdleProcess}
      BY <1>12 DEF EndIngestCycle, EndProcessCycle, Aborts, AbortIngestCycle, AbortProcessCycle,
           IngestRowGone, ProcessRowGone
    <2>. QED
      BY <2>1, CycleKeepsCore
  <1>. QED
    BY <1>1, <1>2, <1>3, <1>4, <1>5, <1>6, <1>7, <1>8, <1>9, <1>10, <1>11, <1>12
    DEF Ingesting, Polling, Ingestion, Processing

-------------------------------------------------------------------------------
(***************************************************************************)
(* The repairs.                                                            *)
(***************************************************************************)

\* A repair leaves a row as it is, takes it away, or makes it new with no job.
LEMMA RepairedRow ==
    ASSUME NEW row \in Row
    PROVE  /\ Reset(row) \in Row /\ Reset(row).state \in {"new", "absent"}
           /\ row.state = "absent" => Reset(row) = row
           /\ row.state # "absent" => Reset(row).job = NoJob
           /\ RequeueStuck(row) \in {row, Reset(row)}
           /\ AbsentRow \in Row /\ AbsentRow.state = "absent" /\ AbsentRow.job = NoJob
  BY DEF Reset, RequeueStuck, FreshRow, AbsentRow, Row, States

\* The last statement of a repair: each row and result as one of its statements left it.
\* The worker memory, the jobs and the faults are not its business.
Repaired ==
    /\ rows' \in [Items -> Row] /\ results' \in [Items -> Nat]
    /\ UNCHANGED <<jobs, ingest, process, faults>>
    /\ \A i \in Items :
         /\ rows'[i] \in {rows[i], Reset(rows[i]), AbsentRow}
         /\ results'[i] \in {results[i], NoResult}

LEMMA RepairEffect ==
    ASSUME MaintenanceTypes, Repair
    PROVE  Repaired
  <1>t. /\ rows \in [Items -> Row] /\ results \in [Items -> Nat]
        /\ \A i \in Items : /\ rows[i] \in Row /\ Reset(rows[i]) \in Row
                            /\ RequeueStuck(rows[i]) \in {rows[i], Reset(rows[i])}
        /\ AbsentRow \in Row
    BY RepairedRow, InitialRows DEF MaintenanceTypes, TypeOK
  <1>1. ASSUME NEW kind \in Repairs, SelectEmpty(kind) \/ DeleteAll(kind) PROVE Repaired
    BY <1>t, <1>1 DEF SelectEmpty, DeleteAll, Undecided, Repaired
  <1>2. ASSUME NEW kind \in Repairs, RequeueStuckItems(kind) PROVE Repaired
    <2>1. /\ rows' = [i \in Items |-> RequeueStuck(rows[i])] /\ results' = results
          /\ UNCHANGED <<jobs, ingest, process, faults>>
      BY <1>2 DEF RequeueStuckItems, Commit
    <2>. QED
      BY <1>t, <2>1 DEF Repaired
  <1>3. CASE DeleteEmpty \/ Rollback
    BY <1>t, <1>3 DEF DeleteEmpty, Rollback, Undecided, Repaired
  <1>4. CASE ResetEmpty
    <2>1. /\ results' = [i \in Items |-> IF i \in script.hit THEN NoResult ELSE results[i]]
          /\ rows' = [i \in Items |->
                        IF i \in script.found THEN Reset(rows[i])
                        ELSE IF script.kind = "both" THEN RequeueStuck(rows[i]) ELSE rows[i]]
          /\ UNCHANGED <<jobs, ingest, process, faults>>
      BY <1>4 DEF ResetEmpty, Commit
    <2>. QED
      BY <1>t, <2>1 DEF Repaired
  <1>5. CASE ResetEverything
    <2>1. /\ results' = [i \in Items |-> IF i \in script.hit THEN NoResult ELSE results[i]]
          /\ rows' = [i \in Items |-> Reset(rows[i])]
          /\ UNCHANGED <<jobs, ingest, process, faults>>
      BY <1>5 DEF ResetEverything, Commit
    <2>. QED
      BY <1>t, <2>1 DEF Repaired
  <1>6. CASE PurgeItems
    <2>1. /\ results' = [i \in Items |-> NoResult] /\ rows' = [i \in Items |-> AbsentRow]
          /\ UNCHANGED <<jobs, ingest, process, faults>>
      BY <1>6 DEF PurgeItems, Commit
    <2>. QED
      BY <1>t, <2>1 DEF Repaired
  <1>. QED
    BY <1>1, <1>2, <1>3, <1>4, <1>5, <1>6 DEF Repair

\* A result a repair deletes belongs to an item it resets or takes away, in the same
\* commit, unless it met a worker in between.
LEMMA DeletedIsReset ==
    ASSUME MaintenanceTypes, ScriptInStep, Repair, NEW i \in Items,
           results[i] # NoResult, results'[i] = NoResult
    PROVE  rows'[i].state \in {"new", "absent"}
  <1>t. rows \in [Items -> Row] /\ results \in [Items -> Nat] /\ Reset(rows[i]).state \in {"new", "absent"}
    BY RepairedRow DEF MaintenanceTypes, TypeOK
  <1>1. CASE ResetEmpty
    <2>1. script.found = script.hit
      BY <1>1 DEF ResetEmpty, ScriptInStep, NoScript
    <2>2. i \in script.hit
      BY <1>1 DEF ResetEmpty
    <2>. QED
      BY <1>1, <1>t, <2>1, <2>2 DEF ResetEmpty
  <1>2. CASE ResetEverything
    BY <1>2, <1>t DEF ResetEverything
  <1>3. CASE PurgeItems
    BY <1>3 DEF PurgeItems, AbsentRow
  <1>4. CASE UNCHANGED results
    BY <1>4
  <1>. QED
    BY <1>1, <1>2, <1>3, <1>4
    DEF Repair, SelectEmpty, DeleteAll, RequeueStuckItems, DeleteEmpty, Rollback, Undecided

\* Between two cycles there is nothing in memory that a repair could contradict.
LEMMA RepairKeepsCore ==
    ASSUME MaintenanceTypes, ScriptInStep, Core, Repair,
           ingest = IdleIngest, process = IdleProcess
    PROVE  Core'
  <1>1. Repaired
    BY RepairEffect
  <1>2. IngestInStep' /\ ProcessHolds'
    BY <1>1 DEF Repaired, IngestInStep, ProcessHolds, IdleIngest, IdleProcess
  <1>3. ASSUME NEW i \in Items PROVE Tracked(i)'
    <2>1. rows[i] \in Row /\ Tracked(i)
      BY CoreByItem DEF MaintenanceTypes, TypeOK
    <2>2. CASE rows'[i] = rows[i]
      BY <1>1, <2>1, <2>2, DeletedIsReset DEF Tracked, Repaired
    <2>3. CASE rows'[i] = Reset(rows[i]) \/ rows'[i] = AbsentRow
      <3>1. rows'[i].state \in {"new", "absent"}
        BY <2>1, <2>3, RepairedRow
      <3>2. rows'[i].job = NoJob
        BY <2>1, <2>3, RepairedRow DEF Tracked
      <3>. QED
        BY <3>1, <3>2 DEF Tracked
    <2>. QED
      BY <1>1, <2>2, <2>3 DEF Repaired
  <1>. QED
    BY <1>2, <1>3 DEF Core, Tracked, TracksNewestJob, Stored

-------------------------------------------------------------------------------
(***************************************************************************)
(* The invariant is inductive.                                             *)
(***************************************************************************)

\* Repairs, and workers that meet a row that is gone, keep the types.
LEMMA NextMaintenanceTypes ==
    MaintenanceTypes /\ [MaintenanceNext]_maintenanceVars => MaintenanceTypes'
  <1>. SUFFICES ASSUME MaintenanceTypes, [MaintenanceNext]_maintenanceVars PROVE MaintenanceTypes'
    OBVIOUS
  <1>. USE DEF MaintenanceTypes
  <1>1. TypeOK'
    <2>1. CASE [Next]_vars
      BY <2>1, NextTypeOK
    <2>2. CASE Repair
      <3>1. Repaired
        BY <2>2, RepairEffect
      <3>. QED
        BY <3>1 DEF Repaired, TypeOK
    <2>3. ASSUME NEW i \in Items, IngestRowGone(i) \/ ProcessRowGone(i) PROVE TypeOK'
      BY <2>3 DEF IngestRowGone, ProcessRowGone, IdleIngest, IdleProcess, IngestSteps,
         ProcessSteps, TypeOK
    <2>4. CASE UNCHANGED maintenanceVars
      BY <2>4, <2>1 DEF maintenanceVars, vars
    <2>. QED
      BY <2>1, <2>2, <2>3, <2>4 DEF MaintenanceNext, Ingesting, Polling, Next
  <1>2. script' \in ScriptStates /\ repairs' \in 0..MaxRepairs /\ beside' \in BOOLEAN
    <2>1. NoScript \in ScriptStates
      BY DEF NoScript, ScriptStates
    <2>2. WithEmptySummary \subseteq Items /\ WithResult \subseteq Items
      BY DEF WithEmptySummary, WithResult
    <2>3. ASSUME NEW kind \in Repairs, Start(kind)
          PROVE  repairs' \in 0..MaxRepairs /\ beside' \in BOOLEAN /\ kind \in RepairKinds
      BY <2>3, BoundAssumption, RepairsAssumption DEF Start
    <2>4. ASSUME NEW kind \in Repairs, SelectEmpty(kind) PROVE script' \in ScriptStates
      BY <2>1, <2>2, <2>4, RepairsAssumption DEF SelectEmpty, NoScript, ScriptStates
    <2>5. ASSUME NEW kind \in Repairs, DeleteAll(kind) PROVE script' \in ScriptStates
      BY <2>1, <2>2, <2>5, RepairsAssumption DEF DeleteAll, NoScript, ScriptStates
    <2>6. CASE DeleteEmpty
      BY <2>2, <2>6 DEF DeleteEmpty, ScriptStates
    <2>7. ASSUME NEW kind \in Repairs, RequeueStuckItems(kind) PROVE script' \in ScriptStates
      BY <2>1, <2>7 DEF RequeueStuckItems, Commit
    <2>8. CASE ResetEmpty \/ ResetEverything \/ PurgeItems \/ Rollback
      BY <2>1, <2>8 DEF ResetEmpty, ResetEverything, PurgeItems, Rollback, Commit
    <2>9. CASE Repair
      BY <2>3, <2>4, <2>5, <2>6, <2>7, <2>8, <2>9
      DEF Repair, SelectEmpty, DeleteAll, RequeueStuckItems, DeleteEmpty, ResetEmpty,
          ResetEverything, PurgeItems, Rollback
    <2>10. CASE WorkersRun
      BY <2>10 DEF WorkersRun
    <2>11. CASE UNCHANGED <<script, repairs, beside>>
      BY <2>11
    <2>. QED
      BY <2>9, <2>10, <2>11 DEF MaintenanceNext, maintenanceVars
  <1>. QED
    BY <1>1, <1>2

\* Once a repair has met a worker, it has met one.
LEMMA BesideStays ==
    ASSUME MaintenanceTypes, [MaintenanceNext]_maintenanceVars, ~beside'
    PROVE  ~beside
  BY DEF MaintenanceNext, maintenanceVars, WorkersRun, Repair, SelectEmpty, DeleteAll,
     RequeueStuckItems, DeleteEmpty, ResetEmpty, ResetEverything, PurgeItems, Rollback, Start

\* A repair that starts between two cycles has the tables to itself until it ends.
LEMMA RepairKeepsScript ==
    ASSUME MaintenanceTypes, ScriptInStep, Repair, ~beside'
    PROVE  ingest = IdleIngest /\ process = IdleProcess /\ ScriptInStep'
  <1>1. ASSUME NEW kind \in Repairs, Start(kind) PROVE ingest = IdleIngest /\ process = IdleProcess
    BY <1>1 DEF Start
  <1>2. ingest = IdleIngest /\ process = IdleProcess
    <2>1. NoScript.at = "idle"
      BY DEF NoScript
    <2>2. CASE DeleteEmpty \/ ResetEmpty \/ ResetEverything \/ PurgeItems \/ Rollback
      <3>1. script # NoScript
        BY <2>1, <2>2 DEF DeleteEmpty, ResetEmpty, ResetEverything, PurgeItems, Rollback
      <3>. QED
        BY <3>1 DEF ScriptInStep
    <2>3. ASSUME NEW kind \in Repairs, SelectEmpty(kind) \/ RequeueStuckItems(kind) \/ DeleteAll(kind)
          PROVE  ingest = IdleIngest /\ process = IdleProcess
      BY <1>1, <2>3 DEF SelectEmpty, RequeueStuckItems, DeleteAll
    <2>. QED
      BY <2>2, <2>3 DEF Repair
  <1>3. ingest' = ingest /\ process' = process /\ IdleIngest' = IdleIngest /\ IdleProcess' = IdleProcess
    BY RepairEffect DEF Repaired, IdleIngest, IdleProcess
  <1>4. ASSUME results' = results PROVE WithEmptySummary' = WithEmptySummary
    BY <1>4 DEF WithEmptySummary, WithResult
  <1>5. ASSUME NEW kind \in Repairs, SelectEmpty(kind) PROVE ScriptInStep'
    <2>1. script'.at = "delete" /\ script'.found = WithEmptySummary
      BY <1>5 DEF SelectEmpty, NoScript
    <2>. QED
      BY <1>2, <1>3, <1>4, <1>5, <2>1 DEF SelectEmpty, Undecided, ScriptInStep
  <1>6. ASSUME NEW kind \in Repairs, DeleteAll(kind) PROVE ScriptInStep'
    <2>1. script'.at = "update" /\ script'.kind \notin {"empty", "both"}
      BY <1>6 DEF DeleteAll, NoScript
    <2>. QED
      BY <1>2, <1>3, <2>1 DEF ScriptInStep
  <1>7. CASE DeleteEmpty
    <2>1. script # NoScript /\ script.found = WithEmptySummary
      BY <1>7 DEF DeleteEmpty, ScriptInStep, NoScript
    <2>2. script'.at = "update" /\ script'.found = WithEmptySummary /\ script'.hit = WithEmptySummary
      BY <1>7, <2>1 DEF DeleteEmpty, MaintenanceTypes, ScriptStates
    <2>. QED
      BY <1>2, <1>3, <1>4, <1>7, <2>2 DEF DeleteEmpty, Undecided, ScriptInStep
  <1>8. CASE script' = NoScript
    <2>1. NoScript' = NoScript
      BY DEF NoScript
    <2>. QED
      BY <1>2, <1>8, <2>1 DEF ScriptInStep
  <1>. QED
    BY <1>2, <1>5, <1>6, <1>7, <1>8
    DEF Repair, RequeueStuckItems, ResetEmpty, ResetEverything, PurgeItems, Rollback, Commit

\* Before the first repair, and after every step.
LEMMA InitMaintenanceInv == MaintenanceInit => MaintenanceInv
  <1>. SUFFICES ASSUME MaintenanceInit PROVE MaintenanceInv
    OBVIOUS
  <1>1. TypeOK /\ IInv
    BY InitTypeOK, InitIInv DEF MaintenanceInit
  <1>2. MaintenanceTypes
    <2>1. NoScript \in ScriptStates
      BY DEF NoScript, ScriptStates
    <2>2. repairs \in 0..MaxRepairs
      BY BoundAssumption DEF MaintenanceInit
    <2>3. beside = FALSE /\ script = NoScript
      BY DEF MaintenanceInit
    <2>4. beside \in BOOLEAN
      BY <2>3, Zenon
    <2>. QED
      BY <1>1, <2>1, <2>2, <2>3, <2>4, Zenon DEF MaintenanceTypes
  <1>3. Core
    BY <1>1 DEF MaintenanceInit, Init, Core, IInv, LedgerConsistent, DistilledHasResult, Stored,
       ProcessHolds, IdleProcess
  <1>4. ScriptInStep
    BY DEF MaintenanceInit, ScriptInStep
  <1>. QED
    BY <1>2, <1>3, <1>4 DEF MaintenanceInv

LEMMA NextMaintenanceInv ==
    MaintenanceInv /\ [MaintenanceNext]_maintenanceVars => MaintenanceInv'
  <1>. SUFFICES ASSUME MaintenanceInv, [MaintenanceNext]_maintenanceVars, ~beside'
                PROVE  MaintenanceTypes' /\ Core' /\ ScriptInStep'
    BY NextMaintenanceTypes DEF MaintenanceInv
  <1>1. MaintenanceTypes /\ MaintenanceTypes' /\ TypeOK /\ TypeOK'
    BY NextMaintenanceTypes DEF MaintenanceInv, MaintenanceTypes
  <1>2. Core /\ ScriptInStep
    BY <1>1, BesideStays DEF MaintenanceInv
  <1>3. CASE (Ingesting \/ Polling \/ Aborts) /\ WorkersRun
    <2>1. script = NoScript /\ script' = NoScript
      BY <1>3 DEF WorkersRun
    <2>. QED
      BY <1>1, <1>2, <1>3, <2>1, WorkersKeepCore DEF ScriptInStep, NoScript
  <1>4. CASE Service /\ UNCHANGED <<script, repairs, beside>>
    <2>1. UNCHANGED <<results, ingest, process, script>>
      BY <1>4 DEF Service, JobEnds, JobForgotten
    <2>2. ScriptInStep'
      BY <1>2, <2>1 DEF ScriptInStep, WithEmptySummary, WithResult, NoScript, IdleIngest, IdleProcess
    <2>. QED
      BY <1>1, <1>2, <1>4, <2>2, WorkersKeepCore
  <1>5. CASE Repair
    BY <1>1, <1>2, <1>5, RepairKeepsScript, RepairKeepsCore
  <1>6. CASE UNCHANGED maintenanceVars
    BY <1>1, <1>2, <1>6, CycleKeepsCore
    DEF maintenanceVars, ScriptInStep, WithEmptySummary, WithResult, NoScript, IdleIngest, IdleProcess
  <1>. QED
    BY <1>1, <1>3, <1>4, <1>5, <1>6 DEF MaintenanceNext

\* The ledger and the workers stay in step through repairs, as long as no repair runs
\* beside a worker.
THEOREM MaintenanceInvAlways == MaintenanceSpec => []MaintenanceInv
  BY InitMaintenanceInv, NextMaintenanceInv, PTL DEF MaintenanceSpec

-------------------------------------------------------------------------------
(***************************************************************************)
(* What a repair between two cycles keeps.                                 *)
(***************************************************************************)

\* DistilledIsStored: an item is distilled only while its response is stored, whatever
\* the repairs reset, requeue, purge or roll back between the cycles.
THEOREM RepairsKeepDistilled == MaintenanceSpec => []DistilledIsStored
  <1>1. MaintenanceInv => DistilledIsStored
    BY DEF MaintenanceInv, Core, Stored, DistilledIsStored
  <1>. QED
    BY <1>1, MaintenanceInvAlways, PTL

\* RepairsTrackNewestJob: the job the ledger waits for is the newest one, also for items
\* a repair made new again, whose older jobs may still end.
THEOREM RepairsKeepNewestJob == MaintenanceSpec => []RepairsTrackNewestJob
  <1>1. MaintenanceInv => RepairsTrackNewestJob
    BY DEF MaintenanceInv, Core, RepairsTrackNewestJob
  <1>. QED
    BY <1>1, MaintenanceInvAlways, PTL

\* DeletedResultsAreRedone: no result disappears from under an item that is not done
\* again, although the script selects, deletes and resets in three statements.
THEOREM DeletionsAreRedone == MaintenanceSpec => DeletedResultsAreRedone
  <1>1. ASSUME MaintenanceInv, [MaintenanceNext]_maintenanceVars, ~beside',
               NEW i \in Items, results[i] # NoResult, results'[i] = NoResult
        PROVE  rows'[i].state \in {"new", "absent"}
    <2>1. MaintenanceTypes /\ ScriptInStep /\ TypeOK
      BY <1>1, BesideStays DEF MaintenanceInv, MaintenanceTypes
    <2>2. CASE Repair
      BY <1>1, <2>1, <2>2, DeletedIsReset
    <2>3. ASSUME NEW j \in Items, StoreResult(j) PROVE FALSE
      <3>1. results' = [results EXCEPT ![j] = StoredResult(results[j], process.seen[j])]
        BY <2>3 DEF StoreResult
      <3>. QED
        BY <1>1, <2>1, <3>1 DEF StoredResult, TypeOK
    <2>4. ASSUME UNCHANGED results PROVE FALSE
      BY <1>1, <2>4
    <2>5. ~ Repair => UNCHANGED results \/ \E j \in Items : StoreResult(j)
      BY <1>1
      DEF MaintenanceNext, maintenanceVars, Ingesting, Polling, Aborts, Service,
          Ingestion, Processing, PersistItem, RequeueLegacy, ListNew, SubmitAccepted,
          SubmitRaises, MarkSubmitted, FailSubmission, EndIngestCycle, AbortIngestCycle,
          ListSubmitted, PollAgainLater, PollSucceeded, PollFailed, FinishItem, FailItem,
          EndProcessCycle, AbortProcessCycle, JobEnds, JobForgotten, IngestRowGone, ProcessRowGone
    <2>. QED
      BY <2>2, <2>3, <2>4, <2>5
  <1>2. MaintenanceInv /\ [MaintenanceNext]_maintenanceVars =>
          (~beside' => \A i \in Items : results[i] # NoResult /\ results'[i] = NoResult =>
             rows'[i].state \in {"new", "absent"})
    BY <1>1
  <1>. QED
    BY <1>2, MaintenanceInvAlways, PTL DEF MaintenanceSpec, DeletedResultsAreRedone

===============================================================================
