---------------------------- MODULE PipelineProofs -----------------------------
(***************************************************************************)
(* Theorems about Pipeline, for every set of items, attempt limit, retry   *)
(* count, poll limit and number of crashes.                                *)
(***************************************************************************)
EXTENDS Pipeline, SequenceTheorems, TLAPS

USE DEF NoJob, NoResult

-------------------------------------------------------------------------------
(***************************************************************************)
(* What the transactions of Ledger do to a row.                            *)
(***************************************************************************)

\* Every transaction of the ledger takes a row to a row.
LEMMA InsertItemType ==
    ASSUME NEW row \in Row PROVE InsertItem(row) \in Row
  BY DEF InsertItem, FreshRow, Row, States

\* So does a state transition to any of the states.
LEMMA SetItemStateType ==
    ASSUME NEW row \in Row, NEW state \in States PROVE SetItemState(row, state) \in Row
  BY DEF SetItemState, Row

\* And recording a job.
LEMMA MarkItemSubmittedType ==
    ASSUME NEW row \in Row, NEW job \in Nat PROVE MarkItemSubmitted(row, job) \in Row
  BY DEF MarkItemSubmitted, Row, States

\* And recovering a legacy row.
LEMMA RequeueSubmittingType ==
    ASSUME NEW row \in Row PROVE RequeueSubmitting(row) \in Row
  BY DEF RequeueSubmitting, Row, States

\* And counting a failure, whatever the limit.
LEMMA RecordDistillFailureType ==
    ASSUME NEW row \in Row, NEW max \in Nat PROVE RecordDistillFailure(row, max) \in Row
  <1>1. row.attempts + 1 \in Nat
    BY DEF Row
  <1>2. (IF row.attempts + 1 >= max THEN "failed" ELSE "new") \in States
    BY DEF States
  <1>. QED
    BY <1>1, <1>2 DEF RecordDistillFailure, Row

\* A row whose attempts are not used up is failed by the failure that uses them up,
\* and gives up its job in any case.
LEMMA FailedRow ==
    ASSUME NEW row \in Row, row.attempts <= MaxAttempts, row.attempts # MaxAttempts
    PROVE  LET after == RecordDistillFailure(row, MaxAttempts) IN
           /\ after.state \in {"new", "failed"} /\ after.job = NoJob
           /\ after.attempts <= MaxAttempts
           /\ after.state = "failed" <=> after.attempts = MaxAttempts
  BY AttemptsAssumption DEF RecordDistillFailure, Row

\* The rows the ledger may start with are rows.
LEMMA InitialRows ==
    AbsentRow \in Row /\ LegacyRow \in Row /\ JoblessRow \in Row
  BY DEF Row, States, AbsentRow, LegacyRow, JoblessRow

-------------------------------------------------------------------------------
(***************************************************************************)
(* What a submission does to the jobs of an item.                          *)
(***************************************************************************)

\* Jobs whose id reached nobody come after the ones there were, and change none.
LEMMA OrphansType ==
    ASSUME NEW s \in Seq(JobStatus), NEW n \in Nat
    PROVE  /\ WithOrphans(s, n) \in Seq(JobStatus)
           /\ Len(WithOrphans(s, n)) = Len(s) + n
  <1>1. \A k \in 1..(Len(s) + n) :
          (IF k <= Len(s) THEN s[k] ELSE "orphan") \in JobStatus
    BY ElementOfSeq DEF JobStatus
  <1>2. WithOrphans(s, n) \in [1..(Len(s) + n) -> JobStatus]
    BY <1>1 DEF WithOrphans
  <1>3. Len(s) + n \in Nat
    OBVIOUS
  <1>. QED
    BY <1>2, <1>3

\* A job that ends or is forgotten leaves the sequence as long as it was.
LEMMA JobUpdateType ==
    ASSUME NEW s \in Seq(JobStatus), NEW k \in DOMAIN s, NEW v \in JobStatus
    PROVE  /\ [s EXCEPT ![k] = v] \in Seq(JobStatus)
           /\ Len([s EXCEPT ![k] = v]) = Len(s)
  BY ExceptSeq, LenProperties

-------------------------------------------------------------------------------
(***************************************************************************)
(* Type correctness.                                                       *)
(***************************************************************************)

\* The ledger a deployment starts with, and idle workers, are well typed.
LEMMA InitTypeOK == Init => TypeOK
  <1>. SUFFICES ASSUME Init PROVE TypeOK
    OBVIOUS
  <1>1. rows \in [Items -> Row]
    BY InitialRows DEF Init
  <1>2. jobs \in [Items -> Seq(JobStatus)]
    BY EmptySeq DEF Init
  <1>3. ingest \in [at : IngestSteps, todo : SUBSET Items, job : Nat]
    BY DEF Init, IdleIngest, IngestSteps
  <1>4. process \in [at : ProcessSteps, todo : SUBSET Items, seen : [Items -> Nat]]
    BY DEF Init, IdleProcess, ProcessSteps
  <1>5. faults \in 0..MaxFaults /\ results \in [Items -> Nat]
    BY FaultsAssumption DEF Init
  <1>. QED
    BY <1>1, <1>2, <1>3, <1>4, <1>5 DEF TypeOK

\* No step of a worker, a crash or the service leaves the types.
LEMMA NextTypeOK == TypeOK /\ [Next]_vars => TypeOK'
  <1>. SUFFICES ASSUME TypeOK, [Next]_vars PROVE TypeOK'
    OBVIOUS
  <1>. USE DEF TypeOK
  <1>1. ASSUME NEW i \in Items, PersistItem(i) PROVE TypeOK'
    BY <1>1, InsertItemType DEF PersistItem
  <1>2. CASE RequeueLegacy
    BY <1>2, RequeueSubmittingType DEF RequeueLegacy, IngestSteps
  <1>3. CASE ListNew
    BY <1>3 DEF ListNew, InState, IngestSteps
  <1>4. ASSUME NEW i \in Items, SubmitAccepted(i) PROVE TypeOK'
    <2>1. PICK n \in 0..(HttpRetries - 1) :
            /\ jobs' = [jobs EXCEPT ![i] = Append(WithOrphans(jobs[i], n), "running")]
            /\ ingest' = [ingest EXCEPT !.at = "mark", !.job = Len(jobs[i]) + n + 1]
      BY <1>4 DEF SubmitAccepted
    <2>2. n \in Nat /\ jobs[i] \in Seq(JobStatus) /\ Len(jobs[i]) \in Nat
      BY RetriesAssumption, LenProperties
    <2>3. Append(WithOrphans(jobs[i], n), "running") \in Seq(JobStatus)
      BY <2>2, OrphansType, AppendProperties DEF JobStatus
    <2>4. jobs' \in [Items -> Seq(JobStatus)]
      BY <2>1, <2>3
    <2>5. Len(jobs[i]) + n + 1 \in Nat
      BY <2>2
    <2>6. ingest' \in [at : IngestSteps, todo : SUBSET Items, job : Nat]
      BY <2>1, <2>5 DEF IngestSteps
    <2>. QED
      BY <2>4, <2>6, <1>4 DEF SubmitAccepted
  <1>5. ASSUME NEW i \in Items, SubmitRaises(i) PROVE TypeOK'
    <2>1. PICK n \in 0..(IF i \in Refused THEN 0 ELSE HttpRetries) :
            jobs' = [jobs EXCEPT ![i] = WithOrphans(jobs[i], n)]
      BY <1>5 DEF SubmitRaises
    <2>2. n \in Nat /\ jobs[i] \in Seq(JobStatus)
      BY RetriesAssumption
    <2>3. jobs' \in [Items -> Seq(JobStatus)]
      BY <2>1, <2>2, OrphansType
    <2>. QED
      BY <2>3, <1>5 DEF SubmitRaises, IngestSteps
  <1>6. ASSUME NEW i \in Items, MarkSubmitted(i) PROVE TypeOK'
    BY <1>6, MarkItemSubmittedType DEF MarkSubmitted, IngestSteps
  <1>7. ASSUME NEW i \in Items, FailSubmission(i) PROVE TypeOK'
    BY <1>7, RecordDistillFailureType, AttemptsAssumption DEF FailSubmission, IngestSteps
  <1>8. CASE EndIngestCycle
    BY <1>8 DEF EndIngestCycle, IdleIngest, IngestSteps
  <1>9. CASE AbortIngestCycle
    BY <1>9, FaultsAssumption DEF AbortIngestCycle, IdleIngest, IngestSteps
  <1>10. CASE ListSubmitted
    <2>. DEFINE found == Oldest(InState(rows, "submitted"), PollLimit)
    <2>1. found \in SUBSET Items
      BY DEF Oldest, InState
    <2>2. process' = [at   |-> "poll",
                      todo |-> found,
                      seen |-> [i \in Items |-> IF i \in found THEN rows[i].job ELSE NoJob]]
      BY <1>10 DEF ListSubmitted
    <2>3. [i \in Items |-> IF i \in found THEN rows[i].job ELSE NoJob] \in [Items -> Nat]
      BY DEF Row
    <2>. HIDE DEF found
    <2>4. process' \in [at : ProcessSteps, todo : SUBSET Items, seen : [Items -> Nat]]
      BY <2>1, <2>2, <2>3 DEF ProcessSteps
    <2>. QED
      BY <2>4, <1>10 DEF ListSubmitted
  <1>11. ASSUME NEW i \in Items, PollAgainLater(i) \/ PollSucceeded(i) \/ PollFailed(i)
         PROVE  TypeOK'
    BY <1>11 DEF PollAgainLater, PollSucceeded, PollFailed, ProcessSteps
  <1>12. ASSUME NEW i \in Items, StoreResult(i) PROVE TypeOK'
    BY <1>12 DEF StoreResult, StoredResult, ProcessSteps
  <1>13. ASSUME NEW i \in Items, FinishItem(i) PROVE TypeOK'
    BY <1>13, SetItemStateType DEF FinishItem, ProcessSteps, States
  <1>14. ASSUME NEW i \in Items, FailItem(i) PROVE TypeOK'
    BY <1>14, RecordDistillFailureType, AttemptsAssumption DEF FailItem, ProcessSteps
  <1>15. CASE EndProcessCycle
    BY <1>15 DEF EndProcessCycle, IdleProcess, ProcessSteps
  <1>16. CASE AbortProcessCycle
    BY <1>16, FaultsAssumption DEF AbortProcessCycle, IdleProcess, ProcessSteps
  <1>17. ASSUME NEW i \in Items, JobEnds(i) PROVE TypeOK'
    <2>1. PICK k \in DOMAIN jobs[i], v \in {"ok", "bad"} : jobs' = [jobs EXCEPT ![i][k] = v]
      BY <1>17 DEF JobEnds
    <2>2. [jobs[i] EXCEPT ![k] = v] \in Seq(JobStatus)
      BY <2>1, JobUpdateType DEF JobStatus
    <2>3. jobs' \in [Items -> Seq(JobStatus)]
      BY <2>1, <2>2
    <2>. QED
      BY <2>3, <1>17 DEF JobEnds
  <1>18. ASSUME NEW i \in Items, JobForgotten(i) PROVE TypeOK'
    <2>1. PICK k \in DOMAIN jobs[i] : jobs' = [jobs EXCEPT ![i][k] = "lost"]
      BY <1>18 DEF JobForgotten
    <2>2. [jobs[i] EXCEPT ![k] = "lost"] \in Seq(JobStatus)
      BY <2>1, JobUpdateType DEF JobStatus
    <2>3. jobs' \in [Items -> Seq(JobStatus)]
      BY <2>1, <2>2
    <2>. QED
      BY <2>3, <1>18 DEF JobForgotten
  <1>19. CASE UNCHANGED vars
    BY <1>19 DEF vars
  <1>. QED
    BY <1>1, <1>2, <1>3, <1>4, <1>5, <1>6, <1>7, <1>8, <1>9, <1>10, <1>11, <1>12,
       <1>13, <1>14, <1>15, <1>16, <1>17, <1>18, <1>19
    DEF Next, Ingestion, Processing, Aborts, Service

\* Types are kept: in particular every state written to reddit_items is one the
\* readers know, and no worker ever holds an item that is not one.
THEOREM TypeCorrect == Spec => []TypeOK
  BY InitTypeOK, NextTypeOK, PTL DEF Spec

-------------------------------------------------------------------------------
(***************************************************************************)
(* The inductive invariant.  Its ledger part is a statement about each     *)
(* item by itself, and its worker parts only look at the items the worker  *)
(* holds; the lemmas say so, and say what a step must leave alone for each *)
(* part to be kept.                                                        *)
(***************************************************************************)

ItemConsistent(i) ==
    /\ rows[i].state = "distilled" => results[i] # NoResult
    /\ results[i] # NoResult =>
         /\ rows[i].state \in {"submitted", "distilled"}
         /\ results[i] = rows[i].job
         /\ jobs[i][results[i]] \in {"ok", "lost"}
    /\ rows[i].state \in {"submitted", "distilled"} => rows[i].job = Len(jobs[i])
    /\ rows[i].state \notin {"submitted", "distilled"} => rows[i].job = NoJob
    /\ rows[i].attempts <= MaxAttempts
    /\ rows[i].state = "failed" <=> rows[i].attempts = MaxAttempts

\* The ledger is consistent when each item is.
LEMMA LedgerByItem == LedgerConsistent <=> \A i \in Items : ItemConsistent(i)
  BY DEF LedgerConsistent, ItemConsistent, DistilledHasResult, StoredResultIsKept,
         TracksNewestJob, FailedWhenExhausted, ResultsComeFromEndedJobs

\* A step that touches at most one item and leaves it consistent keeps the ledger so.
LEMMA LedgerStep ==
    ASSUME LedgerConsistent, NEW i \in Items, ItemConsistent(i)',
           \A j \in Items \ {i} :
             rows'[j] = rows[j] /\ results'[j] = results[j] /\ jobs'[j] = jobs[j]
    PROVE  LedgerConsistent'
  <1>1. ASSUME NEW j \in Items \ {i} PROVE ItemConsistent(j)'
    BY LedgerByItem DEF ItemConsistent
  <1>2. \A j \in Items : ItemConsistent(j)'
    BY <1>1
  <1>. QED
    BY <1>2 DEF LedgerConsistent, ItemConsistent, DistilledHasResult, StoredResultIsKept,
                TracksNewestJob, FailedWhenExhausted, ResultsComeFromEndedJobs

\* A step that writes no row, result or job keeps the ledger consistent.
LEMMA LedgerFrame ==
    ASSUME LedgerConsistent, UNCHANGED <<rows, results, jobs>>
    PROVE  LedgerConsistent'
  BY DEF LedgerConsistent, DistilledHasResult, StoredResultIsKept,
         TracksNewestJob, FailedWhenExhausted, ResultsComeFromEndedJobs

\* The ingest worker is undisturbed by what happens to items it does not hold.
LEMMA IngestFrame ==
    ASSUME IngestInStep, UNCHANGED ingest,
           \A j \in ingest.todo : rows'[j] = rows[j] /\ Len(jobs'[j]) = Len(jobs[j])
    PROVE  IngestInStep'
  BY DEF IngestInStep

\* And so is the process worker.
LEMMA ProcessFrame ==
    ASSUME ProcessInStep, UNCHANGED process,
           \A j \in process.todo :
             rows'[j] = rows[j] /\ results'[j] = results[j] /\ jobs'[j] = jobs[j]
    PROVE  ProcessInStep'
  BY DEF ProcessInStep, SeenStatus

\* The workers never hold the same item.
LEMMA HeldApart ==
    ASSUME IngestInStep, ProcessInStep
    PROVE  \A i \in ingest.todo : i \notin process.todo
  BY DEF IngestInStep, ProcessInStep

\* What the ingest worker does to one item keeps the invariant: the item it holds is
\* new, so it has no result and the process worker does not hold it.
LEMMA IngestActions ==
    ASSUME IInv, TypeOK', NEW i \in Items
    PROVE  /\ PersistItem(i) => IInv'
           /\ SubmitAccepted(i) => IInv'
           /\ SubmitRaises(i) => IInv'
           /\ MarkSubmitted(i) => IInv'
           /\ FailSubmission(i) => IInv'
  <1>. USE DEF IInv
  <1>t. rows[i] \in Row /\ rows' \in [Items -> Row] /\ jobs[i] \in Seq(JobStatus)
    BY DEF TypeOK
  <1>c. ItemConsistent(i)
    BY LedgerByItem
  <1>1. ASSUME PersistItem(i) PROVE IInv'
    <2>1. rows' = [rows EXCEPT ![i] = InsertItem(rows[i])] /\ ingest.at = "ingest"
          /\ UNCHANGED <<results, jobs, ingest, process>>
      BY <1>1 DEF PersistItem
    <2>2. rows'[i] = InsertItem(rows[i]) /\ \A j \in Items \ {i} : rows'[j] = rows[j]
      BY <2>1 DEF TypeOK
    <2>3. ItemConsistent(i)'
      BY <1>t, <1>c, <2>1, <2>2, AttemptsAssumption
      DEF ItemConsistent, InsertItem, FreshRow, NoJob, NoResult, Row
    <2>4. LedgerConsistent'
      BY <2>1, <2>2, <2>3, LedgerStep
    <2>5. IngestInStep'
      BY <2>1 DEF IngestInStep
    <2>6. ProcessInStep'
      <3>1. \A j \in process.todo : rows'[j] = rows[j]
        BY <2>2 DEF ProcessInStep, InsertItem, TypeOK
      <3>. QED
        BY <2>1, <3>1, ProcessFrame
    <2>. QED
      BY <2>4, <2>5, <2>6
  <1>2. ASSUME SubmitAccepted(i) PROVE IInv'
    <2>1. PICK n \in 0..(HttpRetries - 1) :
            /\ jobs' = [jobs EXCEPT ![i] = Append(WithOrphans(jobs[i], n), "running")]
            /\ ingest' = [ingest EXCEPT !.at = "mark", !.job = Len(jobs[i]) + n + 1]
      BY <1>2 DEF SubmitAccepted
    <2>2. UNCHANGED <<rows, results, process>> /\ ingest.at = "submit" /\ IsFirst(i, ingest.todo)
      BY <1>2 DEF SubmitAccepted
    <2>3. n \in Nat /\ Len(jobs[i]) \in Nat
      BY <1>t, RetriesAssumption, LenProperties
    <2>4. Len(jobs'[i]) = Len(jobs[i]) + n + 1 /\ \A j \in Items \ {i} : jobs'[j] = jobs[j]
      <3>1. jobs'[i] = Append(WithOrphans(jobs[i], n), "running")
            /\ \A j \in Items \ {i} : jobs'[j] = jobs[j]
        BY <2>1 DEF TypeOK
      <3>2. WithOrphans(jobs[i], n) \in Seq(JobStatus)
            /\ Len(WithOrphans(jobs[i], n)) = Len(jobs[i]) + n
        BY <1>t, <2>3, OrphansType
      <3>3. Len(Append(WithOrphans(jobs[i], n), "running")) = Len(WithOrphans(jobs[i], n)) + 1
        BY <3>2, AppendProperties DEF JobStatus
      <3>. QED
        BY <3>1, <3>2, <3>3
    <2>5. i \in ingest.todo /\ rows[i].state = "new" /\ i \notin process.todo
      BY <2>2, HeldApart DEF IsFirst, IngestInStep
    <2>6. ItemConsistent(i)'
      BY <1>c, <2>2, <2>5 DEF ItemConsistent
    <2>7. LedgerConsistent'
      BY <2>2, <2>4, <2>6, LedgerStep
    <2>8. IngestInStep'
      <3>1. ingest'.at = "mark" /\ ingest'.todo = ingest.todo /\ ingest'.job = Len(jobs'[i])
        BY <2>1, <2>4 DEF TypeOK
      <3>2. \A j \in ingest.todo : IsFirst(j, ingest.todo) => j = i
        BY <2>2, ItemsAssumption DEF IsFirst, TypeOK
      <3>3. Len(jobs'[i]) # NoJob
        BY <2>3, <2>4 DEF NoJob
      <3>. QED
        BY <2>2, <3>1, <3>2, <3>3 DEF IngestInStep
    <2>9. ProcessInStep'
      <3>1. \A j \in process.todo : j \in Items \ {i}
        BY <2>5 DEF TypeOK
      <3>. QED
        BY <2>2, <2>4, <3>1, ProcessFrame
    <2>. QED
      BY <2>7, <2>8, <2>9
  <1>3. ASSUME SubmitRaises(i) PROVE IInv'
    <2>1. UNCHANGED <<rows, results, process>> /\ IsFirst(i, ingest.todo)
          /\ ingest' = [ingest EXCEPT !.at = "fail"]
          /\ \A j \in Items \ {i} : jobs'[j] = jobs[j]
      BY <1>3 DEF SubmitRaises, TypeOK
    <2>2. i \in ingest.todo /\ rows[i].state = "new" /\ i \notin process.todo
      BY <2>1, HeldApart DEF IsFirst, IngestInStep
    <2>3. ItemConsistent(i)'
      BY <1>c, <2>1, <2>2 DEF ItemConsistent
    <2>4. LedgerConsistent'
      BY <2>1, <2>3, LedgerStep
    <2>5. IngestInStep'
      BY <2>1 DEF IngestInStep, TypeOK
    <2>6. ProcessInStep'
      <3>1. \A j \in process.todo : j \in Items \ {i}
        BY <2>2 DEF TypeOK
      <3>. QED
        BY <2>1, <3>1, ProcessFrame
    <2>. QED
      BY <2>4, <2>5, <2>6
  <1>4. ASSUME MarkSubmitted(i) PROVE IInv'
    <2>1. /\ rows' = [rows EXCEPT ![i] = MarkItemSubmitted(rows[i], ingest.job)]
          /\ ingest' = [at |-> "submit", todo |-> ingest.todo \ {i}, job |-> NoJob]
          /\ UNCHANGED <<results, jobs, process>>
          /\ ingest.at = "mark" /\ IsFirst(i, ingest.todo)
      BY <1>4 DEF MarkSubmitted
    <2>2. i \in ingest.todo /\ rows[i].state = "new" /\ ingest.job = Len(jobs[i])
          /\ i \notin process.todo
      BY <2>1, HeldApart DEF IsFirst, IngestInStep
    <2>3. rows'[i] = [rows[i] EXCEPT !.state = "submitted", !.job = Len(jobs[i])]
          /\ \A j \in Items \ {i} : rows'[j] = rows[j]
      BY <2>1, <2>2 DEF MarkItemSubmitted, TypeOK
    <2>4. ItemConsistent(i)'
      BY <1>t, <1>c, <2>1, <2>2, <2>3 DEF ItemConsistent, Row
    <2>5. LedgerConsistent'
      BY <2>1, <2>3, <2>4, LedgerStep
    <2>6. IngestInStep'
      BY <2>1, <2>3 DEF IngestInStep, TypeOK
    <2>7. ProcessInStep'
      <3>1. \A j \in process.todo : j \in Items \ {i}
        BY <2>2 DEF TypeOK
      <3>. QED
        BY <2>1, <2>3, <3>1, ProcessFrame
    <2>. QED
      BY <2>5, <2>6, <2>7
  <1>5. ASSUME FailSubmission(i) PROVE IInv'
    <2>1. /\ rows' = [rows EXCEPT ![i] = RecordDistillFailure(rows[i], MaxAttempts)]
          /\ ingest' = [ingest EXCEPT !.at = "submit", !.todo = ingest.todo \ {i}]
          /\ UNCHANGED <<results, jobs, process>>
          /\ IsFirst(i, ingest.todo)
      BY <1>5 DEF FailSubmission
    <2>2. i \in ingest.todo /\ rows[i].state = "new" /\ i \notin process.todo
      BY <2>1, HeldApart DEF IsFirst, IngestInStep
    <2>3. rows'[i] = RecordDistillFailure(rows[i], MaxAttempts)
          /\ \A j \in Items \ {i} : rows'[j] = rows[j]
      BY <2>1 DEF TypeOK
    <2>4. ItemConsistent(i)'
      BY <1>t, <1>c, <2>1, <2>2, <2>3, FailedRow DEF ItemConsistent
    <2>5. LedgerConsistent'
      BY <2>1, <2>3, <2>4, LedgerStep
    <2>6. IngestInStep'
      BY <2>1, <2>3 DEF IngestInStep, TypeOK
    <2>7. ProcessInStep'
      <3>1. \A j \in process.todo : j \in Items \ {i}
        BY <2>2 DEF TypeOK
      <3>. QED
        BY <2>1, <2>3, <3>1, ProcessFrame
    <2>. QED
      BY <2>5, <2>6, <2>7
  <1>. QED
    BY <1>1, <1>2, <1>3, <1>4, <1>5

\* What the process worker does to one item keeps the invariant: the item it holds is
\* submitted under the job it has seen, so the ingest worker does not hold it.
LEMMA ProcessActions ==
    ASSUME IInv, TypeOK', NEW i \in Items
    PROVE  /\ PollAgainLater(i) => IInv'
           /\ PollSucceeded(i) => IInv'
           /\ PollFailed(i) => IInv'
           /\ StoreResult(i) => IInv'
           /\ FinishItem(i) => IInv'
           /\ FailItem(i) => IInv'
  <1>. USE DEF IInv
  <1>t. rows[i] \in Row /\ rows' \in [Items -> Row] /\ jobs[i] \in Seq(JobStatus)
    BY DEF TypeOK
  <1>c. ItemConsistent(i)
    BY LedgerByItem
  <1>h. IsFirst(i, process.todo) =>
          i \in process.todo /\ i \notin ingest.todo
          /\ rows[i].state = "submitted" /\ rows[i].job = process.seen[i]
    BY HeldApart DEF IsFirst, ProcessInStep
  <1>f. IsFirst(i, process.todo) => \A j \in process.todo : IsFirst(j, process.todo) => j = i
    BY ItemsAssumption DEF IsFirst, TypeOK
  \* A poll changes nothing but the memory of the worker.
  <1>p. ASSUME UNCHANGED <<rows, results, jobs, ingest>>
        PROVE  LedgerConsistent' /\ IngestInStep'
    BY <1>p, LedgerFrame, IngestFrame
  <1>1. ASSUME PollAgainLater(i) PROVE IInv'
    <2>1. process' = [process EXCEPT !.todo = process.todo \ {i}] /\ process.at = "poll"
          /\ UNCHANGED <<rows, results, jobs, ingest>>
      BY <1>1 DEF PollAgainLater
    <2>2. ProcessInStep'
      BY <2>1 DEF ProcessInStep, TypeOK
    <2>. QED
      BY <1>p, <2>1, <2>2
  <1>2. ASSUME PollSucceeded(i) PROVE IInv'
    <2>1. process' = [process EXCEPT !.at = "store"] /\ IsFirst(i, process.todo)
          /\ process.seen[i] # NoJob /\ SeenStatus(i) = "ok"
          /\ UNCHANGED <<rows, results, jobs, ingest>>
      BY <1>2 DEF PollSucceeded
    <2>2. process'.at = "store" /\ process'.todo = process.todo /\ process'.seen = process.seen
      BY <2>1 DEF TypeOK
    <2>3. ProcessInStep'
      BY <1>f, <2>1, <2>2 DEF ProcessInStep, SeenStatus
    <2>. QED
      BY <1>p, <2>1, <2>3
  <1>3. ASSUME PollFailed(i) PROVE IInv'
    <2>1. process' = [process EXCEPT !.at = "fail"] /\ IsFirst(i, process.todo)
          /\ (process.seen[i] # NoJob => SeenStatus(i) = "bad")
          /\ UNCHANGED <<rows, results, jobs, ingest>>
      BY <1>3 DEF PollFailed
    <2>2. process'.at = "fail" /\ process'.todo = process.todo /\ process'.seen = process.seen
      BY <2>1 DEF TypeOK
    <2>3. results[i] = NoResult
      BY <1>c, <1>h, <2>1 DEF ItemConsistent, SeenStatus, NoJob, NoResult
    <2>4. ProcessInStep'
      BY <1>f, <2>1, <2>2, <2>3 DEF ProcessInStep, SeenStatus
    <2>. QED
      BY <1>p, <2>1, <2>4
  <1>4. ASSUME StoreResult(i) PROVE IInv'
    <2>1. results' = [results EXCEPT ![i] = StoredResult(results[i], process.seen[i])]
          /\ process' = [process EXCEPT !.at = "finish"] /\ IsFirst(i, process.todo)
          /\ process.at = "store" /\ UNCHANGED <<rows, jobs, ingest>>
      BY <1>4 DEF StoreResult
    <2>2. process'.at = "finish" /\ process'.todo = process.todo /\ process'.seen = process.seen
      BY <2>1 DEF TypeOK
    <2>3. process.seen[i] # NoJob /\ jobs[i][process.seen[i]] \in {"ok", "lost"}
      BY <1>h, <2>1 DEF ProcessInStep, SeenStatus
    <2>4. results'[i] = process.seen[i] /\ \A j \in Items \ {i} : results'[j] = results[j]
      BY <1>c, <1>h, <2>1 DEF StoredResult, ItemConsistent, TypeOK
    <2>5. ItemConsistent(i)'
      BY <1>c, <1>h, <2>1, <2>3, <2>4 DEF ItemConsistent, NoJob, NoResult
    <2>6. LedgerConsistent'
      BY <2>1, <2>4, <2>5, LedgerStep
    <2>7. IngestInStep'
      BY <2>1, IngestFrame
    <2>8. ProcessInStep'
      BY <1>f, <2>1, <2>2, <2>3, <2>4 DEF ProcessInStep, SeenStatus, NoJob, NoResult
    <2>. QED
      BY <2>6, <2>7, <2>8
  <1>5. ASSUME FinishItem(i) PROVE IInv'
    <2>1. rows' = [rows EXCEPT ![i] = SetItemState(rows[i], "distilled")]
          /\ process' = [process EXCEPT !.at = "poll", !.todo = process.todo \ {i}]
          /\ process.at = "finish" /\ IsFirst(i, process.todo)
          /\ UNCHANGED <<results, jobs, ingest>>
      BY <1>5 DEF FinishItem
    <2>2. rows'[i] = [rows[i] EXCEPT !.state = "distilled"]
          /\ \A j \in Items \ {i} : rows'[j] = rows[j]
      BY <1>h, <2>1 DEF SetItemState, TypeOK
    <2>3. results[i] # NoResult
      BY <1>h, <2>1 DEF ProcessInStep
    <2>4. ItemConsistent(i)'
      BY <1>t, <1>c, <1>h, <2>1, <2>2, <2>3 DEF ItemConsistent, Row
    <2>5. LedgerConsistent'
      BY <2>1, <2>2, <2>4, LedgerStep
    <2>6. IngestInStep'
      <3>1. \A j \in ingest.todo : j \in Items \ {i}
        BY <1>h, <2>1 DEF TypeOK
      <3>. QED
        BY <2>1, <2>2, <3>1, IngestFrame
    <2>7. ProcessInStep'
      BY <2>1, <2>2 DEF ProcessInStep, TypeOK
    <2>. QED
      BY <2>5, <2>6, <2>7
  <1>6. ASSUME FailItem(i) PROVE IInv'
    <2>1. rows' = [rows EXCEPT ![i] = RecordDistillFailure(rows[i], MaxAttempts)]
          /\ process' = [process EXCEPT !.at = "poll", !.todo = process.todo \ {i}]
          /\ process.at = "fail" /\ IsFirst(i, process.todo)
          /\ UNCHANGED <<results, jobs, ingest>>
      BY <1>6 DEF FailItem
    <2>2. rows'[i] = RecordDistillFailure(rows[i], MaxAttempts)
          /\ \A j \in Items \ {i} : rows'[j] = rows[j]
      BY <2>1 DEF TypeOK
    <2>3. results[i] = NoResult
      BY <1>h, <2>1 DEF ProcessInStep
    <2>4. ItemConsistent(i)'
      BY <1>t, <1>c, <1>h, <2>1, <2>2, <2>3, FailedRow DEF ItemConsistent
    <2>5. LedgerConsistent'
      BY <2>1, <2>2, <2>4, LedgerStep
    <2>6. IngestInStep'
      <3>1. \A j \in ingest.todo : j \in Items \ {i}
        BY <1>h, <2>1 DEF TypeOK
      <3>. QED
        BY <2>1, <2>2, <3>1, IngestFrame
    <2>7. ProcessInStep'
      BY <2>1, <2>2 DEF ProcessInStep, TypeOK
    <2>. QED
      BY <2>5, <2>6, <2>7
  <1>. QED
    BY <1>1, <1>2, <1>3, <1>4, <1>5, <1>6

\* The steps of quant_distill: the job of a stored result, or of a result about to
\* be stored, has ended and does not change its mind.
LEMMA ServiceActions ==
    ASSUME IInv, TypeOK', NEW i \in Items, JobEnds(i) \/ JobForgotten(i)
    PROVE  IInv'
  <1>. USE DEF IInv
  <1>1. PICK k \in DOMAIN jobs[i], v \in JobStatus :
          /\ jobs' = [jobs EXCEPT ![i][k] = v]
          /\ jobs[i][k] \in {"ok", "lost"} => v \in {"ok", "lost"}
    BY DEF JobEnds, JobForgotten, JobStatus
  <1>2. UNCHANGED <<rows, results, ingest, process>>
    BY DEF JobEnds, JobForgotten
  <1>3. jobs[i] \in Seq(JobStatus)
    BY DEF TypeOK
  <1>4. Len(jobs'[i]) = Len(jobs[i]) /\ \A j \in Items \ {i} : jobs'[j] = jobs[j]
    BY <1>1, <1>3, JobUpdateType DEF TypeOK
  <1>5. \A m \in Nat \ {0} : m <= Len(jobs[i]) /\ jobs[i][m] \in {"ok", "lost"}
                               => jobs'[i][m] \in {"ok", "lost"}
    <2>1. jobs'[i] = [jobs[i] EXCEPT ![k] = v]
      BY <1>1 DEF TypeOK
    <2>. QED
      BY <1>1, <1>3, <2>1, LenProperties
  <1>6. ItemConsistent(i) /\ Len(jobs[i]) \in Nat
    BY <1>3, LedgerByItem, LenProperties
  <1>7. ItemConsistent(i)'
    BY <1>2, <1>4, <1>5, <1>6 DEF ItemConsistent, NoJob, NoResult, TypeOK
  <1>8. LedgerConsistent'
    BY <1>2, <1>4, <1>7, LedgerStep
  <1>9. IngestInStep'
    BY <1>2, <1>4, IngestFrame DEF TypeOK
  <1>10. ProcessInStep'
    <2>1. ASSUME i \in process.todo, process.seen[i] # NoJob, SeenStatus(i) \in {"ok", "lost"}
          PROVE  SeenStatus(i)' \in {"ok", "lost"}
      <3>1. process.seen[i] \in Nat \ {0} /\ process.seen[i] = Len(jobs[i])
        BY <1>6, <2>1 DEF ProcessInStep, ItemConsistent, NoJob, TypeOK
      <3>. QED
        BY <1>2, <1>5, <1>6, <2>1, <3>1 DEF SeenStatus
    <2>2. \A j \in Items \ {i} : SeenStatus(j)' = SeenStatus(j)
      BY <1>2, <1>4 DEF SeenStatus
    <2>. QED
      BY <1>2, <2>1, <2>2 DEF ProcessInStep, TypeOK
  <1>. QED
    BY <1>8, <1>9, <1>10

\* The steps that only change what a worker holds, and the requeue of legacy rows.
LEMMA CycleActions ==
    ASSUME IInv, TypeOK'
    PROVE  /\ RequeueLegacy => IInv'
           /\ ListNew => IInv'
           /\ EndIngestCycle => IInv'
           /\ AbortIngestCycle => IInv'
           /\ ListSubmitted => IInv'
           /\ EndProcessCycle => IInv'
           /\ AbortProcessCycle => IInv'
           /\ UNCHANGED vars => IInv'
  <1>. USE DEF IInv
  <1>1. ASSUME RequeueLegacy PROVE IInv'
    <2>1. rows' = [j \in Items |-> RequeueSubmitting(rows[j])] /\ ingest.at = "ingest"
          /\ ingest' = [ingest EXCEPT !.at = "list"]
          /\ UNCHANGED <<results, jobs, process>>
      BY <1>1 DEF RequeueLegacy
    <2>2. ASSUME NEW j \in Items PROVE ItemConsistent(j)'
      <3>1. rows[j] \in Row /\ rows'[j] = RequeueSubmitting(rows[j]) /\ ItemConsistent(j)
        BY <2>1, LedgerByItem DEF TypeOK
      <3>. QED
        BY <2>1, <3>1 DEF ItemConsistent, RequeueSubmitting, Row
    <2>3. LedgerConsistent'
      BY <2>2 DEF LedgerConsistent, ItemConsistent, DistilledHasResult, StoredResultIsKept,
                  TracksNewestJob, FailedWhenExhausted, ResultsComeFromEndedJobs
    <2>4. IngestInStep'
      BY <2>1 DEF IngestInStep, TypeOK
    <2>5. ProcessInStep'
      <3>1. \A j \in process.todo : rows'[j] = rows[j]
        BY <2>1 DEF ProcessInStep, RequeueSubmitting, TypeOK
      <3>. QED
        BY <2>1, <3>1, ProcessFrame
    <2>. QED
      BY <2>3, <2>4, <2>5
  <1>2. ASSUME ListNew PROVE IInv'
    <2>1. ingest' = [ingest EXCEPT !.at = "submit", !.todo = InState(rows, "new")]
          /\ UNCHANGED <<rows, results, jobs, process>>
      BY <1>2 DEF ListNew
    <2>2. IngestInStep'
      BY <2>1 DEF IngestInStep, InState, TypeOK
    <2>. QED
      BY <2>1, <2>2, LedgerFrame, ProcessFrame
  <1>3. ASSUME EndIngestCycle \/ AbortIngestCycle PROVE IInv'
    <2>1. ingest' = IdleIngest /\ UNCHANGED <<rows, results, jobs, process>>
      BY <1>3 DEF EndIngestCycle, AbortIngestCycle
    <2>2. IngestInStep'
      BY <2>1 DEF IngestInStep, IdleIngest
    <2>. QED
      BY <2>1, <2>2, LedgerFrame, ProcessFrame
  <1>4. ASSUME ListSubmitted PROVE IInv'
    <2>. DEFINE found == Oldest(InState(rows, "submitted"), PollLimit)
    <2>1. /\ process' = [at   |-> "poll",
                         todo |-> found,
                         seen |-> [i \in Items |-> IF i \in found THEN rows[i].job ELSE NoJob]]
          /\ UNCHANGED <<rows, results, jobs, ingest>>
      BY <1>4 DEF ListSubmitted
    <2>2. \A i \in found : i \in Items /\ rows[i].state = "submitted"
      BY DEF Oldest, InState, TypeOK
    <2>. HIDE DEF found
    <2>3. process'.at = "poll" /\ process'.todo = found
          /\ \A i \in found : process'.seen[i] = rows[i].job
      BY <2>1, <2>2
    <2>4. ProcessInStep'
      BY <2>1, <2>2, <2>3 DEF ProcessInStep
    <2>. QED
      BY <2>1, <2>4, LedgerFrame, IngestFrame
  <1>5. ASSUME EndProcessCycle \/ AbortProcessCycle PROVE IInv'
    <2>1. process' = IdleProcess /\ UNCHANGED <<rows, results, jobs, ingest>>
      BY <1>5 DEF EndProcessCycle, AbortProcessCycle
    <2>2. ProcessInStep'
      BY <2>1 DEF ProcessInStep, IdleProcess
    <2>. QED
      BY <2>1, <2>2, LedgerFrame, IngestFrame
  <1>6. ASSUME UNCHANGED vars PROVE IInv'
    BY <1>6, LedgerFrame, IngestFrame, ProcessFrame DEF vars
  <1>. QED
    BY <1>1, <1>2, <1>3, <1>4, <1>5, <1>6

\* The ledger a deployment starts with satisfies the inductive invariant.
LEMMA InitIInv == Init => IInv
  <1>. SUFFICES ASSUME Init PROVE IInv
    OBVIOUS
  <1>1. ASSUME NEW i \in Items PROVE ItemConsistent(i)
    <2>1. rows[i] \in {AbsentRow, LegacyRow, JoblessRow} /\ results[i] = NoResult
          /\ Len(jobs[i]) = 0
      BY DEF Init
    <2>. QED
      BY <2>1, AttemptsAssumption
      DEF ItemConsistent, AbsentRow, LegacyRow, JoblessRow, NoJob, NoResult
  <1>2. LedgerConsistent
    BY <1>1, LedgerByItem
  <1>3. IngestInStep /\ ProcessInStep
    BY DEF Init, IdleIngest, IdleProcess, IngestInStep, ProcessInStep
  <1>. QED
    BY <1>2, <1>3, InitTypeOK DEF IInv

\* Every step keeps the inductive invariant.
LEMMA NextIInv == IInv /\ [Next]_vars => IInv'
  <1>. SUFFICES ASSUME IInv, [Next]_vars PROVE IInv'
    OBVIOUS
  <1>1. TypeOK'
    BY NextTypeOK DEF IInv
  <1>2. CASE Ingestion
    BY <1>1, <1>2, IngestActions, CycleActions DEF Ingestion
  <1>3. CASE Processing
    BY <1>1, <1>3, ProcessActions, CycleActions DEF Processing
  <1>4. CASE Aborts
    BY <1>1, <1>4, CycleActions DEF Aborts
  <1>5. CASE Service
    BY <1>1, <1>5, ServiceActions DEF Service
  <1>6. CASE UNCHANGED vars
    BY <1>1, <1>6, CycleActions
  <1>. QED
    BY <1>2, <1>3, <1>4, <1>5, <1>6 DEF Next

\* The inductive invariant holds whatever the workers, the crashes and the service do.
THEOREM Inductive == Spec => []IInv
  BY InitIInv, NextIInv, PTL DEF Spec

\* An item is marked distilled only once the result of the job its row names is
\* stored, for any number of items, attempts, retries and crashes.
THEOREM DistilledSafe == Spec => []DistilledHasResult
  <1>1. IInv => DistilledHasResult
    BY DEF IInv, LedgerConsistent
  <1>. QED
    BY <1>1, Inductive, PTL

\* A stored result is never left behind by an item that is resubmitted or given up.
THEOREM ResultsKept == Spec => []StoredResultIsKept
  <1>1. IInv => StoredResultIsKept
    BY DEF IInv, LedgerConsistent
  <1>. QED
    BY <1>1, Inductive, PTL

\* Neither worker acts on an item that has changed since the worker listed it.
THEOREM NoStaleItem == Spec => []HeldItemsAreCurrent
  <1>1. IInv => HeldItemsAreCurrent
    BY DEF IInv, IngestInStep, ProcessInStep, HeldItemsAreCurrent
  <1>. QED
    BY <1>1, Inductive, PTL

\* An item under way is not submitted again.
THEOREM NewestJob == Spec => []TracksNewestJob
  <1>1. IInv => TracksNewestJob
    BY DEF IInv, LedgerConsistent
  <1>. QED
    BY <1>1, Inductive, PTL

\* Items fail exactly when their attempts are used up.
THEOREM FailedExactly == Spec => []FailedWhenExhausted
  <1>1. IInv => FailedWhenExhausted
    BY DEF IInv, LedgerConsistent
  <1>. QED
    BY <1>1, Inductive, PTL

-------------------------------------------------------------------------------
(***************************************************************************)
(* What an item can cost quant_distill.  Each POST of an attempt may have  *)
(* created a job, and an attempt is paid for when it is counted, or when a *)
(* crash makes it forgotten; until then it is under way.                   *)
(***************************************************************************)

UnderWay(i) ==
    \/ rows[i].state \in {"submitted", "distilled"}
    \/ ingest.at \in {"mark", "fail"} /\ IsFirst(i, ingest.todo)

Paid(i) == HttpRetries * (rows[i].attempts + faults)

JobsPaid(i) == Len(jobs[i]) <= Paid(i) + (IF UnderWay(i) THEN HttpRetries ELSE 0)

JobInv == \A i \in Items : JobsPaid(i) /\ (rows[i].state = "absent" => rows[i] = AbsentRow)

\* An attempt, or a crash, pays for http_retries jobs.
LEMMA Payment ==
    ASSUME TypeOK, NEW i \in Items
    PROVE  /\ Paid(i) \in Nat
           /\ HttpRetries * (rows[i].attempts + 1 + faults) = Paid(i) + HttpRetries
           /\ HttpRetries * (rows[i].attempts + (faults + 1)) = Paid(i) + HttpRetries
  <1>1. HttpRetries \in Nat /\ rows[i].attempts \in Nat /\ faults \in Nat
    BY RetriesAssumption DEF TypeOK, Row
  <1>2. \A r, a, f \in Nat : /\ r * (a + f) \in Nat
                             /\ r * (a + 1 + f) = r * (a + f) + r
                             /\ r * (a + (f + 1)) = r * (a + f) + r
    OBVIOUS
  <1>. QED
    BY <1>1, <1>2 DEF Paid

\* A step that creates no job keeps an item paid for, unless the item is no longer
\* under way: then it has to have been paid for.
LEMMA PaidStep ==
    ASSUME TypeOK, TypeOK', NEW i \in Items, JobsPaid(i), Len(jobs'[i]) = Len(jobs[i]),
           \/ /\ rows'[i].attempts = rows[i].attempts /\ faults' = faults
              /\ UnderWay(i) => UnderWay(i)'
           \/ rows'[i].attempts = rows[i].attempts + 1 /\ faults' = faults
           \/ rows'[i].attempts = rows[i].attempts /\ faults' = faults + 1
    PROVE  JobsPaid(i)'
  <1>1. Paid(i) \in Nat /\ HttpRetries \in Nat /\ Len(jobs[i]) \in Nat
    BY Payment, RetriesAssumption, LenProperties DEF TypeOK
  <1>2. CASE rows'[i].attempts = rows[i].attempts /\ faults' = faults /\ (UnderWay(i) => UnderWay(i)')
    <2>1. Paid(i)' = Paid(i)
      BY <1>2 DEF Paid
    <2>. QED
      BY <1>1, <1>2, <2>1 DEF JobsPaid
  <1>3. CASE \/ rows'[i].attempts = rows[i].attempts + 1 /\ faults' = faults
             \/ rows'[i].attempts = rows[i].attempts /\ faults' = faults + 1
    <2>1. Paid(i)' = Paid(i) + HttpRetries
      BY <1>3, Payment DEF Paid
    <2>2. Len(jobs[i]) <= Paid(i) + HttpRetries
      BY <1>1 DEF JobsPaid
    <2>. QED
      BY <1>1, <2>1, <2>2 DEF JobsPaid
  <1>. QED
    BY <1>2, <1>3

\* A submission under way is not yet paid for.
LEMMA SubmissionsPaid ==
    ASSUME IInv, TypeOK', JobInv, NEW i \in Items, SubmitAccepted(i) \/ SubmitRaises(i)
    PROVE  JobInv'
  <1>1. /\ UNCHANGED <<rows, faults>> /\ ingest.at = "submit" /\ IsFirst(i, ingest.todo)
        /\ ingest'.at \in {"mark", "fail"} /\ ingest'.todo = ingest.todo
        /\ \A j \in Items \ {i} : jobs'[j] = jobs[j]
    BY DEF SubmitAccepted, SubmitRaises, IInv, TypeOK
  <1>2. rows[i].state = "new" /\ ~UnderWay(i) /\ UnderWay(i)'
    BY <1>1 DEF UnderWay, IInv, IngestInStep, IsFirst
  <1>3. Len(jobs'[i]) <= Len(jobs[i]) + HttpRetries
    <2>1. jobs[i] \in Seq(JobStatus) /\ Len(jobs[i]) \in Nat /\ HttpRetries \in Nat \ {0}
      BY RetriesAssumption, LenProperties DEF IInv, TypeOK
    <2>2. CASE SubmitAccepted(i)
      <3>1. PICK n \in 0..(HttpRetries - 1) :
              jobs' = [jobs EXCEPT ![i] = Append(WithOrphans(jobs[i], n), "running")]
        BY <2>2 DEF SubmitAccepted
      <3>2. jobs'[i] = Append(WithOrphans(jobs[i], n), "running") /\ n \in Nat
        BY <2>1, <3>1 DEF IInv, TypeOK
      <3>3. /\ WithOrphans(jobs[i], n) \in Seq(JobStatus)
            /\ Len(WithOrphans(jobs[i], n)) = Len(jobs[i]) + n
        BY <2>1, <3>2, OrphansType
      <3>4. Len(Append(WithOrphans(jobs[i], n), "running")) = Len(WithOrphans(jobs[i], n)) + 1
        BY <3>3, AppendProperties DEF JobStatus
      <3>. QED
        BY <2>1, <3>1, <3>2, <3>3, <3>4
    <2>3. CASE SubmitRaises(i)
      <3>1. PICK n \in 0..(IF i \in Refused THEN 0 ELSE HttpRetries) :
              jobs' = [jobs EXCEPT ![i] = WithOrphans(jobs[i], n)]
        BY <2>3 DEF SubmitRaises
      <3>n. n \in 0..HttpRetries
        BY <2>1, <3>1
      <3>2. jobs'[i] = WithOrphans(jobs[i], n) /\ n \in Nat /\ n <= HttpRetries
        BY <2>1, <3>1, <3>n DEF IInv, TypeOK
      <3>3. Len(jobs'[i]) = Len(jobs[i]) + n
        BY <2>1, <3>2, OrphansType
      <3>. QED
        BY <2>1, <3>2, <3>3
    <2>. QED
      BY <2>2, <2>3
  <1>4. Paid(i)' = Paid(i) /\ Paid(i) \in Nat /\ HttpRetries \in Nat
        /\ Len(jobs[i]) \in Nat /\ Len(jobs'[i]) \in Nat
    BY <1>1, Payment, RetriesAssumption, LenProperties DEF Paid, IInv, TypeOK
  <1>5. JobsPaid(i)'
    BY <1>2, <1>3, <1>4 DEF JobInv, JobsPaid
  <1>6. ASSUME NEW j \in Items \ {i} PROVE JobsPaid(j)'
    <2>1. UnderWay(j) => UnderWay(j)'
      BY <1>1 DEF UnderWay
    <2>. QED
      BY <1>1, <2>1, PaidStep DEF JobInv, IInv
  <1>. QED
    BY <1>1, <1>5, <1>6 DEF JobInv

\* The other steps create no job; one that takes an item out of a submission counts
\* an attempt or a fault.
LEMMA StepsPaid ==
    ASSUME IInv, TypeOK', JobInv, [Next]_vars,
           ~(\E j \in Items : SubmitAccepted(j) \/ SubmitRaises(j))
    PROVE  JobInv'
  <1>. SUFFICES ASSUME NEW i \in Items
                PROVE  JobsPaid(i)' /\ (rows[i].state = "absent" => rows[i] = AbsentRow)'
    BY DEF JobInv
  <1>t. /\ TypeOK /\ JobsPaid(i) /\ rows[i] \in Row
        /\ rows[i].state = "absent" => rows[i] = AbsentRow
        /\ ingest.todo \subseteq Items /\ process.todo \subseteq Items
        /\ \A j \in ingest.todo : rows[j].state = "new"
        /\ \A j \in process.todo : rows[j].state = "submitted"
        /\ ingest.at \in {"ingest", "list"} => ingest.todo = {}
    BY DEF IInv, JobInv, TypeOK, IngestInStep, ProcessInStep
  \* Either it leaves the row of i as it is, and i under way if it is,
  <1>1. ASSUME UNCHANGED <<jobs, faults>>, rows'[i] = rows[i], UnderWay(i) => UnderWay(i)'
        PROVE  JobsPaid(i)' /\ (rows[i].state = "absent" => rows[i] = AbsentRow)'
    BY <1>t, <1>1, PaidStep
  \* or it writes the row of i without counting,
  <1>2. ASSUME UNCHANGED <<jobs, faults>>, UnderWay(i) => UnderWay(i)',
               rows'[i].attempts = rows[i].attempts, rows'[i].state # "absent"
        PROVE  JobsPaid(i)' /\ (rows[i].state = "absent" => rows[i] = AbsentRow)'
    BY <1>t, <1>2, PaidStep
  \* or it counts an attempt of i,
  <1>3. ASSUME UNCHANGED <<jobs, faults>>,
               rows'[i].attempts = rows[i].attempts + 1, rows'[i].state # "absent"
        PROVE  JobsPaid(i)' /\ (rows[i].state = "absent" => rows[i] = AbsentRow)'
    BY <1>t, <1>3, PaidStep
  \* or it is a crash.
  <1>4. ASSUME UNCHANGED <<jobs, rows>>, faults' = faults + 1
        PROVE  JobsPaid(i)' /\ (rows[i].state = "absent" => rows[i] = AbsentRow)'
    BY <1>t, <1>4, PaidStep
  <1>5. CASE \E j \in Items : PersistItem(j)
    <2>1. /\ rows'[i] = rows[i] \/ rows'[i] = InsertItem(rows[i])
          /\ UNCHANGED <<jobs, ingest, faults>> /\ ingest.at = "ingest"
      BY <1>5 DEF PersistItem, IInv, TypeOK
    <2>2. CASE rows'[i] = rows[i]
      BY <1>1, <2>1, <2>2 DEF UnderWay
    <2>3. CASE rows'[i] # rows[i]
      <3>1. rows[i].state = "absent" /\ rows'[i] = FreshRow
        BY <2>1, <2>3 DEF InsertItem
      <3>2. rows'[i].attempts = rows[i].attempts /\ rows'[i].state # "absent" /\ ~UnderWay(i)
        BY <1>t, <2>1, <3>1 DEF FreshRow, AbsentRow, UnderWay
      <3>. QED
        BY <1>2, <2>1, <3>2
    <2>. QED
      BY <2>2, <2>3
  <1>6. CASE RequeueLegacy
    <2>1. /\ rows'[i] = RequeueSubmitting(rows[i]) /\ UNCHANGED <<jobs, faults>>
          /\ ingest.at = "ingest"
      BY <1>6 DEF RequeueLegacy, IInv, TypeOK
    <2>2. CASE rows[i].state = "submitting"
      <3>1. /\ rows'[i].attempts = rows[i].attempts /\ rows'[i].state # "absent"
            /\ ~UnderWay(i)
        BY <1>t, <2>1, <2>2 DEF RequeueSubmitting, Row, UnderWay
      <3>. QED
        BY <1>2, <2>1, <3>1
    <2>3. CASE rows[i].state # "submitting"
      <3>1. rows'[i] = rows[i] /\ (UnderWay(i) => UnderWay(i)')
        BY <2>1, <2>3 DEF RequeueSubmitting, UnderWay
      <3>. QED
        BY <1>1, <2>1, <3>1
    <2>. QED
      BY <2>2, <2>3
  <1>7. CASE ListNew \/ EndIngestCycle
    <2>1. UNCHANGED <<rows, jobs, faults>> /\ ingest.at \in {"list", "submit"}
      BY <1>7 DEF ListNew, EndIngestCycle
    <2>. QED
      BY <1>1, <2>1 DEF UnderWay
  <1>8. ASSUME NEW j \in Items, MarkSubmitted(j)
        PROVE  JobsPaid(i)' /\ (rows[i].state = "absent" => rows[i] = AbsentRow)'
    <2>1. /\ UNCHANGED <<jobs, faults>> /\ IsFirst(j, ingest.todo) /\ rows[j].state = "new"
          /\ rows'[j] = MarkItemSubmitted(rows[j], ingest.job)
          /\ i # j => rows'[i] = rows[i]
      BY <1>8, <1>t DEF MarkSubmitted, IInv, TypeOK, IsFirst
    <2>2. CASE i = j
      <3>1. rows'[i].attempts = rows[i].attempts /\ rows'[i].state = "submitted"
        BY <1>t, <2>1, <2>2 DEF MarkItemSubmitted, Row
      <3>. QED
        BY <1>2, <2>1, <3>1 DEF UnderWay
    <2>3. CASE i # j
      <3>1. ~IsFirst(i, ingest.todo)
        BY <1>t, <2>1, <2>3, ItemsAssumption DEF IsFirst
      <3>. QED
        BY <1>1, <2>1, <2>3, <3>1 DEF UnderWay
    <2>. QED
      BY <2>2, <2>3
  <1>9. ASSUME NEW j \in Items, FailSubmission(j)
        PROVE  JobsPaid(i)' /\ (rows[i].state = "absent" => rows[i] = AbsentRow)'
    <2>1. /\ UNCHANGED <<jobs, faults>> /\ IsFirst(j, ingest.todo)
          /\ rows'[j] = RecordDistillFailure(rows[j], MaxAttempts)
          /\ i # j => rows'[i] = rows[i]
      BY <1>9 DEF FailSubmission, IInv, TypeOK
    <2>2. CASE i = j
      BY <1>3, <2>1, <2>2 DEF RecordDistillFailure
    <2>3. CASE i # j
      <3>1. ~IsFirst(i, ingest.todo)
        BY <1>t, <2>1, <2>3, ItemsAssumption DEF IsFirst
      <3>. QED
        BY <1>1, <2>1, <2>3, <3>1 DEF UnderWay
    <2>. QED
      BY <2>2, <2>3
  <1>10. ASSUME NEW j \in Items, FinishItem(j)
         PROVE  JobsPaid(i)' /\ (rows[i].state = "absent" => rows[i] = AbsentRow)'
    <2>1. /\ UNCHANGED <<jobs, faults, ingest>>
          /\ rows'[j] = SetItemState(rows[j], "distilled") /\ rows[j].state = "submitted"
          /\ i # j => rows'[i] = rows[i]
      BY <1>10, <1>t DEF FinishItem, IInv, TypeOK, IsFirst
    <2>2. CASE i = j
      <3>1. rows'[i].attempts = rows[i].attempts /\ rows'[i].state = "distilled"
        BY <1>t, <2>1, <2>2 DEF SetItemState, Row
      <3>. QED
        BY <1>2, <2>1, <3>1 DEF UnderWay
    <2>3. CASE i # j
      BY <1>1, <2>1, <2>3 DEF UnderWay
    <2>. QED
      BY <2>2, <2>3
  <1>11. ASSUME NEW j \in Items, FailItem(j)
         PROVE  JobsPaid(i)' /\ (rows[i].state = "absent" => rows[i] = AbsentRow)'
    <2>1. /\ UNCHANGED <<jobs, faults, ingest>>
          /\ rows'[j] = RecordDistillFailure(rows[j], MaxAttempts)
          /\ i # j => rows'[i] = rows[i]
      BY <1>11 DEF FailItem, IInv, TypeOK
    <2>2. CASE i = j
      BY <1>3, <2>1, <2>2 DEF RecordDistillFailure
    <2>3. CASE i # j
      BY <1>1, <2>1, <2>3 DEF UnderWay
    <2>. QED
      BY <2>2, <2>3
  <1>12. CASE Aborts
    BY <1>4, <1>12 DEF Aborts, AbortIngestCycle, AbortProcessCycle
  <1>13. CASE Service
    <2>1. PICK j \in Items : JobEnds(j) \/ JobForgotten(j)
      BY <1>13 DEF Service
    <2>2. PICK k \in DOMAIN jobs[j], v \in JobStatus : jobs' = [jobs EXCEPT ![j][k] = v]
      BY <2>1 DEF JobEnds, JobForgotten, JobStatus
    <2>3. UNCHANGED <<rows, ingest, faults>>
      BY <2>1 DEF JobEnds, JobForgotten
    <2>4. Len(jobs'[i]) = Len(jobs[i])
      <3>1. jobs[j] \in Seq(JobStatus) /\ jobs[i] \in Seq(JobStatus)
        BY <1>t DEF TypeOK
      <3>2. Len([jobs[j] EXCEPT ![k] = v]) = Len(jobs[j])
        BY <2>2, <3>1, JobUpdateType
      <3>. QED
        BY <1>t, <2>2, <3>2 DEF TypeOK
    <2>. QED
      BY <1>t, <2>3, <2>4, PaidStep DEF UnderWay
  <1>14. CASE \/ ListSubmitted \/ EndProcessCycle \/ UNCHANGED vars
              \/ \E j \in Items : \/ PollAgainLater(j) \/ PollSucceeded(j)
                                  \/ PollFailed(j) \/ StoreResult(j)
    <2>1. UNCHANGED <<rows, jobs, faults, ingest>>
      BY <1>14 DEF ListSubmitted, EndProcessCycle, vars, PollAgainLater, PollSucceeded,
                   PollFailed, StoreResult
    <2>. QED
      BY <1>1, <2>1 DEF UnderWay
  <1>. QED
    BY <1>5, <1>6, <1>7, <1>8, <1>9, <1>10, <1>11, <1>12, <1>13, <1>14
    DEF Next, Ingestion, Processing

\* An item costs quant_distill at most http_retries jobs for each counted attempt, for
\* the submission under way and for each crashed cycle.
THEOREM BoundedJobs == Spec => []JobsAreBounded
  <1>1. Init => JobInv
    <2>. SUFFICES ASSUME Init, NEW i \in Items
                  PROVE  JobsPaid(i) /\ (rows[i].state = "absent" => rows[i] = AbsentRow)
      BY DEF JobInv
    <2>1. Len(jobs[i]) = 0 /\ Paid(i) \in Nat /\ HttpRetries \in Nat
      BY InitTypeOK, Payment, RetriesAssumption DEF Init
    <2>2. rows[i].state = "absent" => rows[i] = AbsentRow
      BY DEF Init, AbsentRow, LegacyRow, JoblessRow
    <2>. QED
      BY <2>1, <2>2 DEF JobsPaid
  <1>2. IInv /\ IInv' /\ JobInv /\ [Next]_vars => JobInv'
    BY SubmissionsPaid, StepsPaid DEF IInv
  <1>3. IInv /\ JobInv => JobsAreBounded
    <2>. SUFFICES ASSUME IInv, JobInv, NEW i \in Items
                  PROVE  Len(jobs[i]) <= HttpRetries * (rows[i].attempts + faults + 1)
      BY DEF JobsAreBounded
    <2>1. /\ Paid(i) \in Nat /\ HttpRetries \in Nat /\ Len(jobs[i]) \in Nat
          /\ HttpRetries * (rows[i].attempts + (faults + 1)) = Paid(i) + HttpRetries
      BY Payment, RetriesAssumption, LenProperties DEF IInv, TypeOK
    <2>2. rows[i].attempts + (faults + 1) = rows[i].attempts + faults + 1
      BY DEF IInv, TypeOK, Row
    <2>. QED
      BY <2>1, <2>2 DEF JobInv, JobsPaid
  <1>. QED
    BY <1>1, <1>2, <1>3, Inductive, PTL DEF Spec

-------------------------------------------------------------------------------
(***************************************************************************)
(* The pipeline implements ItemLifecycle.  A step maps to the lifecycle    *)
(* action of the one item whose row or result it writes, or to a stutter.  *)
(***************************************************************************)

\* The phase of an item depends on its row only.
LEMMA PhaseStep ==
    ASSUME rows \in [Items -> Row], rows' \in [Items -> Row], NEW i \in Items,
           \A j \in Items \ {i} : rows'[j].state = rows[j].state
    PROVE  Phase' = [Phase EXCEPT ![i] = PhaseOf(rows'[i].state)]
  BY DEF Phase

\* A step that moves no item to another phase is a stutter of the phases.
LEMMA PhaseStutter ==
    ASSUME \A j \in Items : PhaseOf(rows'[j].state) = PhaseOf(rows[j].state)
    PROVE  Phase' = Phase
  BY DEF Phase

\* Initial states of the pipeline are initial states of the lifecycle.
LEMMA InitRefines == Init => Lifecycle!Init
  <1>. SUFFICES ASSUME Init PROVE Lifecycle!Init
    OBVIOUS
  <1>1. \A i \in Items : Phase[i] \in {"absent", "pending"}
    BY DEF Init, Phase, PhaseOf, AbsentRow, LegacyRow, JoblessRow
  <1>2. Phase \in [Items -> {"absent", "pending"}]
    BY <1>1 DEF Phase
  <1>. QED
    BY <1>2 DEF Init, Lifecycle!Init

\* Every step of the pipeline is a step of the lifecycle or a stutter of it.
LEMMA NextRefines == IInv /\ IInv' /\ [Next]_vars => [Lifecycle!Next]_(Lifecycle!lifeVars)
  <1>. SUFFICES ASSUME IInv, IInv', [Next]_vars
                PROVE  Lifecycle!Next \/ UNCHANGED <<Phase, results>>
    BY DEF Lifecycle!lifeVars
  <1>t. rows \in [Items -> Row] /\ rows' \in [Items -> Row] /\ results \in [Items -> Nat]
    BY DEF IInv, TypeOK
  <1>s. UNCHANGED <<rows, results>> => UNCHANGED <<Phase, results>>
    BY PhaseStutter
  <1>c. \A i \in Items : ItemConsistent(i)
    BY LedgerByItem DEF IInv
  <1>1. ASSUME NEW i \in Items, PersistItem(i)
        PROVE  Lifecycle!Ingest(i) \/ UNCHANGED <<Phase, results>>
    <2>1. rows' = [rows EXCEPT ![i] = InsertItem(rows[i])] /\ UNCHANGED results
      BY <1>1 DEF PersistItem
    <2>2. CASE rows[i].state = "absent"
      <3>1. Phase' = [Phase EXCEPT ![i] = "pending"]
        BY <1>t, <2>1, <2>2, PhaseStep DEF InsertItem, FreshRow, PhaseOf
      <3>2. Phase[i] = "absent"
        BY <2>2 DEF Phase, PhaseOf
      <3>. QED
        BY <2>1, <3>1, <3>2 DEF Lifecycle!Ingest
    <2>3. CASE rows[i].state # "absent"
      BY <1>t, <2>1, <2>3, PhaseStutter DEF InsertItem
    <2>. QED
      BY <2>2, <2>3
  <1>2. CASE RequeueLegacy
    <2>1. \A j \in Items : rows'[j] = RequeueSubmitting(rows[j])
      BY <1>2 DEF RequeueLegacy
    <2>2. \A j \in Items : PhaseOf(rows'[j].state) = PhaseOf(rows[j].state)
      BY <1>t, <2>1 DEF RequeueSubmitting, PhaseOf, Row
    <2>. QED
      BY <1>2, <2>2, PhaseStutter DEF RequeueLegacy
  <1>3. ASSUME NEW i \in Items, MarkSubmitted(i) PROVE UNCHANGED <<Phase, results>>
    <2>1. rows' = [rows EXCEPT ![i] = MarkItemSubmitted(rows[i], ingest.job)]
          /\ rows[i].state = "new" /\ UNCHANGED results
      BY <1>3 DEF MarkSubmitted, IInv, IngestInStep, IsFirst
    <2>2. \A j \in Items : PhaseOf(rows'[j].state) = PhaseOf(rows[j].state)
      BY <1>t, <2>1 DEF MarkItemSubmitted, PhaseOf, Row
    <2>. QED
      BY <2>1, <2>2, PhaseStutter
  <1>4. ASSUME NEW i \in Items, FailSubmission(i) \/ FailItem(i)
        PROVE  Lifecycle!Exhaust(i) \/ UNCHANGED <<Phase, results>>
    <2>1. rows' = [rows EXCEPT ![i] = RecordDistillFailure(rows[i], MaxAttempts)]
          /\ rows[i].state \in {"new", "submitted"} /\ results[i] = NoResult
          /\ UNCHANGED results
      BY <1>4, <1>c DEF FailSubmission, FailItem, IInv, IngestInStep, ProcessInStep, IsFirst,
                        ItemConsistent
    <2>2. rows'[i].state \in {"new", "failed"}
      BY <1>t, <2>1 DEF RecordDistillFailure
    <2>3. Phase[i] = "pending"
      BY <2>1 DEF Phase, PhaseOf
    <2>4. Phase' = [Phase EXCEPT ![i] = PhaseOf(rows'[i].state)]
      BY <1>t, <2>1, PhaseStep
    <2>5. CASE rows'[i].state = "new"
      BY <2>1, <2>3, <2>4, <2>5 DEF PhaseOf, Phase
    <2>6. CASE rows'[i].state = "failed"
      BY <2>1, <2>3, <2>4, <2>6 DEF PhaseOf, Lifecycle!Exhaust
    <2>. QED
      BY <2>2, <2>5, <2>6
  <1>5. ASSUME NEW i \in Items, StoreResult(i)
        PROVE  Lifecycle!StoreResult(i) \/ UNCHANGED <<Phase, results>>
    <2>1. results' = [results EXCEPT ![i] = StoredResult(results[i], process.seen[i])]
          /\ rows[i].state = "submitted" /\ process.seen[i] # NoJob /\ process.seen[i] \in Nat
          /\ UNCHANGED rows
      BY <1>5 DEF StoreResult, IInv, TypeOK, ProcessInStep, IsFirst
    <2>2. Phase' = Phase /\ Phase[i] = "pending"
      BY <2>1, PhaseStutter DEF Phase, PhaseOf
    <2>3. CASE results[i] = NoResult
      BY <1>t, <2>1, <2>2, <2>3 DEF StoredResult, Lifecycle!StoreResult, NoJob, NoResult
    <2>4. CASE results[i] # NoResult
      BY <1>t, <2>1, <2>2, <2>4 DEF StoredResult
    <2>. QED
      BY <2>3, <2>4
  <1>6. ASSUME NEW i \in Items, FinishItem(i) PROVE Lifecycle!Complete(i)
    <2>1. rows' = [rows EXCEPT ![i] = SetItemState(rows[i], "distilled")]
          /\ rows[i].state = "submitted" /\ results[i] # NoResult /\ UNCHANGED results
      BY <1>6 DEF FinishItem, IInv, ProcessInStep, IsFirst
    <2>2. rows'[i].state = "distilled"
      BY <1>t, <2>1 DEF SetItemState, Row
    <2>3. Phase' = [Phase EXCEPT ![i] = "distilled"]
      BY <1>t, <2>1, <2>2, PhaseStep DEF PhaseOf
    <2>4. Phase[i] = "pending"
      BY <2>1 DEF Phase, PhaseOf
    <2>. QED
      BY <2>1, <2>3, <2>4 DEF Lifecycle!Complete
  <1>7. ASSUME Ingestion PROVE Lifecycle!Next \/ UNCHANGED <<Phase, results>>
    BY <1>s, <1>1, <1>2, <1>3, <1>4, <1>7
    DEF Ingestion, ListNew, SubmitAccepted, SubmitRaises, EndIngestCycle, Lifecycle!Next
  <1>8. ASSUME Processing PROVE Lifecycle!Next \/ UNCHANGED <<Phase, results>>
    BY <1>s, <1>4, <1>5, <1>6, <1>8
    DEF Processing, ListSubmitted, PollAgainLater, PollSucceeded, PollFailed,
        EndProcessCycle, Lifecycle!Next
  <1>9. ASSUME Aborts \/ Service \/ UNCHANGED vars PROVE UNCHANGED <<Phase, results>>
    BY <1>s, <1>9 DEF Aborts, AbortIngestCycle, AbortProcessCycle, Service, JobEnds,
                      JobForgotten, vars
  <1>. QED
    BY <1>7, <1>8, <1>9 DEF Next

\* The pipeline does to each item what its lifecycle allows: one result, stored before
\* the item is distilled and never replaced, and no way back from distilled or failed.
THEOREM Refinement == Spec => ImplementsLifecycle
  <1>1. Init => Lifecycle!Init
    BY InitRefines
  <1>2. IInv /\ IInv' /\ [Next]_vars => [Lifecycle!Next]_(Lifecycle!lifeVars)
    BY NextRefines
  <1>. QED
    BY <1>1, <1>2, Inductive, PTL DEF Spec, ImplementsLifecycle, Lifecycle!Spec
===============================================================================
