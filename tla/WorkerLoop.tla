------------------------------ MODULE WorkerLoop -------------------------------
(***************************************************************************)
(* The loops around the cycles of Pipeline: run_ingest_forever and         *)
(* run_process_forever (app/services/orchestrator.py) under supervisord.   *)
(*                                                                         *)
(* A loop runs a cycle, writes a cycle_runs row about it, sleeps until the *)
(* interval is over or SIGTERM sets its stop event, and goes on.  The      *)
(* process worker writes a heartbeat after its polls, inside the same try  *)
(* block.  An exception turns the result of the cycle into an empty one    *)
(* and the loop goes on; a row that cannot be written is forgotten.        *)
(* SIGTERM never interrupts a cycle, SIGKILL does.  supervisord starts a   *)
(* worker that ended, also with exit code 0 (autorestart=true), unless it  *)
(* was told to stop it.                                                    *)
(*                                                                         *)
(* Of the rows of cycle_runs only the sums of their counters are kept.     *)
(***************************************************************************)
EXTENDS Pipeline

CONSTANT MaxStops  \* bound: workers an operator stops, over a behaviour

ASSUME StopsAssumption == MaxStops \in Nat

Workers == {"ingest", "process"}

Counts == [submitted : Nat, distilled : Nat, failed : Nat]
NoCounts == [submitted |-> 0, distilled |-> 0, failed |-> 0]
Plus(c, d) == [k \in DOMAIN c |-> c[k] + d[k]]

VARIABLES
    loop,      \* loop[w]: where the loop of worker w is, and its stop event
    counted,   \* counted[w]: the counters of the cycle under way, or just ended
    recorded,  \* the sums of the counters over all rows of cycle_runs
    wanted,    \* the workers supervisord keeps running
    stops      \* operator stops so far (counted only to bound the model)

loopVars == <<rows, results, jobs, ingest, process, faults, loop, counted, recorded, wanted, stops>>
ledgerVars == <<rows, results, jobs, ingest, process>>

Positions == {"cycle", "beat", "record", "wait", "down"}

LoopTypeOK ==
    /\ TypeOK
    /\ loop \in [Workers -> [at : Positions, stop : BOOLEAN]]
    /\ counted \in [Workers -> Counts]
    /\ recorded \in Counts
    /\ wanted \subseteq Workers
    /\ stops \in 0..MaxStops
    /\ loop["ingest"].at # "cycle" => ingest = IdleIngest
    /\ loop["process"].at # "cycle" => process = IdleProcess

Started == [at |-> "cycle", stop |-> FALSE]

LoopInit ==
    /\ Init
    /\ loop = [w \in Workers |-> Started]
    /\ counted = [w \in Workers |-> NoCounts]
    /\ recorded = NoCounts
    /\ wanted = Workers
    /\ stops = 0

-------------------------------------------------------------------------------
(***************************************************************************)
(* A cycle: the steps of Pipeline, and what the cycle counts.              *)
(***************************************************************************)
GoTo(w, at) == loop' = [loop EXCEPT ![w].at = at]
Count(w, key) == counted' = [counted EXCEPT ![w][key] = @ + 1]
CountIfFailed(w, i) ==
    counted' = [counted EXCEPT ![w].failed = IF rows'[i].state = "failed" THEN @ + 1 ELSE @]

\* _submit_new_items: submitted += 1 after the UPDATE, failed += 1 if it was the last attempt.
IngestCycleStep ==
    /\ loop["ingest"].at = "cycle"
    /\ \/ /\ \/ \E i \in Items : PersistItem(i) \/ SubmitAccepted(i) \/ SubmitRaises(i)
             \/ RequeueLegacy \/ ListNew
          /\ UNCHANGED <<loop, counted>>
       \/ (\E i \in Items : MarkSubmitted(i)) /\ Count("ingest", "submitted") /\ UNCHANGED loop
       \/ (\E i \in Items : FailSubmission(i) /\ CountIfFailed("ingest", i)) /\ UNCHANGED loop
       \/ EndIngestCycle /\ GoTo("ingest", "record") /\ UNCHANGED counted
    /\ UNCHANGED <<recorded, wanted, stops>>

\* _poll_submitted_items: distilled += 1 after set_item_state.
ProcessCycleStep ==
    /\ loop["process"].at = "cycle"
    /\ \/ /\ \/ ListSubmitted
             \/ \E i \in Items :
                  PollAgainLater(i) \/ PollSucceeded(i) \/ PollFailed(i) \/ StoreResult(i)
          /\ UNCHANGED <<loop, counted>>
       \/ (\E i \in Items : FinishItem(i)) /\ Count("process", "distilled") /\ UNCHANGED loop
       \/ (\E i \in Items : FailItem(i) /\ CountIfFailed("process", i)) /\ UNCHANGED loop
       \/ EndProcessCycle /\ GoTo("process", "beat") /\ UNCHANGED counted
    /\ UNCHANGED <<recorded, wanted, stops>>

\* repo.set_heartbeat() after the polls.
Heartbeat ==
    /\ loop["process"].at = "beat"
    /\ GoTo("process", "record")
    /\ UNCHANGED <<ledgerVars, faults, counted, recorded, wanted, stops>>

Forget_KeepsMemory(w) ==
    /\ faults < MaxFaults
    /\ faults' = faults + 1
    /\ UNCHANGED ledgerVars

\* Whatever worker w held in memory is gone.
Forget(w) ==
    /\ ingest' = IF w = "ingest" THEN IdleIngest ELSE ingest
    /\ process' = IF w = "process" THEN IdleProcess ELSE process
    /\ faults < MaxFaults
    /\ faults' = faults + 1
    /\ UNCHANGED <<rows, results, jobs>>

\* except Exception: the counters of the cycle are replaced by empty ones.
CycleRaises(w) ==
    /\ loop[w].at \in {"cycle", "beat"}
    /\ Forget(w)
    /\ GoTo(w, "record")
    /\ counted' = [counted EXCEPT ![w] = NoCounts]
    /\ UNCHANGED <<recorded, wanted, stops>>

-------------------------------------------------------------------------------
(***************************************************************************)
(* Between two cycles.                                                     *)
(***************************************************************************)
RecordRun_Again(w) ==
    /\ loop[w].at = "record"
    /\ recorded' = Plus(recorded, counted[w])
    /\ GoTo(w, "wait")
    /\ UNCHANGED <<ledgerVars, faults, counted, wanted, stops>>

\* insert_cycle_run; the next cycle starts counting from zero.
RecordRun(w) ==
    /\ loop[w].at = "record"
    /\ recorded' = Plus(recorded, counted[w])
    /\ counted' = [counted EXCEPT ![w] = NoCounts]
    /\ GoTo(w, "wait")
    /\ UNCHANGED <<ledgerVars, faults, wanted, stops>>

\* insert_cycle_run raises, which is logged and nothing else.
RecordLost(w) ==
    /\ loop[w].at = "record"
    /\ faults < MaxFaults
    /\ faults' = faults + 1
    /\ counted' = [counted EXCEPT ![w] = NoCounts]
    /\ GoTo(w, "wait")
    /\ UNCHANGED <<ledgerVars, recorded, wanted, stops>>

NextCycle_IgnoresStop(w) ==
    /\ loop[w].at = "wait"
    /\ GoTo(w, "cycle")
    /\ UNCHANGED <<ledgerVars, faults, counted, recorded, wanted, stops>>

\* stop.wait(timeout=poll_interval) times out.
NextCycle(w) ==
    /\ loop[w].at = "wait"
    /\ ~loop[w].stop
    /\ GoTo(w, "cycle")
    /\ UNCHANGED <<ledgerVars, faults, counted, recorded, wanted, stops>>

\* stop.is_set(), or stop.wait returns at once: the loop is left and the process ends.
Exit(w) ==
    /\ loop[w].at = "wait"
    /\ loop[w].stop
    /\ GoTo(w, "down")
    /\ UNCHANGED <<ledgerVars, faults, counted, recorded, wanted, stops>>

-------------------------------------------------------------------------------
(***************************************************************************)
(* Signals and supervisord.                                                *)
(***************************************************************************)

\* SIGTERM or SIGINT: the handler sets the stop event and nothing else.
SetStop(w) == loop' = [loop EXCEPT ![w].stop = TRUE]

\* An operator stops worker w with supervisorctl, or the container is stopped.
StopWorker(w) ==
    /\ w \in wanted
    /\ loop[w].at # "down"
    /\ stops < MaxStops
    /\ stops' = stops + 1
    /\ wanted' = wanted \ {w}
    /\ SetStop(w)
    /\ UNCHANGED <<ledgerVars, faults, counted, recorded>>

\* A SIGTERM of which supervisord knows nothing.
Signalled(w) ==
    /\ loop[w].at # "down"
    /\ ~loop[w].stop
    /\ stops < MaxStops
    /\ stops' = stops + 1
    /\ SetStop(w)
    /\ UNCHANGED <<ledgerVars, faults, counted, recorded, wanted>>

\* supervisorctl start, which is refused while the worker is still stopping.
StartWorker(w) ==
    /\ w \notin wanted
    /\ loop[w].at = "down"
    /\ wanted' = wanted \union {w}
    /\ UNCHANGED <<ledgerVars, faults, loop, counted, recorded, stops>>

\* The process dies in whatever it is doing: a crash, or SIGKILL when stopping takes
\* supervisord too long.
Killed(w) ==
    /\ loop[w].at # "down"
    /\ Forget(w)
    /\ GoTo(w, "down")
    /\ counted' = [counted EXCEPT ![w] = NoCounts]
    /\ UNCHANGED <<recorded, wanted, stops>>

Restart_OnlyAfterCrash(w) ==
    /\ loop[w].at = "down"
    /\ w \in wanted
    /\ ~loop[w].stop
    /\ loop' = [loop EXCEPT ![w] = Started]
    /\ UNCHANGED <<ledgerVars, faults, counted, recorded, wanted, stops>>

\* autorestart=true, whatever the exit code was.
Restart(w) ==
    /\ loop[w].at = "down"
    /\ w \in wanted
    /\ loop' = [loop EXCEPT ![w] = Started]
    /\ UNCHANGED <<ledgerVars, faults, counted, recorded, wanted, stops>>

-------------------------------------------------------------------------------
CycleStep(w) == IF w = "ingest" THEN IngestCycleStep ELSE ProcessCycleStep \/ Heartbeat

LoopStep(w) == RecordRun(w) \/ NextCycle(w) \/ Exit(w) \/ Restart(w)

Disturbance ==
    \E w \in Workers :
        \/ CycleRaises(w) \/ RecordLost(w) \/ Killed(w)
        \/ StopWorker(w) \/ Signalled(w) \/ StartWorker(w)

ServiceStep == Service /\ UNCHANGED <<loop, counted, recorded, wanted, stops>>

LoopNext == (\E w \in Workers : CycleStep(w) \/ LoopStep(w)) \/ Disturbance \/ ServiceStep

LoopSpec == LoopInit /\ [][LoopNext]_loopVars

\* The interpreter runs the loops, a sleep ends, supervisord restarts what it is to keep
\* running; quant_distill as in Pipeline.
Progress(w) ==
    LoopStep(w) \/ (CycleStep(w) /\ <<ingest, process, loop>>' # <<ingest, process, loop>>)
LoopFairness ==
    /\ \A w \in Workers : WF_loopVars(Progress(w))
    /\ \A i \in Items :
         /\ WF_loopVars(JobEnds(i) /\ ServiceStep)
         /\ SF_loopVars(PollAnswered(i) /\ ProcessCycleStep)

LoopFairSpec == LoopSpec /\ LoopFairness

-------------------------------------------------------------------------------
(***************************************************************************)
(* Properties.                                                             *)
(***************************************************************************)
Reported(key) == recorded[key] + counted["ingest"][key] + counted["process"][key]
InStateCount(state) == Cardinality(InState(rows, state))
AcceptedJobs == UNION {{i} \X {k \in DOMAIN jobs[i] : jobs[i][k] # "orphan"} : i \in Items}

\* /reddit/runs/recent never reports an item twice: over all cycles, including the ones
\* under way, it counts no more distilled and failed items than the ledger has.  Only a
\* cycle that raised or was killed, or a row that was not written, keeps items out of it,
\* and no more of them than one cycle polls.
RunsAccountForItems ==
    /\ Reported("distilled") <= InStateCount("distilled")
    /\ InStateCount("distilled") <= Reported("distilled") + faults * PollLimit
    /\ Reported("failed") <= InStateCount("failed")
    /\ faults = 0 => Reported("failed") = InStateCount("failed")

\* The same for submissions, which an item may need several of: each one reported is a
\* job of its own, and without faults every job whose id came back is reported, but for
\* the one about to be marked.
RunsAccountForJobs ==
    /\ Reported("submitted") <= Cardinality(AcceptedJobs)
    /\ faults = 0 => Cardinality(AcceptedJobs) =
                       Reported("submitted") + (IF ingest.at = "mark" THEN 1 ELSE 0)

\* The run history an operator reads instead of the logs adds up.
RunsAccountForWork == RunsAccountForItems /\ RunsAccountForJobs

\* "graceful shutdown on SIGTERM/SIGINT": a worker that was told to stop ends, after the
\* cycle it is in.
StopIsHeeded == \A w \in Workers : loop[w].stop ~> loop[w].at = "down"

\* Neither an exception in a cycle nor a row that cannot be written nor a signal ends the
\* service: a worker that is to run comes to the end of a cycle again and again.
LoopsKeepGoing ==
    \A w \in Workers : <>[](w \in wanted) => []<>(loop[w].at = "record")

\* As long as nobody stops a worker for good, every ingested item ends distilled or
\* failed, through exceptions, kills, signals and restarts.
ItemsSettle == <>[](wanted = Workers) => EveryItemSettles
===============================================================================
