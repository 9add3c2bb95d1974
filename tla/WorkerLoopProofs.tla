--------------------------- MODULE WorkerLoopProofs ----------------------------
(***************************************************************************)
(* Theorems about WorkerLoop, for every set of items, poll limit and       *)
(* number of faults and stops: the loops run the cycles of Pipeline and    *)
(* nothing else, and the run history they write adds up.                   *)
(***************************************************************************)
EXTENDS WorkerLoop, PipelineProofs, FiniteSetTheorems, WellFoundedInduction

-------------------------------------------------------------------------------
(***************************************************************************)
(* list_items_by_state(limit=n) returns at most n items.                   *)
(***************************************************************************)

\* A set of naturals that has a member has a least one.
LEMMA LeastNat ==
    ASSUME NEW S \in SUBSET Nat, S # {} PROVE \E m \in S : \A x \in S : m <= x
  <1>. DEFINE T == {1..n : n \in S}
             F == FiniteSubsetsOf(Nat)
             R == StrictSubsetOrdering(Nat)
  <1>1. T \subseteq F /\ T # {}
    <2>1. ASSUME NEW n \in S PROVE 1..n \in F
      <3>1. IsFiniteSet(1..n)
        BY FS_Interval
      <3>. QED
        BY <3>1 DEF FiniteSubsetsOf
    <2>. QED
      BY <2>1
  <1>2. IsWellFoundedOn(R, F)
    BY FS_StrictSubsetOrderingWellFounded
  <1>3. PICK low \in T : \A t \in T : <<t, low>> \notin R
    <2>. HIDE DEF R, F, T
    <2>. QED
      BY <1>1, <1>2, WFMin
  <1>4. PICK m \in S : low = 1..m
    OBVIOUS
  <1>5. ASSUME NEW x \in S, x < m PROVE FALSE
    <2>1. 1..x \subseteq 1..m /\ m \in 1..m /\ m \notin 1..x
      BY <1>5
    <2>2. <<1..x, 1..m>> \in R
      BY <2>1 DEF StrictSubsetOrdering
    <2>. QED
      BY <2>2, <1>3, <1>4
  <1>. QED
    BY <1>5

\* The items that come before i in the list.
Below(S, i) == {j \in S : j < i}

\* Oldest keeps an item by its rank.
LEMMA OldestByRank ==
    ASSUME NEW S, NEW n, NEW i
    PROVE  i \in Oldest(S, n) <=> (i \in S /\ Cardinality(Below(S, i)) < n)
  BY Zenon DEF Oldest, Below

\* Every item has a rank, also in a ledger that never ends.
LEMMA BelowFinite ==
    ASSUME NEW S \in SUBSET Nat, NEW i \in S
    PROVE  IsFiniteSet(Below(S, i)) /\ Cardinality(Below(S, i)) \in Nat
  <1>1. i \in Nat
    OBVIOUS
  <1>2. ASSUME NEW j \in Below(S, i) PROVE j \in Nat /\ j <= i
    <2>1. j \in S /\ j < i
      BY DEF Below
    <2>2. j \in Nat
      BY <2>1
    <2>. QED
      BY <2>1, <2>2, <1>1
  <1>3. Below(S, i) \subseteq Nat
    BY <1>2
  <1>. QED
    BY <1>1, <1>2, <1>3, FS_BoundedSetOfNaturals, FS_CardinalityType

\* Each rank is held once: LIMIT n returns no more than n rows, by induction over n.
LEMMA OldestBounded ==
    ASSUME NEW S \in SUBSET Nat, NEW n \in Nat
    PROVE  IsFiniteSet(Oldest(S, n)) /\ Cardinality(Oldest(S, n)) <= n
  <1>. DEFINE Good(k) == IsFiniteSet(Oldest(S, k)) /\ Cardinality(Oldest(S, k)) <= k
             Bad == {k \in Nat : ~Good(k)}
  <1>2. Good(0)
    <2>1. Oldest(S, 0) = {}
      <3>1. ASSUME NEW i \in Oldest(S, 0) PROVE FALSE
        <4>1. i \in S /\ Cardinality(Below(S, i)) < 0
          BY <3>1, OldestByRank
        <4>2. Cardinality(Below(S, i)) \in Nat
          BY <4>1, BelowFinite
        <4>. QED
          BY <4>1, <4>2
      <3>. QED
        BY <3>1
    <2>. QED
      BY <2>1, FS_EmptySet
  <1>3. ASSUME NEW k \in Nat, Good(k) PROVE Good(k + 1)
    <2>0. Cardinality(Oldest(S, k)) \in Nat
      BY <1>3, FS_CardinalityType
    <2>1. CASE S \subseteq Oldest(S, k)
      <3>1. Oldest(S, k + 1) = Oldest(S, k)
        <4>1. ASSUME NEW i \in S PROVE i \in Oldest(S, k + 1)
          BY <2>1, OldestByRank, BelowFinite
        <4>2. Oldest(S, k + 1) \subseteq S /\ Oldest(S, k) \subseteq S
          BY DEF Oldest
        <4>. QED
          BY <4>1, <4>2, <2>1
      <3>. QED
        BY <3>1, <1>3, <2>0
    <2>2. CASE ~(S \subseteq Oldest(S, k))
      <3>1. PICK m \in S \ Oldest(S, k) : \A x \in S \ Oldest(S, k) : m <= x
        BY <2>2, LeastNat
      <3>2. ASSUME NEW i \in Oldest(S, k + 1), i \notin Oldest(S, k) PROVE i = m
        <4>1. i \in S /\ m \in S /\ m <= i /\ i \in Nat /\ m \in Nat
          BY <3>1, <3>2, OldestByRank
        <4>2. CASE m < i
          <5>1. Below(S, m) \union {m} \subseteq Below(S, i)
            <6>1. m \in Below(S, i)
              BY <4>1, <4>2 DEF Below
            <6>2. ASSUME NEW j \in Below(S, m) PROVE j \in Below(S, i)
              <7>1. j \in S /\ j \in Nat /\ j < m
                BY DEF Below
              <7>2. j < i
                BY <7>1, <4>1, <4>2
              <7>. QED
                BY <7>1, <7>2 DEF Below
            <6>. QED
              BY <6>1, <6>2
          <5>2. m \notin Below(S, m)
            BY <4>1 DEF Below
          <5>3. /\ IsFiniteSet(Below(S, m)) /\ Cardinality(Below(S, m)) \in Nat
                /\ IsFiniteSet(Below(S, i)) /\ Cardinality(Below(S, i)) \in Nat
            BY <4>1, BelowFinite
          <5>4. Cardinality(Below(S, m) \union {m}) = Cardinality(Below(S, m)) + 1
            BY <5>2, <5>3, FS_AddElement
          <5>5. Cardinality(Below(S, m) \union {m}) <= Cardinality(Below(S, i))
            BY <5>1, <5>3, FS_Subset
          <5>6. Cardinality(Below(S, i)) < k + 1
            BY <3>2, OldestByRank
          <5>7. Cardinality(Below(S, m)) < k
            BY <5>3, <5>4, <5>5, <5>6
          <5>. QED
            BY <5>7, <3>1, <4>1, OldestByRank
        <4>. QED
          BY <4>1, <4>2
      <3>3. Oldest(S, k + 1) \subseteq Oldest(S, k) \union {m}
        BY <3>2
      <3>4. /\ IsFiniteSet(Oldest(S, k) \union {m})
            /\ Cardinality(Oldest(S, k) \union {m}) = Cardinality(Oldest(S, k)) + 1
        BY <1>3, <3>1, FS_AddElement
      <3>5. /\ IsFiniteSet(Oldest(S, k + 1))
            /\ Cardinality(Oldest(S, k + 1)) <= Cardinality(Oldest(S, k) \union {m})
        BY <3>3, <3>4, FS_Subset
      <3>. QED
        BY <3>4, <3>5, <2>0, <1>3, FS_CardinalityType
    <2>. QED
      BY <2>1, <2>2
  <1>4. CASE Bad # {}
    <2>0. Bad \subseteq Nat
      OBVIOUS
    <2>1. PICK k \in Bad : \A x \in Bad : k <= x
      <3>. HIDE DEF Bad
      <3>. QED
        BY <1>4, <2>0, LeastNat
    <2>. HIDE DEF Good
    <2>2. k # 0 /\ k \in Nat /\ ~Good(k)
      BY <1>2, <2>1
    <2>3. k - 1 \in Nat /\ k - 1 \notin Bad /\ (k - 1) + 1 = k
      BY <2>1, <2>2
    <2>. QED
      BY <1>3, <2>2, <2>3
  <1>. QED
    BY <1>4

-------------------------------------------------------------------------------
(***************************************************************************)
(* The loops run the cycles of Pipeline.                                   *)
(***************************************************************************)

\* What an exception, a kill and a lost row do to the ledger and to the memory of the
\* workers is an abort of a cycle, or of an idle worker.
LEMMA ForgetIsAbort ==
    ASSUME NEW w \in Workers, Forget(w) PROVE Aborts
  BY DEF Workers, Forget, Aborts, AbortIngestCycle, AbortProcessCycle

\* Every step of the loops, the signals and supervisord is a step of Pipeline or
\* changes nothing Pipeline sees.
LEMMA LoopStepSimulates == LoopTypeOK /\ [LoopNext]_loopVars => [Next]_vars
  <1>. SUFFICES ASSUME LoopTypeOK, [LoopNext]_loopVars PROVE [Next]_vars
    OBVIOUS
  <1>1. ASSUME IngestCycleStep PROVE Next
    BY <1>1 DEF IngestCycleStep, Next, Ingestion
  <1>2. ASSUME ProcessCycleStep PROVE Next
    BY <1>2 DEF ProcessCycleStep, Next, Processing
  <1>3. ASSUME NEW w \in Workers, CycleStep(w) PROVE [Next]_vars
    BY <1>1, <1>2, <1>3 DEF CycleStep, Heartbeat, ledgerVars, vars
  <1>4. ASSUME NEW w \in Workers, LoopStep(w) PROVE UNCHANGED vars
    BY <1>4 DEF LoopStep, RecordRun, NextCycle, Exit, Restart, ledgerVars, vars
  <1>5. ASSUME NEW w \in Workers, CycleRaises(w) \/ Killed(w) PROVE Next
    BY <1>5, ForgetIsAbort DEF CycleRaises, Killed, Next
  <1>6. ASSUME NEW w \in Workers, RecordLost(w) PROVE Next
    <2>1. CASE w = "ingest"
      <3>1. ingest = IdleIngest
        BY <1>6, <2>1 DEF RecordLost, LoopTypeOK
      <3>. QED
        BY <1>6, <3>1 DEF RecordLost, ledgerVars, Next, Aborts, AbortIngestCycle
    <2>2. CASE w = "process"
      <3>1. process = IdleProcess
        BY <1>6, <2>2 DEF RecordLost, LoopTypeOK
      <3>. QED
        BY <1>6, <3>1 DEF RecordLost, ledgerVars, Next, Aborts, AbortProcessCycle
    <2>. QED
      BY <2>1, <2>2 DEF Workers
  <1>7. ASSUME NEW w \in Workers, StopWorker(w) \/ Signalled(w) \/ StartWorker(w)
        PROVE  UNCHANGED vars
    BY <1>7 DEF StopWorker, Signalled, StartWorker, ledgerVars, vars
  <1>8. CASE ServiceStep
    BY <1>8 DEF ServiceStep, Next
  <1>9. CASE UNCHANGED loopVars
    BY <1>9 DEF loopVars, vars
  <1>. QED
    BY <1>3, <1>4, <1>5, <1>6, <1>7, <1>8, <1>9 DEF LoopNext, Disturbance

-------------------------------------------------------------------------------
(***************************************************************************)
(* Type correctness.                                                       *)
(***************************************************************************)

\* Where a loop can be, and whether it was told to stop.
LoopStates == [at : Positions, stop : BOOLEAN]

\* The loops' own variables, apart from those of Pipeline.
LoopVarsOK ==
    /\ loop \in [Workers -> LoopStates]
    /\ counted \in [Workers -> Counts]
    /\ recorded \in Counts
    /\ wanted \subseteq Workers
    /\ stops \in 0..MaxStops

\* A worker that is not in a cycle holds nothing.
IdleBetween ==
    /\ loop["ingest"].at # "cycle" => ingest = IdleIngest
    /\ loop["process"].at # "cycle" => process = IdleProcess

LEMMA LoopTypeParts == LoopTypeOK <=> TypeOK /\ LoopVarsOK /\ IdleBetween
  BY DEF LoopTypeOK, LoopVarsOK, IdleBetween, LoopStates

\* Counting keeps the counters natural numbers.
LEMMA CountType ==
    ASSUME counted \in [Workers -> Counts], NEW w \in Workers
    PROVE  /\ Count(w, "submitted") => counted' \in [Workers -> Counts]
           /\ Count(w, "distilled") => counted' \in [Workers -> Counts]
           /\ \A i : CountIfFailed(w, i) => counted' \in [Workers -> Counts]
           /\ counted' = [counted EXCEPT ![w] = NoCounts] => counted' \in [Workers -> Counts]
  BY DEF Count, CountIfFailed, Counts, NoCounts

\* Moving a loop on leaves the other one where it is.
LEMMA LoopMoveType ==
    ASSUME loop \in [Workers -> LoopStates], NEW w \in Workers, NEW at \in Positions, GoTo(w, at)
    PROVE  /\ loop' \in [Workers -> LoopStates]
           /\ loop'[w].at = at
           /\ \A v \in Workers : v # w => loop'[v] = loop[v]
  <1>1. loop[w] \in LoopStates
    OBVIOUS
  <1>2. [loop[w] EXCEPT !.at = at] \in LoopStates /\ [loop[w] EXCEPT !.at = at].at = at
    BY <1>1 DEF LoopStates
  <1>3. loop' = [loop EXCEPT ![w] = [loop[w] EXCEPT !.at = at]]
    BY DEF GoTo
  <1>. QED
    BY <1>2, <1>3

\* Setting the stop event moves no loop.
LEMMA LoopStopType ==
    ASSUME loop \in [Workers -> LoopStates], NEW w \in Workers, SetStop(w)
    PROVE  /\ loop' \in [Workers -> LoopStates]
           /\ \A v \in Workers : loop'[v].at = loop[v].at
  <1>1. loop[w] \in LoopStates
    OBVIOUS
  <1>2. /\ [loop[w] EXCEPT !.stop = TRUE] \in LoopStates
        /\ [loop[w] EXCEPT !.stop = TRUE].at = loop[w].at
    BY <1>1 DEF LoopStates
  <1>3. loop' = [loop EXCEPT ![w] = [loop[w] EXCEPT !.stop = TRUE]]
    BY DEF SetStop
  <1>. QED
    BY <1>2, <1>3

\* Starting a worker puts its loop at the beginning.
LEMMA LoopStartType ==
    ASSUME loop \in [Workers -> LoopStates], NEW w \in Workers,
           loop' = [loop EXCEPT ![w] = Started]
    PROVE  /\ loop' \in [Workers -> LoopStates]
           /\ loop'[w].at = "cycle"
           /\ \A v \in Workers : v # w => loop'[v] = loop[v]
  <1>1. Started \in LoopStates /\ Started.at = "cycle"
    BY DEF Started, LoopStates, Positions
  <1>. QED
    BY <1>1

\* A row of cycle_runs adds its counters to the sums.
LEMMA PlusType ==
    ASSUME NEW c \in Counts, NEW d \in Counts
    PROVE  /\ Plus(c, d) \in Counts
           /\ Plus(c, d).submitted = c.submitted + d.submitted
           /\ Plus(c, d).distilled = c.distilled + d.distilled
           /\ Plus(c, d).failed = c.failed + d.failed
  <1>1. DOMAIN c = {"submitted", "distilled", "failed"}
    BY DEF Counts
  <1>2. Plus(c, d) = [submitted |-> c.submitted + d.submitted,
                      distilled |-> c.distilled + d.distilled,
                      failed    |-> c.failed + d.failed]
    BY <1>1 DEF Plus, Counts
  <1>. QED
    BY <1>2 DEF Counts

-------------------------------------------------------------------------------
\* No step of a loop, a signal or supervisord leaves the types, and no worker holds
\* anything between two cycles.
LEMMA NextLoopTypeOK == LoopTypeOK /\ [LoopNext]_loopVars => LoopTypeOK'
  <1>. SUFFICES ASSUME LoopTypeOK, [LoopNext]_loopVars PROVE LoopTypeOK'
    OBVIOUS
  <1>1. TypeOK /\ LoopVarsOK /\ IdleBetween
    BY LoopTypeParts
  <1>2. TypeOK'
    BY <1>1, LoopStepSimulates, NextTypeOK
  <1>3. SUFFICES LoopVarsOK' /\ IdleBetween'
    BY <1>2 DEF LoopTypeOK, LoopVarsOK, IdleBetween, LoopStates
  <1>4. Positions = {"cycle", "beat", "record", "wait", "down"} /\ Workers = {"ingest", "process"}
    BY DEF Positions, Workers
  <1>. USE DEF LoopVarsOK
  <1>5. ASSUME IngestCycleStep PROVE LoopVarsOK' /\ IdleBetween'
    <2>1. process' = process /\ UNCHANGED <<recorded, wanted, stops>> /\ loop["ingest"].at = "cycle"
      BY <1>5 DEF IngestCycleStep, PersistItem, SubmitAccepted, SubmitRaises, RequeueLegacy,
           ListNew, MarkSubmitted, FailSubmission, EndIngestCycle
    <2>2. counted' \in [Workers -> Counts]
      BY <1>1, <1>4, <1>5, CountType DEF IngestCycleStep
    <2>3. CASE loop' = loop
      BY <1>1, <2>1, <2>2, <2>3 DEF IdleBetween
    <2>4. CASE EndIngestCycle /\ GoTo("ingest", "record")
      <3>1. ingest' = IdleIngest'
        BY <2>4 DEF EndIngestCycle, IdleIngest
      <3>. QED
        BY <1>1, <1>4, <2>1, <2>2, <2>4, <3>1, LoopMoveType DEF IdleBetween, IdleProcess
    <2>. QED
      BY <1>5, <2>3, <2>4 DEF IngestCycleStep
  <1>6. ASSUME ProcessCycleStep PROVE LoopVarsOK' /\ IdleBetween'
    <2>1. ingest' = ingest /\ UNCHANGED <<recorded, wanted, stops>> /\ loop["process"].at = "cycle"
      BY <1>6 DEF ProcessCycleStep, ListSubmitted, PollAgainLater, PollSucceeded, PollFailed,
           StoreResult, FinishItem, FailItem, EndProcessCycle
    <2>2. counted' \in [Workers -> Counts]
      BY <1>1, <1>4, <1>6, CountType DEF ProcessCycleStep
    <2>3. CASE loop' = loop
      BY <1>1, <2>1, <2>2, <2>3 DEF IdleBetween
    <2>4. CASE EndProcessCycle /\ GoTo("process", "beat")
      <3>1. process' = IdleProcess'
        BY <2>4 DEF EndProcessCycle, IdleProcess
      <3>. QED
        BY <1>1, <1>4, <2>1, <2>2, <2>4, <3>1, LoopMoveType DEF IdleBetween, IdleIngest
    <2>. QED
      BY <1>6, <2>3, <2>4 DEF ProcessCycleStep
  <1>7. CASE Heartbeat
    BY <1>1, <1>4, <1>7, LoopMoveType DEF Heartbeat, ledgerVars, IdleBetween, IdleIngest, IdleProcess
  <1>8. ASSUME NEW w \in Workers, CycleRaises(w) \/ Killed(w) PROVE LoopVarsOK' /\ IdleBetween'
    <2>1. PICK at \in Positions : GoTo(w, at)
      BY <1>4, <1>8 DEF CycleRaises, Killed
    <2>2. counted' \in [Workers -> Counts] /\ UNCHANGED <<recorded, wanted, stops>>
      BY <1>1, <1>8, CountType DEF CycleRaises, Killed
    <2>3. Forget(w)
      BY <1>8 DEF CycleRaises, Killed
    <2>4. loop' \in [Workers -> LoopStates] /\ \A v \in Workers : v # w => loop'[v] = loop[v]
      BY <1>1, <2>1, LoopMoveType
    <2>. QED
      BY <1>1, <1>4, <2>2, <2>3, <2>4 DEF Forget, IdleBetween, IdleIngest, IdleProcess
  <1>9. ASSUME NEW w \in Workers, RecordRun(w) \/ RecordLost(w) PROVE LoopVarsOK' /\ IdleBetween'
    <2>1. GoTo(w, "wait") /\ loop[w].at = "record" /\ UNCHANGED <<ledgerVars, wanted, stops>>
      BY <1>9 DEF RecordRun, RecordLost
    <2>2. counted' \in [Workers -> Counts] /\ recorded' \in Counts
      BY <1>1, <1>9, CountType, PlusType DEF RecordRun, RecordLost
    <2>. QED
      BY <1>1, <1>4, <2>1, <2>2, LoopMoveType
      DEF ledgerVars, IdleBetween, IdleIngest, IdleProcess
  <1>10. ASSUME NEW w \in Workers, NextCycle(w) \/ Exit(w) PROVE LoopVarsOK' /\ IdleBetween'
    <2>1. PICK at \in Positions : GoTo(w, at)
      BY <1>4, <1>10 DEF NextCycle, Exit
    <2>2. loop[w].at = "wait" /\ UNCHANGED <<ledgerVars, counted, recorded, wanted, stops>>
      BY <1>10 DEF NextCycle, Exit
    <2>3. loop' \in [Workers -> LoopStates] /\ \A v \in Workers : v # w => loop'[v] = loop[v]
      BY <1>1, <2>1, LoopMoveType
    <2>. QED
      BY <1>1, <1>4, <2>2, <2>3 DEF ledgerVars, IdleBetween, IdleIngest, IdleProcess
  <1>11. ASSUME NEW w \in Workers, Restart(w) PROVE LoopVarsOK' /\ IdleBetween'
    BY <1>1, <1>4, <1>11, LoopStartType DEF Restart, ledgerVars, IdleBetween, IdleIngest, IdleProcess
  <1>12. ASSUME NEW w \in Workers, StopWorker(w) \/ Signalled(w) PROVE LoopVarsOK' /\ IdleBetween'
    <2>1. /\ SetStop(w) /\ stops < MaxStops /\ stops' = stops + 1
          /\ wanted' \in {wanted, wanted \ {w}}
          /\ UNCHANGED <<ledgerVars, counted, recorded>>
      BY <1>12 DEF StopWorker, Signalled
    <2>2. stops' \in 0..MaxStops /\ wanted' \subseteq Workers
      BY <1>1, <2>1, StopsAssumption
    <2>. QED
      BY <1>1, <1>4, <2>1, <2>2, LoopStopType DEF ledgerVars, IdleBetween, IdleIngest, IdleProcess
  <1>13. ASSUME NEW w \in Workers, StartWorker(w) PROVE LoopVarsOK' /\ IdleBetween'
    BY <1>1, <1>13 DEF StartWorker, ledgerVars, IdleBetween, IdleIngest, IdleProcess
  <1>14. CASE ServiceStep
    BY <1>1, <1>14 DEF ServiceStep, Service, JobEnds, JobForgotten, IdleBetween, IdleIngest, IdleProcess
  <1>15. CASE UNCHANGED loopVars
    BY <1>1, <1>15 DEF loopVars, IdleBetween, IdleIngest, IdleProcess
  <1>. QED
    BY <1>5, <1>6, <1>7, <1>8, <1>9, <1>10, <1>11, <1>12, <1>13, <1>14, <1>15
    DEF LoopNext, Disturbance, CycleStep, LoopStep

\* LoopTypeOK: every loop is where the code can be, and holds nothing between two cycles.
THEOREM LoopTypes == LoopSpec => []LoopTypeOK
  <1>1. LoopInit => LoopTypeOK
    BY InitTypeOK, StopsAssumption
    DEF LoopInit, Init, LoopTypeOK, Started, Positions, Counts, NoCounts, Workers
  <1>. QED
    BY <1>1, NextLoopTypeOK, PTL DEF LoopSpec

\* The loops, their exceptions, signals and restarts run the pipeline of Pipeline: it
\* may be proved about on its own.
THEOREM LoopsRunThePipeline == LoopSpec => Spec
  <1>1. LoopInit => Init
    BY DEF LoopInit
  <1>2. LoopTypeOK /\ [LoopNext]_loopVars => [Next]_vars
    BY LoopStepSimulates
  <1>. QED
    BY <1>1, <1>2, LoopTypes, PTL DEF LoopSpec, Spec

\* IInv, and with it every safety property of Pipeline, holds around the cycles too.
THEOREM LoopsKeepTheLedger == LoopSpec => []IInv
  BY LoopsRunThePipeline, Inductive, PTL

-------------------------------------------------------------------------------
(***************************************************************************)
(* The run history adds up.  Each step changes at most one of the sets the *)
(* history counts, by one member, and a worker counts what its own steps   *)
(* changed; what it forgets with an aborted cycle is at most what one      *)
(* cycle polls.                                                            *)
(***************************************************************************)
Distilled == InState(rows, "distilled")
Failed    == InState(rows, "failed")

\* What each worker counts, and that it starts every cycle from zero.
CountersInStep ==
    /\ counted["ingest"].distilled = 0
    /\ counted["process"].submitted = 0
    /\ \A w \in Workers : loop[w].at \in {"wait", "down"} => counted[w] = NoCounts
    /\ loop["process"].at = "cycle" /\ process.at = "list" => counted["process"] = NoCounts

\* One cycle distills no more items than it polls.
WithinLimit ==
    /\ IsFiniteSet(process.todo)
    /\ counted["process"].distilled + Cardinality(process.todo) <= PollLimit

\* What is counted is finite, also when the items are not.
FiniteTallies == IsFiniteSet(Distilled) /\ IsFiniteSet(Failed) /\ IsFiniteSet(AcceptedJobs)

\* A job whose id came back and is about to be marked is not reported yet.
ToMark == IF ingest.at = "mark" THEN 1 ELSE 0

\* RunsAccountForWork, with the job about to be marked.
Tallies ==
    /\ FiniteTallies
    /\ Reported("distilled") <= Cardinality(Distilled)
    /\ Cardinality(Distilled) <= Reported("distilled") + faults * PollLimit
    /\ Reported("failed") <= Cardinality(Failed)
    /\ faults = 0 => Reported("failed") = Cardinality(Failed)
    /\ Reported("submitted") + ToMark <= Cardinality(AcceptedJobs)
    /\ faults = 0 => Reported("submitted") + ToMark = Cardinality(AcceptedJobs)

RunsInv ==
    /\ CountersInStep
    /\ WithinLimit
    /\ Tallies

Keys == {"submitted", "distilled", "failed"}

\* The counters are numbers, and so are the sizes of what they count.
LEMMA TallyNumbers ==
    ASSUME LoopTypeOK, RunsInv
    PROVE  /\ \A w \in Workers, k \in Keys : counted[w][k] \in Nat
           /\ \A k \in Keys : recorded[k] \in Nat /\ Reported(k) \in Nat
           /\ Cardinality(Distilled) \in Nat /\ Cardinality(Failed) \in Nat
           /\ Cardinality(AcceptedJobs) \in Nat /\ Cardinality(process.todo) \in Nat
           /\ faults \in Nat /\ faults * PollLimit \in Nat /\ PollLimit \in Nat
           /\ (faults + 1) * PollLimit = faults * PollLimit + PollLimit
  <1>1. /\ \A w \in Workers : counted[w] \in Counts
        /\ recorded \in Counts /\ faults \in Nat /\ PollLimit \in Nat
    BY FaultsAssumption, LimitAssumption DEF LoopTypeOK, TypeOK
  <1>2. \A c \in Counts, k \in Keys : c[k] \in Nat
    BY DEF Counts, Keys
  <1>3. \A k \in Keys : Reported(k) \in Nat
    BY <1>1, <1>2 DEF Reported, Workers
  <1>4. /\ Cardinality(Distilled) \in Nat /\ Cardinality(Failed) \in Nat
        /\ Cardinality(AcceptedJobs) \in Nat /\ Cardinality(process.todo) \in Nat
    BY FS_CardinalityType DEF RunsInv, Tallies, FiniteTallies, WithinLimit
  <1>5. faults * PollLimit \in Nat /\ (faults + 1) * PollLimit = faults * PollLimit + PollLimit
    BY <1>1
  <1>. QED
    BY <1>1, <1>2, <1>3, <1>4, <1>5

\* Rows that neither enter nor leave the two final states change no tally.
LEMMA QuietRows ==
    ASSUME TypeOK, TypeOK',
           \A i \in Items :
              rows'[i].state = rows[i].state
              \/ ({rows[i].state, rows'[i].state} \cap {"distilled", "failed"}) = {}
    PROVE  Distilled' = Distilled /\ Failed' = Failed
  BY DEF TypeOK, Distilled, Failed, InState

\* One row that enters a final state enters its tally.
LEMMA SettledRow ==
    ASSUME TypeOK, TypeOK', NEW i \in Items,
           rows[i].state \notin {"distilled", "failed"},
           \A j \in Items : j # i => rows'[j] = rows[j]
    PROVE  /\ i \notin Distilled /\ i \notin Failed
           /\ Distilled' = IF rows'[i].state = "distilled" THEN Distilled \union {i} ELSE Distilled
           /\ Failed' = IF rows'[i].state = "failed" THEN Failed \union {i} ELSE Failed
  BY DEF TypeOK, Distilled, Failed, InState

\* A job is accepted when its id came back to the client.
LEMMA AcceptedMember ==
    ASSUME NEW x
    PROVE  x \in AcceptedJobs <=>
             \E i \in Items : \E k \in DOMAIN jobs[i] : x = <<i, k>> /\ jobs[i][k] # "orphan"
  BY DEF AcceptedJobs

\* Jobs that stay accepted or stay unknown leave the tally of submissions alone.
LEMMA QuietJobs ==
    ASSUME \A i \in Items : \A k :
             (k \in DOMAIN jobs'[i] /\ jobs'[i][k] # "orphan")
               <=> (k \in DOMAIN jobs[i] /\ jobs[i][k] # "orphan")
    PROVE  AcceptedJobs' = AcceptedJobs
  <1>1. \A i \in Items : {k \in DOMAIN jobs'[i] : jobs'[i][k] # "orphan"}
                           = {k \in DOMAIN jobs[i] : jobs[i][k] # "orphan"}
    OBVIOUS
  <1>. QED
    BY <1>1 DEF AcceptedJobs

\* The jobs of POSTs whose answers never arrived do not count.
LEMMA OrphansDoNotCount ==
    ASSUME NEW s \in Seq(JobStatus), NEW n \in Nat, NEW k
    PROVE  (k \in DOMAIN WithOrphans(s, n) /\ WithOrphans(s, n)[k] # "orphan")
             <=> (k \in DOMAIN s /\ s[k] # "orphan")
  <1>1. Len(s) \in Nat /\ DOMAIN s = 1..Len(s) /\ DOMAIN WithOrphans(s, n) = 1..(Len(s) + n)
    BY LenProperties DEF WithOrphans
  <1>. QED
    BY <1>1 DEF WithOrphans

\* The steps of a cycle that settle no item and submit none.
QuietCycleStep ==
    \/ \E i \in Items : PersistItem(i) \/ SubmitRaises(i)
    \/ RequeueLegacy \/ ListNew \/ EndIngestCycle
    \/ ListSubmitted \/ EndProcessCycle
    \/ \E i \in Items : PollAgainLater(i) \/ PollSucceeded(i) \/ PollFailed(i) \/ StoreResult(i)
    \/ Service

LEMMA QuietSteps ==
    ASSUME IInv, IInv', QuietCycleStep
    PROVE  /\ Distilled' = Distilled /\ Failed' = Failed /\ AcceptedJobs' = AcceptedJobs
           /\ ToMark' = ToMark /\ faults' = faults
  <1>1. TypeOK /\ TypeOK'
    BY DEF IInv
  <1>2. faults' = faults
    BY DEF QuietCycleStep, PersistItem, SubmitRaises, RequeueLegacy, ListNew, EndIngestCycle,
         ListSubmitted, EndProcessCycle, PollAgainLater, PollSucceeded, PollFailed, StoreResult,
         Service, JobEnds, JobForgotten
  <1>3. ToMark' = ToMark
    <2>1. CASE ingest' = ingest
      BY <2>1 DEF ToMark
    <2>2. ASSUME \/ \E i \in Items : SubmitRaises(i)
                 \/ RequeueLegacy
                 \/ ListNew
                 \/ EndIngestCycle
          PROVE  ingest.at # "mark" /\ ingest'.at # "mark"
      <3>1. ingest \in [at : IngestSteps, todo : SUBSET Items, job : Nat]
        BY <1>1 DEF TypeOK
      <3>2. ASSUME NEW i \in Items, SubmitRaises(i) PROVE ingest.at # "mark" /\ ingest'.at # "mark"
        BY <3>1, <3>2 DEF SubmitRaises
      <3>3. CASE RequeueLegacy
        BY <3>1, <3>3 DEF RequeueLegacy
      <3>4. CASE ListNew
        BY <3>1, <3>4 DEF ListNew
      <3>5. CASE EndIngestCycle
        BY <3>5 DEF EndIngestCycle, IdleIngest
      <3>. QED
        BY <2>2, <3>2, <3>3, <3>4, <3>5
    <2>3. ASSUME ingest' # ingest
          PROVE  \/ \E i \in Items : SubmitRaises(i)
                 \/ RequeueLegacy
                 \/ ListNew
                 \/ EndIngestCycle
      BY <2>3 DEF QuietCycleStep, PersistItem, ListSubmitted, EndProcessCycle, PollAgainLater,
           PollSucceeded, PollFailed, StoreResult, Service, JobEnds, JobForgotten
    <2>. QED
      BY <2>1, <2>2, <2>3 DEF ToMark
  <1>4. Distilled' = Distilled /\ Failed' = Failed
    <2>1. CASE rows' = rows
      BY <2>1 DEF Distilled, Failed, InState
    <2>2. ASSUME NEW i \in Items, PersistItem(i) PROVE Distilled' = Distilled /\ Failed' = Failed
      <3>1. \A j \in Items : rows'[j] = IF j = i THEN InsertItem(rows[j]) ELSE rows[j]
        BY <1>1, <2>2 DEF PersistItem, TypeOK
      <3>. QED
        BY <1>1, <3>1, QuietRows DEF InsertItem, FreshRow
    <2>3. CASE RequeueLegacy
      <3>1. \A j \in Items : rows'[j] = RequeueSubmitting(rows[j]) /\ rows[j] \in Row
        BY <1>1, <2>3 DEF RequeueLegacy, TypeOK
      <3>2. \A row \in Row : \/ RequeueSubmitting(row) = row
                             \/ row.state = "submitting" /\ RequeueSubmitting(row).state = "new"
        BY DEF RequeueSubmitting, Row
      <3>. QED
        BY <1>1, <3>1, <3>2, QuietRows
    <2>. QED
      BY <2>1, <2>2, <2>3 DEF QuietCycleStep, SubmitRaises, ListNew, EndIngestCycle,
         ListSubmitted, EndProcessCycle, PollAgainLater, PollSucceeded, PollFailed, StoreResult,
         Service, JobEnds, JobForgotten
  <1>5. AcceptedJobs' = AcceptedJobs
    <2>1. CASE jobs' = jobs
      BY <2>1 DEF AcceptedJobs
    <2>2. ASSUME NEW i \in Items, SubmitRaises(i) PROVE AcceptedJobs' = AcceptedJobs
      <3>1. PICK n \in 0..(IF i \in Refused THEN 0 ELSE HttpRetries) :
              jobs' = [jobs EXCEPT ![i] = WithOrphans(jobs[i], n)]
        BY <2>2 DEF SubmitRaises
      <3>2. n \in Nat /\ jobs[i] \in Seq(JobStatus)
        BY <1>1, <3>1, RetriesAssumption DEF TypeOK
      <3>3. \A j \in Items : jobs'[j] = IF j = i THEN WithOrphans(jobs[i], n) ELSE jobs[j]
        BY <1>1, <3>1 DEF TypeOK
      <3>. QED
        BY <3>2, <3>3, OrphansDoNotCount, QuietJobs
    <2>3. ASSUME NEW i \in Items, JobEnds(i) \/ JobForgotten(i) PROVE AcceptedJobs' = AcceptedJobs
      <3>1. PICK k \in DOMAIN jobs[i] :
              /\ jobs[i][k] \in {"running", "ok", "bad"}
              /\ \E v \in {"ok", "bad", "lost"} : jobs' = [jobs EXCEPT ![i][k] = v]
        BY <2>3 DEF JobEnds, JobForgotten
      <3>2. PICK v \in {"ok", "bad", "lost"} : jobs' = [jobs EXCEPT ![i][k] = v]
        BY <3>1
      <3>3. \A j \in Items : jobs'[j] = IF j = i THEN [jobs[i] EXCEPT ![k] = v] ELSE jobs[j]
        BY <1>1, <3>2 DEF TypeOK
      <3>. QED
        BY <3>1, <3>3, QuietJobs
    <2>. QED
      BY <2>1, <2>2, <2>3 DEF QuietCycleStep, PersistItem, RequeueLegacy, ListNew, EndIngestCycle,
         ListSubmitted, EndProcessCycle, PollAgainLater, PollSucceeded, PollFailed, StoreResult,
         Service
  <1>. QED
    BY <1>2, <1>3, <1>4, <1>5

\* A submission whose answer arrived is one more accepted job.
LEMMA SubmissionCounts ==
    ASSUME IInv, IInv', NEW i \in Items, SubmitAccepted(i)
    PROVE  /\ Distilled' = Distilled /\ Failed' = Failed /\ faults' = faults
           /\ ToMark = 0 /\ ToMark' = 1
           /\ \E x : x \notin AcceptedJobs /\ AcceptedJobs' = AcceptedJobs \union {x}
  <1>1. PICK n \in 0..(HttpRetries - 1) :
          /\ jobs' = [jobs EXCEPT ![i] = Append(WithOrphans(jobs[i], n), "running")]
          /\ ingest' = [ingest EXCEPT !.at = "mark", !.job = Len(jobs[i]) + n + 1]
    BY DEF SubmitAccepted
  <1>2. TypeOK /\ n \in Nat /\ jobs[i] \in Seq(JobStatus) /\ Len(jobs[i]) \in Nat
    BY RetriesAssumption, LenProperties DEF IInv, TypeOK
  <1>. DEFINE more == WithOrphans(jobs[i], n)
              last == Len(jobs[i]) + n + 1
  <1>3. more \in Seq(JobStatus) /\ Len(more) = Len(jobs[i]) + n /\ DOMAIN more = 1..(Len(jobs[i]) + n)
    BY <1>2, OrphansType, LenProperties
  <1>4. \A j \in Items : jobs'[j] = IF j = i THEN Append(more, "running") ELSE jobs[j]
    BY <1>1, <1>2 DEF TypeOK
  <1>. HIDE DEF more
  <1>5. /\ DOMAIN Append(more, "running") = DOMAIN more \union {last} /\ last \notin DOMAIN more
        /\ \A k \in DOMAIN more : Append(more, "running")[k] = more[k]
        /\ Append(more, "running")[last] = "running"
    BY <1>2, <1>3, AppendProperties, "running" \in JobStatus DEF JobStatus
  <1>6. \A k : (k \in DOMAIN more /\ more[k] # "orphan")
                 <=> (k \in DOMAIN jobs[i] /\ jobs[i][k] # "orphan")
    BY <1>2, OrphansDoNotCount DEF more
  <1>7. \A j \in Items : {k \in DOMAIN jobs'[j] : jobs'[j][k] # "orphan"} =
          IF j = i THEN {k \in DOMAIN jobs[j] : jobs[j][k] # "orphan"} \union {last}
          ELSE {k \in DOMAIN jobs[j] : jobs[j][k] # "orphan"}
    <2>1. \A j \in Items : j # i => jobs'[j] = jobs[j]
      BY <1>4
    <2>2. jobs'[i] = Append(more, "running")
      BY <1>4
    <2>3. \A k : (k \in DOMAIN jobs'[i] /\ jobs'[i][k] # "orphan")
                    <=> ((k \in DOMAIN jobs[i] /\ jobs[i][k] # "orphan") \/ k = last)
      BY <2>2, <1>5, <1>6
    <2>4. {k \in DOMAIN jobs'[i] : jobs'[i][k] # "orphan"}
            = {k \in DOMAIN jobs[i] : jobs[i][k] # "orphan"} \union {last}
      BY <2>3
    <2>. QED
      BY <2>1, <2>4
  <1>8. AcceptedJobs' = AcceptedJobs \union {<<i, last>>}
    BY <1>7 DEF AcceptedJobs
  <1>9. last \notin DOMAIN jobs[i]
    BY <1>5, <1>2, LenProperties
  <1>10. <<i, last>> \notin AcceptedJobs
    BY <1>9, AcceptedMember
  <1>11. Distilled' = Distilled /\ Failed' = Failed /\ faults' = faults
    BY DEF SubmitAccepted, Distilled, Failed, InState
  <1>12. ToMark = 0 /\ ToMark' = 1
    BY <1>1, <1>2 DEF SubmitAccepted, ToMark, TypeOK
  <1>. QED
    BY <1>8, <1>10, <1>11, <1>12

\* What else a cycle counts: a marked job, a distilled item, a failed attempt.
LEMMA SettlingCounts ==
    ASSUME IInv, IInv', NEW i \in Items
    PROVE  /\ MarkSubmitted(i) => Distilled' = Distilled /\ Failed' = Failed
           /\ FinishItem(i) =>
                Failed' = Failed /\ i \notin Distilled /\ Distilled' = Distilled \union {i}
           /\ FailSubmission(i) \/ FailItem(i) =>
                /\ Distilled' = Distilled /\ i \notin Failed
                /\ Failed' = IF rows'[i].state = "failed" THEN Failed \union {i} ELSE Failed
  <1>1. TypeOK /\ TypeOK' /\ rows[i] \in Row
    BY DEF IInv, TypeOK
  <1>2. ASSUME MarkSubmitted(i) PROVE Distilled' = Distilled /\ Failed' = Failed
    <2>1. rows[i].state = "new"
      BY <1>2 DEF MarkSubmitted, IsFirst, IInv, IngestInStep
    <2>2. rows' = [rows EXCEPT ![i] = [rows[i] EXCEPT !.state = "submitted", !.job = ingest.job]]
      BY <1>2, <2>1 DEF MarkSubmitted, MarkItemSubmitted
    <2>3. rows'[i].state = "submitted" /\ \A j \in Items : j # i => rows'[j] = rows[j]
      BY <1>1, <2>2 DEF Row, TypeOK
    <2>. QED
      BY <1>1, <2>1, <2>3, SettledRow
  <1>3. ASSUME FinishItem(i)
        PROVE  Failed' = Failed /\ i \notin Distilled /\ Distilled' = Distilled \union {i}
    <2>1. rows[i].state = "submitted"
      BY <1>3 DEF FinishItem, IsFirst, IInv, ProcessInStep
    <2>2. rows' = [rows EXCEPT ![i] = [rows[i] EXCEPT !.state = "distilled"]]
      BY <1>3, <2>1 DEF FinishItem, SetItemState
    <2>3. rows'[i].state = "distilled" /\ \A j \in Items : j # i => rows'[j] = rows[j]
      BY <1>1, <2>2 DEF Row, TypeOK
    <2>. QED
      BY <1>1, <2>1, <2>3, SettledRow
  <1>4. ASSUME FailSubmission(i) \/ FailItem(i)
        PROVE  /\ Distilled' = Distilled /\ i \notin Failed
               /\ Failed' = IF rows'[i].state = "failed" THEN Failed \union {i} ELSE Failed
    <2>1. rows[i].state \in {"new", "submitted"}
      BY <1>4 DEF FailSubmission, FailItem, IsFirst, IInv, IngestInStep, ProcessInStep
    <2>2. rows' = [rows EXCEPT ![i] = RecordDistillFailure(rows[i], MaxAttempts)]
      BY <1>4 DEF FailSubmission, FailItem
    <2>3. rows'[i].state # "distilled" /\ \A j \in Items : j # i => rows'[j] = rows[j]
      BY <1>1, <2>2 DEF RecordDistillFailure, TypeOK
    <2>. QED
      BY <1>1, <2>1, <2>3, SettledRow
  <1>. QED
    BY <1>2, <1>3, <1>4

\* What an increment does to the totals: one more of one kind.
LEMMA CountedOne ==
    ASSUME LoopTypeOK, recorded' = recorded
    PROVE  /\ Count("ingest", "submitted") =>
                /\ Reported("submitted")' = Reported("submitted") + 1
                /\ Reported("distilled")' = Reported("distilled")
                /\ Reported("failed")' = Reported("failed")
                /\ counted'["process"] = counted["process"]
                /\ counted'["ingest"].distilled = counted["ingest"].distilled
           /\ Count("process", "distilled") =>
                /\ Reported("submitted")' = Reported("submitted")
                /\ Reported("distilled")' = Reported("distilled") + 1
                /\ Reported("failed")' = Reported("failed")
                /\ counted'["ingest"] = counted["ingest"]
                /\ counted'["process"].submitted = counted["process"].submitted
                /\ counted'["process"].distilled = counted["process"].distilled + 1
  <1>1. /\ counted["ingest"] \in Counts /\ counted["process"] \in Counts /\ recorded \in Counts
        /\ counted \in [Workers -> Counts]
    BY DEF LoopTypeOK, Workers
  <1>2. ASSUME Count("ingest", "submitted")
        PROVE  /\ counted'["process"] = counted["process"]
               /\ counted'["ingest"].submitted = counted["ingest"].submitted + 1
               /\ counted'["ingest"].distilled = counted["ingest"].distilled
               /\ counted'["ingest"].failed = counted["ingest"].failed
    BY <1>1, <1>2 DEF Count, Counts, Workers
  <1>3. ASSUME Count("process", "distilled")
        PROVE  /\ counted'["ingest"] = counted["ingest"]
               /\ counted'["process"].submitted = counted["process"].submitted
               /\ counted'["process"].distilled = counted["process"].distilled + 1
               /\ counted'["process"].failed = counted["process"].failed
    BY <1>1, <1>3 DEF Count, Counts, Workers
  <1>. QED
    BY <1>1, <1>2, <1>3 DEF Reported, Counts

\* What a failed attempt does to them.
LEMMA CountedFailure ==
    ASSUME LoopTypeOK, recorded' = recorded, NEW w \in Workers, NEW i, CountIfFailed(w, i)
    PROVE  /\ Reported("submitted")' = Reported("submitted")
           /\ Reported("distilled")' = Reported("distilled")
           /\ Reported("failed")' = Reported("failed") + (IF rows'[i].state = "failed" THEN 1 ELSE 0)
           /\ \A v \in Workers : /\ v # w => counted'[v] = counted[v]
                                 /\ counted'[v].distilled = counted[v].distilled
                                 /\ counted'[v].submitted = counted[v].submitted
  <1>1. /\ counted["ingest"] \in Counts /\ counted["process"] \in Counts /\ recorded \in Counts
        /\ counted \in [Workers -> Counts] /\ Workers = {"ingest", "process"}
    BY DEF LoopTypeOK, Workers
  <1>2. ASSUME NEW n \in {0, 1}, counted' = [counted EXCEPT ![w].failed = @ + n]
        PROVE  /\ Reported("submitted")' = Reported("submitted")
               /\ Reported("distilled")' = Reported("distilled")
               /\ Reported("failed")' = Reported("failed") + n
               /\ \A v \in Workers : /\ v # w => counted'[v] = counted[v]
                                     /\ counted'[v].distilled = counted[v].distilled
                                     /\ counted'[v].submitted = counted[v].submitted
    <2>1. /\ counted'[w].failed = counted[w].failed + n
          /\ counted'[w].submitted = counted[w].submitted
          /\ counted'[w].distilled = counted[w].distilled
          /\ \A v \in Workers : v # w => counted'[v] = counted[v]
      BY <1>1, <1>2 DEF Counts
    <2>2. CASE w = "ingest"
      BY <1>1, <2>1, <2>2 DEF Reported, Counts
    <2>3. CASE w = "process"
      BY <1>1, <2>1, <2>3 DEF Reported, Counts
    <2>. QED
      BY <1>1, <2>2, <2>3
  <1>3. CASE rows'[i].state = "failed"
    <2>1. counted' = [counted EXCEPT ![w].failed = @ + 1]
      BY <1>3 DEF CountIfFailed
    <2>. QED
      BY <1>2, <1>3, <2>1
  <1>4. CASE rows'[i].state # "failed"
    <2>1. counted' = [counted EXCEPT ![w].failed = @]
      BY <1>4 DEF CountIfFailed
    <2>2. counted[w].failed + 0 = counted[w].failed
      BY <1>1 DEF Counts
    <2>3. counted' = [counted EXCEPT ![w].failed = @ + 0]
      BY <2>1, <2>2
    <2>. QED
      BY <1>2, <1>4, <2>3
  <1>. QED
    BY <1>3, <1>4

\* A worker that forgets its cycle, or whose row is lost, takes its counters out of the
\* totals; a row that is written moves them.
LEMMA CountersLeave ==
    ASSUME LoopTypeOK, NEW w \in Workers, counted' = [counted EXCEPT ![w] = NoCounts]
    PROVE  /\ recorded' = recorded =>
                /\ Reported("submitted")' = Reported("submitted") - counted[w].submitted
                /\ Reported("distilled")' = Reported("distilled") - counted[w].distilled
                /\ Reported("failed")' = Reported("failed") - counted[w].failed
           /\ recorded' = Plus(recorded, counted[w]) =>
                /\ Reported("submitted")' = Reported("submitted")
                /\ Reported("distilled")' = Reported("distilled")
                /\ Reported("failed")' = Reported("failed")
           /\ counted'[w] = NoCounts
           /\ \A v \in Workers : v # w => counted'[v] = counted[v]
  <1>1. /\ counted["ingest"] \in Counts /\ counted["process"] \in Counts /\ recorded \in Counts
        /\ counted \in [Workers -> Counts] /\ Workers = {"ingest", "process"}
    BY DEF LoopTypeOK, Workers
  <1>2. /\ counted'[w] = NoCounts
        /\ \A v \in Workers : v # w => counted'[v] = counted[v]
    BY <1>1
  <1>3. NoCounts.submitted = 0 /\ NoCounts.distilled = 0 /\ NoCounts.failed = 0
    BY DEF NoCounts
  <1>4. CASE w = "ingest"
    BY <1>1, <1>2, <1>3, <1>4, PlusType DEF Reported, Counts
  <1>5. CASE w = "process"
    BY <1>1, <1>2, <1>3, <1>5, PlusType DEF Reported, Counts
  <1>. QED
    BY <1>1, <1>2, <1>4, <1>5

\* A step that moves neither side leaves them equal.
LEMMA TalliesFrame ==
    ASSUME Tallies,
           UNCHANGED <<Distilled, Failed, AcceptedJobs, ToMark, faults>>,
           Reported("submitted")' = Reported("submitted"),
           Reported("distilled")' = Reported("distilled"),
           Reported("failed")' = Reported("failed")
    PROVE  Tallies'
  BY DEF Tallies, FiniteTallies

\* Forgotten counters are those of one cycle, and are paid for by the fault.
LEMMA TalliesForget ==
    ASSUME LoopTypeOK, RunsInv, NEW w \in Workers, faults' = faults + 1, recorded' = recorded,
           counted' = [counted EXCEPT ![w] = NoCounts],
           UNCHANGED <<Distilled, Failed, AcceptedJobs>>, ToMark' <= ToMark, ToMark' \in Nat
    PROVE  Tallies'
  <1>1. /\ Reported("submitted")' = Reported("submitted") - counted[w].submitted
        /\ Reported("distilled")' = Reported("distilled") - counted[w].distilled
        /\ Reported("failed")' = Reported("failed") - counted[w].failed
    BY CountersLeave
  <1>2. /\ counted[w].submitted \in Nat /\ counted[w].failed \in Nat
        /\ counted[w].distilled \in Nat /\ counted[w].distilled <= PollLimit
    <2>1. counted[w].submitted \in Nat /\ counted[w].failed \in Nat /\ counted[w].distilled \in Nat
      BY DEF LoopTypeOK, Counts
    <2>2. counted["process"].distilled <= PollLimit
      BY TallyNumbers DEF RunsInv, WithinLimit, Workers, Keys
    <2>. QED
      BY <2>1, <2>2, LimitAssumption DEF RunsInv, CountersInStep, Workers
  <1>3. /\ Reported("submitted") \in Nat /\ Reported("distilled") \in Nat
        /\ Reported("failed") \in Nat
    BY TallyNumbers DEF Keys
  <1>4. faults \in Nat /\ faults' # 0 /\ faults' * PollLimit = faults * PollLimit + PollLimit
        /\ faults * PollLimit \in Nat
    BY TallyNumbers
  <1>5. ToMark \in Nat
    BY DEF ToMark
  <1>6. /\ Cardinality(Distilled) \in Nat /\ Cardinality(Failed) \in Nat
        /\ Cardinality(AcceptedJobs) \in Nat
    BY TallyNumbers
  <1>7. FiniteTallies'
    BY DEF RunsInv, Tallies, FiniteTallies
  <1>. QED
    BY <1>1, <1>2, <1>3, <1>4, <1>5, <1>6, <1>7, LimitAssumption DEF RunsInv, Tallies

\* The steps of the ingest worker.
LEMMA IngestTallies ==
    ASSUME LoopTypeOK, LoopTypeOK', IInv, IInv', RunsInv, IngestCycleStep
    PROVE  RunsInv'
  <1>0. /\ CountersInStep /\ WithinLimit /\ Tallies /\ FiniteTallies
        /\ "ingest" \in Workers /\ Workers = {"ingest", "process"}
    BY DEF RunsInv, Tallies, Workers
  <1>. USE TallyNumbers DEF Keys
  <1>1. loop["ingest"].at = "cycle" /\ recorded' = recorded /\ process' = process
    BY DEF IngestCycleStep, PersistItem, SubmitAccepted, SubmitRaises, RequeueLegacy,
       ListNew, MarkSubmitted, FailSubmission, EndIngestCycle
  <1>2. loop'["process"] = loop["process"] /\ loop'["ingest"].at \in {"cycle", "record"}
    <2>1. loop' = loop \/ GoTo("ingest", "record")
      BY DEF IngestCycleStep
    <2>2. loop \in [Workers -> LoopStates] /\ "record" \in Positions
      BY DEF LoopTypeOK, LoopStates, Positions
    <2>. QED
      BY <1>0, <1>1, <2>1, <2>2, LoopMoveType
  <1>3. ASSUME counted'["process"] = counted["process"],
               counted'["ingest"].distilled = counted["ingest"].distilled
        PROVE  CountersInStep' /\ WithinLimit'
    BY <1>0, <1>1, <1>2, <1>3 DEF CountersInStep, WithinLimit
  <1>4. CASE QuietCycleStep /\ UNCHANGED counted
    <2>1. UNCHANGED <<Distilled, Failed, AcceptedJobs, ToMark, faults>>
      BY <1>4, QuietSteps
    <2>2. /\ Reported("submitted")' = Reported("submitted")
          /\ Reported("distilled")' = Reported("distilled")
          /\ Reported("failed")' = Reported("failed")
      BY <1>1, <1>4 DEF Reported
    <2>. QED
      BY <1>0, <1>3, <1>4, <2>1, <2>2, TalliesFrame DEF RunsInv
  <1>5. ASSUME NEW i \in Items, SubmitAccepted(i), UNCHANGED counted PROVE RunsInv'
    <2>1. PICK x : x \notin AcceptedJobs /\ AcceptedJobs' = AcceptedJobs \union {x}
      BY <1>5, SubmissionCounts
    <2>2. /\ UNCHANGED <<Distilled, Failed, faults>> /\ ToMark = 0 /\ ToMark' = 1
      BY <1>5, SubmissionCounts
    <2>3. /\ IsFiniteSet(AcceptedJobs')
          /\ Cardinality(AcceptedJobs') = Cardinality(AcceptedJobs) + 1
      BY <1>0, <2>1, FS_AddElement DEF FiniteTallies
    <2>4. /\ Reported("submitted")' = Reported("submitted")
          /\ Reported("distilled")' = Reported("distilled")
          /\ Reported("failed")' = Reported("failed")
      BY <1>1, <1>5 DEF Reported
    <2>5. Tallies'
      BY <1>0, <2>2, <2>3, <2>4 DEF Tallies, FiniteTallies
    <2>. QED
      BY <1>3, <1>5, <2>5 DEF RunsInv
  <1>6. ASSUME NEW i \in Items, MarkSubmitted(i), Count("ingest", "submitted") PROVE RunsInv'
    <2>1. /\ UNCHANGED <<Distilled, Failed, AcceptedJobs, faults>> /\ ToMark = 1 /\ ToMark' = 0
      <3>1. Distilled' = Distilled /\ Failed' = Failed
        BY <1>6, SettlingCounts
      <3>2. AcceptedJobs' = AcceptedJobs
        BY <1>6 DEF MarkSubmitted, AcceptedJobs
      <3>. QED
        BY <1>6, <3>1, <3>2 DEF MarkSubmitted, ToMark
    <2>2. /\ Reported("submitted")' = Reported("submitted") + 1
          /\ Reported("distilled")' = Reported("distilled")
          /\ Reported("failed")' = Reported("failed")
          /\ counted'["process"] = counted["process"]
          /\ counted'["ingest"].distilled = counted["ingest"].distilled
      BY <1>1, <1>6, CountedOne
    <2>3. Tallies'
      BY <1>0, <2>1, <2>2 DEF Tallies, FiniteTallies
    <2>. QED
      BY <1>3, <2>2, <2>3 DEF RunsInv
  <1>7. ASSUME NEW i \in Items, FailSubmission(i), CountIfFailed("ingest", i) PROVE RunsInv'
    <2>1. /\ UNCHANGED <<Distilled, AcceptedJobs, ToMark, faults>> /\ i \notin Failed
          /\ Failed' = IF rows'[i].state = "failed" THEN Failed \union {i} ELSE Failed
      <3>1. ToMark' = ToMark
        BY <1>7 DEF FailSubmission, ToMark, LoopTypeOK, TypeOK
      <3>2. AcceptedJobs' = AcceptedJobs
        BY <1>7 DEF FailSubmission, AcceptedJobs
      <3>3. /\ Distilled' = Distilled /\ i \notin Failed
            /\ Failed' = IF rows'[i].state = "failed" THEN Failed \union {i} ELSE Failed
        BY <1>7, SettlingCounts
      <3>. QED
        BY <1>7, <3>1, <3>2, <3>3 DEF FailSubmission
    <2>2. /\ IsFiniteSet(Failed')
          /\ rows'[i].state = "failed" => Cardinality(Failed') = Cardinality(Failed) + 1
          /\ rows'[i].state # "failed" => Cardinality(Failed') = Cardinality(Failed)
      BY <1>0, <2>1, FS_AddElement DEF FiniteTallies
    <2>3. /\ Reported("submitted")' = Reported("submitted")
          /\ Reported("distilled")' = Reported("distilled")
          /\ Reported("failed")' = Reported("failed") + (IF rows'[i].state = "failed" THEN 1 ELSE 0)
          /\ counted'["process"] = counted["process"]
          /\ counted'["ingest"].distilled = counted["ingest"].distilled
      BY <1>0, <1>1, <1>7, CountedFailure
    <2>4. Tallies'
      <3>1. CASE rows'[i].state = "failed"
        BY <3>1, <1>0, <2>1, <2>2, <2>3 DEF Tallies, FiniteTallies
      <3>2. CASE rows'[i].state # "failed"
        BY <3>2, <1>0, <2>1, <2>2, <2>3 DEF Tallies, FiniteTallies
      <3>. QED
        BY <3>1, <3>2
    <2>. QED
      BY <1>3, <2>3, <2>4 DEF RunsInv
  <1>. QED
    BY <1>4, <1>5, <1>6, <1>7 DEF IngestCycleStep, QuietCycleStep

\* The steps of the process worker.
LEMMA ProcessTallies ==
    ASSUME LoopTypeOK, LoopTypeOK', IInv, IInv', RunsInv, ProcessCycleStep
    PROVE  RunsInv'
  <1>0. /\ CountersInStep /\ WithinLimit /\ Tallies /\ FiniteTallies
        /\ "process" \in Workers /\ Workers = {"ingest", "process"}
    BY DEF RunsInv, Tallies, Workers
  <1>. USE TallyNumbers DEF Keys
  <1>1. loop["process"].at = "cycle" /\ recorded' = recorded /\ ToMark' = ToMark
    BY DEF ProcessCycleStep, ListSubmitted, PollAgainLater, PollSucceeded, PollFailed,
           StoreResult, FinishItem, FailItem, EndProcessCycle, ToMark
  <1>2. ASSUME QuietCycleStep, UNCHANGED counted PROVE Tallies'
    <2>1. UNCHANGED <<Distilled, Failed, AcceptedJobs, ToMark, faults>>
      BY <1>2, QuietSteps
    <2>2. /\ Reported("submitted")' = Reported("submitted")
          /\ Reported("distilled")' = Reported("distilled")
          /\ Reported("failed")' = Reported("failed")
      BY <1>1, <1>2 DEF Reported
    <2>. QED
      BY <1>0, <1>2, <2>1, <2>2, TalliesFrame
  <1>3. ASSUME ListSubmitted, UNCHANGED <<loop, counted>> PROVE RunsInv'
    <2>1. process'.at = "poll" /\ process'.todo = Oldest(InState(rows, "submitted"), PollLimit)
      BY <1>3 DEF ListSubmitted
    <2>2. InState(rows, "submitted") \subseteq Nat
      BY ItemsAssumption DEF InState, LoopTypeOK, TypeOK
    <2>3. IsFiniteSet(process'.todo) /\ Cardinality(process'.todo) <= PollLimit
      BY <2>1, <2>2, OldestBounded, LimitAssumption
    <2>4. counted["process"].distilled = 0
      BY <1>0, <1>1, <1>3 DEF CountersInStep, ListSubmitted, NoCounts
    <2>5. WithinLimit' /\ CountersInStep'
      BY <1>0, <1>3, <2>1, <2>3, <2>4, FS_CardinalityType DEF WithinLimit, CountersInStep
    <2>. QED
      BY <1>2, <1>3, <2>5 DEF RunsInv, QuietCycleStep
  <1>4. ASSUME NEW i \in process.todo, process'.todo = process.todo \ {i}
        PROVE  /\ IsFiniteSet(process'.todo) /\ Cardinality(process'.todo) \in Nat
               /\ Cardinality(process'.todo) = Cardinality(process.todo) - 1
    <2>1. IsFiniteSet(process.todo)
      BY <1>0 DEF WithinLimit
    <2>2. /\ IsFiniteSet(process.todo \ {i})
          /\ Cardinality(process.todo \ {i}) = Cardinality(process.todo) - 1
      BY <2>1, FS_RemoveElement
    <2>. QED
      BY <1>4, <2>2, FS_CardinalityType
  <1>5. ASSUME NEW i \in Items, UNCHANGED <<loop, counted>>,
               PollAgainLater(i) \/ PollSucceeded(i) \/ PollFailed(i) \/ StoreResult(i)
        PROVE  RunsInv'
    <2>1. /\ \/ i \in process.todo /\ process'.todo = process.todo \ {i}
             \/ process'.todo = process.todo
          /\ process'.at # "list"
      BY <1>5 DEF PollAgainLater, PollSucceeded, PollFailed, StoreResult, IsFirst, LoopTypeOK, TypeOK
    <2>2. WithinLimit' /\ CountersInStep'
      BY <1>0, <1>4, <1>5, <2>1 DEF WithinLimit, CountersInStep
    <2>. QED
      BY <1>2, <1>5, <2>2 DEF RunsInv, QuietCycleStep
  <1>6. ASSUME NEW i \in Items, FinishItem(i), Count("process", "distilled"), UNCHANGED loop
        PROVE  RunsInv'
    <2>1. /\ UNCHANGED <<Failed, AcceptedJobs, faults>>
          /\ i \notin Distilled /\ Distilled' = Distilled \union {i}
      <3>1. AcceptedJobs' = AcceptedJobs
        BY <1>6 DEF FinishItem, AcceptedJobs
      <3>2. Failed' = Failed /\ i \notin Distilled /\ Distilled' = Distilled \union {i}
        BY <1>6, SettlingCounts
      <3>. QED
        BY <1>6, <3>1, <3>2 DEF FinishItem
    <2>2. IsFiniteSet(Distilled') /\ Cardinality(Distilled') = Cardinality(Distilled) + 1
      BY <1>0, <2>1, FS_AddElement DEF FiniteTallies
    <2>3. /\ Reported("submitted")' = Reported("submitted")
          /\ Reported("distilled")' = Reported("distilled") + 1
          /\ Reported("failed")' = Reported("failed")
          /\ counted'["ingest"] = counted["ingest"]
          /\ counted'["process"].submitted = counted["process"].submitted
          /\ counted'["process"].distilled = counted["process"].distilled + 1
      BY <1>1, <1>6, CountedOne
    <2>4. Tallies'
      BY <1>0, <1>1, <2>1, <2>2, <2>3 DEF Tallies, FiniteTallies
    <2>5. process'.todo = process.todo \ {i} /\ i \in process.todo /\ process'.at = "poll"
      BY <1>6 DEF FinishItem, IsFirst, LoopTypeOK, TypeOK
    <2>6. WithinLimit'
      <3>1. /\ IsFiniteSet(process'.todo) /\ Cardinality(process'.todo) \in Nat
            /\ Cardinality(process'.todo) = Cardinality(process.todo) - 1
        BY <1>4, <2>5
      <3>2. /\ counted["process"].distilled \in Nat /\ Cardinality(process.todo) \in Nat
            /\ counted["process"].distilled + Cardinality(process.todo) <= PollLimit
        BY <1>0 DEF WithinLimit
      <3>. QED
        BY <2>3, <3>1, <3>2, LimitAssumption DEF WithinLimit
    <2>7. CountersInStep'
      BY <1>0, <1>1, <1>6, <2>3, <2>5 DEF CountersInStep
    <2>. QED
      BY <2>4, <2>6, <2>7 DEF RunsInv
  <1>7. ASSUME NEW i \in Items, FailItem(i), CountIfFailed("process", i), UNCHANGED loop
        PROVE  RunsInv'
    <2>1. /\ UNCHANGED <<Distilled, AcceptedJobs, faults>> /\ i \notin Failed
          /\ Failed' = IF rows'[i].state = "failed" THEN Failed \union {i} ELSE Failed
      <3>1. AcceptedJobs' = AcceptedJobs
        BY <1>7 DEF FailItem, AcceptedJobs
      <3>2. /\ Distilled' = Distilled /\ i \notin Failed
            /\ Failed' = IF rows'[i].state = "failed" THEN Failed \union {i} ELSE Failed
        BY <1>7, SettlingCounts
      <3>. QED
        BY <1>7, <3>1, <3>2 DEF FailItem
    <2>2. /\ IsFiniteSet(Failed')
          /\ rows'[i].state = "failed" => Cardinality(Failed') = Cardinality(Failed) + 1
          /\ rows'[i].state # "failed" => Cardinality(Failed') = Cardinality(Failed)
      BY <1>0, <2>1, FS_AddElement DEF FiniteTallies
    <2>3. /\ Reported("submitted")' = Reported("submitted")
          /\ Reported("distilled")' = Reported("distilled")
          /\ Reported("failed")' = Reported("failed") + (IF rows'[i].state = "failed" THEN 1 ELSE 0)
          /\ counted'["ingest"] = counted["ingest"]
          /\ counted'["process"].submitted = counted["process"].submitted
          /\ counted'["process"].distilled = counted["process"].distilled
      BY <1>0, <1>1, <1>7, CountedFailure
    <2>4. Tallies'
      <3>1. CASE rows'[i].state = "failed"
        BY <3>1, <1>0, <1>1, <2>1, <2>2, <2>3 DEF Tallies, FiniteTallies
      <3>2. CASE rows'[i].state # "failed"
        BY <3>2, <1>0, <1>1, <2>1, <2>2, <2>3 DEF Tallies, FiniteTallies
      <3>. QED
        BY <3>1, <3>2
    <2>5. process'.todo = process.todo \ {i} /\ i \in process.todo /\ process'.at = "poll"
      BY <1>7 DEF FailItem, IsFirst, LoopTypeOK, TypeOK
    <2>6. WithinLimit'
      <3>1. /\ IsFiniteSet(process'.todo) /\ Cardinality(process'.todo) \in Nat
            /\ Cardinality(process'.todo) = Cardinality(process.todo) - 1
        BY <1>4, <2>5
      <3>2. /\ counted["process"].distilled \in Nat /\ Cardinality(process.todo) \in Nat
            /\ counted["process"].distilled + Cardinality(process.todo) <= PollLimit
        BY <1>0 DEF WithinLimit
      <3>. QED
        BY <2>3, <3>1, <3>2, LimitAssumption DEF WithinLimit
    <2>7. CountersInStep'
      BY <1>0, <1>1, <1>7, <2>3, <2>5 DEF CountersInStep
    <2>. QED
      BY <2>4, <2>6, <2>7 DEF RunsInv
  <1>8. ASSUME EndProcessCycle, GoTo("process", "beat"), UNCHANGED counted PROVE RunsInv'
    <2>1. loop \in [Workers -> LoopStates] /\ "beat" \in Positions
      BY DEF LoopTypeOK, LoopStates, Positions
    <2>2. loop'["process"].at = "beat" /\ loop'["ingest"] = loop["ingest"]
      BY <1>0, <1>8, <2>1, LoopMoveType
    <2>3. CountersInStep'
      BY <1>0, <1>8, <2>2 DEF CountersInStep
    <2>4. process'.todo = {} /\ process.todo = {}
      BY <1>8 DEF EndProcessCycle, IdleProcess
    <2>5. WithinLimit'
      BY <1>0, <1>8, <2>4 DEF WithinLimit
    <2>. QED
      BY <1>2, <1>8, <2>3, <2>5 DEF RunsInv, QuietCycleStep
  <1>. QED
    BY <1>3, <1>5, <1>6, <1>7, <1>8 DEF ProcessCycleStep

\* The exceptions, kills and rows that are written or lost.
LEMMA RecordTallies ==
    ASSUME LoopTypeOK, LoopTypeOK', IInv, IInv', RunsInv, NEW w \in Workers,
           CycleRaises(w) \/ Killed(w) \/ RecordRun(w) \/ RecordLost(w)
    PROVE  RunsInv'
  <1>0. /\ CountersInStep /\ WithinLimit /\ Tallies /\ FiniteTallies
        /\ Workers = {"ingest", "process"} /\ IdleBetween
    BY DEF RunsInv, Tallies, Workers, LoopTypeOK, IdleBetween
  <1>. USE TallyNumbers DEF Keys
  <1>1. /\ counted' = [counted EXCEPT ![w] = NoCounts]
        /\ UNCHANGED <<rows, results, jobs>>
    BY DEF CycleRaises, Killed, RecordRun, RecordLost, Forget, ledgerVars
  <1>2. PICK at \in {"record", "wait", "down"} : GoTo(w, at)
    BY DEF CycleRaises, Killed, RecordRun, RecordLost
  <1>3. /\ loop'[w].at # "cycle" /\ \A v \in Workers : v # w => loop'[v] = loop[v]
    <2>1. loop \in [Workers -> LoopStates] /\ at \in Positions
      BY <1>2 DEF LoopTypeOK, LoopStates, Positions
    <2>. QED
      BY <1>2, <2>1, LoopMoveType
  <1>4. /\ counted'[w] = NoCounts /\ \A v \in Workers : v # w => counted'[v] = counted[v]
    BY <1>1, CountersLeave
  <1>5. /\ process' = process \/ (w = "process" /\ process' = IdleProcess)
        /\ ingest' = ingest \/ (w = "ingest" /\ ingest' = IdleIngest)
    BY DEF CycleRaises, Killed, RecordRun, RecordLost, Forget, ledgerVars
  <1>6. NoCounts.submitted = 0 /\ NoCounts.distilled = 0 /\ NoCounts.failed = 0
    BY DEF NoCounts
  <1>7. CountersInStep'
    BY <1>0, <1>3, <1>4, <1>5, <1>6 DEF CountersInStep
  <1>8. WithinLimit'
    <2>1. /\ IsFiniteSet(process'.todo) /\ Cardinality(process'.todo) \in Nat
          /\ Cardinality(process'.todo) <= Cardinality(process.todo)
      BY <1>0, <1>5, FS_EmptySet DEF WithinLimit, IdleProcess
    <2>2. /\ counted'["process"].distilled \in {0, counted["process"].distilled}
          /\ counted["process"].distilled \in Nat
      BY <1>0, <1>4, <1>6
    <2>3. counted["process"].distilled + Cardinality(process.todo) <= PollLimit
      BY <1>0 DEF WithinLimit
    <2>. QED
      BY <2>1, <2>2, <2>3, LimitAssumption DEF WithinLimit
  <1>9. UNCHANGED <<Distilled, Failed, AcceptedJobs>>
    BY <1>1 DEF Distilled, Failed, InState, AcceptedJobs
  <1>10. ToMark' <= ToMark /\ ToMark' \in Nat
    BY <1>5 DEF ToMark, IdleIngest
  <1>11. CASE CycleRaises(w) \/ Killed(w) \/ RecordLost(w)
    <2>1. faults' = faults + 1 /\ recorded' = recorded
      BY <1>11 DEF CycleRaises, Killed, RecordLost, Forget
    <2>2. Tallies'
      BY <1>1, <1>9, <1>10, <2>1, TalliesForget
    <2>. QED
      BY <1>7, <1>8, <2>2 DEF RunsInv
  <1>12. CASE RecordRun(w)
    <2>1. faults' = faults /\ recorded' = Plus(recorded, counted[w]) /\ ToMark' = ToMark
      BY <1>12 DEF RecordRun, ToMark, ledgerVars
    <2>2. /\ Reported("submitted")' = Reported("submitted")
          /\ Reported("distilled")' = Reported("distilled")
          /\ Reported("failed")' = Reported("failed")
      BY <1>1, <2>1, CountersLeave
    <2>3. Tallies'
      BY <1>0, <1>9, <2>1, <2>2, TalliesFrame
    <2>. QED
      BY <1>7, <1>8, <2>3 DEF RunsInv
  <1>. QED
    BY <1>11, <1>12

\* Between the cycles nothing is counted.
LEMMA WaitingTallies ==
    ASSUME LoopTypeOK, LoopTypeOK', RunsInv, UNCHANGED <<ledgerVars, faults, counted, recorded>>,
           \A w \in Workers :
              \/ loop'[w].at = loop[w].at
              \/ loop[w].at \in {"wait", "down"}
              \/ loop[w].at = "beat" /\ loop'[w].at = "record"
    PROVE  RunsInv'
  <1>0. CountersInStep /\ WithinLimit /\ Tallies /\ Workers = {"ingest", "process"}
    BY DEF RunsInv, Workers
  <1>1. CountersInStep'
    BY <1>0 DEF CountersInStep, ledgerVars
  <1>2. WithinLimit'
    BY <1>0 DEF WithinLimit, ledgerVars
  <1>3. UNCHANGED <<Distilled, Failed, AcceptedJobs, ToMark, faults>>
    BY DEF Distilled, Failed, InState, AcceptedJobs, ToMark, ledgerVars
  <1>4. /\ Reported("submitted")' = Reported("submitted")
        /\ Reported("distilled")' = Reported("distilled")
        /\ Reported("failed")' = Reported("failed")
    BY DEF Reported
  <1>. QED
    BY <1>0, <1>1, <1>2, <1>3, <1>4, TalliesFrame DEF RunsInv

\* The run history starts empty, and so does what it counts.
LEMMA InitRunsInv == LoopInit => RunsInv
  <1>. SUFFICES ASSUME LoopInit PROVE RunsInv
    OBVIOUS
  <1>1. Distilled = {} /\ Failed = {}
    BY DEF LoopInit, Init, Distilled, Failed, InState, AbsentRow, LegacyRow, JoblessRow
  <1>2. AcceptedJobs = {}
    <2>1. \A i \in Items : jobs[i] = <<>> /\ DOMAIN jobs[i] = {}
      BY DEF LoopInit, Init
    <2>. QED
      BY <2>1, AcceptedMember
  <1>3. /\ Reported("submitted") = 0 /\ Reported("distilled") = 0 /\ Reported("failed") = 0
        /\ faults = 0 /\ ToMark = 0
    BY DEF LoopInit, Init, Reported, NoCounts, Workers, ToMark, IdleIngest
  <1>4. Tallies
    BY <1>1, <1>2, <1>3, FS_EmptySet, LimitAssumption DEF Tallies, FiniteTallies
  <1>5. process.todo = {}
    BY DEF LoopInit, Init, IdleProcess
  <1>6. WithinLimit
    BY <1>5, FS_EmptySet, LimitAssumption DEF LoopInit, WithinLimit, NoCounts, Workers
  <1>7. CountersInStep
    BY DEF LoopInit, CountersInStep, NoCounts, Workers
  <1>. QED
    BY <1>4, <1>6, <1>7 DEF RunsInv

\* Every step keeps the history and the ledger in agreement.
LEMMA NextRunsInv ==
    LoopTypeOK /\ LoopTypeOK' /\ IInv /\ IInv' /\ RunsInv /\ [LoopNext]_loopVars => RunsInv'
  <1>. SUFFICES ASSUME LoopTypeOK, LoopTypeOK', IInv, IInv', RunsInv, [LoopNext]_loopVars
                PROVE  RunsInv'
    OBVIOUS
  <1>0. loop \in [Workers -> LoopStates]
    BY DEF LoopTypeOK, LoopStates
  <1>1. CASE IngestCycleStep
    BY <1>1, IngestTallies
  <1>2. CASE ProcessCycleStep
    BY <1>2, ProcessTallies
  <1>3. CASE Heartbeat
    BY <1>0, <1>3, LoopMoveType, WaitingTallies DEF Heartbeat, Workers, Positions
  <1>4. ASSUME NEW w \in Workers, CycleRaises(w) \/ Killed(w) \/ RecordRun(w) \/ RecordLost(w)
        PROVE  RunsInv'
    BY <1>4, RecordTallies
  <1>5. ASSUME NEW w \in Workers, NextCycle(w) \/ Exit(w) PROVE RunsInv'
    <2>1. PICK at \in Positions : GoTo(w, at)
      BY <1>5 DEF NextCycle, Exit, Positions
    <2>2. /\ loop[w].at = "wait" /\ UNCHANGED <<ledgerVars, faults, counted, recorded>>
          /\ \A v \in Workers : v # w => loop'[v] = loop[v]
      BY <1>0, <1>5, <2>1, LoopMoveType DEF NextCycle, Exit
    <2>. QED
      BY <2>2, WaitingTallies
  <1>6. ASSUME NEW w \in Workers, Restart(w) PROVE RunsInv'
    BY <1>0, <1>6, LoopStartType, WaitingTallies DEF Restart
  <1>7. ASSUME NEW w \in Workers, StopWorker(w) \/ Signalled(w) PROVE RunsInv'
    BY <1>0, <1>7, LoopStopType, WaitingTallies DEF StopWorker, Signalled
  <1>8. ASSUME NEW w \in Workers, StartWorker(w) PROVE RunsInv'
    BY <1>8, WaitingTallies DEF StartWorker
  <1>9. CASE ServiceStep
    <2>1. /\ UNCHANGED <<Distilled, Failed, AcceptedJobs, ToMark, faults>>
          /\ UNCHANGED <<process, loop, counted, recorded>>
      BY <1>9, QuietSteps
      DEF ServiceStep, QuietCycleStep, Service, JobEnds, JobForgotten
    <2>2. /\ Reported("submitted")' = Reported("submitted")
          /\ Reported("distilled")' = Reported("distilled")
          /\ Reported("failed")' = Reported("failed")
      BY <2>1 DEF Reported
    <2>. QED
      BY <2>1, <2>2, TalliesFrame DEF RunsInv, CountersInStep, WithinLimit
  <1>10. CASE UNCHANGED loopVars
    BY <1>10, WaitingTallies DEF loopVars, ledgerVars
  <1>. QED
    BY <1>1, <1>2, <1>3, <1>4, <1>5, <1>6, <1>7, <1>8, <1>9, <1>10
    DEF LoopNext, Disturbance, CycleStep, LoopStep

\* RunsAccountForWork: the counters of /reddit/runs/recent never report an item or a job
\* twice, miss none without a fault, and miss no more than one cycle's worth with each,
\* whatever interleaving of cycles, exceptions, kills and restarts they were written by.
THEOREM RunsAddUp == LoopSpec => []RunsAccountForWork
  <1>1. LoopTypeOK /\ RunsInv => RunsAccountForWork
    <2>. SUFFICES ASSUME LoopTypeOK, RunsInv PROVE RunsAccountForItems /\ RunsAccountForJobs
      BY DEF RunsAccountForWork
    <2>1. RunsAccountForItems
      BY DEF RunsInv, Tallies, RunsAccountForItems, InStateCount, Distilled, Failed
    <2>2. Reported("submitted") \in Nat /\ Cardinality(AcceptedJobs) \in Nat
      BY TallyNumbers DEF Keys
    <2>3. RunsAccountForJobs
      BY <2>2 DEF RunsInv, Tallies, RunsAccountForJobs, ToMark
    <2>. QED
      BY <2>1, <2>3
  <1>. QED
    BY <1>1, InitRunsInv, NextRunsInv, LoopTypes, LoopsKeepTheLedger, PTL DEF LoopSpec

===============================================================================
