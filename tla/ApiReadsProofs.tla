---------------------------- MODULE ApiReadsProofs -----------------------------
(***************************************************************************)
(* Theorems about ApiReads, for every finite ledger, page size and set of  *)
(* filters: what the answers of the API say about each other while the     *)
(* workers go on.                                                          *)
(*                                                                         *)
(* Two inductive invariants build on the one of Pipeline: ReadsInv holds   *)
(* for every filter; PagesInv is about what a listing promises over        *)
(* several queries, and holds for the filters whose rows never leave.      *)
(***************************************************************************)
EXTENDS ApiReads, PipelineProofs, FunctionTheorems, FiniteSetTheorems

-------------------------------------------------------------------------------
(***************************************************************************)
(* The inductive invariants.                                               *)
(***************************************************************************)

\* The states are counted before the results they need.
StatsInStep ==
    /\ Runs({"stats"}, "distillations") =>
         request.states["distilled"] <= Cardinality(WithResult)
    /\ StatsAnswered => request.states["distilled"] <= request.results

\* A page is read before the summaries it needs.
SummariesInStep ==
    /\ Runs({"items"}, "summaries") =>
         \A i \in DOMAIN request.listed : request.listed[i] = "distilled" => i \in WithResult
    /\ ListedDistilledHasSummary

ReadsInv == IInv /\ ApiTypeOK /\ StatsInStep /\ SummariesInStep

ListKinds == {"items", "distillations"}

\* A page is at least as long as the total that was counted before it asks for.
PageIsLong ==
    LET size == Cardinality(DOMAIN request.listed)
    IN  size = PageSize \/ Offset(request.page) + size >= request.total

CountInStep ==
    /\ Runs(ListKinds, "page") => request.total <= Cardinality(SelectedNow)
    /\ Runs(ListKinds, "summaries") => PageIsLong
    /\ PagesAreFull

\* Item i is in the table, on a page from the offset on.
Waits(table, selected, i, offset) ==
    \E k \in selected : table[k] = i /\ Cardinality(Newer(selected, k)) >= offset

\* What was due has been seen, or is on this page or a later one; and then this page
\* is not the last.
WalkInStep ==
    /\ Runs(ListKinds, "count") \/ Runs(ListKinds, "page") =>
         \A i \in request.due \ request.seen :
            Waits(Table(request.kind), SelectedNow, i, Offset(request.page))
    /\ Runs(ListKinds, "summaries") \/ PageAnswered =>
         \A i \in request.due \ (request.seen \union DOMAIN request.listed) :
            /\ DOMAIN request.listed # {}
            /\ Waits(Table(request.kind), SelectedNow, i, Offset(request.page) + PageSize)

PagesInv == ReadsInv /\ CountInStep /\ WalkInStep

-------------------------------------------------------------------------------
(***************************************************************************)
(* ORDER BY ... DESC LIMIT n OFFSET m over a finite table.                 *)
(***************************************************************************)

\* Pages follow each other without a gap.
LEMMA PageOffsets ==
    /\ Offset(1) = 0
    /\ \A page \in Nat \ {0} :
         Offset(page) \in Nat /\ Offset(page + 1) = Offset(page) + PageSize
  BY PageSizeAssumption DEF Offset

\* A selected row has finitely many newer ones; the more rows there are the more.
LEMMA RankType ==
    ASSUME NEW S, IsFiniteSet(S), NEW k
    PROVE  IsFiniteSet(Newer(S, k)) /\ Cardinality(Newer(S, k)) \in Nat
  <1>1. Newer(S, k) \subseteq S
    BY DEF Newer
  <1>. QED
    BY <1>1, FS_Subset, FS_CardinalityType

LEMMA RankGrows ==
    ASSUME NEW S, NEW T, IsFiniteSet(T), S \subseteq T, NEW k
    PROVE  Cardinality(Newer(S, k)) <= Cardinality(Newer(T, k))
  <1>1. Newer(S, k) \subseteq Newer(T, k)
    BY DEF Newer
  <1>. QED
    BY <1>1, RankType, FS_Subset

\* An older row has a greater rank, and the ranks are less than the number of rows.
LEMMA RankOrder ==
    ASSUME NEW S \in SUBSET Nat, IsFiniteSet(S), NEW j \in S, NEW k \in S, j < k
    PROVE  Cardinality(Newer(S, k)) < Cardinality(Newer(S, j))
  <1>1. Newer(S, k) \union {k} \subseteq Newer(S, j)
    <2>1. ASSUME NEW x \in Newer(S, k) PROVE x \in Newer(S, j)
      <3>1. x \in S /\ x > k
        BY DEF Newer
      <3>2. x \in Nat /\ j \in Nat /\ k \in Nat
        BY <3>1
      <3>3. x > j
        BY <3>1, <3>2
      <3>. QED
        BY <3>1, <3>3 DEF Newer
    <2>2. k \in Newer(S, j)
      <3>1. j \in Nat /\ k \in Nat
        OBVIOUS
      <3>. QED
        BY <3>1 DEF Newer
    <2>. QED
      BY <2>1, <2>2
  <1>2. k \notin Newer(S, k)
    <2>1. k \in Nat
      OBVIOUS
    <2>. QED
      BY <2>1 DEF Newer
  <1>3. Cardinality(Newer(S, k) \union {k}) = Cardinality(Newer(S, k)) + 1
    BY <1>2, RankType, FS_AddElement
  <1>4. Cardinality(Newer(S, k) \union {k}) <= Cardinality(Newer(S, j))
    BY <1>1, RankType, FS_Subset
  <1>. QED
    BY <1>3, <1>4, RankType

LEMMA RankBound ==
    ASSUME NEW S \in SUBSET Nat, IsFiniteSet(S), NEW k \in S
    PROVE  Cardinality(Newer(S, k)) < Cardinality(S)
  <1>1. Newer(S, k) \subseteq S /\ k \in S /\ k \notin Newer(S, k)
    <2>1. k \in Nat
      OBVIOUS
    <2>. QED
      BY <2>1 DEF Newer
  <1>2. Cardinality(Newer(S, k)) <= Cardinality(S)
        /\ Cardinality(S) # Cardinality(Newer(S, k))
    BY <1>1, FS_Subset
  <1>. QED
    BY <1>2, RankType, FS_CardinalityType

\* So every number below the number of rows is the rank of one.
LEMMA RanksAreAll ==
    ASSUME NEW S \in SUBSET Nat, IsFiniteSet(S), NEW r \in 0..(Cardinality(S) - 1)
    PROVE  \E k \in S : Cardinality(Newer(S, k)) = r
  <1>. DEFINE T == 0..(Cardinality(S) - 1)
             f == [k \in S |-> Cardinality(Newer(S, k))]
  <1>1. Cardinality(S) \in Nat
    BY FS_CardinalityType
  <1>2. f \in [S -> T]
    <2>1. ASSUME NEW k \in S PROVE Cardinality(Newer(S, k)) \in T
      BY <1>1, RankType, RankBound
    <2>. QED
      BY <2>1
  <1>3. ASSUME NEW j \in S, NEW k \in S, f[j] = f[k] PROVE j = k
    <2>1. j \in Nat /\ k \in Nat
      OBVIOUS
    <2>2. ~(j < k) /\ ~(k < j)
      BY <1>3, RankOrder, RankType
    <2>. QED
      BY <2>1, <2>2
  <1>4. f \in Injection(S, T)
    BY <1>2, <1>3, Fun_IsInj
  <1>5. IsFiniteSet(T) /\ Cardinality(T) = Cardinality(S)
    BY <1>1, FS_Interval
  <1>6. f \in Surjection(S, T)
    BY <1>4, <1>5, FS_Injection
  <1>7. \A t \in T : \E k \in S : f[k] = t
    <2>. HIDE DEF f, T
    <2>. QED
      BY <1>6, Fun_SurjectionProperties
  <1>. QED
    BY <1>7

\* A page is full, or reaches the oldest row.
LEMMA PageLength ==
    ASSUME NEW S \in SUBSET Nat, IsFiniteSet(S), NEW m \in Nat, NEW n \in Nat \ {0},
           NEW page, page = OffsetLimit(S, m, n)
    PROVE  /\ page \subseteq S /\ IsFiniteSet(page)
           /\ Cardinality(page) = n \/ m + Cardinality(page) >= Cardinality(S)
  <1>. DEFINE top == IF m + n <= Cardinality(S) THEN m + n - 1 ELSE Cardinality(S) - 1
             T == m..top
             f == [k \in page |-> Cardinality(Newer(S, k))]
  <1>1. page \subseteq S /\ IsFiniteSet(page)
    <2>1. page \subseteq S
      BY DEF OffsetLimit
    <2>. QED
      BY <2>1, FS_Subset
  <1>2. Cardinality(S) \in Nat /\ Cardinality(page) \in Nat
    BY <1>1, FS_CardinalityType
  <1>3. f \in [page -> T]
    <2>1. ASSUME NEW k \in page PROVE Cardinality(Newer(S, k)) \in T
      <3>1. Cardinality(Newer(S, k)) \in m..(m + n - 1) /\ k \in S
        BY DEF OffsetLimit
      <3>. QED
        BY <1>2, <3>1, RankType, RankBound
    <2>. QED
      BY <2>1
  <1>4. ASSUME NEW j \in page, NEW k \in page, f[j] = f[k] PROVE j = k
    <2>1. j \in S /\ k \in S /\ j \in Nat /\ k \in Nat
      BY <1>1
    <2>2. ~(j < k) /\ ~(k < j)
      BY <1>4, <2>1, RankOrder, RankType
    <2>. QED
      BY <2>1, <2>2
  <1>5. ASSUME NEW r \in T PROVE \E k \in page : f[k] = r
    <2>1. r \in 0..(Cardinality(S) - 1) /\ r \in m..(m + n - 1)
      BY <1>2
    <2>2. PICK k \in S : Cardinality(Newer(S, k)) = r
      BY <2>1, RanksAreAll
    <2>3. k \in page
      BY <2>1, <2>2 DEF OffsetLimit
    <2>. QED
      BY <2>2, <2>3
  <1>6. f \in Bijection(page, T)
    BY <1>3, <1>4, <1>5, Fun_IsBij
  <1>7. Cardinality(T) = Cardinality(page)
    BY <1>1, <1>6, FS_Bijection, Fun_ExistsBij
  <1>8. top \in Int /\ Cardinality(T) = IF m > top THEN 0 ELSE top - m + 1
    <2>1. top \in Int
      BY <1>2
    <2>. HIDE DEF top
    <2>. QED
      BY <2>1, FS_Interval
  <1>. QED
    BY <1>1, <1>2, <1>7, <1>8

-------------------------------------------------------------------------------
(***************************************************************************)
(* The orders of the tables.                                               *)
(***************************************************************************)

\* The order in which the rows of a finite set came lists each of them once.
LEMMA OrdersList ==
    ASSUME NEW S, IsFiniteSet(S), NEW order \in Orders(S)
    PROVE  Lists(order, S) /\ Len(order) = Cardinality(S)
  <1>1. Cardinality(S) \in Nat
    BY FS_CardinalityType
  <1>2. order \in [1..Cardinality(S) -> S]
        /\ (\A a, b \in 1..Cardinality(S) : order[a] = order[b] => a = b)
        /\ Range(order) = S
    <2>. DEFINE D == 1..Cardinality(S)
    <2>1. order \in Bijection(D, S)
      BY DEF Orders
    <2>. HIDE DEF D
    <2>2. order \in [D -> S] /\ order \in Surjection(D, S)
          /\ (\A a, b \in D : order[a] = order[b] => a = b)
      BY <2>1, Fun_BijectionProperties
    <2>3. Range(order) = S
      BY <2>2, Fun_SurjectionProperties
    <2>. QED
      BY <2>2, <2>3 DEF D
  <1>3. order \in Seq(S) /\ Len(order) = Cardinality(S) /\ DOMAIN order = 1..Cardinality(S)
    BY <1>1, <1>2
  <1>. QED
    BY <1>2, <1>3 DEF Lists, IsInjective

\* Rows that are added come after the others, which keep their places.
LEMMA TableGrows ==
    ASSUME NEW S, NEW U, S \subseteq U, IsFiniteSet(U), NEW s, Lists(s, S),
           NEW u, \E order \in Orders(U \ S) : u = s \o order
    PROVE  Lists(u, U) /\ \A k \in DOMAIN s : k \in DOMAIN u /\ u[k] = s[k]
  <1>. DEFINE A == U \ S
  <1>0. PICK t \in Orders(A) : u = s \o t
    OBVIOUS
  <1>a. Lists(t, A)
    <2>1. IsFiniteSet(A)
      BY FS_Subset
    <2>. HIDE DEF A
    <2>. QED
      BY <2>1, OrdersList
  <1>b. S \union A = U /\ S \intersect A = {}
    OBVIOUS
  <1>. HIDE DEF A
  <1>1. s \in Seq(U) /\ t \in Seq(U)
    BY <1>a, <1>b, SeqMonotonic DEF Lists
  <1>2. Len(s) \in Nat /\ Len(t) \in Nat /\ DOMAIN s = 1..Len(s) /\ DOMAIN t = 1..Len(t)
    BY <1>1, LenProperties
  <1>3. u \in Seq(U) /\ Len(u) = Len(s) + Len(t) /\ DOMAIN u = 1..(Len(s) + Len(t))
    BY <1>0, <1>1, ConcatProperties, LenProperties
  <1>4. ASSUME NEW k \in DOMAIN s PROVE k \in DOMAIN u /\ u[k] = s[k] /\ u[k] \in S
    <2>1. k \in 1..(Len(s) + Len(t)) /\ k <= Len(s)
      BY <1>2
    <2>2. s[k] \in S
      BY DEF Lists, Range
    <2>. QED
      BY <1>0, <1>1, <1>3, <2>1, <2>2, ConcatProperties
  <1>5. ASSUME NEW k \in DOMAIN u, k \notin DOMAIN s
        PROVE  k - Len(s) \in DOMAIN t /\ u[k] = t[k - Len(s)] /\ u[k] \in A
    <2>1. k \in 1..(Len(s) + Len(t)) /\ ~(k <= Len(s)) /\ k - Len(s) \in DOMAIN t
      BY <1>2, <1>3, <1>5
    <2>2. t[k - Len(s)] \in A
      BY <1>a, <2>1 DEF Lists, Range
    <2>. QED
      BY <1>0, <1>1, <2>1, <2>2, ConcatProperties
  <1>6. ASSUME NEW a \in DOMAIN u, NEW b \in DOMAIN u, u[a] = u[b] PROVE a = b
    <2>1. CASE a \in DOMAIN s /\ b \in DOMAIN s
      BY <1>4, <1>6, <2>1 DEF Lists, IsInjective
    <2>2. CASE a \notin DOMAIN s /\ b \notin DOMAIN s
      <3>1. a - Len(s) = b - Len(s)
        BY <1>a, <1>5, <1>6, <2>2 DEF Lists, IsInjective
      <3>. QED
        BY <1>2, <1>3, <3>1
    <2>. QED
      BY <1>b, <1>4, <1>5, <1>6, <2>1, <2>2
  <1>7. Range(u) = U
    <2>1. ASSUME NEW x \in S PROVE x \in Range(u)
      <3>1. PICK k \in DOMAIN s : s[k] = x
        BY DEF Lists, Range
      <3>. QED
        BY <1>4, <3>1 DEF Range
    <2>2. ASSUME NEW x \in A PROVE x \in Range(u)
      <3>1. PICK k \in DOMAIN t : t[k] = x
        BY <1>a DEF Lists, Range
      <3>2. k + Len(s) \in DOMAIN u /\ k + Len(s) \notin DOMAIN s /\ (k + Len(s)) - Len(s) = k
        BY <1>2, <1>3
      <3>. QED
        BY <1>5, <3>1, <3>2 DEF Range
    <2>3. ASSUME NEW k \in DOMAIN u PROVE u[k] \in U
      BY <1>b, <1>4, <1>5
    <2>. QED
      BY <1>b, <2>1, <2>2, <2>3 DEF Range
  <1>. QED
    BY <1>3, <1>4, <1>6, <1>7 DEF Lists, IsInjective

\* A table has finitely many rows, and no two of the same item.
LEMMA ListedOnce ==
    ASSUME NEW S, NEW s, Lists(s, S), NEW M \in SUBSET DOMAIN s
    PROVE  /\ DOMAIN s \subseteq Nat /\ IsFiniteSet(DOMAIN s) /\ IsFiniteSet(M)
           /\ {s[k] : k \in M} \subseteq S
           /\ IsFiniteSet({s[k] : k \in M}) /\ Cardinality({s[k] : k \in M}) = Cardinality(M)
  <1>. DEFINE T == {s[k] : k \in M}
             f == [k \in M |-> s[k]]
  <1>1. Len(s) \in Nat /\ DOMAIN s = 1..Len(s)
    BY LenProperties DEF Lists
  <1>2. DOMAIN s \subseteq Nat /\ IsFiniteSet(DOMAIN s)
    BY <1>1, FS_Interval
  <1>3. IsFiniteSet(M)
    BY <1>2, FS_Subset
  <1>4. T \subseteq S
    BY DEF Lists, Range
  <1>5. f \in [M -> T]
    OBVIOUS
  <1>6. \A a, b \in M : f[a] = f[b] => a = b
    BY DEF Lists, IsInjective
  <1>7. \A y \in T : \E k \in M : f[k] = y
    OBVIOUS
  <1>8. f \in Bijection(M, T)
    BY <1>5, <1>6, <1>7, Fun_IsBij
  <1>. QED
    BY <1>2, <1>3, <1>4, <1>8, FS_Bijection, Fun_ExistsBij

-------------------------------------------------------------------------------
(***************************************************************************)
(* What the workers do to what the API reads.                              *)
(***************************************************************************)

\* No row and no result goes away, and an item that is distilled or failed stays so.
LEMMA LedgerMovesOn ==
    ASSUME IInv, IInv', [Next]_vars, NEW i \in Items
    PROVE  /\ i \in Present => i \in Present'
           /\ i \in WithResult => i \in WithResult'
           /\ rows[i].state \in {"distilled", "failed"} => rows'[i].state = rows[i].state
  <1>. DEFINE P == PhaseOf(rows[i].state)
             Q == PhaseOf(rows'[i].state)
  <1>1. rows[i].state \in States /\ rows'[i].state \in States
    BY DEF IInv, TypeOK, Row
  <1>2. Phase[i] = P /\ Phase'[i] = Q
    BY DEF Phase
  <1>3. (P # "absent" => Q # "absent") /\ (P \in {"distilled", "failed"} => Q = P)
        /\ (results[i] # NoResult => results'[i] # NoResult)
    <2>1. CASE UNCHANGED <<Phase, results>>
      BY <1>2, <2>1
    <2>2. ASSUME NEW j \in Items,
                 \/ Lifecycle!Ingest(j) \/ Lifecycle!StoreResult(j)
                 \/ Lifecycle!Complete(j) \/ Lifecycle!Exhaust(j)
          PROVE  /\ P # "absent" => Q # "absent"
                 /\ P \in {"distilled", "failed"} => Q = P
                 /\ results[i] # NoResult => results'[i] # NoResult
      <3>1. Phase \in [Items -> {"absent", "pending", "distilled", "failed"}]
        BY DEF IInv, TypeOK, Row, States, Phase, PhaseOf
      <3>2. results \in [Items -> Nat]
        BY DEF IInv, TypeOK
      <3>3. CASE Lifecycle!StoreResult(j)
        BY <1>2, <3>1, <3>2, <3>3 DEF Lifecycle!StoreResult
      <3>4. CASE Lifecycle!Ingest(j) \/ Lifecycle!Complete(j) \/ Lifecycle!Exhaust(j)
        <4>1. UNCHANGED results
          BY <3>4 DEF Lifecycle!Ingest, Lifecycle!Complete, Lifecycle!Exhaust
        <4>2. CASE i # j
          BY <1>2, <3>1, <3>4, <4>1, <4>2
          DEF Lifecycle!Ingest, Lifecycle!Complete, Lifecycle!Exhaust
        <4>3. CASE i = j
          BY <1>2, <3>1, <3>4, <4>1, <4>3
          DEF Lifecycle!Ingest, Lifecycle!Complete, Lifecycle!Exhaust
        <4>. QED
          BY <4>2, <4>3
      <3>. QED
        BY <2>2, <3>3, <3>4
    <2>. QED
      BY <2>1, <2>2, NextRefines DEF Lifecycle!Next, Lifecycle!lifeVars
  <1>. QED
    BY <1>1, <1>3 DEF PhaseOf, States, Present, WithResult

\* What the step adds is fetched, or stored, last; no row changes its place.
LEMMA TablesGrow ==
    ASSUME IInv, IInv', ApiTypeOK, PipelineStep
    PROVE  /\ Lists(fetched', Present') /\ Lists(stored', WithResult')
           /\ Present \subseteq Present' /\ WithResult \subseteq WithResult'
           /\ \A k \in DOMAIN fetched : k \in DOMAIN fetched' /\ fetched'[k] = fetched[k]
           /\ \A k \in DOMAIN stored : k \in DOMAIN stored' /\ stored'[k] = stored[k]
  <1>1. Present \subseteq Present' /\ WithResult \subseteq WithResult'
    BY LedgerMovesOn DEF PipelineStep, Present, WithResult
  <1>2. Present' \subseteq Items /\ WithResult' \subseteq Items
    BY DEF Present, WithResult
  <1>4. Lists(fetched, Present) /\ Lists(stored, WithResult)
    BY DEF ApiTypeOK
  <1>5. IsFiniteSet(Present') /\ IsFiniteSet(WithResult')
    BY <1>2, TablesAssumption, FS_Subset
  <1>6. /\ \E arrived \in Orders(Present' \ Present) : fetched' = fetched \o arrived
        /\ \E completed \in Orders(WithResult' \ WithResult) : stored' = stored \o completed
    BY DEF PipelineStep
  <1>7. /\ Lists(fetched', Present')
        /\ \A k \in DOMAIN fetched : k \in DOMAIN fetched' /\ fetched'[k] = fetched[k]
    BY <1>1, <1>4, <1>5, <1>6, TableGrows, Zenon
  <1>8. /\ Lists(stored', WithResult')
        /\ \A k \in DOMAIN stored : k \in DOMAIN stored' /\ stored'[k] = stored[k]
    BY <1>1, <1>4, <1>5, <1>6, TableGrows, Zenon
  <1>. QED
    BY <1>1, <1>7, <1>8

\* A distilled item has a result, so a count of the distilled is a count of results.
LEMMA DistilledCounted ==
    ASSUME IInv
    PROVE  /\ \A i \in Items : rows[i].state = "distilled" => i \in WithResult
           /\ Cardinality(InState(rows, "distilled")) \in Nat
           /\ Cardinality(WithResult) \in Nat
           /\ Cardinality(InState(rows, "distilled")) <= Cardinality(WithResult)
  <1>1. \A i \in Items : rows[i].state = "distilled" => i \in WithResult
    BY DEF IInv, LedgerConsistent, DistilledHasResult, WithResult
  <1>2. DOMAIN rows = Items
    BY DEF IInv, TypeOK
  <1>3. InState(rows, "distilled") \subseteq WithResult /\ WithResult \subseteq Items
    BY <1>1, <1>2 DEF InState, WithResult
  <1>4. IsFiniteSet(WithResult)
    BY <1>3, TablesAssumption, FS_Subset
  <1>. QED
    BY <1>1, <1>3, <1>4, FS_Subset, FS_CardinalityType

\* What a WHERE selects is a finite set of rows, of different items.
LEMMA SelectedRows ==
    ASSUME ApiTypeOK, NEW kind, NEW filter
    PROVE  /\ Selected(kind, filter) \subseteq DOMAIN Table(kind)
           /\ Selected(kind, filter) \in SUBSET Nat /\ IsFiniteSet(Selected(kind, filter))
           /\ \A M \in SUBSET Selected(kind, filter) :
                /\ ItemsAt(kind, M) \subseteq Items
                /\ Cardinality(ItemsAt(kind, M)) = Cardinality(M)
  <1>1. PICK S \in SUBSET Items : Lists(Table(kind), S)
    BY DEF ApiTypeOK, Table, Present, WithResult
  <1>2. Selected(kind, filter) \subseteq DOMAIN Table(kind)
    BY DEF Selected
  <1>3. Selected(kind, filter) \in SUBSET Nat /\ IsFiniteSet(Selected(kind, filter))
    BY <1>1, <1>2, ListedOnce
  <1>4. ASSUME NEW M \in SUBSET Selected(kind, filter)
        PROVE  ItemsAt(kind, M) \subseteq Items /\ Cardinality(ItemsAt(kind, M)) = Cardinality(M)
    <2>1. M \in SUBSET DOMAIN Table(kind)
      BY <1>2
    <2>2. {Table(kind)[k] : k \in M} \subseteq S
          /\ Cardinality({Table(kind)[k] : k \in M}) = Cardinality(M)
      BY <1>1, <2>1, ListedOnce
    <2>. QED
      BY <2>2 DEF ItemsAt
  <1>. QED
    BY <1>2, <1>3, <1>4

-------------------------------------------------------------------------------
(***************************************************************************)
(* ReadsInv is inductive.                                                  *)
(***************************************************************************)

\* A request with a kind has the fields of that kind.
LEMMA RequestKinds ==
    ASSUME ApiTypeOK
    PROVE  /\ request.kind = "stats" => request \in StatsRequest
           /\ request.kind \in ListKinds => request \in PagesRequest
  BY DEF ApiTypeOK, NoRequest, StatsRequest, PagesRequest, ListKinds

\* The queries of the API change nothing but the request.
LEMMA ReadsChangeNothing ==
    ASSUME Api
    PROVE  Reads
  BY DEF Api, AskStats, CountItems, CountStates, CountDistillations, AskItems, AskDistillations,
     Ask, CountSelected, ListPage, ReadSummaries, NextPage, Done

LEMMA PipelineInvStays == IInv /\ [ApiNext]_apiVars => IInv'
  <1>. SUFFICES ASSUME IInv, [ApiNext]_apiVars PROVE IInv'
    OBVIOUS
  <1>1. [Next]_vars
    BY ReadsChangeNothing DEF ApiNext, apiVars, PipelineStep, Reads, vars
  <1>. QED
    BY <1>1, NextIInv

\* While only the request changes, what it reads stays as it is.
LEMMA ReadsFrame ==
    ASSUME Reads
    PROVE  /\ Present' = Present /\ WithResult' = WithResult
           /\ TypeOK => TypeOK'
           /\ (Lists(fetched, Present) => Lists(fetched', Present'))
           /\ (Lists(stored, WithResult) => Lists(stored', WithResult'))
  BY DEF Reads, Present, WithResult, TypeOK

\* A page that is listed fits the type of a request.
LEMMA ListedType ==
    ASSUME ApiTypeOK, NEW positions, positions \subseteq SelectedNow
    PROVE  LET listed == [i \in ItemsAt(request.kind, positions) |-> rows[i].state]
           IN  /\ listed \in UNION {[S -> States] : S \in SUBSET Items}
               /\ DOMAIN listed = ItemsAt(request.kind, positions)
               /\ \A i \in DOMAIN listed : listed[i] = rows[i].state
               /\ Cardinality(DOMAIN listed) = Cardinality(positions)
  <1>. DEFINE S == ItemsAt(request.kind, positions)
             listed == [i \in S |-> rows[i].state]
  <1>1. S \subseteq Items /\ Cardinality(S) = Cardinality(positions)
    BY SelectedRows DEF SelectedNow
  <1>. HIDE DEF S
  <1>2. ASSUME NEW i \in S PROVE rows[i].state \in States
    BY <1>1 DEF ApiTypeOK, TypeOK, Row
  <1>3. listed \in [S -> States]
    BY <1>2
  <1>. QED
    BY <1>1, <1>3 DEF S

LEMMA NextApiTypes == IInv /\ ApiTypeOK /\ [ApiNext]_apiVars => ApiTypeOK'
  <1>. SUFFICES ASSUME IInv, ApiTypeOK, [ApiNext]_apiVars PROVE ApiTypeOK'
    OBVIOUS
  <1>1. IInv' /\ TypeOK'
    BY PipelineInvStays DEF IInv
  <1>2. CASE PipelineStep
    <2>1. request' \in {NoRequest} \union StatsRequest \union PagesRequest
      BY <1>2 DEF PipelineStep, ApiTypeOK
    <2>. QED
      BY <1>1, <1>2, <2>1, TablesGrow DEF ApiTypeOK
  <1>3. CASE Api
    <2>1. Lists(fetched', Present') /\ Lists(stored', WithResult')
      BY <1>3, ReadsChangeNothing, ReadsFrame DEF ApiTypeOK
    <2>2. request' \in {NoRequest} \union StatsRequest \union PagesRequest
      <3>1. CASE AskStats
        <4>1. request' \in StatsRequest
          BY <3>1 DEF AskStats, StatsRequest, StatsQueries
        <4>. QED
          BY <4>1
      <3>2. CASE CountItems
        <4>1. Len(fetched) \in Nat
          BY LenProperties DEF ApiTypeOK, Lists
        <4>2. request' \in StatsRequest
          BY <3>2, <4>1, RequestKinds DEF CountItems, Runs, StatsRequest, StatsQueries
        <4>. QED
          BY <4>2
      <3>3. CASE CountStates
        <4>1. ASSUME NEW s \in States PROVE Cardinality(InState(rows, s)) \in Nat
          <5>1. InState(rows, s) \subseteq Items
            BY DEF InState, IInv, TypeOK
          <5>. QED
            BY <5>1, TablesAssumption, FS_Subset, FS_CardinalityType
        <4>2. [s \in States |-> Cardinality(InState(rows, s))] \in [States -> Nat]
          BY <4>1
        <4>3. request' \in StatsRequest
          BY <3>3, <4>2, RequestKinds DEF CountStates, Runs, StatsRequest, StatsQueries
        <4>. QED
          BY <4>3
      <3>4. CASE CountDistillations
        <4>1. request' \in StatsRequest
          BY <3>4, RequestKinds, DistilledCounted
          DEF CountDistillations, Runs, StatsRequest, StatsQueries
        <4>. QED
          BY <4>1
      <3>5. ASSUME NEW kind \in ListKinds, NEW filter \in Filters \union {"all"}, Ask(kind, filter)
            PROVE  request' \in PagesRequest
        <4>1. ItemsAt(kind, Selected(kind, filter)) \subseteq Items
          BY SelectedRows
        <4>2. <<>> \in UNION {[S -> States] : S \in SUBSET Items}
          <5>1. <<>> \in [{} -> States]
            OBVIOUS
          <5>. QED
            BY <5>1
        <4>3. Queries(kind).ask = "count"
          BY DEF Queries, ItemsQueries, DistillationsQueries
        <4>. DEFINE due == ItemsAt(kind, Selected(kind, filter))
                   listed == <<>>
        <4>4. request' = [kind |-> kind, next |-> "count", filter |-> filter, page |-> 1,
                   total |-> 0, listed |-> listed, summaries |-> {}, due |-> due, seen |-> {}]
          BY <3>5, <4>3 DEF Ask
        <4>. HIDE DEF due, listed
        <4>. QED
          BY <4>1, <4>2, <4>4 DEF PagesRequest, ListKinds, due, listed
      <3>6. CASE CountSelected
        <4>1. request \in PagesRequest /\ request.kind \in ListKinds
          BY <3>6, RequestKinds DEF CountSelected, Runs, ListKinds
        <4>2. Cardinality(SelectedNow) \in Nat
          BY SelectedRows, FS_CardinalityType DEF SelectedNow
        <4>3. Queries(request.kind).count = "page"
          BY DEF Queries, ItemsQueries, DistillationsQueries
        <4>4. request' \in PagesRequest
          BY <3>6, <4>1, <4>2, <4>3 DEF CountSelected, PagesRequest
        <4>. QED
          BY <4>4
      <3>7. CASE ListPage
        <4>. DEFINE page == OffsetLimit(SelectedNow, Offset(request.page), PageSize)
                   listed == [i \in ItemsAt(request.kind, page) |-> rows[i].state]
        <4>1. request \in PagesRequest
          BY <3>7, RequestKinds DEF ListPage, Runs, ListKinds
        <4>2. listed \in UNION {[S -> States] : S \in SUBSET Items}
          <5>1. page \subseteq SelectedNow
            BY DEF OffsetLimit
          <5>. QED
            BY <5>1, ListedType
        <4>3. Queries(request.kind).page \in {"summaries", "answer"}
          BY DEF Queries, ItemsQueries, DistillationsQueries
        <4>4. request' = [request EXCEPT !.next = Queries(request.kind).page, !.listed = listed]
          BY <3>7 DEF ListPage
        <4>. HIDE DEF page, listed
        <4>5. request' \in PagesRequest
          BY <4>1, <4>2, <4>3, <4>4 DEF PagesRequest
        <4>. QED
          BY <4>5
      <3>8. CASE ReadSummaries
        <4>1. request \in PagesRequest
          BY <3>8, RequestKinds DEF ReadSummaries, Runs, ListKinds
        <4>2. DOMAIN request.listed \intersect WithResult \subseteq Items
          BY DEF WithResult
        <4>3. request' \in PagesRequest
          BY <3>8, <4>1, <4>2 DEF ReadSummaries, PagesRequest, Queries, ItemsQueries
        <4>. QED
          BY <4>3
      <3>9. CASE NextPage
        <4>1. request \in PagesRequest
          BY <3>9, RequestKinds DEF NextPage, PageAnswered, Runs, ListKinds
        <4>. DEFINE none == <<>>
                   number == request.page + 1
                   seen == request.seen \union DOMAIN request.listed
        <4>2. none \in UNION {[S -> States] : S \in SUBSET Items}
          <5>1. <<>> \in [{} -> States]
            OBVIOUS
          <5>. QED
            BY <5>1
        <4>3. seen \subseteq Items /\ number \in Nat \ {0}
          BY <4>1 DEF PagesRequest
        <4>4. Queries(request.kind).ask = "count"
          BY DEF Queries, ItemsQueries, DistillationsQueries
        <4>5. request' = [request EXCEPT !.next = "count", !.page = number, !.total = 0,
                                         !.listed = none, !.summaries = {}, !.seen = seen]
          BY <3>9, <4>4 DEF NextPage
        <4>. HIDE DEF none, number, seen
        <4>6. request' \in PagesRequest
          BY <4>1, <4>2, <4>3, <4>5 DEF PagesRequest
        <4>. QED
          BY <4>6
      <3>10. CASE Done
        BY <3>10 DEF Done
      <3>. QED
        BY <1>3, <3>1, <3>2, <3>3, <3>4, <3>5, <3>6, <3>7, <3>8, <3>9, <3>10
        DEF Api, AskItems, AskDistillations, ListKinds
    <2>. QED
      BY <1>1, <2>1, <2>2 DEF ApiTypeOK
  <1>4. CASE UNCHANGED apiVars
    BY <1>1, <1>4 DEF apiVars, ApiTypeOK, Present, WithResult
  <1>. QED
    BY <1>2, <1>3, <1>4 DEF ApiNext

\* The answers of a request in step with the ledger.  Only CountStates, CountDistillations,
\* ListPage and ReadSummaries write what the two invariants speak of.
LEMMA NextStatsInStep ==
    IInv /\ ApiTypeOK /\ StatsInStep /\ [ApiNext]_apiVars => StatsInStep'
  <1>. SUFFICES ASSUME IInv, ApiTypeOK, StatsInStep, [ApiNext]_apiVars PROVE StatsInStep'
    OBVIOUS
  <1>1. Cardinality(WithResult) \in Nat /\ Cardinality(WithResult') \in Nat
    <2>1. WithResult \subseteq Items /\ WithResult' \subseteq Items
      BY DEF WithResult
    <2>. QED
      BY <2>1, TablesAssumption, FS_Subset, FS_CardinalityType
  <1>2. CASE PipelineStep
    <2>1. WithResult \subseteq WithResult' /\ IsFiniteSet(WithResult')
      <3>1. WithResult \subseteq WithResult'
        BY <1>2, PipelineInvStays, TablesGrow
      <3>2. WithResult' \subseteq Items
        BY DEF WithResult
      <3>. QED
        BY <3>1, <3>2, TablesAssumption, FS_Subset
    <2>2. Cardinality(WithResult) <= Cardinality(WithResult')
      BY <2>1, FS_Subset
    <2>3. request' = request
      BY <1>2 DEF PipelineStep
    <2>4. ASSUME Runs({"stats"}, "distillations")
          PROVE  request.states["distilled"] \in Nat
      <3>1. request \in StatsRequest
        BY <2>4, RequestKinds DEF Runs
      <3>. QED
        BY <3>1 DEF StatsRequest, States
    <2>. QED
      BY <1>1, <2>2, <2>3, <2>4 DEF StatsInStep, StatsAnswered, Runs
  <1>3. CASE CountStates
    <2>1. request \in StatsRequest /\ WithResult' = WithResult
      BY <1>3, RequestKinds DEF CountStates, Runs, Reads, WithResult
    <2>2. request'.next = "distillations"
          /\ request'.states["distilled"] = Cardinality(InState(rows, "distilled"))
      BY <1>3, <2>1 DEF CountStates, StatsQueries, StatsRequest, States
    <2>. QED
      BY <2>1, <2>2, DistilledCounted DEF StatsInStep, StatsAnswered, Runs
  <1>4. CASE CountDistillations
    <2>1. request \in StatsRequest
      BY <1>4, RequestKinds DEF CountDistillations, Runs
    <2>2. request'.next = "answer" /\ request'.states = request.states
          /\ request'.results = Cardinality(WithResult)
      BY <1>4, <2>1 DEF CountDistillations, StatsQueries, StatsRequest
    <2>. QED
      BY <1>4, <2>2 DEF CountDistillations, StatsInStep, StatsAnswered, Runs
  <1>5. CASE AskStats \/ CountItems
    <2>1. request'.next \in {"items", "states"}
      <3>1. CASE AskStats
        BY <3>1 DEF AskStats, StatsQueries
      <3>2. CASE CountItems
        <4>1. request \in StatsRequest
          BY <3>2, RequestKinds DEF CountItems, Runs
        <4>. QED
          BY <3>2, <4>1 DEF CountItems, StatsQueries, StatsRequest
      <3>. QED
        BY <1>5, <3>1, <3>2
    <2>. QED
      BY <2>1 DEF StatsInStep, StatsAnswered, Runs
  <1>6. ASSUME NEW kind \in ListKinds, NEW filter, Ask(kind, filter) PROVE StatsInStep'
    BY <1>6 DEF Ask, ListKinds, StatsInStep, StatsAnswered, Runs
  <1>7. CASE CountSelected \/ ListPage \/ ReadSummaries \/ NextPage
    <2>1. request \in PagesRequest
      BY <1>7, RequestKinds DEF CountSelected, ListPage, ReadSummaries, NextPage, PageAnswered, Runs,
         ListKinds
    <2>2. request'.kind = request.kind
      BY <1>7, <2>1 DEF CountSelected, ListPage, ReadSummaries, NextPage, PagesRequest
    <2>. QED
      BY <2>1, <2>2 DEF PagesRequest, StatsInStep, StatsAnswered, Runs
  <1>8. CASE Done
    BY <1>8 DEF Done, NoRequest, StatsInStep, StatsAnswered, Runs
  <1>9. CASE UNCHANGED apiVars
    BY <1>9 DEF apiVars, StatsInStep, StatsAnswered, Runs, WithResult
  <1>. QED
    BY <1>2, <1>3, <1>4, <1>5, <1>6, <1>7, <1>8, <1>9
    DEF ApiNext, Api, AskItems, AskDistillations, ListKinds

LEMMA NextSummariesInStep ==
    IInv /\ ApiTypeOK /\ SummariesInStep /\ [ApiNext]_apiVars => SummariesInStep'
  <1>. SUFFICES ASSUME IInv, ApiTypeOK, SummariesInStep, [ApiNext]_apiVars PROVE SummariesInStep'
    OBVIOUS
  <1>1. ASSUME request'.next \notin {"summaries", "answer"} \/ request'.kind # "items"
        PROVE  SummariesInStep'
    BY <1>1 DEF SummariesInStep, ListedDistilledHasSummary, PageAnswered, Runs
  <1>2. CASE PipelineStep
    <2>1. WithResult \subseteq WithResult' /\ request' = request
      BY <1>2, PipelineInvStays, TablesGrow DEF PipelineStep
    <2>. QED
      BY <2>1 DEF SummariesInStep, ListedDistilledHasSummary, PageAnswered, Runs
  <1>3. CASE AskStats \/ Done
    BY <1>1, <1>3 DEF AskStats, Done, NoRequest
  <1>4. CASE CountItems \/ CountStates \/ CountDistillations
    <2>1. request \in StatsRequest
      BY <1>4, RequestKinds DEF CountItems, CountStates, CountDistillations, Runs
    <2>2. request'.kind = "stats"
      BY <1>4, <2>1 DEF CountItems, CountStates, CountDistillations, StatsRequest
    <2>. QED
      BY <1>1, <2>2
  <1>5. ASSUME NEW kind, NEW filter, Ask(kind, filter) PROVE SummariesInStep'
    BY <1>1, <1>5 DEF Ask, Queries, ItemsQueries, DistillationsQueries
  <1>6. CASE CountSelected \/ NextPage
    <2>1. request \in PagesRequest
      BY <1>6, RequestKinds DEF CountSelected, NextPage, PageAnswered, Runs, ListKinds
    <2>2. request'.next \in {"page", "count"}
      BY <1>6, <2>1
      DEF CountSelected, NextPage, PagesRequest, Queries, ItemsQueries, DistillationsQueries
    <2>. QED
      BY <1>1, <2>2
  <1>7. CASE ListPage
    <2>. DEFINE page == OffsetLimit(SelectedNow, Offset(request.page), PageSize)
               listed == [i \in ItemsAt(request.kind, page) |-> rows[i].state]
    <2>1. request \in PagesRequest
      BY <1>7, RequestKinds DEF ListPage, Runs, ListKinds
    <2>2. page \subseteq SelectedNow
      BY DEF OffsetLimit
    <2>3. DOMAIN listed \subseteq Items /\ \A i \in DOMAIN listed : listed[i] = rows[i].state
      BY <2>2, ListedType, SelectedRows DEF SelectedNow
    <2>4. request' = [request EXCEPT !.next = Queries(request.kind).page, !.listed = listed]
      BY <1>7 DEF ListPage
    <2>. HIDE DEF page, listed
    <2>5. request'.listed = listed /\ request'.kind = request.kind
          /\ (request.kind = "items" => request'.next = "summaries")
      BY <2>1, <2>4 DEF PagesRequest, Queries, ItemsQueries
    <2>6. WithResult' = WithResult
      BY <1>7, ReadsFrame DEF ListPage
    <2>7. \A i \in DOMAIN listed : listed[i] = "distilled" => i \in WithResult
      BY <2>3, DistilledCounted
    <2>. QED
      BY <2>5, <2>6, <2>7 DEF SummariesInStep, ListedDistilledHasSummary, PageAnswered, Runs
  <1>8. CASE ReadSummaries
    <2>1. request \in PagesRequest
      BY <1>8, RequestKinds DEF ReadSummaries, Runs, ListKinds
    <2>2. request'.next = "answer" /\ request'.listed = request.listed
          /\ request'.summaries = DOMAIN request.listed \intersect WithResult
      BY <1>8, <2>1 DEF ReadSummaries, PagesRequest, Queries, ItemsQueries
    <2>. QED
      BY <1>8, <2>2
      DEF ReadSummaries, SummariesInStep, ListedDistilledHasSummary, PageAnswered, Runs
  <1>9. CASE UNCHANGED apiVars
    BY <1>9
    DEF apiVars, SummariesInStep, ListedDistilledHasSummary, PageAnswered, Runs, WithResult
  <1>. QED
    BY <1>2, <1>3, <1>4, <1>5, <1>6, <1>7, <1>8, <1>9
    DEF ApiNext, Api, AskItems, AskDistillations

\* Before the first request, and after every step.
LEMMA InitReadsInv == ApiInit => ReadsInv
  <1>. SUFFICES ASSUME ApiInit PROVE ReadsInv
    OBVIOUS
  <1>1. IInv /\ TypeOK
    BY InitIInv DEF ApiInit, IInv
  <1>2. Lists(fetched, Present)
    <2>1. IsFiniteSet(Present)
      BY TablesAssumption, FS_Subset DEF Present
    <2>. QED
      BY <2>1, OrdersList DEF ApiInit
  <1>3. Lists(stored, WithResult)
    <2>1. WithResult = {} /\ stored = <<>>
      BY DEF ApiInit, Init, WithResult
    <2>2. <<>> \in Seq(WithResult) /\ DOMAIN <<>> = {}
      BY EmptySeq, LenProperties
    <2>. QED
      BY <2>1, <2>2 DEF Lists, IsInjective, Range
  <1>4. request = NoRequest
    BY DEF ApiInit
  <1>5. StatsInStep /\ SummariesInStep
    BY <1>4
    DEF NoRequest, StatsInStep, StatsAnswered, SummariesInStep, ListedDistilledHasSummary,
        PageAnswered, Runs
  <1>. QED
    BY <1>1, <1>2, <1>3, <1>4, <1>5 DEF ReadsInv, ApiTypeOK

LEMMA NextReadsInv == ReadsInv /\ [ApiNext]_apiVars => ReadsInv'
  BY PipelineInvStays, NextApiTypes, NextStatsInStep, NextSummariesInStep DEF ReadsInv

\* The invariant holds throughout, whatever the client asks for.
THEOREM ReadsInvAlways == ApiSpec => []ReadsInv
  BY InitReadsInv, NextReadsInv, PTL DEF ApiSpec

\* The tables list every row and every result once, and a request keeps its types.
THEOREM ApiTypes == ApiSpec => []ApiTypeOK
  <1>1. ReadsInv => ApiTypeOK
    BY DEF ReadsInv
  <1>. QED
    BY <1>1, ReadsInvAlways, PTL

\* The statistics never show more distilled items than distillations, whatever the
\* workers commit between the three queries.
THEOREM StatisticsAgree == ApiSpec => []StatsAgree
  <1>1. ReadsInv => StatsAgree
    BY DEF ReadsInv, StatsInStep, StatsAgree
  <1>. QED
    BY <1>1, ReadsInvAlways, PTL

\* An item that is listed as distilled comes with its response.
THEOREM DistilledComesWithSummary == ApiSpec => []ListedDistilledHasSummary
  <1>1. ReadsInv => ListedDistilledHasSummary
    BY DEF ReadsInv, SummariesInStep
  <1>. QED
    BY <1>1, ReadsInvAlways, PTL

-------------------------------------------------------------------------------
(***************************************************************************)
(* PagesInv is inductive when what a filter selects never leaves.  A       *)
(* filter for new items, say, loses them to submission while it is paged   *)
(* through.                                                                *)
(***************************************************************************)
LastingFilters == {"all", "distilled", "failed"}

\* What was selected is selected again, in the same place, with no fewer newer rows.
LEMMA SelectionGrows ==
    ASSUME IInv, IInv', ApiTypeOK, PipelineStep, Filters \subseteq LastingFilters,
           request.kind \in ListKinds
    PROVE  /\ SelectedNow \subseteq SelectedNow' /\ IsFiniteSet(SelectedNow')
           /\ \A k \in SelectedNow : Table(request.kind)'[k] = Table(request.kind)[k]
  <1>1. request' = request /\ [Next]_vars
    BY DEF PipelineStep
  <1>2. request.filter \in LastingFilters
    BY RequestKinds DEF PagesRequest, LastingFilters
  <1>3. PICK S \in SUBSET Items : Lists(Table(request.kind), S)
    BY DEF ApiTypeOK, Table, Present, WithResult
  <1>4. ASSUME NEW k \in DOMAIN Table(request.kind)
        PROVE  k \in DOMAIN Table(request.kind)' /\ Table(request.kind)'[k] = Table(request.kind)[k]
    BY <1>1, <1>4, TablesGrow DEF Table
  <1>5. ASSUME NEW k \in SelectedNow PROVE k \in SelectedNow'
    <2>. DEFINE i == Table(request.kind)[k]
    <2>1. k \in DOMAIN Table(request.kind) /\ request.filter \in {"all", rows[i].state}
      BY DEF SelectedNow, Selected
    <2>2. i \in Items
      BY <1>3, <2>1 DEF Lists, Range
    <2>3. rows[i].state \in {"distilled", "failed"} => rows'[i].state = rows[i].state
      BY <1>1, <2>2, LedgerMovesOn
    <2>. HIDE DEF i
    <2>4. request.filter \in {"all", rows'[i].state}
      BY <1>2, <2>1, <2>3 DEF LastingFilters
    <2>5. k \in DOMAIN Table(request.kind)' /\ Table(request.kind)'[k] = i
      BY <1>4, <2>1 DEF i
    <2>. QED
      BY <1>1, <2>4, <2>5 DEF SelectedNow, Selected
  <1>6. IsFiniteSet(SelectedNow')
    <2>1. Lists(fetched', Present') /\ Lists(stored', WithResult')
      BY TablesGrow
    <2>2. SelectedNow' \subseteq DOMAIN Table(request.kind)'
      BY <1>1 DEF SelectedNow, Selected
    <2>3. \E T : Lists(Table(request.kind)', T)
      BY <1>1, <2>1 DEF Table
    <2>. QED
      BY <2>2, <2>3, ListedOnce
  <1>7. SelectedNow \subseteq DOMAIN Table(request.kind)
    BY DEF SelectedNow, Selected
  <1>. QED
    BY <1>4, <1>5, <1>6, <1>7

\* So an item that waits goes on waiting, pushed to later pages if anything.
LEMMA WaitsOn ==
    ASSUME NEW table, NEW table2, NEW selected, NEW selected2,
           selected \subseteq selected2, IsFiniteSet(selected2),
           \A k \in selected : table2[k] = table[k],
           NEW i, NEW offset \in Nat, Waits(table, selected, i, offset)
    PROVE  Waits(table2, selected2, i, offset)
  <1>1. PICK k \in selected : table[k] = i /\ Cardinality(Newer(selected, k)) >= offset
    BY DEF Waits
  <1>2. IsFiniteSet(selected)
    BY FS_Subset
  <1>3. Cardinality(Newer(selected2, k)) >= offset
    BY <1>1, <1>2, RankGrows, RankType
  <1>. QED
    BY <1>1, <1>3 DEF Waits

\* What SelectedNow depends on.
LEMMA SelectionFrame ==
    ASSUME Reads, request'.kind = request.kind, request'.filter = request.filter
    PROVE  SelectedNow' = SelectedNow /\ Table(request.kind)' = Table(request.kind)
  BY DEF Reads, SelectedNow, Selected, Table

\* The workers add to the pages and move them back.
LEMMA PipelineKeepsPages ==
    ASSUME PagesInv, ReadsInv', PipelineStep, Filters \subseteq LastingFilters
    PROVE  CountInStep' /\ WalkInStep'
  <1>1. IInv /\ IInv' /\ ApiTypeOK /\ request' = request
    BY DEF PagesInv, ReadsInv, PipelineStep
  <1>2. CASE request.kind \notin ListKinds
    BY <1>1, <1>2 DEF CountInStep, WalkInStep, PagesAreFull, PageAnswered, Runs, ListKinds
  <1>3. CASE request.kind \in ListKinds
    <2>1. /\ SelectedNow \subseteq SelectedNow' /\ IsFiniteSet(SelectedNow')
          /\ \A k \in SelectedNow : Table(request.kind)'[k] = Table(request.kind)[k]
      BY <1>1, <1>3, SelectionGrows
    <2>2. request \in PagesRequest /\ request.total \in Nat /\ request.page \in Nat \ {0}
      BY <1>1, <1>3, RequestKinds DEF PagesRequest
    <2>3. Offset(request.page) \in Nat /\ Offset(request.page) + PageSize \in Nat
      BY <2>2, PageOffsets, PageSizeAssumption
    <2>4. Runs(ListKinds, "page") => request.total <= Cardinality(SelectedNow')
      <3>1. Cardinality(SelectedNow) <= Cardinality(SelectedNow')
        BY <2>1, FS_Subset
      <3>2. Cardinality(SelectedNow) \in Nat /\ Cardinality(SelectedNow') \in Nat
        BY <2>1, FS_Subset, FS_CardinalityType
      <3>. QED
        BY <2>2, <3>1, <3>2 DEF PagesInv, CountInStep
    <2>5. CountInStep'
      BY <1>1, <2>4 DEF PagesInv, CountInStep, PageIsLong, PagesAreFull, PageAnswered, Runs
    <2>6. ASSUME NEW i, NEW offset \in Nat, Waits(Table(request.kind), SelectedNow, i, offset)
          PROVE  Waits(Table(request.kind)', SelectedNow', i, offset)
      BY <2>1, <2>6, WaitsOn, Zenon
    <2>7. Runs(ListKinds, "count") \/ Runs(ListKinds, "page") =>
            \A i \in request.due \ request.seen :
               Waits(Table(request.kind)', SelectedNow', i, Offset(request.page))
      BY <2>3, <2>6 DEF PagesInv, WalkInStep
    <2>8. Runs(ListKinds, "summaries") \/ PageAnswered =>
            \A i \in request.due \ (request.seen \union DOMAIN request.listed) :
               /\ DOMAIN request.listed # {}
               /\ Waits(Table(request.kind)', SelectedNow', i, Offset(request.page) + PageSize)
      BY <2>3, <2>6 DEF PagesInv, WalkInStep
    <2>9. WalkInStep'
      BY <1>1, <2>7, <2>8 DEF WalkInStep, Runs, PageAnswered
    <2>. QED
      BY <2>5, <2>9
  <1>. QED
    BY <1>2, <1>3

\* A page takes the items that wait at its offset, as many as fit, and those that do
\* not fit wait at the next one.
LEMMA ListPageKeepsPages ==
    ASSUME PagesInv, ListPage
    PROVE  CountInStep' /\ WalkInStep'
  <1>. DEFINE offset == Offset(request.page)
             page == OffsetLimit(SelectedNow, offset, PageSize)
             listed == [i \in ItemsAt(request.kind, page) |-> rows[i].state]
  <1>1. request \in PagesRequest /\ ApiTypeOK
    BY RequestKinds DEF ListPage, Runs, ListKinds, PagesInv, ReadsInv
  <1>2. request.total \in Nat /\ offset \in Nat /\ PageSize \in Nat \ {0}
    BY <1>1, PageOffsets, PageSizeAssumption DEF PagesRequest
  <1>3. SelectedNow \in SUBSET Nat /\ IsFiniteSet(SelectedNow) /\ Cardinality(SelectedNow) \in Nat
    BY <1>1, SelectedRows, FS_CardinalityType DEF SelectedNow
  <1>4. /\ page \subseteq SelectedNow /\ IsFiniteSet(page)
        /\ Cardinality(page) = PageSize \/ offset + Cardinality(page) >= Cardinality(SelectedNow)
    BY <1>2, <1>3, PageLength
  <1>5. /\ DOMAIN listed = ItemsAt(request.kind, page)
        /\ Cardinality(DOMAIN listed) = Cardinality(page)
    BY <1>1, <1>4, ListedType
  <1>6. request' = [request EXCEPT !.next = Queries(request.kind).page, !.listed = listed] /\ Reads
    BY DEF ListPage
  <1>. HIDE DEF listed, page, offset
  <1>7. /\ request'.listed = listed /\ request'.kind = request.kind /\ request'.page = request.page
        /\ request'.filter = request.filter /\ request'.total = request.total
        /\ request'.due = request.due /\ request'.seen = request.seen
        /\ request'.next \in {"summaries", "answer"}
    BY <1>1, <1>6 DEF PagesRequest, Queries, ItemsQueries, DistillationsQueries
  <1>8. SelectedNow' = SelectedNow /\ Table(request.kind)' = Table(request.kind)
    BY <1>6, <1>7, SelectionFrame
  <1>9. PageIsLong'
    <2>1. request.total <= Cardinality(SelectedNow)
      BY DEF PagesInv, CountInStep, ListPage, Runs, ListKinds
    <2>2. Cardinality(page) \in Nat
      BY <1>4, FS_CardinalityType
    <2>3. Cardinality(DOMAIN listed) = PageSize \/ offset + Cardinality(DOMAIN listed) >= request.total
      BY <1>2, <1>3, <1>4, <1>5, <2>1, <2>2
    <2>. QED
      BY <1>7, <2>3 DEF PageIsLong, offset
  <1>10. CountInStep'
    BY <1>7, <1>9 DEF CountInStep, PageIsLong, PagesAreFull, Runs
  <1>11. ASSUME NEW i \in request.due, i \notin request.seen, i \notin DOMAIN listed
         PROVE  DOMAIN listed # {} /\ Waits(Table(request.kind), SelectedNow, i, offset + PageSize)
    <2>1. Waits(Table(request.kind), SelectedNow, i, offset)
      BY <1>11 DEF PagesInv, WalkInStep, ListPage, Runs, ListKinds, offset
    <2>2. PICK k \in SelectedNow :
            Table(request.kind)[k] = i /\ Cardinality(Newer(SelectedNow, k)) >= offset
      BY <2>1 DEF Waits
    <2>3. k \notin page
      BY <1>5, <1>11, <2>2 DEF ItemsAt
    <2>4. Cardinality(Newer(SelectedNow, k)) \in Nat
          /\ Cardinality(Newer(SelectedNow, k)) < Cardinality(SelectedNow)
      BY <1>3, RankType, RankBound
    <2>5. Cardinality(Newer(SelectedNow, k)) >= offset + PageSize
      BY <1>2, <2>2, <2>3, <2>4 DEF page, OffsetLimit
    <2>6. PICK first \in SelectedNow : Cardinality(Newer(SelectedNow, first)) = offset
      <3>1. offset \in 0..(Cardinality(SelectedNow) - 1)
        BY <1>2, <1>3, <2>2, <2>4
      <3>. QED
        BY <1>3, <3>1, RanksAreAll
    <2>7. first \in page
      BY <1>2, <2>6 DEF page, OffsetLimit
    <2>8. DOMAIN listed # {}
      BY <1>5, <2>7 DEF ItemsAt
    <2>. QED
      BY <2>2, <2>5, <2>8 DEF Waits
  <1>12. WalkInStep'
    BY <1>7, <1>8, <1>11 DEF WalkInStep, Runs, offset
  <1>. QED
    BY <1>10, <1>12


\* The rows are counted and listed with the same filter; what waited goes on waiting.
LEMMA CountSelectedKeepsPages ==
    ASSUME PagesInv, CountSelected
    PROVE  CountInStep' /\ WalkInStep'
  <1>. DEFINE total == Cardinality(SelectedNow)
  <1>1. request \in PagesRequest /\ ApiTypeOK /\ request.kind \in ListKinds
    BY RequestKinds DEF CountSelected, Runs, ListKinds, PagesInv, ReadsInv
  <1>2. total \in Nat
    BY <1>1, SelectedRows, FS_CardinalityType DEF SelectedNow
  <1>3. /\ request' = [request EXCEPT !.next = Queries(request.kind).count, !.total = total]
        /\ Reads
    BY DEF CountSelected
  <1>. HIDE DEF total
  <1>4. /\ request'.kind = request.kind /\ request'.page = request.page
        /\ request'.filter = request.filter /\ request'.total = total
        /\ request'.due = request.due /\ request'.seen = request.seen
        /\ request'.next = "page"
    BY <1>1, <1>3 DEF PagesRequest, Queries, ItemsQueries, DistillationsQueries
  <1>5. SelectedNow' = SelectedNow /\ Table(request.kind)' = Table(request.kind)
    BY <1>3, <1>4, SelectionFrame
  <1>6. CountInStep'
    BY <1>2, <1>4, <1>5 DEF CountInStep, PagesAreFull, PageAnswered, Runs, total
  <1>7. \A i \in request.due \ request.seen :
           Waits(Table(request.kind), SelectedNow, i, Offset(request.page))
    BY DEF PagesInv, WalkInStep, CountSelected, Runs, ListKinds
  <1>8. WalkInStep'
    BY <1>4, <1>5, <1>7 DEF WalkInStep, PageAnswered, Runs
  <1>. QED
    BY <1>6, <1>8

\* The summaries change nothing in the page.
LEMMA ReadSummariesKeepsPages ==
    ASSUME PagesInv, ReadSummaries
    PROVE  CountInStep' /\ WalkInStep'
  <1>. DEFINE summaries == DOMAIN request.listed \intersect WithResult
  <1>1. request \in PagesRequest /\ ApiTypeOK /\ Runs(ListKinds, "summaries")
    BY RequestKinds DEF ReadSummaries, Runs, ListKinds, PagesInv, ReadsInv
  <1>2. /\ request' = [request EXCEPT !.next = Queries("items").summaries, !.summaries = summaries]
        /\ Reads
    BY DEF ReadSummaries
  <1>. HIDE DEF summaries
  <1>3. /\ request'.kind = request.kind /\ request'.page = request.page
        /\ request'.filter = request.filter /\ request'.total = request.total
        /\ request'.listed = request.listed
        /\ request'.due = request.due /\ request'.seen = request.seen
        /\ request'.next = "answer"
    BY <1>1, <1>2 DEF PagesRequest, Queries, ItemsQueries
  <1>4. SelectedNow' = SelectedNow /\ Table(request.kind)' = Table(request.kind)
    BY <1>2, <1>3, SelectionFrame
  <1>5. CountInStep'
    <2>1. PageIsLong
      BY <1>1 DEF PagesInv, CountInStep
    <2>. QED
      BY <1>3, <2>1 DEF CountInStep, PageIsLong, PagesAreFull, Runs
  <1>6. \A i \in request.due \ (request.seen \union DOMAIN request.listed) :
           /\ DOMAIN request.listed # {}
           /\ Waits(Table(request.kind), SelectedNow, i, Offset(request.page) + PageSize)
    BY <1>1 DEF PagesInv, WalkInStep
  <1>7. WalkInStep'
    BY <1>3, <1>4, <1>6 DEF WalkInStep, Runs
  <1>. QED
    BY <1>5, <1>7

\* The next page starts where this one ended.
LEMMA NextPageKeepsPages ==
    ASSUME PagesInv, NextPage
    PROVE  CountInStep' /\ WalkInStep'
  <1>. DEFINE page == request.page + 1
             seen == request.seen \union DOMAIN request.listed
  <1>1. request \in PagesRequest /\ PageAnswered
    BY RequestKinds DEF NextPage, PageAnswered, Runs, ListKinds, PagesInv, ReadsInv
  <1>2. Offset(page) = Offset(request.page) + PageSize
    BY <1>1, PageOffsets DEF PagesRequest
  <1>3. /\ request' = [request EXCEPT !.next = Queries(request.kind).ask, !.page = page,
                         !.total = 0, !.listed = <<>>, !.summaries = {}, !.seen = seen]
        /\ Reads
    BY DEF NextPage
  <1>. HIDE DEF page, seen
  <1>4. /\ request'.kind = request.kind /\ request'.page = page
        /\ request'.filter = request.filter
        /\ request'.due = request.due /\ request'.seen = seen
        /\ request'.next = "count"
    BY <1>1, <1>3 DEF PagesRequest, Queries, ItemsQueries, DistillationsQueries
  <1>5. SelectedNow' = SelectedNow /\ Table(request.kind)' = Table(request.kind)
    BY <1>3, <1>4, SelectionFrame
  <1>6. CountInStep'
    BY <1>4 DEF CountInStep, PagesAreFull, PageAnswered, Runs
  <1>7. \A i \in request.due \ seen : Waits(Table(request.kind), SelectedNow, i, Offset(page))
    BY <1>1, <1>2 DEF PagesInv, WalkInStep, seen
  <1>8. WalkInStep'
    BY <1>4, <1>5, <1>7 DEF WalkInStep, PageAnswered, Runs
  <1>. QED
    BY <1>6, <1>8

\* When the client starts, what is due is what is selected.
LEMMA AskKeepsPages ==
    ASSUME PagesInv, NEW kind \in ListKinds, NEW filter \in Filters \union {"all"},
           Ask(kind, filter)
    PROVE  CountInStep' /\ WalkInStep'
  <1>. DEFINE due == ItemsAt(kind, Selected(kind, filter))
  <1>1. ApiTypeOK /\ Reads /\ kind \in {"items", "distillations"}
    BY DEF PagesInv, ReadsInv, Ask, ListKinds
  <1>2. /\ request'.kind = kind /\ request'.page = 1 /\ request'.filter = filter
        /\ request'.due = due /\ request'.seen = {} /\ request'.next = "count"
    BY <1>1 DEF Ask, Queries, ItemsQueries, DistillationsQueries
  <1>3. SelectedNow' = Selected(kind, filter) /\ Table(kind)' = Table(kind)
    BY <1>1, <1>2 DEF Reads, SelectedNow, Selected, Table
  <1>4. CountInStep'
    BY <1>2 DEF CountInStep, PagesAreFull, PageAnswered, Runs
  <1>5. ASSUME NEW i \in due
        PROVE  Waits(Table(kind), Selected(kind, filter), i, Offset(1))
    <2>1. PICK k \in Selected(kind, filter) : Table(kind)[k] = i
      BY DEF ItemsAt
    <2>2. IsFiniteSet(Selected(kind, filter))
      BY <1>1, SelectedRows
    <2>3. Cardinality(Newer(Selected(kind, filter), k)) >= Offset(1)
      BY <2>2, RankType, PageOffsets
    <2>. QED
      BY <2>1, <2>3 DEF Waits
  <1>. HIDE DEF due
  <1>6. WalkInStep'
    BY <1>2, <1>3, <1>5 DEF WalkInStep, PageAnswered, Runs
  <1>. QED
    BY <1>4, <1>6

\* No listing is under way, so there is nothing to keep.
LEMMA NoListingKeepsPages ==
    ASSUME request.kind \notin ListKinds
    PROVE  CountInStep /\ WalkInStep
  BY DEF CountInStep, WalkInStep, PagesAreFull, PageAnswered, Runs, ListKinds

\* Before the first request, and after every step.
LEMMA InitPagesInv == ApiInit => PagesInv
  <1>1. ApiInit => request.kind \notin ListKinds
    BY DEF ApiInit, NoRequest, ListKinds
  <1>. QED
    BY <1>1, InitReadsInv, NoListingKeepsPages DEF PagesInv

LEMMA NextPagesInv ==
    ASSUME Filters \subseteq LastingFilters
    PROVE  PagesInv /\ [ApiNext]_apiVars => PagesInv'
  <1>. SUFFICES ASSUME PagesInv, [ApiNext]_apiVars PROVE CountInStep' /\ WalkInStep'
    BY NextReadsInv DEF PagesInv
  <1>1. ReadsInv /\ ReadsInv'
    BY NextReadsInv DEF PagesInv
  <1>2. ASSUME request'.kind \notin ListKinds PROVE CountInStep' /\ WalkInStep'
    BY <1>2 DEF CountInStep, WalkInStep, PagesAreFull, PageAnswered, Runs, ListKinds
  <1>3. CASE PipelineStep
    BY <1>1, <1>3, PipelineKeepsPages
  <1>4. CASE AskStats \/ Done
    BY <1>2, <1>4 DEF AskStats, Done, NoRequest, ListKinds
  <1>5. CASE CountItems \/ CountStates \/ CountDistillations
    <2>1. request \in StatsRequest
      BY <1>1, <1>5, RequestKinds DEF CountItems, CountStates, CountDistillations, Runs, ReadsInv
    <2>2. request'.kind = "stats"
      BY <1>5, <2>1 DEF CountItems, CountStates, CountDistillations, StatsRequest
    <2>. QED
      BY <1>2, <2>2 DEF ListKinds
  <1>6. ASSUME NEW filter \in Filters, AskItems(filter) PROVE CountInStep' /\ WalkInStep'
    BY <1>6, AskKeepsPages DEF AskItems, ListKinds
  <1>7. CASE AskDistillations
    BY <1>7, AskKeepsPages DEF AskDistillations, ListKinds
  <1>8. CASE CountSelected
    BY <1>8, CountSelectedKeepsPages
  <1>9. CASE ListPage
    BY <1>9, ListPageKeepsPages
  <1>10. CASE ReadSummaries
    BY <1>10, ReadSummariesKeepsPages
  <1>11. CASE NextPage
    BY <1>11, NextPageKeepsPages
  <1>12. CASE UNCHANGED apiVars
    <2>1. /\ SelectedNow' = SelectedNow /\ Table(request.kind)' = Table(request.kind)
          /\ request' = request
      BY <1>12, SelectionFrame DEF apiVars, Reads
    <2>. QED
      BY <2>1
      DEF PagesInv, CountInStep, WalkInStep, PageIsLong, PagesAreFull, PageAnswered, Runs
  <1>. QED
    BY <1>3, <1>4, <1>5, <1>6, <1>7, <1>8, <1>9, <1>10, <1>11, <1>12 DEF ApiNext, Api

\* The invariant holds throughout, when the client only asks for what lasts.
THEOREM PagesInvAlways ==
    ASSUME Filters \subseteq LastingFilters
    PROVE  ApiSpec => []PagesInv
  BY InitPagesInv, NextPagesInv, PTL DEF ApiSpec

\* No page is shorter than the total that was counted before it promises, whatever the
\* workers commit between the count and the page.
THEOREM PagesAreAlwaysFull ==
    ASSUME Filters \subseteq LastingFilters
    PROVE  ApiSpec => []PagesAreFull
  <1>1. PagesInv => PagesAreFull
    BY DEF PagesInv, CountInStep
  <1>. QED
    BY <1>1, PagesInvAlways, PTL

\* Every item, or distillation, that matched when the client began has been on one of the
\* pages when the client comes to an empty one, whatever was added or marked meanwhile.
THEOREM WalksSkipNothing ==
    ASSUME Filters \subseteq LastingFilters
    PROVE  ApiSpec => []WalkSkipsNothing
  <1>1. PagesInv => WalkSkipsNothing
    <2>. SUFFICES ASSUME PagesInv, LastPage, NEW i \in request.due PROVE i \in request.seen
      BY DEF WalkSkipsNothing
    <2>1. PageAnswered /\ DOMAIN request.listed = {}
      BY DEF LastPage
    <2>. QED
      BY <2>1 DEF PagesInv, WalkInStep
  <1>. QED
    BY <1>1, PagesInvAlways, PTL

===============================================================================
