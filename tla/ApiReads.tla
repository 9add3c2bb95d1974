------------------------------- MODULE ApiReads --------------------------------
(***************************************************************************)
(* The read API while the workers run: GET /reddit/stats, GET              *)
(* /reddit/items/recent and GET /reddit/distillations/recent (app/routes/, *)
(* RedditRepository.stats, list_items, latest_distillation_summaries and   *)
(* list_distillations).                                                    *)
(*                                                                         *)
(* An answer is put together from several SELECTs.  At READ COMMITTED each *)
(* of them sees a snapshot of its own, and the workers commit in between,  *)
(* so what an answer says is as consistent as the order of its queries and *)
(* the order in which the workers write make it.                           *)
(*                                                                         *)
(* Items are listed newest first, by fetched_at and id, distillations by   *)
(* created_at and id: the reverse of the order in which the one ingest     *)
(* worker and the one process worker inserted them.  A client that wants   *)
(* all of them asks for page 1, 2, ... until a page is empty.  Requests    *)
(* share nothing, so one at a time is modelled.                            *)
(***************************************************************************)
EXTENDS Pipeline, Functions

CONSTANTS
    PageSize,  \* page_size of the client
    Filters    \* the values of process_state it asks for; "all" is none

ASSUME PageSizeAssumption == PageSize \in Nat \ {0}
ASSUME FiltersAssumption  == Filters \subseteq States \union {"all"}
ASSUME TablesAssumption   == IsFiniteSet(Items)

VARIABLES
    fetched,  \* the items in the ledger, ORDER BY fetched_at, id
    stored,   \* the items with a result, ORDER BY created_at, id of the result
    request   \* the request under way: the query it runs next and what the others returned

apiVars == <<rows, results, jobs, ingest, process, faults, fetched, stored, request>>

\* The query after a query: request.next is the one to run, "answer" when all have run.
StatsQueries_ResultsFirst ==
    [ask |-> "items", items |-> "distillations", distillations |-> "states", states |-> "answer"]
StatsQueries ==
    [ask |-> "items", items |-> "states", states |-> "distillations", distillations |-> "answer"]

ItemsQueries_CountLast ==
    [ask |-> "page", page |-> "count", count |-> "summaries", summaries |-> "answer"]
ItemsQueries ==
    [ask |-> "count", count |-> "page", page |-> "summaries", summaries |-> "answer"]
DistillationsQueries ==
    [ask |-> "count", count |-> "page", page |-> "answer"]
Queries(kind) == IF kind = "items" THEN ItemsQueries ELSE DistillationsQueries

NoRequest == [kind |-> "none", next |-> "answer"]

StatsRequest ==
    [kind : {"stats"}, next : {"items", "states", "distillations", "answer"},
     total : Nat, states : [States -> Nat], results : Nat]

\* listed, summaries: the page with the states it shows (of a page of distillations only
\* the items matter), and whose responses came with it; due, seen: what matched when the
\* client started, and what it was given by earlier pages (kept to state the properties).
PagesRequest ==
    [kind : {"items", "distillations"}, next : {"count", "page", "summaries", "answer"},
     filter : Filters \union {"all"}, page : Nat \ {0},
     total : Nat, listed : UNION {[S -> States] : S \in SUBSET Items}, summaries : SUBSET Items,
     due : SUBSET Items, seen : SUBSET Items]

Present == {i \in Items : rows[i].state # "absent"}
WithResult == {i \in Items : results[i] # NoResult}

\* order lists each member of S once.
Lists(order, S) == order \in Seq(S) /\ IsInjective(order) /\ Range(order) = S
Orders(S) == Bijection(1..Cardinality(S), S)

ApiTypeOK ==
    /\ TypeOK
    /\ Lists(fetched, Present)
    /\ Lists(stored, WithResult)
    /\ request \in {NoRequest} \union StatsRequest \union PagesRequest

ApiInit ==
    /\ Init
    /\ fetched \in Orders(Present)
    /\ stored = <<>>
    /\ request = NoRequest

\* Everything else in the system goes on; what a step adds is fetched, or stored, last.
PipelineStep ==
    /\ Next
    /\ \E arrived \in Orders(Present' \ Present) : fetched' = fetched \o arrived
    /\ \E completed \in Orders(WithResult' \ WithResult) : stored' = stored \o completed
    /\ UNCHANGED request

-------------------------------------------------------------------------------
(***************************************************************************)
(* A request runs its queries one after the other.                         *)
(***************************************************************************)
Runs(kinds, query) == request.kind \in kinds /\ request.next = query
Reads == UNCHANGED <<rows, results, jobs, ingest, process, faults, fetched, stored>>

AskStats ==
    /\ request = NoRequest
    /\ request' = [kind |-> "stats", next |-> StatsQueries.ask, total |-> 0,
                   states |-> [s \in States |-> 0], results |-> 0]
    /\ Reads

CountItems ==
    /\ Runs({"stats"}, "items")
    /\ request' = [request EXCEPT !.next = StatsQueries.items, !.total = Len(fetched)]
    /\ Reads

\* SELECT process_state, count(*) ... GROUP BY process_state
CountStates ==
    /\ Runs({"stats"}, "states")
    /\ request' = [request EXCEPT !.next = StatsQueries.states,
                     !.states = [s \in States |-> Cardinality(InState(rows, s))]]
    /\ Reads

CountDistillations ==
    /\ Runs({"stats"}, "distillations")
    /\ request' = [request EXCEPT !.next = StatsQueries.distillations,
                     !.results = Cardinality(WithResult)]
    /\ Reads

StatsAnswered == Runs({"stats"}, "answer")

\* What a listing reads, oldest first, and the positions its WHERE selects.
Table(kind) == IF kind = "items" THEN fetched ELSE stored
Selected(kind, filter) ==
    {k \in DOMAIN Table(kind) : filter \in {"all", rows[Table(kind)[k]].state}}
SelectedNow == Selected(request.kind, request.filter)
ItemsAt(kind, positions) == {Table(kind)[k] : k \in positions}

\* ORDER BY ... DESC LIMIT n OFFSET offset: the newest come first.
Newer(S, k) == {j \in S : j > k}
OffsetLimit(S, offset, n) == {k \in S : Cardinality(Newer(S, k)) \in offset..(offset + n - 1)}

Offset_FromOne(page) == page * PageSize
Offset(page) == (page - 1) * PageSize

Ask(kind, filter) ==
    /\ request = NoRequest
    /\ request' = [kind |-> kind, next |-> Queries(kind).ask, filter |-> filter, page |-> 1,
                   total |-> 0, listed |-> <<>>, summaries |-> {},
                   due |-> ItemsAt(kind, Selected(kind, filter)), seen |-> {}]
    /\ Reads

\* The client asks for the first page of items, with include_summary, or of
\* distillations.
AskItems(filter) == Ask("items", filter)
AskDistillations == Ask("distillations", "all")

CountSelected ==
    /\ Runs({"items", "distillations"}, "count")
    /\ request' = [request EXCEPT !.next = Queries(request.kind).count,
                                  !.total = Cardinality(SelectedNow)]
    /\ Reads

ListPage ==
    /\ Runs({"items", "distillations"}, "page")
    /\ LET page == OffsetLimit(SelectedNow, Offset(request.page), PageSize)
       IN  request' = [request EXCEPT !.next = Queries(request.kind).page,
                         !.listed = [i \in ItemsAt(request.kind, page) |-> rows[i].state]]
    /\ Reads

\* latest_distillation_summaries of the items on the page.
ReadSummaries ==
    /\ Runs({"items"}, "summaries")
    /\ request' = [request EXCEPT !.next = Queries("items").summaries,
                                  !.summaries = DOMAIN request.listed \intersect WithResult]
    /\ Reads

PageAnswered == Runs({"items", "distillations"}, "answer")
LastPage == PageAnswered /\ DOMAIN request.listed = {}

NextPage ==
    /\ PageAnswered /\ ~LastPage
    /\ request' = [request EXCEPT !.next = Queries(request.kind).ask, !.page = @ + 1, !.total = 0,
                     !.listed = <<>>, !.summaries = {}, !.seen = @ \union DOMAIN request.listed]
    /\ Reads

\* The statistics are delivered, or the client has come to an empty page.
Done ==
    /\ StatsAnswered \/ LastPage
    /\ request' = NoRequest
    /\ Reads

Api ==
    \/ AskStats \/ CountItems \/ CountStates \/ CountDistillations
    \/ \E filter \in Filters : AskItems(filter)
    \/ AskDistillations
    \/ CountSelected \/ ListPage \/ ReadSummaries \/ NextPage
    \/ Done

ApiNext == PipelineStep \/ Api

ApiSpec == ApiInit /\ [][ApiNext]_apiVars

-------------------------------------------------------------------------------
(***************************************************************************)
(* Properties.                                                             *)
(***************************************************************************)

\* stats counts the states before the distillations, and a result is stored before its
\* item is marked: whatever commits in between, an answer of /reddit/stats never shows
\* more distilled items than distillations.
StatsAgree ==
    StatsAnswered => request.states["distilled"] <= request.results

\* items_recent fetches the summaries in a later snapshot than the page, over another
\* connection: an item that is listed as distilled still comes with its response.
ListedDistilledHasSummary ==
    PageAnswered /\ request.kind = "items" =>
        \A i \in DOMAIN request.listed :
            request.listed[i] = "distilled" => i \in request.summaries

\* Both listings count before they select, and the results, and what a filter for all,
\* distilled or failed items selects, only grow: no page is shorter than the total sent
\* with it promises.
PagesAreFull ==
    PageAnswered =>
        LET size == Cardinality(DOMAIN request.listed)
        IN  size = PageSize \/ Offset(request.page) + size >= request.total

\* LIMIT and OFFSET are evaluated anew for every page while items arrive and change
\* state.  They only push what was there to later pages, so a client that reads until
\* a page is empty has been given every item, or distillation, that matched when it began.
WalkSkipsNothing ==
    LastPage => request.due \subseteq request.seen
===============================================================================
