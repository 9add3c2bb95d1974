# quant_reddit in TLA+

quant_reddit ingests Reddit posts and comments into a PostgreSQL ledger, submits each
of them as a job to the external service quant_distill, polls the jobs and stores one
result per item. This directory models the parts of it in which several processes,
retries and crashes meet: the modules are checked with TLC on small instances, and their
safety properties are proved with TLAPS for every value of the constants.

## 1. Inventory

| Component | State it keeps | Operations | Model |
|---|---|---|---|
| Pipeline: `app/services/orchestrator.py` | in memory: the list a cycle fetched and the item it is at; the stop event | `run_ingest_cycle`, `_submit_new_items`, `_poll_submitted_items` | `Pipeline` |
| Worker loops: `orchestrator.py`, `ingest_worker.py`, `process_worker.py`, `supervisord.conf` | the position of each loop, `cycle_runs`, what supervisord is to keep running | `run_ingest_forever`, `run_process_forever`, signals, restarts | `WorkerLoop` |
| Ledger: `app/repository/postgres.py`, `schema.py` | `reddit_items`, `distillations`, `ingest_cursor`, `cycle_runs` | insert, state changes, failures, lists, cursors | `Ledger` (effects), `RowCalls` (calls), `RowTransactions` (statements) |
| Distillation client: `app/services/distill_client.py` | none between calls | `submit`, `get_job`, `_request` | `DistillClient` |
| Ingestion: `app/services/reddit_client.py` | in memory: the listing, the counters | two sources (`praw`, `scrape`), `ingest_once` | `Ingest` |
| Repair script: `scripts/requeue_distillations.py` | an open transaction | four repairs | `Maintenance`, the purge also in `RowTransactions` |
| Read API: `app/main.py`, `app/routes/` | none | health, stats, lists | `ApiReads` |
| Start-up: `Dockerfile`, `alembic/`, `app/config.py`, `app/db.py`, `supervisord.conf` | the schema, the revision, the programs | consolidation, migrations, `validate_config`, the three `main`s | `Startup` |
| `scripts/backfill_created_utc.py`, `scripts/test_reddit_scrape_dump.py` | none | one-time repair; diagnostics | not modelled |

**How they interact.** Starting the container migrates the schema and then starts the API and
the two workers. The workers are separate processes that never talk to each other; they share
the ledger. Every repository method is a transaction of its own, every HTTP call happens
between two transactions, and no UPDATE repeats the state its caller read: `set_item_state`,
`mark_item_submitted` and `record_distill_failure` match by fullname alone. The API reads
beside them, and an operator may run the repair script at any time.

**What is hard.** A worker acts on a list it read long before; a crash may fall between a POST
and the UPDATE that records it, or between storing a result and marking its item; a POST that
is repeated may create a second job; a job may be lost; both workers count failures against the
same limit; an exception throws the counters of a cycle away but not what the cycle did; a
signal may come at any point of a cycle; checks and writes of one method are several
statements; one failing post must not take its batch along; the repair script changes rows a
worker holds in memory; a start may be cut off between two migrating transactions.
PROJECT.json lists each of these at its line.

**What makes each component correct.**

- *Pipeline*: nothing a worker holds is stale; distilled implies stored, and stored for the job
  the row names; no item is submitted again while it is under way; failed means exactly that
  the attempts are used up; the jobs an item costs are bounded.
- *Loops*: a worker that is told to stop does so after its cycle, nothing else ends it for good,
  every item ends distilled or failed, and the run history never counts an item twice.
- *Repository*: whatever the statements of several callers do in between, a call takes effect at
  one instant, and none waits for ever.
- *Client*: a call returns, creates no more jobs than attempts, and reports a verdict only
  if the job has it.
- *Ingestion*: what is fetched is stored or counted, comments come with their post, failures
  only delay a post.
- *Read API*: what one answer says in different places agrees, and reading page after page
  misses nothing.
- *Repairs*: a result is deleted only together with its item's return to `new`, nothing stays
  distilled without a result, and an item's job is forgotten only with its state.
- *Start-up*: no table is lost or duplicated wherever a start is cut off, no program runs on a
  schema that is not its own, a worker never fails without a reported reason, and whatever can
  come up does.

## 2. Plan

Written: `Ledger` → `ItemLifecycle` → `Pipeline` → `PipelineProofs` → `DistillClient` →
`Ingest` → `Maintenance` → `ApiReads` → `WorkerLoop` → `RowCalls` → `RowTransactions` →
`Startup`.

Every safety and action property of a passing run, and both refinements, are theorems; what the
provers cannot reach is listed at the end of section 6. Left for later:

1. Rows that settle, as an action property: nothing leaves `distilled` or `failed` but a repair.
   `ApiReadsProofs` has it as a lemma (`LedgerMovesOn`).
2. That `Maintenance` with no repair begun implements `Pipeline`, so that its theorems can be
   cited instead of proved again for `Core`.

## 3. Modules

| Module | Models |
|---|---|
| `Ledger` | one row of `reddit_items` and what each transaction does to it, as operators |
| `ItemLifecycle` | the abstract specification: absent → pending → distilled or failed, one result |
| `Pipeline` | both workers, the ledger and quant_distill, one action per transaction or call |
| `WorkerLoop` | `Pipeline` inside the two loops: counters, heartbeat, `cycle_runs`, sleep, signals, supervisord |
| `RowCalls` | the abstract specification of the repository: calls that take effect at one instant |
| `RowTransactions` | the same calls statement by statement, with locks, foreign key and unique index |
| `DistillClient` | one `submit` or `get_job` call with its retry loop |
| `Ingest` | `ingest_once` over all subreddits, Reddit and the two sources |
| `Maintenance` | `Pipeline` with the repair script, one action per SQL statement |
| `ApiReads` | `Pipeline` with a client of the API, one action per SELECT |
| `Startup` | the container: consolidation, migrations, configuration, supervisord |
| `PipelineProofs`, `WorkerLoopProofs`, `RowTransactionsProofs`, `DistillClientProofs`, `IngestProofs`, `MaintenanceProofs`, `ApiReadsProofs`, `StartupProofs` | the theorems about the module each is named after |
| `MCRefused` | `Pipeline` with a history of the 422s, for the documented statement about them |
| `MCPipeline`, `MCIngest`, `MCMaintenance`, `MCStartup` | instances for TLC, and the documented statements the code does not keep |

`WorkerLoop`, `Maintenance` and `ApiReads` extend `Pipeline`, which extends `Ledger` and
instantiates `ItemLifecycle` with a refinement mapping. `RowTransactions` instantiates
`RowCalls`, and that is what lets all of them treat a repository method as one step.
`DistillClient` stands beside `Pipeline` and justifies its two submission actions
(`MatchesPipeline`). `Ingest` details what `Pipeline` reduces to `PersistItem`. `Startup` ends
where the others begin: with a schema at the last revision and programs in their loops.

**State and code.** In `Pipeline`, `rows[i]` is the row of item `i` (`process_state`,
`job_id`, `distill_attempts`; `distill_request` is always written with `job_id`),
`results[i]` the job whose response `distillations` holds, `jobs[i]` all jobs
quant_distill made for the item. `ingest` and `process` are the memories of the workers:
`todo` is the part of the fetched list that is left, `seen` the `job_id`s as they were
when it was fetched, `at` the call that comes next. Items are numbered in the order of
`ORDER BY created_utc, id`. Definitions that model quant_distill, Reddit, PostgreSQL, alembic,
supervisord and the network are external: they allow everything the code expects to meet.

In `WorkerLoop`, `loop[w]` is the place of a loop outside its cycle and its stop event,
`counted[w]` the counters of the result object, `recorded` the sums over all `cycle_runs` rows,
`wanted` what supervisord keeps running. The cycles are the actions of `Pipeline`, each with
what it counts.

In `RowTransactions`, `item` and `result` are committed, `draft` is the row as the transaction
of `writer` has it, `sharers` hold it by the foreign key of a result they insert, `storer` holds
the key in `distillations`. A client that returns may call again, so two clients are two
processes with any history. `RowCalls` is what callers may count on, including what only a purge
can do: a call then raises, or `record_distill_failure` settles a row it has not counted in,
because its UPDATE found no row and the row was inserted before its SELECT (`LateFail`).

In `Maintenance`, `beside` remembers whether a repair ever began while a worker was in a cycle,
or a worker took a step while a repair ran. The
promises that only hold with the workers stopped are stated for `~beside`; it says nothing to
the actions. In `ApiReads`, `fetched` and `stored` list the ledger and the results in the order
they were inserted, which is the order of `fetched_at, id` and `created_at, id` as long as the
clock does not step back, and `request` is the answer as far as it has been put together:
`next` is the query that runs next, and `StatsQueries`, `ItemsQueries` and
`DistillationsQueries` name the query after each, in the order of the code. What a WHERE selects
is a set of positions in `fetched` or `stored`; `ORDER BY ... DESC LIMIT n OFFSET m` takes those with
m to m + n - 1 newer ones. Filters by kind and subreddit select by what never changes and are
not told apart from none.

The workers can be killed at any point, so `AbortIngestCycle` and `AbortProcessCycle` of `Pipeline`
may also happen between two cycles, where they only count a fault.

In `Startup`, `db` is what is committed and `tx` what the migrating transaction sees; a table is
its name, its schema and whose it is. `program[p]` is what supervisord holds of a program and
whether its `main` has come to its loop.

**Conventions.** `Op_Something` is `Op` with a plausible mistake in it. It is not used by
the model; PROJECT.json names the property that notices it.

**What is abstracted.** The text of items, requests and responses (an item quant_distill
refuses, or that has no text, is in `Refused`; one whose results have no summary in
`EmptySummaries`); clock times, backoff and the length of sleeps; the parsing of pages, of
which only remains whether the page loads and which name a comment gets; logging; indexes and
column types. `ProcessState.skipped` is never written by the code and does not appear.

**Initial states.** The ledger may start with rows left by older versions: `submitting`
ones, which `requeue_submitting_items` exists for, and submitted ones without a job,
which the downgrade and upgrade of migration 0004 leaves and the `not item.job_id` branch
handles. Rows that an older version distilled or failed are left out: no worker takes them up
again. A failed one may carry the 0 attempts that migration 0005 gives every row, so
`FailedWhenExhausted` is a statement about the rows this version failed.
`Startup` begins with a database at any revision, its tables in either schema, with
or without tables of a sibling service in `public`.

## 4. Runs

Every bound is a constant. They are the smallest that let the cases below happen: two items
so that one can be ahead of another in a list, two attempts so that a failure can be one
that is retried or the last, two POSTs so that one can be repeated, one crash, at any step of
either worker. `MaxFaults`, `MaxAborts`, `MaxRepairs`, `MaxStops`, `MaxDeaths` and
`MaxComments` only bound the state space: they count events that nothing in the code counts.

| Run | Instance | Shows |
|---|---|---|
| `pipeline_safety` | 2 items, 2 attempts, 2 POSTs, both in one poll list, one job may be lost, 1 crash | no stale item; results, jobs and states agree; jobs are bounded; `IInv`; `ItemLifecycle` is implemented |
| `worker_loop` | 2 items, one refused, poll limit 1, 1 fault, 1 signal | items settle, loops go on or stop as told, the run history adds up |
| `row_transactions` | 2 clients, any calls, 1 death | `RowCalls` is implemented, no result without its item, no call waits for ever |
| `distill_client` | 3 attempts against any answer | the call returns, not before it has used its attempts, its outcome is true, it sends nothing after a refusal, and it leaves what `Pipeline` assumes |
| `ingest` | PRAW, a subreddit without posts and one with 3, listings of 2, 1 of 2 comments fetched, 1 abort | nothing dropped, no comment without its post, a post that stays listed is stored |
| `api_reads` | 2 items, pages of 1, no crash | statistics, summaries, totals and walks agree |
| `maintenance` | 1 item, 2 attempts, any one repair at any time, 1 crash | promises of the repairs with the workers stopped; items settle in any case |
| `startup` | 9 configurations, 6 revisions, 2 schemas, sibling tables, `startretries=3`, 4 faults | the schema stays whole, failures are explained, the service comes up |

Why these are enough. One attempt in `worker_loop` leaves the count of attempts to
`pipeline_safety`; what it adds is a poll list shorter than the backlog and everything around
the cycles. One item in `maintenance` is one a repair and a worker can fight over; with two
items, one attempt and no crash the three safety properties were checked once (222,000 states; the full
instance has tens of millions). Items meet only in the poll list, which `worker_loop` and
`pipeline_starvation` are about. Two clients in
`row_transactions` meet in every statement of every method; locks are held one at a time except
by `insert_distillation` and the purge, so a circle of waiters needs no third. Four faults in
`startup` are one more than the retries, so that a program can be killed until supervisord gives up;
of the nine configurations one has no fault and each other one has one.

Deadlock is not checked in `distill_client`, which ends when its call has returned, nor in
`startup`, which ends when everything runs or has failed for good. It is in every other run.

**Disagreements.** Four runs end with a counterexample to something the documentation, a
comment or a help text says:

| Run | What the code does |
|---|---|
| `pipeline_starvation` | items with lost jobs fill the poll list, later ones are never polled |
| `pipeline_refused` | what was answered 422 is sent again, unchanged, by the next cycle, and answered 422 again |
| `ingest_scraped_comments` | scraped comments are named by position; the later ones are dropped as duplicates |
| `maintenance_reset` | a reset under a running worker leaves an item distilled without a result |

The last one needs the process worker to be running during the repair: `DistilledIsStored`,
checked by `maintenance`, shows that stopping both workers first is enough.

Others were met while modelling and have no run of their own:

- A job that answers 404 is polled for ever and its item never fails
  (`orchestrator.py:145`), while `runbook.md:31` speaks of exhausted requests; the
  counterexample of `pipeline_starvation` starts this way.
- `orchestrator.py:42` documents a limit for submissions; `_submit_new_items` lists with
  `limit=None` (`:111`), and the constant limits the polls.
- `orchestrator.py:16` speaks of a per-cycle heartbeat; only the process worker writes one, and
  not in a cycle that raises.
- A cycle that raises is recorded with empty counters although it may have submitted or
  distilled items (`orchestrator.py:376`); `RunsAccountForWork` bounds the difference.
- `_request` repeats every 5xx (`distill_client.py:133`); `runbook.md:29-30` says 503 alone.
- While scraping, a page that never loads fails every listing of its subreddit
  (`reddit_client.py:317`): under `BrokenPages` the liveness property of `Ingest` fails.
- At READ COMMITTED the summary repair may delete a result that was stored after its SELECT
  (`requeue_distillations.py:177`); the item of that result is not requeued.
- With `process_state=new` or `submitted` a walk through the pages skips items that are
  there all the time, because others leave the selection (`Filters` with one of these
  violates `WalkSkipsNothing`). No document excludes it.
- `_consolidate_into_schema` takes a table for the service's own by its name (`env.py:74`). A
  sibling's `cycle_runs` in `public` is moved into the schema, and the `CREATE TABLE` of
  migration 0002 then fails on this and every later start; `ServiceComesUp` excludes it.
- Neither an empty `QUANT_REDDIT_SUBREDDITS` nor a bad `API_PORT` is reported by
  `validate_config`, and the container stays up when supervisord has given up on a worker.

## 5. Fairness

- *Workers* (weak fairness of the next step of each): supervisord restarts a worker that
  ends, the run loops catch every exception, every call has a timeout. In `WorkerLoop` that is
  spelled out: the loop goes on, a sleep ends, a worker in `wanted` is started again. Nobody is
  assumed to start a worker that was stopped.
- *`JobEnds`* (weak): quant_distill ends every job it runs. It is not assumed to keep them:
  items in `Forgettable` are exempt, and no run with liveness except `pipeline_starvation` has any.
- *`PollAnswered`* (strong): a job that has ended is polled infinitely often and not every
  one of these GETs fails. `PollAgainLater` covers both "still running" and "the call
  failed", so weak fairness would say nothing: the poll is not continuously enabled.
- No fairness for accepting submissions: items that are never accepted end failed.
- *`ListPosts`, `PersistPost`* (strong, per subreddit and post): a listing request or an
  INSERT that is tried again and again succeeds once. A page in `BrokenPages` never loads;
  there `ListPosts` is not enabled and fairness is silent.
- *`Client`, `Network`* (weak): a timeout ends every attempt.
- *Statements* (strong, per client, in `RowTransactions`): PostgreSQL grants a lock to whoever
  has waited longest, so a statement that can go on again and again does.
- *Repairs* (weak): a transaction that was begun commits or rolls back.
- *Start-up* (weak): the operator starts the container again until it stays up, and supervisord
  spawns and retries.

## 6. Proofs

Every module with a run of its own has a proof module. The theorems hold for every value of the
constants that the `ASSUME`s of the modules allow: any set of items (also an infinite one, where
nothing is counted), any attempt and poll limits, page sizes, feeds, configurations, and any
number of crashes, stops, deaths and repairs.

| Theorem | States | Proof module |
|---|---|---|
| `TypeCorrect`, `Inductive` | `Spec => []TypeOK`, `Spec => []IInv` | `PipelineProofs` |
| `DistilledSafe`, `ResultsKept`, `NoStaleItem`, `NewestJob`, `FailedExactly` | `DistilledHasResult`, `StoredResultIsKept`, `HeldItemsAreCurrent`, `TracksNewestJob`, `FailedWhenExhausted` | |
| `BoundedJobs` | `JobsAreBounded` | |
| `Refinement` | `Spec => ImplementsLifecycle` | |
| `LoopTypes`, `RunsAddUp` | `LoopTypeOK`, `RunsAccountForWork` | `WorkerLoopProofs` |
| `LoopsRunThePipeline`, `LoopsKeepTheLedger` | `LoopSpec => Spec`, and so `LoopSpec => []IInv` | |
| `RowTypesCorrect`, `ResultsHaveItems` | `RowTypeOK`, `ResultHasItem` | `RowTransactionsProofs` |
| `CallsAreAtomic` | `Spec => ImplementsCalls` | |
| `ClientTypes`, `SubmissionsMatchPipeline`, `VerdictsAreTrue`, `RefusalsEndCalls` | `TypeOK`, `MatchesPipeline`, `VerdictIsTrue`, `RefusalEndsTheCall` | `DistillClientProofs` |
| `IngestTypesCorrect`, `CommentsAfterPosts` | `TypeOK`, `CommentsHaveTheirPost`, for both sources | `IngestProofs` |
| `PrawDropsNothing`, `PostsAreNeverDropped` | `NothingIsDropped` for `praw`; its part about posts for both sources | |
| `RepairsKeepDistilled`, `RepairsKeepNewestJob`, `DeletionsAreRedone` | `DistilledIsStored`, `RepairsTrackNewestJob`, `DeletedResultsAreRedone` | `MaintenanceProofs` |
| `ApiTypes`, `StatisticsAgree`, `DistilledComesWithSummary` | `ApiTypeOK`, `StatsAgree`, `ListedDistilledHasSummary` | `ApiReadsProofs` |
| `PagesAreAlwaysFull`, `WalksSkipNothing` | `PagesAreFull`, `WalkSkipsNothing`, for filters that last | |
| `StartupTypes`, `SchemaStaysWhole`, `FatalExplained` | `StartupTypeOK`, `SchemaIsWhole`, `FatalIsExplained` | `StartupProofs` |

Hardly any safety property is inductive as it stands. What each needs, and why:

**`Pipeline`.** `DistilledHasResult` is not inductive: nothing in `set_item_state` looks for
the result. It holds because of where the worker stands, so `IInv` adds to the ledger's
consistency what each position says. `IngestInStep`: the items the ingest worker holds are
new, and before `mark_item_submitted` the id it has is that of the newest job.
`ProcessInStep`: the items the process worker holds are submitted under the job it saw; at
`finish` the result is stored, at `fail` it is not; at `store` the job has succeeded.
The two lists are disjoint because an item cannot be both new and submitted (`HeldApart`),
and that is what makes two workers without locks or conditional updates safe: each state
has one worker that may leave it. `ResultsComeFromEndedJobs` completes it: a stored result
comes from a job that has succeeded and cannot fail any more, so polling it again after a
crash cannot throw the item back. `LedgerByItem` turns the consistency of the ledger into a
statement about each item, `LedgerStep` and the frame lemmas say what a step must leave
alone, and one lemma per group of actions does the rest. The refinement maps each step to
the lifecycle action of the one item whose row or result it writes, or to a stutter.
`JobInv` keeps the account behind `JobsAreBounded`: every attempt the row has counted and every
crash pays for as many jobs as one submission may create, and only the submission under way
is still to be paid.

**`WorkerLoop`.** Every step of the loops is a step of `Pipeline` or leaves its variables alone,
if only the loops hold nothing between two cycles (`IdleBetween`, part of `LoopTypeOK`): that is
`LoopsRunThePipeline`, and with it the theorems about `Pipeline` hold around the cycles too.
`RunsInv` adds that a counter starts from zero with its cycle, that what a process cycle has
distilled and what it still holds make up no more than one poll list (`list_items_by_state` returns
at most `limit` items: `OldestBounded`), and that counters and records together keep pace
with the ledger; what an exception throws away is then bounded by the poll list.

**`RowTransactions`.** Each client's invariant (`ClientInv`) only depends on what is committed, on
the client and on the locks it holds: whoever holds the row's lock has computed `draft` from the
committed row (`Writes`), whoever holds the key of the result inserts one or deletes the one
there is (`Stores`), and an insert that refers to the row keeps it from being purged (`KeyHeld`). A step
of one client cannot disturb another (`Undisturbed`), so any number of clients costs one proof.
`CallsAreAtomic` maps every committing statement to the call of `RowCalls` at that instant
and every other one to a stutter.

**`DistillClient`.** `ClientInv` bounds the jobs by the attempts sent and says that an answer which
names an end was given after the job had come to it. `RefusalEndsTheCall` is inductive by itself:
while a request is out, `response` is still the last answer, and no step sends another one after a
refusal.

**`Ingest`.** `NothingIsDropped` needs that an INSERT that meets a row under its name meets its own
text: `NamesAreKept`, which a scraped comment's name does not give, and that is why the theorem
about comments has `Source = "praw"` as its hypothesis (`ingest_scraped_comments` shows the other
case). `DueIsHandled` then says of everything a call fetched that it is stored, counted, or
still ahead.

**`Maintenance`.** Under repairs `IInv` is false: a requeued item may keep an old result, a reset one
its attempts. `Core` is the part that survives if no worker is in a cycle, and `ScriptInStep` says
that a repair that has the tables to itself still finds at its last statement what it selected at its
first. Beside a running worker nothing but the types is claimed, and `maintenance_reset`
shows why.

**`ApiReads`.** The results and what is distilled or failed only grow (`LedgerMovesOn`, from the
refinement of the lifecycle), so what an earlier query saw bounds what a later one sees: `ReadsInv`.
For pages, `RanksAreAll` and `PageLength` say what LIMIT and OFFSET select from any finite table;
`PagesInv` says that whatever was due and has not been seen still waits at the offset of
the page to be read or behind it, which new rows only increase (`RankGrows`). It needs that no row
leaves the selection, so `PagesAreAlwaysFull` and `WalksSkipNothing` assume
`Filters \subseteq LastingFilters`: no filter, `distilled` or `failed`, as the run does. For
`new` and `submitted` the walk does skip items (section 4). `TablesAssumption` has the ledger
finite, since the API counts it.

**`Startup`.** `Whole` says what a revision means for the database, of the committed one and of the
one the open transaction sees, so that a start may be cut off anywhere; `RetriesInv` counts
kills against the retries of the programs that start in this configuration.

All of these invariants were checked with TLC on the instances of section 4 before they were
proved.

**Only model-checked.** Liveness, which the proof system does not handle here: `ItemsSettle`,
`StopIsHeeded`, `LoopsKeepGoing`, `CallReturns`, `CallsReturn`, `PostsAreStored`,
`SettlesThroughRepairs` and `ServiceComesUp`. The four runs that end with a counterexample have
nothing to prove.

## 7. Not modelled

- `/reddit/runs/recent`, the probes and the validation of request parameters, which change no
  state and answer from one query.
- `run_cycle` and `run_forever`: the same two cycles one after the other in one process, which
  no program calls; their behaviours are among those of `Pipeline`.
- Two workers of the same kind: supervisord starts one of each. (`RowTransactions` does not
  care who calls.)
- The order in which one statement locks several rows: a client of `RowTransactions` is about one
  item and its results, so a deadlock between two multi-row statements is outside it.
- A sibling's `alembic_version_reddit` in `public`, which alembic would adopt once it is moved:
  the `SiblingTables` of the run do not hold it.
- `upsert_cursor` statement by statement: each key has one writer, and nothing reads the post a
  cursor names.
- Purging cursors and the legacy tables: nothing reads them.
- `created_utc` and its backfill script, which only order lists; the scrape dump script, which
  does not touch the ledger.
- Indexes, column types, the offline mode of alembic and the downgrades, which nothing runs.
- How a page is parsed, and how long cycles take: submission takes the whole backlog in one
  cycle, and no document bounds it.
- `distill_max_attempts` below 1: `AttemptsAssumption` excludes it. An empty list of subreddits:
  `FeedsAssumption` does; `run_ingest_cycle` then ingests nothing.
