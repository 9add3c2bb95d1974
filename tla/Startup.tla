-------------------------------- MODULE Startup ---------------------------------
(***************************************************************************)
(* The container from `alembic upgrade head && supervisord` (Dockerfile)   *)
(* until its three programs run, over whatever database it finds, and      *)
(* every restart of it.                                                    *)
(*                                                                         *)
(* alembic/env.py first moves the service's tables that are still outside  *)
(* the schema reddit into it, in a transaction of its own, and then runs   *)
(* all revisions that are due in a second one; the workers check nothing   *)
(* of that.  Ownership is decided by the name of a table alone, and other  *)
(* services share the database.                                            *)
(*                                                                         *)
(* alembic, supervisord and PostgreSQL are external.  A table is its name  *)
(* and whose it is; of the columns only those a revision adds to           *)
(* reddit_items are kept.                                                  *)
(***************************************************************************)
EXTENDS Naturals, FiniteSets, Sequences

CONSTANTS
    Environments,  \* the configurations the container is started with
    SiblingTables, \* names that a sibling service may have given to tables of its own
    StartRetries,  \* startretries
    MaxFaults      \* bound: crashes, outages and kills

VARIABLES
    env,        \* the configuration of the container
    db,         \* what is committed: the tables by schema, the revision, the columns
    tx,         \* the same as the migrating transaction has it
    container,  \* how far the container has come
    program,    \* program[p]: the process of program p and what supervisord holds of it
    faults      \* crashes, outages and kills so far

vars == <<env, db, tx, container, program, faults>>

-------------------------------------------------------------------------------
(***************************************************************************)
(* Configuration.                                                          *)
(***************************************************************************)
Modes == {"auto", "praw", "scrape", "unknown"}

\* database: DATABASE_URL is set; parses: every typed variable has a value of its type,
\* else importing app.config raises; values: the URLs and post_max_chars make sense;
\* port: API_PORT is a number.
Environment ==
    [database : BOOLEAN, mode : Modes, oauth : BOOLEAN, parses : BOOLEAN,
     values : BOOLEAN, port : BOOLEAN]

ASSUME EnvironmentsAssumption == Environments \subseteq Environment /\ Environments # {}
ASSUME BoundsAssumption == StartRetries \in Nat /\ MaxFaults \in Nat

\* The problems a worker logs, as warnings, when it starts.
validate_config(e) ==
    {v \in {"DATABASE_URL", "REDDIT_SOURCE_MODE", "REDDIT_CLIENT", "values"} :
        \/ v = "DATABASE_URL" /\ ~e.database
        \/ v = "REDDIT_SOURCE_MODE" /\ e.mode = "unknown"
        \/ v = "REDDIT_CLIENT" /\ e.mode = "praw" /\ ~e.oauth
        \/ v = "values" /\ ~e.values}

build_reddit_source_RaisesInAuto(e) ==
    CASE e.mode \in {"praw", "auto"} -> IF e.oauth THEN "praw" ELSE "raises"
      [] e.mode = "scrape" -> "scrape"
      [] OTHER -> "raises"

\* Which source the ingest worker reads, if it gets one.
build_reddit_source(e) ==
    CASE e.mode = "praw" -> IF e.oauth THEN "praw" ELSE "raises"
      [] e.mode = "auto" -> IF e.oauth THEN "praw" ELSE "scrape"
      [] e.mode = "scrape" -> "scrape"
      [] OTHER -> "raises"

Programs == {"api", "ingest_worker", "process_worker"}

\* Whether the main of a program gets to its loop: get_engine raises without a URL, the
\* API connects when it is asked first.
Starts(p, e) ==
    /\ e.parses
    /\ p = "api" => e.port
    /\ p # "api" => e.database
    /\ p = "ingest_worker" => build_reddit_source(e) # "raises"

-------------------------------------------------------------------------------
(***************************************************************************)
(* The database.                                                           *)
(***************************************************************************)
VersionTable == "alembic_version_reddit"

Revision0001 == [creates |-> {"reddit_items", "llm_extractions", "emission_log", "ingest_cursor"},
                 adds |-> {}]
Revision0002 == [creates |-> {"cycle_runs"}, adds |-> {}]
Revision0003 == [creates |-> {"distillations"}, adds |-> {}]
Revision0004 == [creates |-> {}, adds |-> {"job_id", "distill_request"}]
Revision0005 == [creates |-> {}, adds |-> {"distill_attempts"}]

Revisions == <<Revision0001, Revision0002, Revision0003, Revision0004, Revision0005>>
HeadRevision == Len(Revisions)

PROJECT_TABLES == {VersionTable} \union UNION {Revisions[r].creates : r \in 1..HeadRevision}

CreatedBy(n) == UNION {Revisions[r].creates : r \in 1..n}
AddedBy(n) == UNION {Revisions[r].adds : r \in 1..n}

Database ==
    [reddit : [PROJECT_TABLES -> {"none", "ours", "theirs"}],
     public : [PROJECT_TABLES -> {"none", "ours", "theirs"}],
     revision : 0..HeadRevision,
     columns : SUBSET AddedBy(HeadRevision)]

\* A database that was migrated to revision n when the tables of the service were in
\* schema, and in which a sibling has the tables of others.
Deployed(n, schema, others) ==
    LET ours == IF n = 0 THEN {} ELSE CreatedBy(n) \union {VersionTable}
    IN  [reddit |-> [t \in PROJECT_TABLES |->
                       IF schema = "reddit" /\ t \in ours THEN "ours" ELSE "none"],
         public |-> [t \in PROJECT_TABLES |->
                       IF schema = "public" /\ t \in ours THEN "ours"
                       ELSE IF t \in others THEN "theirs" ELSE "none"],
         revision |-> n,
         columns |-> AddedBy(n)]

\* Where the search path finds a table the schema reddit does not have.
Outside(d, t) == d.reddit[t] = "none" /\ d.public[t] # "none"

Moved(d, tables) ==
    [d EXCEPT !.reddit = [t \in PROJECT_TABLES |-> IF t \in tables THEN d.public[t] ELSE @[t]],
              !.public = [t \in PROJECT_TABLES |-> IF t \in tables THEN "none" ELSE @[t]]]

_consolidate_into_schema_NotTheVersion(d) ==
    Moved(d, {t \in PROJECT_TABLES \ {VersionTable} : Outside(d, t)})

_consolidate_into_schema(d) == Moved(d, {t \in PROJECT_TABLES : Outside(d, t)})

\* alembic creates its version table if there is none, and then starts from the base.
\* (It would adopt a sibling's of the same name; SiblingTables has none.)
WithVersionTable(d) ==
    IF d.reddit[VersionTable] = "ours" THEN d
    ELSE [d EXCEPT !.reddit[VersionTable] = "ours", !.revision = 0]

\* CREATE TABLE and ADD COLUMN fail if there is one already.
Applies(r, d) ==
    /\ \A t \in Revisions[r].creates : d.reddit[t] = "none"
    /\ Revisions[r].adds \intersect d.columns = {}

Applied(r, d) ==
    [d EXCEPT !.reddit = [t \in PROJECT_TABLES |->
                            IF t \in Revisions[r].creates /\ @[t] = "none" THEN "ours" ELSE @[t]],
              !.columns = @ \union Revisions[r].adds,
              !.revision = r]

-------------------------------------------------------------------------------
(***************************************************************************)
(* States.                                                                 *)
(***************************************************************************)
Stopped == [sup |-> "STOPPED", at |-> "none", tries |-> 0]

\* Only a container that is up has processes, and only the migration has a transaction.
StartupTypeOK ==
    /\ env \in Environments
    /\ db \in Database /\ tx \in Database
    /\ container \in {"down", "consolidate", "migrate", "up"}
    /\ program \in [Programs ->
         [sup : {"STOPPED", "STARTING", "RUNNING", "BACKOFF", "EXITED", "FATAL"},
          at : {"none", "init", "loop"}, tries : 0..StartRetries]]
    /\ faults \in 0..MaxFaults
    /\ container # "migrate" => tx = db
    /\ container # "up" => \A p \in Programs : program[p] = Stopped
    /\ \A p \in Programs :
         program[p].at # "none" <=> program[p].sup \in {"STARTING", "RUNNING"}

Init ==
    /\ env \in Environments
    /\ \E n \in 0..HeadRevision, schema \in {"reddit", "public"}, others \in SUBSET SiblingTables :
         db = Deployed(n, schema, others)
    /\ tx = db
    /\ container = "down"
    /\ program = [p \in Programs |-> Stopped]
    /\ faults = 0

-------------------------------------------------------------------------------
(***************************************************************************)
(* alembic upgrade head.                                                   *)
(***************************************************************************)
Enter(step) == container' = step /\ UNCHANGED <<env, faults>>

\* Only a container that is down takes new values.
Reconfigure ==
    /\ container = "down"
    /\ env' \in Environments
    /\ UNCHANGED <<db, tx, container, program, faults>>

\* Without a URL alembic raises, and the container is down again.
StartContainer ==
    /\ container = "down"
    /\ env.database
    /\ Enter("consolidate")
    /\ UNCHANGED <<db, tx, program>>

\* run_migrations_online, the first transaction ...
Consolidate ==
    /\ container = "consolidate"
    /\ db' = _consolidate_into_schema(db)
    /\ tx' = WithVersionTable(db')
    /\ Enter("migrate")
    /\ UNCHANGED program

UpgradeTo_CommitsTables(r) ==
    /\ container = "migrate"
    /\ tx.revision = r - 1
    /\ Applies(r, tx)
    /\ tx' = Applied(r, tx)
    /\ db' = [tx' EXCEPT !.revision = db.revision]
    /\ UNCHANGED <<env, container, program, faults>>

\* ... and the second one, revision by revision ...
UpgradeTo(r) ==
    /\ container = "migrate"
    /\ tx.revision = r - 1
    /\ Applies(r, tx)
    /\ tx' = Applied(r, tx)
    /\ UNCHANGED <<env, db, container, program, faults>>

UpgradeFails_KeepsTheTransaction ==
    /\ container = "migrate"
    /\ tx.revision < HeadRevision
    /\ ~Applies(tx.revision + 1, tx)
    /\ Enter("down")
    /\ UNCHANGED <<db, tx, program>>

\* ... which is rolled back as a whole ...
UpgradeFails ==
    /\ container = "migrate"
    /\ tx.revision < HeadRevision
    /\ ~Applies(tx.revision + 1, tx)
    /\ tx' = db
    /\ Enter("down")
    /\ UNCHANGED <<db, program>>

\* ... or committed; supervisord takes over.
Commit ==
    /\ container = "migrate"
    /\ tx.revision = HeadRevision
    /\ db' = tx
    /\ Enter("up")
    /\ UNCHANGED <<tx, program>>

\* The database is away while alembic needs it, or the container is killed.
ContainerStops ==
    /\ container # "down"
    /\ faults < MaxFaults
    /\ faults' = faults + 1
    /\ container' = "down"
    /\ tx' = db
    /\ program' = [p \in Programs |-> Stopped]
    /\ UNCHANGED <<env, db>>

-------------------------------------------------------------------------------
(***************************************************************************)
(* supervisord.                                                            *)
(***************************************************************************)
Becomes(p, sup, at, tries) ==
    /\ program' = [program EXCEPT ![p] = [sup |-> sup, at |-> at, tries |-> tries]]
    /\ UNCHANGED <<env, db, tx, container>>

\* autostart, autorestart, and the retries of a program that did not stay up.
Spawn(p) ==
    /\ container = "up"
    /\ program[p].sup \in {"STOPPED", "EXITED", "BACKOFF"}
    /\ Becomes(p, "STARTING", "init", program[p].tries)
    /\ UNCHANGED faults

\* It has been up for startsecs, importing or at work.
StaysUp(p) ==
    /\ program[p].sup = "STARTING"
    /\ Becomes(p, "RUNNING", program[p].at, 0)
    /\ UNCHANGED faults

Ends(p) ==
    IF program[p].sup = "RUNNING" THEN Becomes(p, "EXITED", "none", 0)
    ELSE IF program[p].tries < StartRetries
         THEN Becomes(p, "BACKOFF", "none", program[p].tries + 1)
         ELSE Becomes(p, "FATAL", "none", program[p].tries)

\* main comes to its loop, or raises before.
main(p) ==
    /\ program[p].at = "init"
    /\ IF Starts(p, env) THEN Becomes(p, program[p].sup, "loop", program[p].tries) ELSE Ends(p)
    /\ UNCHANGED faults

Killed(p) ==
    /\ program[p].at # "none"
    /\ faults < MaxFaults
    /\ faults' = faults + 1
    /\ Ends(p)

-------------------------------------------------------------------------------
ContainerStep ==
    \/ StartContainer \/ Consolidate
    \/ \E r \in 1..HeadRevision : UpgradeTo(r)
    \/ UpgradeFails \/ Commit

ProgramStep(p) == Spawn(p) \/ StaysUp(p) \/ main(p)

Next ==
    \/ ContainerStep
    \/ \E p \in Programs : ProgramStep(p) \/ Killed(p)
    \/ Reconfigure \/ ContainerStops

Spec == Init /\ [][Next]_vars

\* The operator starts the container until it stays up, supervisord and what it runs go on.
FairSpec ==
    /\ Spec
    /\ WF_vars(ContainerStep)
    /\ \A p \in Programs : WF_vars(ProgramStep(p))

-------------------------------------------------------------------------------
(***************************************************************************)
(* Properties.                                                             *)
(***************************************************************************)
Own(d, t) == {schema \in {"reddit", "public"} : d[schema][t] = "ours"}

\* Wherever a start is interrupted, between the two transactions or within the second,
\* the tables and columns of the recorded revision are there, each table once: none is
\* lost, left behind or created anew.  And no program ever works on a schema that is not
\* all there or that has a sibling's table in the place of its own.
SchemaIsWhole ==
    /\ \A t \in CreatedBy(db.revision) : Cardinality(Own(db, t)) = 1
    /\ \A t \in CreatedBy(HeadRevision) \ CreatedBy(db.revision) : Own(db, t) = {}
    /\ db.columns = AddedBy(db.revision)
    /\ \A p \in Programs : program[p].at = "loop" =>
         db.revision = HeadRevision /\ \A t \in PROJECT_TABLES : Own(db, t) = {"reddit"}

\* validate_config only warns, and another function raises: supervisord still never gives
\* up on a worker for a configuration in which the worker has reported nothing.
FatalIsExplained ==
    \A p \in Programs \ {"api"} : program[p].sup = "FATAL" /\ env.parses =>
        validate_config(env) # {} \/ faults > StartRetries

\* From any database a deployment of this service can have left, moved or not, at any
\* revision and through failed starts, and with problems that are only warnings, all
\* three programs come to work, unless a sibling has a table with a name the service
\* has yet to create, or a program was killed in all its retries.
ServiceComesUp ==
    /\ <>[](\A p \in Programs : Starts(p, env)) /\ <>[](env.database)
    /\ [](\A t \in PROJECT_TABLES : db.public[t] = "theirs" => db.reddit[t] = "ours")
    => \A p \in Programs : <>[](program[p].at = "loop" \/ program[p].sup = "FATAL")
===============================================================================
