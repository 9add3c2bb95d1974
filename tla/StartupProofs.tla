----------------------------- MODULE StartupProofs -----------------------------
(***************************************************************************)
(* Theorems about Startup, for any configurations, any tables of siblings, *)
(* startretries and number of faults.                                      *)
(***************************************************************************)
EXTENDS Startup, FiniteSetTheorems, TLAPS

-------------------------------------------------------------------------------
(***************************************************************************)
(* The inductive invariant.                                                *)
(***************************************************************************)
Ours(d, t) == d.reddit[t] = "ours" \/ d.public[t] = "ours"

\* The tables and columns of the recorded revision, each table in one schema; those that
\* are still in public have room in reddit.
Whole(d) ==
    /\ \A t \in PROJECT_TABLES \ {VersionTable} : Ours(d, t) <=> t \in CreatedBy(d.revision)
    /\ d.revision > 0 => Ours(d, VersionTable)
    /\ \A t \in PROJECT_TABLES : d.public[t] = "ours" => d.reddit[t] = "none"
    /\ d.columns = AddedBy(d.revision)

\* The first transaction of the migration has moved what there is to move ...
Placed(d) == \A t \in PROJECT_TABLES : d.public[t] # "ours"

SchemaInv ==
    /\ Whole(db) /\ Whole(tx)
    /\ container = "migrate" => Placed(tx) /\ tx.reddit[VersionTable] = "ours"
    \* ... and the programs run after the second one has reached the head.
    /\ container = "up" =>
         /\ Placed(db) /\ db.reddit[VersionTable] = "ours"
         /\ db.revision = HeadRevision

\* Only a kill ends a program that gets to its loop in this configuration.
RetriesInv ==
    \A p \in Programs : Starts(p, env) =>
        /\ program[p].tries <= faults
        /\ program[p].sup = "FATAL" => faults > StartRetries

StartInv == StartupTypeOK /\ SchemaInv /\ RetriesInv

-------------------------------------------------------------------------------
(***************************************************************************)
(* Revisions and databases.                                                *)
(***************************************************************************)
Tables == [PROJECT_TABLES -> {"none", "ours", "theirs"}]

\* The head is a revision.
LEMMA HeadType == HeadRevision \in Nat /\ HeadRevision = 5
  BY DEF HeadRevision, Revisions

\* The tables of the service are those its revisions create, and alembic's own.
LEMMA ProjectTables ==
    /\ VersionTable \in PROJECT_TABLES
    /\ CreatedBy(HeadRevision) = PROJECT_TABLES \ {VersionTable}
  <1>1. /\ Revisions[1] = Revision0001 /\ Revisions[2] = Revision0002
        /\ Revisions[3] = Revision0003 /\ Revisions[4] = Revision0004
        /\ Revisions[5] = Revision0005
    BY DEF Revisions
  <1>2. ASSUME NEW r \in 1..HeadRevision PROVE VersionTable \notin Revisions[r].creates
    <2>1. r \in {1, 2, 3, 4, 5}
      BY HeadType
    <2>. QED
      BY <1>1, <2>1
      DEF Revision0001, Revision0002, Revision0003, Revision0004, Revision0005, VersionTable
  <1>3. VersionTable \notin CreatedBy(HeadRevision)
    BY <1>2 DEF CreatedBy
  <1>. QED
    BY <1>3 DEF PROJECT_TABLES, CreatedBy

\* A revision adds its tables and columns to those before it.
LEMMA NextRevision ==
    ASSUME NEW r \in 1..HeadRevision
    PROVE  /\ CreatedBy(r) = CreatedBy(r - 1) \union Revisions[r].creates
           /\ AddedBy(r) = AddedBy(r - 1) \union Revisions[r].adds
           /\ Revisions[r].creates \subseteq PROJECT_TABLES \ {VersionTable}
           /\ AddedBy(r) \subseteq AddedBy(HeadRevision)
  <1>1. r \in Nat /\ HeadRevision \in Nat /\ 1..r = (1..(r - 1)) \union {r}
    BY HeadType
  <1>2. 1..r \subseteq 1..HeadRevision
    BY <1>1
  <1>3. Revisions[r].creates \subseteq CreatedBy(HeadRevision)
    BY DEF CreatedBy
  <1>4. CreatedBy(r) = CreatedBy(r - 1) \union Revisions[r].creates
    BY <1>1 DEF CreatedBy
  <1>5. AddedBy(r) = AddedBy(r - 1) \union Revisions[r].adds
    BY <1>1 DEF AddedBy
  <1>6. AddedBy(r) \subseteq AddedBy(HeadRevision)
    BY <1>2 DEF AddedBy
  <1>. QED
    BY <1>3, <1>4, <1>5, <1>6, ProjectTables

\* Before the first revision there is nothing.
LEMMA NoRevision == CreatedBy(0) = {} /\ AddedBy(0) = {}
  BY DEF CreatedBy, AddedBy

\* A table that is moved keeps its owner.
LEMMA MovedType ==
    ASSUME NEW d \in Database, NEW tables
    PROVE  LET m == Moved(d, tables) IN
           /\ m \in Database
           /\ m.revision = d.revision /\ m.columns = d.columns
           /\ \A t \in PROJECT_TABLES :
                /\ m.reddit[t] = IF t \in tables THEN d.public[t] ELSE d.reddit[t]
                /\ m.public[t] = IF t \in tables THEN "none" ELSE d.public[t]
  <1>1. [t \in PROJECT_TABLES |-> IF t \in tables THEN d.public[t] ELSE d.reddit[t]] \in Tables
    BY DEF Database, Tables
  <1>2. [t \in PROJECT_TABLES |-> IF t \in tables THEN "none" ELSE d.public[t]] \in Tables
    BY DEF Database, Tables
  <1>. QED
    BY <1>1, <1>2 DEF Moved, Database, Tables

\* The version table is alembic's.
LEMMA WithVersionTableType ==
    ASSUME NEW d \in Database
    PROVE  LET v == WithVersionTable(d) IN
           /\ v \in Database /\ v.columns = d.columns /\ v.public = d.public
           /\ v.reddit[VersionTable] = "ours"
           /\ \A t \in PROJECT_TABLES \ {VersionTable} : v.reddit[t] = d.reddit[t]
           /\ v.revision = IF d.reddit[VersionTable] = "ours" THEN d.revision ELSE 0
  <1>1. CASE d.reddit[VersionTable] = "ours"
    BY <1>1 DEF WithVersionTable
  <1>2. CASE d.reddit[VersionTable] # "ours"
    <2>. DEFINE reddit == [d.reddit EXCEPT ![VersionTable] = "ours"]
                v == [d EXCEPT !.reddit = reddit, !.revision = 0]
    <2>1. WithVersionTable(d) = v
      BY <1>2 DEF WithVersionTable
    <2>2. reddit \in Tables /\ reddit[VersionTable] = "ours"
          /\ \A t \in PROJECT_TABLES \ {VersionTable} : reddit[t] = d.reddit[t]
      BY ProjectTables DEF Database, Tables
    <2>3. 0 \in 0..HeadRevision
      BY HeadType
    <2>. HIDE DEF reddit
    <2>4. v \in Database /\ v.columns = d.columns /\ v.public = d.public
          /\ v.reddit = reddit /\ v.revision = 0
      BY <2>2, <2>3 DEF Database, Tables
    <2>. QED
      BY <1>2, <2>1, <2>2, <2>4
  <1>. QED
    BY <1>1, <1>2

\* A revision that applies creates its tables and adds its columns.
LEMMA AppliedType ==
    ASSUME NEW d \in Database, NEW r \in 1..HeadRevision, Applies(r, d)
    PROVE  LET a == Applied(r, d) IN
           /\ a \in Database /\ a.revision = r /\ a.public = d.public
           /\ a.columns = d.columns \union Revisions[r].adds
           /\ \A t \in PROJECT_TABLES :
                a.reddit[t] = IF t \in Revisions[r].creates THEN "ours" ELSE d.reddit[t]
  <1>. DEFINE reddit == [t \in PROJECT_TABLES |->
                           IF t \in Revisions[r].creates /\ d.reddit[t] = "none" THEN "ours"
                           ELSE d.reddit[t]]
              columns == d.columns \union Revisions[r].adds
  <1>1. reddit \in Tables
    BY DEF Database, Tables
  <1>2. columns \in SUBSET AddedBy(HeadRevision)
    BY NextRevision DEF Database
  <1>3. r \in 0..HeadRevision
    BY HeadType
  <1>4. Applied(r, d) = [d EXCEPT !.reddit = reddit, !.columns = columns, !.revision = r]
    BY DEF Applied
  <1>5. \A t \in PROJECT_TABLES :
          reddit[t] = IF t \in Revisions[r].creates THEN "ours" ELSE d.reddit[t]
    BY DEF Applies
  <1>. HIDE DEF reddit, columns
  <1>6. Applied(r, d) \in Database
    BY <1>1, <1>2, <1>3, <1>4 DEF Database, Tables
  <1>7. /\ Applied(r, d).revision = r /\ Applied(r, d).public = d.public
        /\ Applied(r, d).columns = columns /\ Applied(r, d).reddit = reddit
    BY <1>4 DEF Database
  <1>. QED
    BY <1>5, <1>6, <1>7 DEF columns

\* What a deployment of this service, or none, has left.
LEMMA DeployedType ==
    ASSUME NEW n \in 0..HeadRevision, NEW schema \in {"reddit", "public"}, NEW others
    PROVE  Deployed(n, schema, others) \in Database /\ Whole(Deployed(n, schema, others))
  <1>. DEFINE d == Deployed(n, schema, others)
              ours == IF n = 0 THEN {} ELSE CreatedBy(n) \union {VersionTable}
              reddit == [t \in PROJECT_TABLES |->
                           IF schema = "reddit" /\ t \in ours THEN "ours" ELSE "none"]
              public == [t \in PROJECT_TABLES |->
                           IF schema = "public" /\ t \in ours THEN "ours"
                           ELSE IF t \in others THEN "theirs" ELSE "none"]
  <1>1. d = [reddit |-> reddit, public |-> public, revision |-> n, columns |-> AddedBy(n)]
    BY DEF Deployed
  <1>2. AddedBy(n) \subseteq AddedBy(HeadRevision)
    BY NextRevision, NoRevision, HeadType DEF AddedBy
  <1>3. reddit \in Tables /\ public \in Tables
    BY DEF Tables
  <1>4. \A t \in PROJECT_TABLES :
          /\ reddit[t] = "ours" \/ public[t] = "ours" <=> t \in ours
          /\ public[t] = "ours" => reddit[t] = "none"
    OBVIOUS
  <1>5. /\ \A t \in PROJECT_TABLES \ {VersionTable} : t \in ours <=> t \in CreatedBy(n)
        /\ n > 0 => VersionTable \in ours
    BY NoRevision
  <1>. HIDE DEF d, ours, reddit, public
  <1>6. d \in Database
    BY <1>1, <1>2, <1>3 DEF Database, Tables
  <1>7. /\ d.reddit = reddit /\ d.public = public /\ d.revision = n
        /\ d.columns = AddedBy(n)
    BY <1>1
  <1>8. Whole(d)
    BY <1>4, <1>5, <1>7, ProjectTables DEF Whole, Ours
  <1>. QED
    BY <1>6, <1>8 DEF d

-------------------------------------------------------------------------------
(***************************************************************************)
(* The steps.                                                              *)
(***************************************************************************)
Supervised == {"STOPPED", "STARTING", "RUNNING", "BACKOFF", "EXITED", "FATAL"}

\* The invariant of the schema is about the database and the container.
LEMMA SchemaFrame ==
    ASSUME SchemaInv, UNCHANGED <<db, tx, container>> PROVE SchemaInv'
  BY DEF SchemaInv

\* A container that is not up has no processes.
LEMMA NoProcesses ==
    ASSUME StartupTypeOK, container # "up"
    PROVE  \A p \in Programs : program[p] = Stopped
  BY DEF StartupTypeOK

\* Any database of a deployment, and a container that is down.
LEMMA InitStartInv == Init => StartInv
  <1>. SUFFICES ASSUME Init PROVE StartInv
    OBVIOUS
  <1>1. db \in Database /\ Whole(db) /\ tx = db
    BY DeployedType DEF Init
  <1>2. \A p \in Programs : program[p] = Stopped
    BY DEF Init
  <1>3. StartupTypeOK
    BY <1>1, <1>2, BoundsAssumption DEF Init, StartupTypeOK, Stopped
  <1>. QED
    BY <1>1, <1>2, <1>3 DEF Init, StartInv, SchemaInv, RetriesInv, Stopped

\* What supervisord does to one program leaves the database alone.
LEMMA ProgramKeeps ==
    ASSUME StartInv, NEW p \in Programs, container = "up",
           NEW sup \in Supervised, NEW at \in {"none", "init", "loop"},
           NEW tries \in 0..StartRetries, Becomes(p, sup, at, tries),
           at # "none" <=> sup \in {"STARTING", "RUNNING"},
           faults' \in 0..MaxFaults, faults' >= faults,
           Starts(p, env) => tries <= faults' /\ (sup = "FATAL" => faults' > StartRetries)
    PROVE  StartInv'
  <1>1. /\ program' = [program EXCEPT ![p] = [sup |-> sup, at |-> at, tries |-> tries]]
        /\ UNCHANGED <<env, db, tx, container>>
    BY DEF Becomes
  <1>2. /\ program'[p] = [sup |-> sup, at |-> at, tries |-> tries]
        /\ \A q \in Programs \ {p} : program'[q] = program[q]
    BY <1>1 DEF StartInv, StartupTypeOK
  <1>3. StartupTypeOK'
    <2>1. program' \in [Programs -> [sup : Supervised, at : {"none", "init", "loop"},
                                     tries : 0..StartRetries]]
      BY <1>1 DEF StartInv, StartupTypeOK, Supervised
    <2>2. \A q \in Programs :
            program'[q].at # "none" <=> program'[q].sup \in {"STARTING", "RUNNING"}
      BY <1>2 DEF StartInv, StartupTypeOK
    <2>. QED
      BY <1>1, <2>1, <2>2 DEF StartInv, StartupTypeOK, Supervised
  <1>4. SchemaInv'
    BY <1>1, SchemaFrame DEF StartInv
  <1>5. RetriesInv'
    <2>. SUFFICES ASSUME NEW q \in Programs, Starts(q, env)
                  PROVE  program'[q].tries <= faults' /\ (program'[q].sup = "FATAL" => faults' > StartRetries)
      BY <1>1 DEF RetriesInv
    <2>1. CASE q = p
      BY <1>2, <2>1
    <2>2. CASE q # p
      <3>1. /\ program'[q] = program[q] /\ program[q].tries <= faults
            /\ program[q].sup = "FATAL" => faults > StartRetries
        BY <1>2, <2>2 DEF StartInv, RetriesInv
      <3>2. program[q].tries \in Nat /\ faults \in Nat /\ faults' \in Nat /\ StartRetries \in Nat
        BY BoundsAssumption DEF StartInv, StartupTypeOK
      <3>. QED
        BY <3>1, <3>2
    <2>. QED
      BY <2>1, <2>2
  <1>. QED
    BY <1>3, <1>4, <1>5 DEF StartInv

\* A process that ends is tried again or given up; if it is one that would have come to
\* its loop, a kill is why.
LEMMA EndsKeeps ==
    ASSUME StartInv, NEW p \in Programs, container = "up", Ends(p),
           \/ ~Starts(p, env) /\ faults' = faults
           \/ faults < MaxFaults /\ faults' = faults + 1
    PROVE  StartInv'
  <1>1. /\ faults \in Nat /\ faults' \in 0..MaxFaults /\ faults' >= faults
        /\ Starts(p, env) => faults' = faults + 1
        /\ StartRetries \in Nat /\ 0 \in 0..StartRetries
        /\ program[p].tries \in 0..StartRetries
        /\ Starts(p, env) => program[p].tries <= faults
    BY BoundsAssumption DEF StartInv, StartupTypeOK, RetriesInv
  <1>2. CASE program[p].sup = "RUNNING"
    <2>1. Becomes(p, "EXITED", "none", 0)
      BY <1>2 DEF Ends
    <2>. QED
      BY <1>1, <2>1, ProgramKeeps DEF Supervised
  <1>3. CASE program[p].sup # "RUNNING" /\ program[p].tries < StartRetries
    <2>1. Becomes(p, "BACKOFF", "none", program[p].tries + 1)
      BY <1>3 DEF Ends
    <2>2. program[p].tries + 1 \in 0..StartRetries
      BY <1>1, <1>3
    <2>3. Starts(p, env) => program[p].tries + 1 <= faults'
      BY <1>1
    <2>. QED
      BY <1>1, <2>1, <2>2, <2>3, ProgramKeeps DEF Supervised
  <1>4. CASE program[p].sup # "RUNNING" /\ ~(program[p].tries < StartRetries)
    <2>1. Becomes(p, "FATAL", "none", program[p].tries)
      BY <1>4 DEF Ends
    <2>2. Starts(p, env) => program[p].tries <= faults' /\ faults' > StartRetries
      BY <1>1, <1>4
    <2>. QED
      BY <1>1, <2>1, <2>2, ProgramKeeps DEF Supervised
  <1>. QED
    BY <1>2, <1>3, <1>4

\* A program is spawned, stays up, comes to its loop or raises, or is killed.
LEMMA ProgramSteps ==
    ASSUME StartInv, NEW p \in Programs, ProgramStep(p) \/ Killed(p) PROVE StartInv'
  <1>1. /\ program[p] \in [sup : Supervised, at : {"none", "init", "loop"}, tries : 0..StartRetries]
        /\ faults \in 0..MaxFaults /\ 0 \in 0..StartRetries
        /\ program[p].at # "none" <=> program[p].sup \in {"STARTING", "RUNNING"}
        /\ Starts(p, env) => program[p].tries <= faults
    BY BoundsAssumption DEF StartInv, StartupTypeOK, Supervised, RetriesInv
  <1>2. container = "up"
    BY <1>1, NoProcesses DEF StartInv, ProgramStep, Spawn, StaysUp, main, Killed, Stopped
  <1>3. CASE Spawn(p)
    <2>1. Becomes(p, "STARTING", "init", program[p].tries) /\ UNCHANGED faults
      BY <1>3 DEF Spawn
    <2>. QED
      BY <1>1, <1>2, <2>1, ProgramKeeps DEF Supervised
  <1>4. CASE StaysUp(p)
    <2>1. Becomes(p, "RUNNING", program[p].at, 0) /\ UNCHANGED faults /\ program[p].at # "none"
      BY <1>1, <1>4 DEF StaysUp
    <2>. QED
      BY <1>1, <1>2, <2>1, ProgramKeeps DEF Supervised
  <1>5. CASE main(p)
    <2>1. CASE Starts(p, env)
      <3>1. /\ Becomes(p, program[p].sup, "loop", program[p].tries) /\ UNCHANGED faults
            /\ program[p].sup \in {"STARTING", "RUNNING"}
        BY <1>1, <1>5, <2>1 DEF main
      <3>. QED
        BY <1>1, <1>2, <3>1, ProgramKeeps DEF Supervised
    <2>2. CASE ~Starts(p, env)
      BY <1>2, <1>5, <2>2, EndsKeeps DEF main
    <2>. QED
      BY <2>1, <2>2
  <1>6. CASE Killed(p)
    BY <1>2, <1>6, EndsKeeps DEF Killed
  <1>. QED
    BY <1>3, <1>4, <1>5, <1>6 DEF ProgramStep

\* A step of a container that is not up, and stays so or comes up, leaves its programs
\* stopped.
LEMMA ContainerKeeps ==
    ASSUME StartInv, container # "up", program' = program, faults' = faults,
           env' \in Environments, db' \in Database, tx' \in Database,
           container' \in {"down", "consolidate", "migrate", "up"},
           container' # "migrate" => tx' = db', SchemaInv'
    PROVE  StartInv'
  <1>1. \A p \in Programs : program[p] = Stopped
    BY NoProcesses DEF StartInv
  <1>2. StartupTypeOK'
    BY <1>1 DEF StartInv, StartupTypeOK
  <1>3. RetriesInv'
    BY <1>1 DEF RetriesInv, Stopped, StartInv, StartupTypeOK
  <1>. QED
    BY <1>2, <1>3 DEF StartInv

\* The first transaction moves every table of the service there is outside the schema.
LEMMA ConsolidateKeeps == StartInv /\ Consolidate => StartInv'
  <1>. SUFFICES ASSUME StartInv, Consolidate PROVE StartInv'
    OBVIOUS
  <1>. DEFINE moving == {t \in PROJECT_TABLES : Outside(db, t)}
  <1>1. /\ db' = Moved(db, moving) /\ tx' = WithVersionTable(db')
        /\ container = "consolidate" /\ container' = "migrate"
        /\ UNCHANGED <<program, env, faults>>
    BY DEF Consolidate, _consolidate_into_schema, Enter
  <1>2. db \in Database /\ Whole(db)
    BY DEF StartInv, StartupTypeOK, SchemaInv
  <1>m. \A t \in PROJECT_TABLES :
          t \in moving <=> db.reddit[t] = "none" /\ db.public[t] # "none"
    BY DEF Outside
  <1>. HIDE DEF moving
  <1>3. /\ db' \in Database
        /\ db'.revision = db.revision /\ db'.columns = db.columns
        /\ \A t \in PROJECT_TABLES :
             /\ db'.reddit[t] = IF t \in moving THEN db.public[t] ELSE db.reddit[t]
             /\ db'.public[t] = IF t \in moving THEN "none" ELSE db.public[t]
    BY <1>1, <1>2, MovedType
  <1>4. \A t \in PROJECT_TABLES : db'.public[t] # "ours" /\ (Ours(db, t) <=> Ours(db', t))
    BY <1>2, <1>3, <1>m DEF Whole, Ours
  <1>5. Whole(db')
    BY <1>2, <1>3, <1>4, ProjectTables DEF Whole
  <1>6. /\ tx' \in Database /\ tx'.columns = db'.columns /\ tx'.public = db'.public
        /\ tx'.reddit[VersionTable] = "ours"
        /\ \A t \in PROJECT_TABLES \ {VersionTable} : tx'.reddit[t] = db'.reddit[t]
    BY <1>1, <1>3, WithVersionTableType
  <1>7. tx'.revision = db'.revision
    <2>1. CASE db'.reddit[VersionTable] = "ours"
      BY <1>1, <1>3, <2>1, WithVersionTableType
    <2>2. CASE db'.reddit[VersionTable] # "ours"
      <3>1. ~Ours(db', VersionTable)
        BY <1>4, <2>2, ProjectTables DEF Ours
      <3>2. db'.revision = 0
        BY <1>3, <1>5, <3>1, HeadType DEF Whole, Database
      <3>. QED
        BY <1>1, <1>3, <2>2, <3>2, WithVersionTableType
    <2>. QED
      BY <2>1, <2>2
  <1>8. Whole(tx') /\ Placed(tx')
    BY <1>4, <1>5, <1>6, <1>7, ProjectTables DEF Whole, Placed, Ours
  <1>9. SchemaInv'
    BY <1>1, <1>5, <1>6, <1>8 DEF SchemaInv, Whole, Placed, Ours
  <1>. QED
    BY <1>1, <1>3, <1>6, <1>9, ContainerKeeps DEF StartInv, StartupTypeOK

\* A revision of the second transaction.
LEMMA UpgradeToKeeps ==
    ASSUME StartInv, NEW r \in 1..HeadRevision, UpgradeTo(r) PROVE StartInv'
  <1>1. /\ container = "migrate" /\ tx.revision = r - 1 /\ Applies(r, tx)
        /\ tx' = Applied(r, tx)
        /\ UNCHANGED <<env, db, container, program, faults>>
    BY DEF UpgradeTo
  <1>2. /\ tx \in Database /\ Whole(tx) /\ Placed(tx) /\ tx.reddit[VersionTable] = "ours"
    BY <1>1 DEF StartInv, StartupTypeOK, SchemaInv
  <1>3. /\ tx' \in Database /\ tx'.revision = r /\ tx'.public = tx.public
        /\ tx'.columns = tx.columns \union Revisions[r].adds
        /\ \A t \in PROJECT_TABLES :
             tx'.reddit[t] = IF t \in Revisions[r].creates THEN "ours" ELSE tx.reddit[t]
    BY <1>1, <1>2, AppliedType
  <1>4. /\ Placed(tx') /\ tx'.reddit[VersionTable] = "ours"
    BY <1>2, <1>3, ProjectTables DEF Placed
  <1>5. Whole(tx')
    <2>1. \A t \in PROJECT_TABLES \ {VersionTable} : Ours(tx', t) <=> t \in CreatedBy(r)
      BY <1>1, <1>2, <1>3, NextRevision DEF Whole, Ours
    <2>2. tx'.columns = AddedBy(r)
      BY <1>1, <1>2, <1>3, NextRevision DEF Whole
    <2>. QED
      BY <1>3, <1>4, <2>1, <2>2 DEF Whole, Placed, Ours
  <1>6. SchemaInv'
    BY <1>1, <1>4, <1>5 DEF StartInv, SchemaInv, Whole, Placed, Ours
  <1>. QED
    BY <1>1, <1>3, <1>6, ContainerKeeps DEF StartInv, StartupTypeOK

\* The other steps of the container.
LEMMA ContainerSteps ==
    ASSUME StartInv,
           StartContainer \/ UpgradeFails \/ Commit \/ Reconfigure \/ ContainerStops
    PROVE  StartInv'
  <1>t. db \in Database /\ tx \in Database /\ env \in Environments /\ Whole(db) /\ Whole(tx)
    BY DEF StartInv, StartupTypeOK, SchemaInv
  <1>1. CASE StartContainer
    <2>1. /\ container = "down" /\ container' = "consolidate"
          /\ UNCHANGED <<env, db, tx, program, faults>>
      BY <1>1 DEF StartContainer, Enter
    <2>2. SchemaInv' /\ tx' = db'
      BY <2>1 DEF StartInv, StartupTypeOK, SchemaInv
    <2>. QED
      BY <1>t, <2>1, <2>2, ContainerKeeps
  <1>2. CASE UpgradeFails
    <2>1. /\ container = "migrate" /\ container' = "down" /\ tx' = db
          /\ UNCHANGED <<env, db, program, faults>>
      BY <1>2 DEF UpgradeFails, Enter
    <2>2. SchemaInv'
      BY <1>t, <2>1 DEF SchemaInv
    <2>. QED
      BY <1>t, <2>1, <2>2, ContainerKeeps
  <1>3. CASE Commit
    <2>1. /\ container = "migrate" /\ container' = "up" /\ db' = tx
          /\ tx.revision = HeadRevision
          /\ UNCHANGED <<env, tx, program, faults>>
      BY <1>3 DEF Commit, Enter
    <2>2. SchemaInv'
      BY <1>t, <2>1 DEF StartInv, SchemaInv
    <2>. QED
      BY <1>t, <2>1, <2>2, ContainerKeeps
  <1>4. CASE Reconfigure
    <2>1. /\ container = "down" /\ env' \in Environments
          /\ UNCHANGED <<db, tx, container, program, faults>>
      BY <1>4 DEF Reconfigure
    <2>2. SchemaInv' /\ tx' = db'
      BY <2>1, SchemaFrame DEF StartInv, StartupTypeOK
    <2>. QED
      BY <1>t, <2>1, <2>2, ContainerKeeps
  <1>5. CASE ContainerStops
    <2>1. /\ faults' \in 0..MaxFaults /\ container' = "down" /\ tx' = db
          /\ program' = [p \in Programs |-> Stopped]
          /\ UNCHANGED <<env, db>>
      BY <1>5, BoundsAssumption DEF ContainerStops, StartInv, StartupTypeOK
    <2>2. SchemaInv'
      BY <1>t, <2>1 DEF SchemaInv
    <2>3. StartupTypeOK'
      BY <1>t, <2>1, BoundsAssumption DEF StartupTypeOK, Stopped
    <2>4. RetriesInv'
      BY <2>1 DEF RetriesInv, Stopped
    <2>. QED
      BY <2>2, <2>3, <2>4 DEF StartInv
  <1>. QED
    BY <1>1, <1>2, <1>3, <1>4, <1>5

\* The invariant is inductive.
LEMMA NextStartInv == StartInv /\ [Next]_vars => StartInv'
  <1>. SUFFICES ASSUME StartInv, [Next]_vars PROVE StartInv'
    OBVIOUS
  <1>1. CASE UNCHANGED vars
    BY <1>1 DEF vars, StartInv, StartupTypeOK, SchemaInv, RetriesInv
  <1>. QED
    BY <1>1, ConsolidateKeeps, UpgradeToKeeps, ContainerSteps, ProgramSteps
    DEF Next, ContainerStep

\* It holds in every reachable state.
LEMMA StartInvAlways == Spec => []StartInv
  BY InitStartInv, NextStartInv, PTL DEF Spec

\* Only a container that is up has processes, and only the migration has a transaction,
\* whatever the configurations are and however often it is restarted.
THEOREM StartupTypes == Spec => []StartupTypeOK
  <1>1. StartInv => StartupTypeOK
    BY DEF StartInv
  <1>. QED
    BY <1>1, StartInvAlways, PTL

\* Wherever a start is interrupted, the tables and columns of the recorded revision are
\* there, each table once, and no program works on a schema that is not all there.
THEOREM SchemaStaysWhole == Spec => []SchemaIsWhole
  <1>1. StartInv => SchemaIsWhole
    <2>. SUFFICES ASSUME StartInv PROVE SchemaIsWhole
      OBVIOUS
    <2>t. db \in Database /\ Whole(db) /\ db.revision \in 0..HeadRevision
      BY DEF StartInv, StartupTypeOK, SchemaInv, Database
    <2>1. ASSUME NEW t \in PROJECT_TABLES
          PROVE  /\ Ours(db, t) => Own(db, t) = {"reddit"} \/ Own(db, t) = {"public"}
                 /\ ~Ours(db, t) => Own(db, t) = {}
                 /\ db.reddit[t] = "ours" => Own(db, t) = {"reddit"}
      BY <2>t DEF Own, Ours, Whole, Database
    <2>2. Cardinality({"reddit"}) = 1 /\ Cardinality({"public"}) = 1
      BY FS_Singleton
    <2>3. CreatedBy(db.revision) \subseteq PROJECT_TABLES \ {VersionTable}
      <3>1. CreatedBy(db.revision) \subseteq CreatedBy(HeadRevision)
        BY <2>t, HeadType DEF CreatedBy
      <3>. QED
        BY <3>1, ProjectTables
    <2>4. \A t \in CreatedBy(db.revision) : Cardinality(Own(db, t)) = 1
      BY <2>t, <2>1, <2>2, <2>3 DEF Whole
    <2>5. \A t \in CreatedBy(HeadRevision) \ CreatedBy(db.revision) : Own(db, t) = {}
      BY <2>t, <2>1, ProjectTables DEF Whole
    <2>6. ASSUME NEW p \in Programs, program[p].at = "loop"
          PROVE  db.revision = HeadRevision /\ \A t \in PROJECT_TABLES : Own(db, t) = {"reddit"}
      <3>1. container = "up"
        BY <2>6, NoProcesses DEF StartInv, Stopped
      <3>2. /\ Placed(db) /\ db.reddit[VersionTable] = "ours"
            /\ db.revision = HeadRevision
        BY <3>1 DEF StartInv, SchemaInv
      <3>3. \A t \in PROJECT_TABLES : db.reddit[t] = "ours"
        BY <2>t, <3>2, ProjectTables DEF Whole, Ours, Placed
      <3>. QED
        BY <2>1, <3>2, <3>3
    <2>. QED
      BY <2>t, <2>4, <2>5, <2>6 DEF SchemaIsWhole, Whole
  <1>. QED
    BY <1>1, StartInvAlways, PTL

\* supervisord never gives up on a worker for its configuration unless the worker has
\* warned of it.
THEOREM FatalExplained == Spec => []FatalIsExplained
  <1>1. StartInv => FatalIsExplained
    <2>. SUFFICES ASSUME StartInv, NEW p \in Programs \ {"api"}, program[p].sup = "FATAL",
                         env.parses, validate_config(env) = {}
                  PROVE  faults > StartRetries
      BY DEF FatalIsExplained
    <2>1. env \in Environment
      BY EnvironmentsAssumption DEF StartInv, StartupTypeOK
    <2>2. env.database /\ env.mode # "unknown" /\ (env.mode = "praw" => env.oauth)
      BY DEF validate_config
    <2>3. build_reddit_source(env) # "raises"
      BY <2>1, <2>2 DEF build_reddit_source, Environment, Modes
    <2>4. Starts(p, env)
      BY <2>2, <2>3 DEF Starts, Programs
    <2>. QED
      BY <2>4 DEF StartInv, RetriesInv
  <1>. QED
    BY <1>1, StartInvAlways, PTL
===============================================================================
