----------------------------- MODULE Migrations -----------------------------
(***************************************************************************)
(* MigrationRunner: how a process that starts carries the database to the  *)
(* schema version its build expects.  PostgreSQL starters hold an advisory *)
(* lock for the whole run; SQLite starters only have BEGIN IMMEDIATE, so   *)
(* another process may come between any two statements outside one         *)
(* transaction.  One action is one read or one transaction.                *)
(*                                                                         *)
(* The queue_messages table stands for the two tables that gain an         *)
(* arrival number; a guarded statement stands for its effect.              *)
(***************************************************************************)
EXTENDS Integers, Sequences, FiniteSets, FiniteSetsExt

CONSTANTS
    Starters,    \* processes that open the database
    Expected,    \* runtime_tables
    Databases,   \* what a starter may find: [engine, tables, hasLog, log, made, rows]
    MaxStarts, MaxFaults, MaxRows  \* bounds

ASSUME MigrationsAssumption ==
    MaxStarts \in Nat /\ MaxFaults \in Nat /\ MaxRows \in Nat

VARIABLES
    origin,   \* the database as it was found
    db,       \* [tables, hasLog, log, made]: the catalog and the version log
    rows,     \* queue_messages in insertion order: [rowid, seq, tick, old]
    identity, \* PostgreSQL: the next value of the identity column
    starter,  \* [Starters -> [pc, todo]]
    holder,   \* who has the advisory lock, or "nobody"
    starts, breaks, inserts  \* counted against the bounds

migVars == <<origin, db, rows, identity, starter, holder, starts, breaks, inserts>>

BASE_SCHEMA_VERSION == 1

SCHEMA_VERSION == 4

\* MIGRATIONS: the guarded statements of each version, by what they leave.
Guarded(engine, version) ==
    CASE engine = "sqlite" /\ version = 2   -> {"column", "numbers", "trigger"}
      [] engine = "sqlite" /\ version = 4   -> {"hyphenated"}
      [] engine = "postgres" /\ version = 2 -> {"identity"}
      [] engine = "postgres" /\ version = 3 -> {"text", "default"}
      [] engine = "postgres" /\ version = 4 -> {"parent text"}
      [] OTHER                              -> {}

\* The shape the schema file creates is the shape of the last version.
schema_ddl(engine) ==
    (UNION {Guarded(engine, v) : v \in 1..SCHEMA_VERSION}) \ {"numbers"}

pending(current) == [i \in 1..(SCHEMA_VERSION - current) |-> current + i]

\* A database that holds nothing, or the tables of a version this build knows.
LeftByABuild(d) ==
    /\ d.tables \in {{}, Expected}
    /\ d.log = 1..Cardinality(d.log)
    /\ Cardinality(d.log) <= SCHEMA_VERSION
    /\ d.log # {} => d.tables = Expected

Healthy == LeftByABuild(origin)

UnnumberedRow == [rowid : Nat \ {0}, seq : {0}, tick : Nat, old : {TRUE}]

\* Where a build left a database its shape is the one its version names.  Rows
\* are found where no build has numbered them yet, in the order they came;
\* elsewhere they arrive while the processes run.
ASSUME DatabasesAssumption ==
    /\ Expected # {}
    /\ \A d \in Databases :
         /\ d.engine \in {"sqlite", "postgres"} /\ d.tables \subseteq Expected /\ d.hasLog \in BOOLEAN
         /\ d.log # {} => d.hasLog /\ \E k \in d.log : k \in Nat /\ d.log \subseteq 1..k
         /\ LeftByABuild(d) => d.made = (UNION {Guarded(d.engine, v) : v \in d.log}) \ {"numbers"}
         /\ d.rows # <<>> =>
              LeftByABuild(d) /\ d.tables = Expected /\ d.log \subseteq {BASE_SCHEMA_VERSION}
         /\ d.rows \in Seq(UnnumberedRow)
         /\ \A i, j \in DOMAIN d.rows :
              i < j => d.rows[i].rowid < d.rows[j].rowid /\ d.rows[i].tick <= d.rows[j].tick

-----------------------------------------------------------------------------
Leave(s, pc) ==
    /\ starter' = [starter EXCEPT ![s] = [pc |-> pc, todo |-> <<>>]]
    /\ holder' = IF holder = s THEN "nobody" ELSE holder

Goto(s, pc, todo) ==
    /\ starter' = [starter EXCEPT ![s] = [pc |-> pc, todo |-> todo]]
    /\ UNCHANGED holder

Start(s) ==
    /\ starter[s].pc \in {"off", "failed", "refused"}
    /\ starts < MaxStarts
    /\ starts' = starts + 1
    /\ Goto(s, IF origin.engine = "postgres" THEN "lock" ELSE "versions", <<>>)
    /\ UNCHANGED <<origin, db, rows, identity, breaks, inserts>>

\* pg_advisory_lock waits for the other starter's session to end.
Lock(s) ==
    /\ starter[s].pc = "lock" /\ holder = "nobody"
    /\ holder' = s
    /\ starter' = [starter EXCEPT ![s].pc = "versions"]
    /\ UNCHANGED <<origin, db, rows, identity, starts, breaks, inserts>>

NotContiguous(log) == log # 1..Max(log)

\* A log that is not there reads as no versions.
ReadVersions(s) ==
    /\ starter[s].pc = "versions"
    /\ LET versions == IF db.hasLog THEN db.log ELSE {} IN
       CASE versions = {}                   -> Goto(s, "tables", <<>>)
         [] versions # {} /\ Max(versions) > SCHEMA_VERSION -> Leave(s, "refused")
         [] versions # {} /\ Max(versions) <= SCHEMA_VERSION ->
              IF NotContiguous(versions) THEN Leave(s, "refused")
              ELSE Goto(s, "shape", pending(Max(versions)))
    /\ UNCHANGED <<origin, db, rows, identity, starts, breaks, inserts>>

Continue(s, todo) ==
    IF todo = <<>> THEN Leave(s, "ready") ELSE Goto(s, "migrate", todo)

RefuseAnIncompleteShape(s) ==
    /\ starter[s].pc = "shape"
    /\ IF Expected \subseteq db.tables
       THEN Continue(s, starter[s].todo) ELSE Leave(s, "refused")
    /\ UNCHANGED <<origin, db, rows, identity, starts, breaks, inserts>>

\* No versions: the catalog tells a fresh database, one whose version was
\* never written down, and one that is neither.
Unversioned(tables) ==
    CASE tables \intersect Expected = {} -> "create"
      [] Expected \subseteq tables        -> "base"
      [] OTHER                            -> "refused"

PresentTables(s) ==
    /\ starter[s].pc = "tables"
    /\ LET next == Unversioned(db.tables)
       IN  IF next = "refused" THEN Leave(s, next) ELSE Goto(s, next, <<>>)
    /\ UNCHANGED <<origin, db, rows, identity, starts, breaks, inserts>>

\* Every statement of the file is CREATE ... IF NOT EXISTS; the file is one
\* transaction.
CreateSchema(s) ==
    /\ starter[s].pc = "create"
    /\ db' = [db EXCEPT !.tables = Expected, !.hasLog = TRUE,
                        !.made = @ \union schema_ddl(origin.engine)]
    /\ identity' = IF origin.engine = "postgres" /\ identity = 0 THEN 1 ELSE identity
    /\ Goto(s, "record", <<>>)
    /\ UNCHANGED <<origin, rows, starts, breaks, inserts>>

\* INSERT OR IGNORE / ON CONFLICT DO NOTHING.
RecordVersions(s) ==
    /\ \/ /\ starter[s].pc = "record"
          /\ db' = [db EXCEPT !.log = @ \union (1..SCHEMA_VERSION)]
          /\ Leave(s, "ready")
       \/ /\ starter[s].pc = "base"
          /\ db' = [db EXCEPT !.hasLog = TRUE, !.log = @ \union {BASE_SCHEMA_VERSION}]
          /\ Goto(s, "migrate", pending(BASE_SCHEMA_VERSION))
    /\ UNCHANGED <<origin, rows, identity, starts, breaks, inserts>>

StillNeeded_Always(effect) == TRUE

\* _still_needed: every guard tests the effect of its statements.
StillNeeded(effect) ==
    IF effect = "numbers" THEN \E i \in DOMAIN rows : rows[i].seq = 0
    ELSE effect \notin db.made

\* SQLite: UPDATE ... SET arrival_seq = rowid.
NumberByRowid == [i \in DOMAIN rows |-> [rows[i] EXCEPT !.seq = rows[i].rowid]]

\* PostgreSQL: ROW_NUMBER() OVER (ORDER BY enqueued_at, id); ids are random.
NumberByTick ==
    {[i \in DOMAIN rows |-> [rows[i] EXCEPT !.seq = p[i]]] :
        p \in {q \in [DOMAIN rows -> DOMAIN rows] :
                 \A i, j \in DOMAIN rows :
                     /\ i # j => q[i] # q[j]
                     /\ rows[i].tick < rows[j].tick => q[i] < q[j]}}

\* What the statements whose guards came back with a row do to the data.
RunSteps(needed) ==
    /\ CASE "numbers" \in needed  -> rows' = NumberByRowid
         [] "identity" \in needed -> rows' \in NumberByTick
         [] OTHER                 -> UNCHANGED rows
    /\ identity' = IF "identity" \in needed THEN Len(rows) + 1 ELSE identity

\* _run_migration: the steps and the version row are one transaction.  A column
\* added twice is an error.
RunMigration(s) ==
    LET version == Head(starter[s].todo)
        needed == {g \in Guarded(origin.engine, version) : StillNeeded(g)} IN
    /\ starter[s].pc = "migrate"
    /\ IF "column" \in needed /\ "column" \in db.made
       THEN Leave(s, "broken") /\ UNCHANGED <<db, rows, identity>>
       ELSE /\ RunSteps(needed)
            /\ db' = [db EXCEPT !.made = @ \union (needed \ {"numbers"}),
                                !.log = @ \union {version}]
            /\ Continue(s, Tail(starter[s].todo))
    /\ UNCHANGED <<origin, starts, breaks, inserts>>

\* The busy timeout runs out, or the connection is lost: the transaction is
\* rolled back and the start fails.
Contended(s) ==
    /\ starter[s].pc \in {"versions", "tables", "shape", "create", "record", "base", "migrate"}
    /\ breaks < MaxFaults
    /\ breaks' = breaks + 1
    /\ Leave(s, "failed")
    /\ UNCHANGED <<origin, db, rows, identity, starts, inserts>>

Crash(s) ==
    /\ starter[s].pc \notin {"off", "failed", "refused", "broken"}
    /\ breaks < MaxFaults
    /\ breaks' = breaks + 1
    /\ Leave(s, "off")
    /\ UNCHANGED <<origin, db, rows, identity, starts, inserts>>

-----------------------------------------------------------------------------
(* Rows come and go while processes start. *)

Numbered == "trigger" \in db.made \/ "identity" \in db.made

Rowid == 1 + Max({0} \union {rows[i].rowid : i \in DOMAIN rows})

\* A process that is ready, or one of the old build that is still running.
Insert(old) ==
    /\ inserts < MaxRows /\ inserts' = inserts + 1
    /\ \/ ~old /\ \E s \in Starters : starter[s].pc = "ready"
       \/ old /\ db.tables = Expected /\ origin.tables = Expected /\ origin.rows # <<>>
    /\ \E dt \in {0, 1} :
         rows' = Append(rows,
            [rowid |-> Rowid, old |-> ~Numbered,
             tick |-> IF rows = <<>> THEN 1 ELSE rows[Len(rows)].tick + dt,
             seq |-> IF ~Numbered THEN 0
                     ELSE IF origin.engine = "sqlite" THEN Rowid ELSE identity])
    /\ identity' = IF "identity" \in db.made THEN identity + 1 ELSE identity
    /\ UNCHANGED <<origin, db, starter, holder, starts, breaks>>

Delete ==
    /\ \E s \in Starters : starter[s].pc = "ready"
    /\ \E i \in DOMAIN rows :
         rows' = [k \in 1..(Len(rows) - 1) |-> IF k < i THEN rows[k] ELSE rows[k + 1]]
    /\ UNCHANGED <<origin, db, identity, starter, holder, starts, breaks, inserts>>

MigInit ==
    /\ origin \in Databases
    /\ db = [tables |-> origin.tables, hasLog |-> origin.hasLog,
             log |-> origin.log, made |-> origin.made]
    /\ rows = origin.rows
    /\ identity = IF "identity" \in origin.made THEN Len(origin.rows) + 1 ELSE 0
    /\ starter = [s \in Starters |-> [pc |-> "off", todo |-> <<>>]]
    /\ holder = "nobody" /\ starts = 0 /\ breaks = 0 /\ inserts = 0

StarterStep(s) ==
    \/ Lock(s) \/ ReadVersions(s) \/ RefuseAnIncompleteShape(s) \/ PresentTables(s)
    \/ CreateSchema(s) \/ RecordVersions(s) \/ RunMigration(s)

MigNext ==
    \/ \E s \in Starters : Start(s) \/ StarterStep(s) \/ Contended(s) \/ Crash(s)
    \/ \E old \in BOOLEAN : Insert(old)
    \/ Delete

-----------------------------------------------------------------------------
\* A version row is never ahead of the shape it stands for, and a process that
\* serves has a database at its own version: whatever starters crashed between
\* the schema and its version rows, or ran the same migration side by side.
VersionTellsShape ==
    Healthy =>
        /\ \A v \in db.log : /\ Expected \subseteq db.tables
                             /\ Guarded(origin.engine, v) \ {"numbers"} \subseteq db.made
        /\ \A s \in Starters : starter[s].pc = "ready" => db.log = 1..SCHEMA_VERSION

\* A database some build left behind is never refused and no migration of it
\* ever breaks: no crash and no interleaving of starters leaves a gap, a
\* half-made schema or a column that is added twice.
HealthyStarts ==
    Healthy => \A s \in Starters : starter[s].pc \notin {"refused", "broken"}

\* A database that is at no version is left exactly as it was found.
RefusedIsUntouched ==
    [][~Healthy => UNCHANGED <<db, rows>>]_migVars

\* Once version 2 is recorded every row has a number and the numbers order the
\* rows as they arrived, rows of the old build included.  PostgreSQL can only
\* order what arrived before the migration by its clock.
ArrivalOrder ==
    2 \in db.log /\ Healthy =>
        /\ \A i \in DOMAIN rows : rows[i].seq > 0
        /\ \A i, j \in DOMAIN rows :
             /\ i < j
             /\ ~(/\ origin.engine = "postgres" /\ rows[i].old /\ rows[j].old
                  /\ rows[i].tick = rows[j].tick)
             => rows[i].seq < rows[j].seq

\* A database is only ever brought to the shape its version names, rows keep the
\* order they arrived in, and one that is refused is left as it was found.
SchemaSound ==
    /\ [](VersionTellsShape /\ HealthyStarts /\ ArrivalOrder)
    /\ RefusedIsUntouched
=============================================================================
