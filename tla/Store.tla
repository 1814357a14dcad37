------------------------------- MODULE Store -------------------------------
(***************************************************************************)
(* The database under the service: store/db.go, migrate.go, jobs.go,       *)
(* jobs_children.go, locks.go and the handlers of ipc/handlers_jobs.go.    *)
(*                                                                         *)
(* One SQLite connection serves everybody (SetMaxOpenConns(1)): a          *)
(* transaction keeps it from its begin to its end, every other statement   *)
(* takes it and gives it back.  A thread works off a program, the list of  *)
(* the statements it still has to execute.  Edits are numbered in the      *)
(* order in which their transactions begin; a row of a job's table is      *)
(* represented by the number of the edit that wrote it.  The loops over    *)
(* sources and scripts are one statement each.                             *)
(***************************************************************************)
EXTENDS Integers, Sequences, FiniteSets

CONSTANTS
    Jobs,        \* ids that NewJob may hand out
    Sessions,    \* threads that serve requests
    Main,        \* the thread that starts the service
    None,        \* nobody
    Migrations,  \* number of embedded migrations
    MaxEdits,    \* bound on jobs.create and jobs.update requests
    MaxFaults,   \* bound on statements that fail by themselves
    MaxCrashes   \* bound on crashes of the process

Threads == Sessions \cup {Main}

ASSUME StoreAssumption ==
    /\ Main \notin Sessions /\ None \notin Threads
    /\ Migrations \in Nat \ {0}
    /\ MaxEdits \in Nat /\ MaxFaults \in Nat /\ MaxCrashes \in Nat

VARIABLES
    phase,   \* "down", "migrate", "serve"
    db,      \* what is committed
    conn,    \* thread whose transaction has the connection, or None
    tx,      \* database as that transaction sees it
    todo,    \* program of each thread
    arg,     \* job and number of the edit (or migration) the program works with
    loaded,  \* what loadJobs has read so far, in the order of its queries
    missing, \* versions Migrate still has to apply
    gone,    \* history: jobs whose deletion has been committed
    edits,   \* edits requested
    serial,  \* edits whose transaction has begun
    faults, crashes

vars == <<phase, db, conn, tx, todo, arg, loaded, missing, gone, edits, serial, faults, crashes>>

-----------------------------------------------------------------------------
(* Tables *)

\* The queries of loadJobs, in their order, and the tables of the aggregate.
Parts == <<"row", "sources", "scripts", "schedule", "retention">>
Tables == {Parts[i] : i \in DOMAIN Parts}
Versions == 1..Migrations

\* Migrations applied and recorded, the tables of the aggregate, locks and
\* run history.
EmptyDb ==
    [schema |-> {}, recorded |-> {},
     tab |-> [p \in Tables |-> [j \in Jobs |-> {}]],
     lock |-> {}, runs |-> {}]

Exists(d, j) == d.tab["row"][j] # {}

Put(d, p, j, edit) == [d EXCEPT !.tab[p][j] = {edit}]
Clear(d, p, j) == [d EXCEPT !.tab[p][j] = {}]

\* Deleting a job takes the rows that refer to it along (ON DELETE CASCADE),
\* run history excepted, which has no foreign key.
Cascade(d, j) ==
    [d EXCEPT !.tab = [p \in Tables |-> [d.tab[p] EXCEPT ![j] = {}]],
              !.lock = @ \ {j}]

-----------------------------------------------------------------------------
(* Statements *)

\* No constraint of the schema and no check of the code stops the statement:
\* foreign keys to backup_jobs, primary keys, checkRowsAffected, the lock
\* that Delete looks for; a migration's DDL fails when it has been applied.
Accepted(s, d, a) ==
    CASE s = "insertRow" -> ~Exists(d, a.job)
      [] s \in {"updateRow", "deleteRow", "setEnabled"} -> Exists(d, a.job)
      [] s \in {"insertSources", "insertScripts", "upsertSchedule", "upsertRetention"} -> Exists(d, a.job)
      [] s = "acquire" -> Exists(d, a.job) /\ a.job \notin d.lock
      [] s = "checkLock" -> a.job \notin d.lock
      [] s = "applySql" -> a.edit \notin d.schema
      [] s = "record" -> a.edit \notin d.recorded
      [] OTHER -> TRUE

\* Children are inserted next to what is there, schedule and retention
\* policy are upserted.  The enabled flag is not told apart, so setEnabled
\* only needs the row.
Effect(s, d, a) ==
    CASE s \in {"insertRow", "updateRow"} -> Put(d, "row", a.job, a.edit)
      [] s = "clearSources" -> Clear(d, "sources", a.job)
      [] s = "clearScripts" -> Clear(d, "scripts", a.job)
      [] s = "insertSources" -> [d EXCEPT !.tab["sources"][a.job] = @ \cup {a.edit}]
      [] s = "insertScripts" -> [d EXCEPT !.tab["scripts"][a.job] = @ \cup {a.edit}]
      [] s = "upsertSchedule" -> Put(d, "schedule", a.job, a.edit)
      [] s = "upsertRetention" -> Put(d, "retention", a.job, a.edit)
      [] s = "deleteRuns" -> [d EXCEPT !.runs = @ \ {a.job}]
      [] s = "deleteRow" -> Cascade(d, a.job)
      [] s = "acquire" -> [d EXCEPT !.lock = @ \cup {a.job}]
      [] s \in {"createRun", "createSkipped"} -> [d EXCEPT !.runs = @ \cup {a.job}]
      [] s = "release" -> [d EXCEPT !.lock = @ \ {a.job}]
      [] s = "applySql" -> [d EXCEPT !.schema = @ \cup {a.edit}]
      [] s = "record" -> [d EXCEPT !.recorded = @ \cup {a.edit}]
      [] OTHER -> d

-----------------------------------------------------------------------------
(* Programs *)

replaceJobChildren == <<"insertSources", "insertScripts", "upsertSchedule", "upsertRetention">>

Create == <<"begin", "insertRow">> \o replaceJobChildren \o <<"commit">>

\* Mutant: the sources of the previous edit are left in place.
Update_keepsSources ==
    <<"begin", "updateRow", "clearScripts">> \o replaceJobChildren
    \o <<"upsertSchedule", "upsertRetention", "commit">>

Update ==
    <<"begin", "updateRow", "clearSources", "clearScripts">> \o replaceJobChildren
    \o <<"upsertSchedule", "upsertRetention", "commit">>

\* Mutant: the lock is looked for before the transaction begins.
Delete_checksFirst(deleteHistory) ==
    <<"checkLock", "begin">>
    \o (IF deleteHistory THEN <<"deleteRuns">> ELSE <<>>) \o <<"deleteRow", "commit">>

Delete(deleteHistory) ==
    <<"begin", "checkLock">>
    \o (IF deleteHistory THEN <<"deleteRuns">> ELSE <<>>) \o <<"deleteRow", "commit">>

\* Mutant: the version is recorded in a transaction of its own.
applyMigration_twoTransactions ==
    <<"begin", "applySql", "commit", "begin", "record", "commit">>

applyMigration == <<"begin", "applySql", "record", "commit">>

-----------------------------------------------------------------------------
(* Threads *)

Idle(t) == todo[t] = <<>>
At(t, s) == todo[t] # <<>> /\ Head(todo[t]) = s
Advance(t) == todo' = [todo EXCEPT ![t] = Tail(@)]
Abandon(t) == todo' = [todo EXCEPT ![t] = <<>>]

DbFault == faults < MaxFaults /\ faults' = faults + 1

NoArg == [job |-> None, edit |-> 0]

Init ==
    /\ phase = "down"
    /\ db = EmptyDb /\ conn = None /\ tx = EmptyDb
    /\ todo = [t \in Threads |-> <<>>]
    /\ arg = [t \in Threads |-> NoArg]
    /\ loaded = [t \in Threads |-> <<>>]
    /\ missing = {} /\ gone = {}
    /\ edits = 0 /\ serial = 0 /\ faults = 0 /\ crashes = 0

\* A request of a session: its program and what it works with.
Request(t, program, job) ==
    /\ phase = "serve" /\ t \in Sessions /\ Idle(t)
    /\ todo' = [todo EXCEPT ![t] = program]
    /\ arg' = [arg EXCEPT ![t] = [job |-> job, edit |-> 0]]
    /\ loaded' = [loaded EXCEPT ![t] = <<>>]
    /\ UNCHANGED <<phase, db, conn, tx, missing, gone, serial, faults, crashes>>

\* NewID: no job has or had this id and no request mentions it.
FreshId(j) ==
    /\ ~Exists(db, j) /\ j \notin gone
    /\ \A t \in Sessions : arg[t].job # j

\* jobs.create; NewJob hands out an id that was never used.
handleJobsCreate(t, j) ==
    /\ edits < MaxEdits /\ edits' = edits + 1
    /\ FreshId(j)
    /\ Request(t, Create, j)

\* jobs.update: the job is loaded, then replaced.
handleJobsUpdate(t, j) ==
    /\ edits < MaxEdits /\ edits' = edits + 1
    /\ Request(t, Parts \o Update, j)

handleJobsDelete(t, j, deleteHistory) ==
    /\ Request(t, Delete(deleteHistory), j)
    /\ UNCHANGED edits

handleJobsSetEnabled(t, j) ==
    /\ Request(t, <<"setEnabled">>, j)
    /\ UNCHANGED edits

\* JobRepository.Get, and List for one of its jobs.
loadJobs(t, j) ==
    /\ Request(t, Parts, j)
    /\ UNCHANGED edits

\* A run: the job is loaded, the lock acquired, the run's row written and the
\* lock released at the end (modules RunEngine and Service).
StartRun(t, j) ==
    /\ Request(t, Parts \o <<"acquire", "createRun", "release">>, j)
    /\ UNCHANGED edits

-----------------------------------------------------------------------------
(* Execution of statements *)

\* Queries of loadJobs and of Migrate and BeginTx go to the pool: they wait
\* for the connection, even for one that the thread itself holds.
Pooled == Tables \cup {"begin", "readApplied"}

\* The next statement goes to the open transaction of the thread.
InTx(t) == conn = t /\ ~Idle(t) /\ Head(todo[t]) \notin Pooled

\* BeginTx waits for the connection.
Begin(t) ==
    /\ At(t, "begin") /\ conn = None
    /\ conn' = t /\ tx' = db /\ Advance(t)
    /\ IF t # Main /\ todo[t][2] \in {"insertRow", "updateRow"}
       THEN /\ serial' = serial + 1
            /\ arg' = [arg EXCEPT ![t].edit = serial + 1]
       ELSE UNCHANGED <<serial, arg>>
    /\ UNCHANGED <<phase, db, loaded, missing, gone, edits, faults, crashes>>

\* Mutant: the statement goes to the database, not to the transaction.
Exec_unbuffered(t) ==
    /\ InTx(t) /\ ~At(t, "commit")
    /\ Accepted(Head(todo[t]), tx, arg[t])
    /\ tx' = Effect(Head(todo[t]), tx, arg[t])
    /\ db' = tx' /\ Advance(t)
    /\ UNCHANGED <<phase, conn, arg, loaded, missing, gone, edits, serial, faults, crashes>>

Exec(t) ==
    /\ InTx(t) /\ ~At(t, "commit")
    /\ Accepted(Head(todo[t]), tx, arg[t])
    /\ tx' = Effect(Head(todo[t]), tx, arg[t])
    /\ Advance(t)
    /\ UNCHANGED <<phase, db, conn, arg, loaded, missing, gone, edits, serial, faults, crashes>>

Commit(t) ==
    /\ InTx(t) /\ At(t, "commit")
    /\ db' = tx /\ conn' = None /\ tx' = EmptyDb /\ Advance(t)
    /\ missing' = IF t = Main THEN missing \ {arg[t].edit} ELSE missing
    /\ gone' = gone \cup {j \in Jobs : Exists(db, j) /\ ~Exists(tx, j)}
    /\ UNCHANGED <<phase, arg, loaded, edits, serial, faults, crashes>>

\* Main returns an error from startup and the process ends.
ErrorOf(t) == phase' = IF t = Main THEN "down" ELSE phase

\* A refused or a failing statement, or a failing commit: the deferred
\* Rollback undoes the transaction and gives the connection back.
Rollback(t) ==
    /\ InTx(t)
    /\ \/ ~At(t, "commit") /\ ~Accepted(Head(todo[t]), tx, arg[t]) /\ UNCHANGED faults
       \/ DbFault
    /\ conn' = None /\ tx' = EmptyDb /\ Abandon(t) /\ ErrorOf(t)
    /\ UNCHANGED <<db, arg, loaded, missing, gone, edits, serial, crashes>>

\* Mutant: the rows of the first query stay open while the next one is made.
Query_keepsRows(t) ==
    /\ conn = None /\ \E p \in Tables : At(t, p)
    /\ LET read == db.tab[Head(todo[t])][arg[t].job]
       IN /\ loaded' = [loaded EXCEPT ![t] = Append(@, read)]
          /\ IF Head(todo[t]) = "row" /\ read = {}
             THEN Abandon(t) /\ UNCHANGED <<conn, tx>>
             ELSE Advance(t) /\ conn' = t /\ tx' = db
    /\ UNCHANGED <<phase, db, arg, missing, gone, edits, serial, faults, crashes>>

\* One query of loadJobs outside any transaction; it has read all its rows,
\* which closes them and frees the connection.  No row: NOT_FOUND.
Query(t) ==
    /\ conn = None /\ \E p \in Tables : At(t, p)
    /\ LET read == db.tab[Head(todo[t])][arg[t].job]
       IN /\ loaded' = [loaded EXCEPT ![t] = Append(@, read)]
          /\ IF Head(todo[t]) = "row" /\ read = {} THEN Abandon(t) ELSE Advance(t)
    /\ UNCHANGED <<phase, db, conn, tx, arg, missing, gone, edits, serial, faults, crashes>>

\* Outside a transaction every other statement is executed on its own.
Single(t) == ~Idle(t) /\ Head(todo[t]) \notin Pooled

AutoCommit(t) ==
    /\ conn = None /\ Single(t)
    /\ Accepted(Head(todo[t]), db, arg[t])
    /\ db' = Effect(Head(todo[t]), db, arg[t])
    /\ Advance(t)
    /\ UNCHANGED <<phase, conn, tx, arg, loaded, missing, gone, edits, serial, faults, crashes>>

\* What is left of a program after a single statement was refused: a run that
\* does not get the lock is recorded as SKIPPED.
AfterRefusal(t) == IF At(t, "acquire") THEN <<"createSkipped">> ELSE <<>>

\* What is left after a statement failed: a run that has the lock releases it.
AfterFault(t) == IF At(t, "createRun") THEN <<"release">> ELSE <<>>

\* BeginTx, a query or a single statement fails, or is refused.
StatementFails(t) ==
    /\ conn = None /\ ~Idle(t)
    /\ \/ /\ Single(t) /\ ~Accepted(Head(todo[t]), db, arg[t])
          /\ todo' = [todo EXCEPT ![t] = AfterRefusal(t)]
          /\ UNCHANGED faults
       \/ DbFault /\ todo' = [todo EXCEPT ![t] = AfterFault(t)]
    /\ ErrorOf(t)
    /\ UNCHANGED <<db, conn, tx, arg, loaded, missing, gone, edits, serial, crashes>>

-----------------------------------------------------------------------------
(* Startup and crash *)

\* Open, then Migrate reads the recorded versions.
Start ==
    /\ phase = "down"
    /\ phase' = "migrate"
    /\ todo' = [todo EXCEPT ![Main] = <<"readApplied">>]
    /\ UNCHANGED <<db, conn, tx, arg, loaded, missing, gone, edits, serial, faults, crashes>>

appliedMigrationVersions ==
    /\ At(Main, "readApplied") /\ conn = None
    /\ missing' = Versions \ db.recorded
    /\ Advance(Main)
    /\ UNCHANGED <<phase, db, conn, tx, arg, loaded, gone, edits, serial, faults, crashes>>

\* The loop of Migrate: the lowest version that is not recorded.
MigrateNext ==
    /\ phase = "migrate" /\ Idle(Main) /\ missing # {}
    /\ \E v \in missing :
          /\ \A w \in missing : v <= w
          /\ arg' = [arg EXCEPT ![Main].edit = v]
    /\ todo' = [todo EXCEPT ![Main] = applyMigration]
    /\ UNCHANGED <<phase, db, conn, tx, loaded, missing, gone, edits, serial, faults, crashes>>

\* The locks a dead process left are released (module Service) before the
\* first request is served.
Serve ==
    /\ phase = "migrate" /\ Idle(Main) /\ missing = {} /\ conn = None
    /\ phase' = "serve"
    /\ db' = [db EXCEPT !.lock = {}]
    /\ UNCHANGED <<conn, tx, todo, arg, loaded, missing, gone, edits, serial, faults, crashes>>

\* The process dies: SQLite keeps what is committed.
Crash ==
    /\ phase # "down" /\ crashes < MaxCrashes
    /\ crashes' = crashes + 1
    /\ phase' = "down" /\ conn' = None /\ tx' = EmptyDb
    /\ todo' = [t \in Threads |-> <<>>]
    /\ loaded' = [t \in Threads |-> <<>>]
    /\ missing' = {}
    /\ arg' = [t \in Threads |-> NoArg]
    /\ UNCHANGED <<db, gone, edits, serial, faults>>

Requests(t) ==
    \E j \in Jobs :
        \/ handleJobsCreate(t, j) \/ handleJobsUpdate(t, j) \/ handleJobsSetEnabled(t, j)
        \/ \E deleteHistory \in BOOLEAN : handleJobsDelete(t, j, deleteHistory)
        \/ loadJobs(t, j) \/ StartRun(t, j)

Step(t) == Begin(t) \/ Exec(t) \/ Commit(t) \/ Rollback(t) \/ Query(t) \/ AutoCommit(t) \/ StatementFails(t)

Startup == appliedMigrationVersions \/ MigrateNext \/ Serve

Next == (\E t \in Threads : Requests(t) \/ Step(t)) \/ Start \/ Startup \/ Crash

Spec == Init /\ [][Next]_vars

\* database/sql hands a connection that is given back to a thread that waits
\* for it, so a waiting thread is not passed over for ever.
FairSpec == Spec /\ WF_vars(Startup \/ Step(Main)) /\ \A t \in Sessions : SF_vars(Step(t))

-----------------------------------------------------------------------------
(* Properties *)

\* What is committed of a job is one edit in all five tables, and nothing is
\* left of a job without a row, whatever statements fail (Create, Update and
\* Delete in store/jobs.go).
AggregateWhole ==
    \A j \in Jobs, p \in Tables :
        /\ db.tab[p][j] = db.tab["row"][j]
        /\ Cardinality(db.tab[p][j]) <= 1

\* loadJobs reads five tables one after the other, not in a transaction.  It
\* may mix edits, but a later query never returns an older edit than an
\* earlier one: no part is taken back in time.
LoadsForward ==
    \A t \in Threads : \A i, k \in DOMAIN loaded[t] :
        i < k => \A e \in loaded[t][i], f \in loaded[t][k] : e <= f

\* A deletion is complete or not made at all.  The lock of a job is removed by the
\* run that holds it and never by the deletion of the job, because the check of
\* the lock and the deletion are one transaction on the only connection; run
\* history disappears only together with its job; and a deleted job stays
\* deleted, also for an update or a run that had loaded it before
\* (JobRepository.Delete, Update, LockRepository.Acquire).
DeletionSafe ==
    [][\A j \in Jobs :
          /\ j \in db.lock /\ j \notin db'.lock /\ phase = "serve" =>
                \E t \in Sessions : At(t, "release") /\ arg[t].job = j
          /\ j \in db.runs /\ j \notin db'.runs => Exists(db, j) /\ ~Exists(db', j)
          /\ j \in gone => ~Exists(db', j) /\ j \notin db'.lock]_vars

\* A migration is recorded exactly when its statements have been applied, the
\* applied ones are the first ones, Migrate never meets one that is already
\* applied, and requests are served on the complete schema only, after
\* whatever crashes and failures (Migrate, startup).
MigrationsRestartable ==
    /\ db.recorded = db.schema
    /\ \A v \in db.schema, w \in Versions : w < v => w \in db.schema
    /\ At(Main, "applySql") => arg[Main].edit \notin db.schema
    /\ phase = "serve" => db.schema = Versions

\* Every request ends: nobody waits for the connection it holds itself, and
\* the connection comes back.
RequestsEnd == \A t \in Threads : ~Idle(t) ~> Idle(t)

-----------------------------------------------------------------------------
(* The inductive invariant behind the safety properties (StoreProofs) *)

Edits == {"insertRow", "updateRow", "clearSources", "clearScripts", "insertSources",
          "insertScripts", "upsertSchedule", "upsertRetention"}
Deletes == {"checkLock", "deleteRuns", "deleteRow"}
Ddl == {"applySql", "record"}
TxStatements == Edits \cup Deletes \cup Ddl \cup {"commit"}
RunStatements == {"setEnabled", "acquire", "createRun", "createSkipped", "release"}
Statements == Tables \cup TxStatements \cup RunStatements \cup {"begin", "readApplied"}

Database ==
    [schema: SUBSET Versions, recorded: SUBSET Versions,
     tab: [Tables -> [Jobs -> SUBSET Nat]], lock: SUBSET Jobs, runs: SUBSET Jobs]

TypeOK ==
    /\ phase \in {"down", "migrate", "serve"}
    /\ db \in Database /\ tx \in Database
    /\ conn \in Threads \cup {None}
    /\ todo \in [Threads -> Seq(Statements)]
    /\ arg \in [Threads -> [job: Jobs \cup {None}, edit: Nat]]
    /\ loaded \in [Threads -> Seq(SUBSET Nat)]
    /\ missing \subseteq Versions /\ gone \subseteq Jobs /\ serial \in Nat

\* What may come after a statement in a program; "end" is its end.
Follow(s) ==
    CASE s = "row" -> {"sources"} [] s = "sources" -> {"scripts"}
      [] s = "scripts" -> {"schedule"} [] s = "schedule" -> {"retention"}
      [] s = "retention" -> {"begin", "acquire", "end"}
      [] s = "begin" -> {"insertRow", "updateRow", "checkLock", "applySql"}
      [] s = "updateRow" -> {"clearSources"} [] s = "clearSources" -> {"clearScripts"}
      [] s \in {"insertRow", "clearScripts"} -> {"insertSources"}
      [] s = "insertSources" -> {"insertScripts"} [] s = "insertScripts" -> {"upsertSchedule"}
      [] s = "upsertSchedule" -> {"upsertRetention"}
      [] s = "upsertRetention" -> {"upsertSchedule", "commit"}
      [] s = "checkLock" -> {"deleteRuns", "deleteRow"} [] s = "deleteRuns" -> {"deleteRow"}
      [] s \in {"deleteRow", "record"} -> {"commit"} [] s = "applySql" -> {"record"}
      [] s = "acquire" -> {"createRun"} [] s = "createRun" -> {"release"}
      [] OTHER -> {"end"}

\* A row is inserted first thing in a program or not at all.
WellFormed(q) ==
    \A i \in 1..Len(q) :
        /\ i = Len(q) => "end" \in Follow(q[i])
        /\ i < Len(q) => q[i + 1] \in Follow(q[i])
        /\ q[i] = "insertRow" => i <= 2

\* Who works when, and on what; the connection is taken exactly while a thread
\* has statements of a transaction before it.
Discipline ==
    /\ \A t \in Threads :
         /\ WellFormed(todo[t])
         /\ ~Idle(t) => (Head(todo[t]) \in TxStatements <=> conn = t)
         /\ conn = t => ~Idle(t)
    /\ \A t \in Sessions :
         /\ phase # "serve" => Idle(t)
         /\ \A i \in 1..Len(todo[t]) : todo[t][i] \notin Ddl \cup {"readApplied"}
         /\ ~Idle(t) => arg[t].job \in Jobs
    /\ phase # "migrate" => Idle(Main)
    /\ \A i \in 1..Len(todo[Main]) : todo[Main][i] \in Ddl \cup {"readApplied", "begin", "commit"}
    /\ loaded[Main] = <<>>

\* One edit, or none, in all tables.
Whole(d, j) ==
    /\ \A p \in Tables : d.tab[p][j] = d.tab["row"][j]
    /\ \A e, f \in d.tab["row"][j] : e = f

\* What the edit in progress has written when s is its next statement.
Written(s) ==
    CASE s = "clearSources" -> {"row"}
      [] s = "upsertSchedule" -> {"row", "sources", "scripts"}
      [] s = "upsertRetention" -> {"row", "sources", "scripts", "schedule"}
      [] s = "insertScripts" -> {"row", "sources"}
      [] s \in {"clearScripts", "insertSources"} -> {"row"}
      [] OTHER -> {}

\* And what it has emptied.
Emptied(s) ==
    CASE s = "clearScripts" -> {"sources"}
      [] s = "insertSources" -> {"sources", "scripts"}
      [] s = "insertScripts" -> {"scripts"}
      [] OTHER -> {}

\* What is committed is whole, and so is an open transaction except for the job
\* it is editing.
Aggregates ==
    /\ \A j \in Jobs : Whole(db, j)
    /\ \A t \in Threads : conn = t =>
         LET s == Head(todo[t]) IN
         /\ \A j \in Jobs : j # arg[t].job \/ Written(s) = {} => Whole(tx, j)
         /\ Written(s) # {} =>
              /\ \A p \in Written(s) : tx.tab[p][arg[t].job] = {arg[t].edit}
              /\ \A p \in Emptied(s) : tx.tab[p][arg[t].job] = {}

\* Edits are numbered in the order of their transactions, and a load has not
\* seen anything newer than what is there.
Numbered ==
    /\ \A j \in Jobs, p \in Tables :
         /\ \A e \in db.tab[p][j] : e <= serial
         /\ conn # None => tx.tab[p][j] \subseteq db.tab[p][j] \cup {serial}
    /\ \A t \in Sessions :
         /\ conn = t /\ Head(todo[t]) \in Edits => arg[t].edit = serial
         /\ \A i \in DOMAIN loaded[t] : \A e \in loaded[t][i] :
              /\ e <= serial
              /\ arg[t].job \in Jobs => \A p \in Tables : \A f \in db.tab[p][arg[t].job] : e <= f

\* The schema: what Main applies is the lowest missing version.
Migrating ==
    /\ db.recorded = db.schema
    /\ \A v \in db.schema, w \in Versions : w < v => w \in db.schema
    /\ phase = "migrate" /\ ~At(Main, "readApplied") => missing = Versions \ db.schema
    /\ ~Idle(Main) /\ ~At(Main, "readApplied") =>
         arg[Main].edit \in missing /\ \A w \in missing : arg[Main].edit <= w
    /\ phase = "serve" => db.schema = Versions
    /\ \A t \in Sessions : conn = t => tx.schema = db.schema /\ tx.recorded = db.recorded
    /\ conn = Main =>
         /\ tx.schema = IF At(Main, "applySql") THEN db.schema ELSE db.schema \cup {arg[Main].edit}
         /\ tx.recorded = IF At(Main, "commit") THEN db.schema \cup {arg[Main].edit} ELSE db.schema

\* A program that is about to insert a row.
Creating(t) == At(t, "insertRow") \/ (At(t, "begin") /\ todo[t][2] = "insertRow")

\* Locks, run history and deleted jobs.
Deletions ==
    /\ \A j \in db.lock : Exists(db, j)
    /\ \A j \in gone : ~Exists(db, j)
    /\ conn # None =>
         /\ tx.lock = db.lock
         /\ \A j \in Jobs : j # arg[conn].job => tx.tab["row"][j] = db.tab["row"][j]
         /\ \A j \in tx.lock : Exists(tx, j)
         /\ \A j \in gone : ~Exists(tx, j)
         /\ \A j \in db.runs \ tx.runs :
              \/ Exists(db, j) /\ ~Exists(tx, j)
              \/ j = arg[conn].job /\ At(conn, "deleteRow") /\ tx.tab = db.tab
    /\ \A t \in Sessions :
         /\ conn = t /\ Head(todo[t]) \in {"deleteRuns", "deleteRow"} => arg[t].job \notin tx.lock
         /\ conn = t /\ Head(todo[t]) \in Deletes => tx.tab = db.tab
         /\ Creating(t) =>
              /\ arg[t].job \notin gone /\ ~Exists(db, arg[t].job)
              /\ conn # None => ~Exists(tx, arg[t].job)
              /\ \A u \in Sessions \ {t} : Creating(u) => arg[u].job # arg[t].job

StoreInv == TypeOK /\ Discipline /\ Aggregates /\ Numbered /\ Migrating /\ Deletions
=============================================================================
