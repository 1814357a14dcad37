------------------------------ MODULE Service ------------------------------
(***************************************************************************)
(* The service process around the backup runs: cmd/vpsbackupservice        *)
(* (startup, recovery, shutdown), the IPC handlers that start and cancel   *)
(* runs and delete jobs, the registry of active runs, and the tables       *)
(* job_locks and backup_runs they share.                                   *)
(*                                                                         *)
(* A run is one goroutine; what it does between its RunStarted and its     *)
(* final update (module RunEngine) is the single action Execute.  What     *)
(* survives a crash is the database: jobRow, lock, row, noted.             *)
(***************************************************************************)
EXTENDS Integers, FiniteSets

CONSTANTS
    Jobs, Runs,  \* ids of jobs and of runs; a run id is used once
    None,        \* no run
    MaxCrashes,  \* bound on crashes of the process
    MaxFaults    \* bound on database statements that fail by themselves

ASSUME ServiceAssumption ==
    /\ None \notin Runs
    /\ Jobs \cap Runs = {}
    /\ IsFiniteSet(Runs)
    /\ MaxCrashes \in Nat /\ MaxFaults \in Nat

VARIABLES
    svc,       \* phase of the process
    todo,      \* what recovery at startup still has to look at
    jobRow,    \* jobs that have a row in backup_jobs
    lock,      \* job_locks: run that holds the lock of a job
    row,       \* status column of backup_runs
    noted,     \* interrupted runs whose row says that recovery FAILED
    pc,        \* control of a run's goroutine
    jobOf,     \* job a run works on
    manual,    \* runs started by runs.start; the others by the scheduler
    cancelled, \* runs whose own context has been cancelled
    call,      \* the runs.start handler after Engine.Start has returned
    registry,  \* ActiveRunRegistry.cancels
    wg,        \* runsWG: runs started and not finished
    crashes, faults

dbVars == <<jobRow, lock, row, noted>>
runVars == <<pc, jobOf, manual, cancelled, call>>
memVars == <<registry, wg>>
vars == <<svc, todo, dbVars, runVars, memVars, crashes, faults>>

-----------------------------------------------------------------------------
(* Types and helpers *)

Phase == {"down", "locks", "details", "up", "stopped", "cancelAll", "wait", "closed"}
Place == {"idle", "acquire", "skip", "create", "started", "exec", "update",
          "finished", "release", "done", "dead"}
RowStatus == {"none", "RUNNING", "SKIPPED", "ENDED", "INTERRUPTED"}

DbTypeOK ==
    /\ jobRow \subseteq Jobs
    /\ lock \in [Jobs -> Runs \cup {None}]
    /\ row \in [Runs -> RowStatus]
    /\ noted \subseteq Runs

ProcessTypeOK ==
    /\ svc \in Phase /\ todo \subseteq Jobs \cup Runs
    /\ pc \in [Runs -> Place] /\ jobOf \in [Runs -> Jobs]
    /\ manual \subseteq Runs /\ cancelled \subseteq Runs
    /\ call \in [Runs -> {"none", "check", "register"}]
    /\ registry \subseteq Runs
    /\ crashes \in 0..MaxCrashes /\ faults \in 0..MaxFaults

TypeOK == DbTypeOK /\ ProcessTypeOK /\ wg \in Nat

\* Between a successful Acquire and the release of the lock.
Holding == {"create", "started", "exec", "update", "finished", "release"}

\* RunStarted has been announced, RunFinished has not.
Active(r) == pc[r] \in {"exec", "update", "finished"}

\* runCtx, the context of the service, is cancelled by Shutdown.
svcDone == svc \in {"cancelAll", "wait", "closed"}

dbOpen == svc \notin {"down", "closed"}

\* The context of a run: its own for runs.start, else that of the service.
ctxDone(r) == IF r \in manual THEN r \in cancelled ELSE svcDone

\* A statement fails by itself at most MaxFaults times in a behaviour.
DbFault == faults < MaxFaults /\ faults' = faults + 1

\* A statement through context.WithoutCancel fails once the database is closed.
DbDetached(ok) ==
    IF ~dbOpen THEN ~ok /\ UNCHANGED faults
    ELSE IF ok THEN UNCHANGED faults ELSE DbFault

\* A statement through the context of run r.
DbWrite(r, ok) ==
    IF ctxDone(r) THEN ~ok /\ UNCHANGED faults ELSE DbDetached(ok)

Goto(r, p) == pc' = [pc EXCEPT ![r] = p]

Init ==
    /\ svc = "down" /\ todo = {}
    /\ jobRow = Jobs
    /\ lock = [j \in Jobs |-> None]
    /\ row = [r \in Runs |-> "none"] /\ noted = {}
    /\ pc = [r \in Runs |-> "idle"]
    /\ jobOf \in [Runs -> Jobs]
    /\ manual \in SUBSET Runs
    /\ cancelled = {}
    /\ call = [r \in Runs |-> "none"]
    /\ registry = {} /\ wg = 0
    /\ crashes = 0 /\ faults = 0

-----------------------------------------------------------------------------
(* Startup: releaseStaleLocks, recoverInterruptedRuns *)

\* startup opens the database; releaseStaleLocks lists the locks, or gives up.
Startup ==
    /\ svc = "down"
    /\ svc' = "locks"
    /\ \/ todo' = {j \in Jobs : lock[j] # None} /\ UNCHANGED faults
       \/ todo' = {} /\ DbFault
    /\ UNCHANGED <<dbVars, runVars, memVars, crashes>>

ReleaseStaleLock(j) ==
    /\ svc = "locks" /\ j \in todo
    /\ todo' = todo \ {j}
    /\ \/ lock' = [lock EXCEPT ![j] = None] /\ UNCHANGED faults
       \/ DbFault /\ UNCHANGED lock
    /\ UNCHANGED <<svc, jobRow, row, noted, runVars, memVars, crashes>>

\* Mutant: the ids are read, the rows are left to the per-run update.
InterruptRunningRuns_onlyIds ==
    /\ svc = "locks" /\ todo = {}
    /\ svc' = "details"
    /\ todo' = {r \in Runs : row[r] = "RUNNING"}
    /\ UNCHANGED <<dbVars, runVars, memVars, crashes, faults>>

\* The ids are read, then one statement moves all of them to INTERRUPTED.
InterruptRunningRuns ==
    /\ svc = "locks" /\ todo = {}
    /\ svc' = "details"
    /\ \/ /\ todo' = {r \in Runs : row[r] = "RUNNING"}
          /\ row' = [r \in Runs |-> IF row[r] = "RUNNING" THEN "INTERRUPTED" ELSE row[r]]
          /\ UNCHANGED faults
       \/ todo' = {} /\ DbFault /\ UNCHANGED row
    /\ UNCHANGED <<jobRow, lock, noted, runVars, memVars, crashes>>

\* Each of them is then loaded and written again with recovery FAILED.
RecoverRun(r) ==
    /\ svc = "details" /\ r \in todo
    /\ todo' = todo \ {r}
    /\ \/ noted' = noted \cup {r} /\ UNCHANGED faults
       \/ DbFault /\ UNCHANGED noted
    /\ UNCHANGED <<svc, jobRow, lock, row, runVars, memVars, crashes>>

\* Dispatcher, missed-run detection and IPC server are started.
Serve ==
    /\ svc = "details" /\ todo = {}
    /\ svc' = "up"
    /\ UNCHANGED <<todo, dbVars, runVars, memVars, crashes, faults>>

-----------------------------------------------------------------------------
(* Starting a run: the scheduler's workers and the runs.start handler *)

\* The job is loaded and the run begins.  The dispatcher starts workers until
\* it is stopped, the missed-run detection and open sessions until the
\* service's context is cancelled: closing the listener ends no session.
BeginRun(r) ==
    /\ svc \in {"up", "stopped"}
    /\ pc[r] = "idle"
    /\ jobOf[r] \in jobRow
    /\ Goto(r, "acquire")
    /\ UNCHANGED <<svc, todo, dbVars, jobOf, manual, cancelled, call, memVars, crashes, faults>>

\* Mutant: the insert replaces the row that is there.
Acquire_replaces(r) ==
    /\ pc[r] = "acquire"
    /\ DbWrite(r, TRUE) /\ jobOf[r] \in jobRow
    /\ lock' = [lock EXCEPT ![jobOf[r]] = r] /\ Goto(r, "create")
    /\ UNCHANGED <<svc, todo, jobRow, row, noted, jobOf, manual, cancelled, call,
                   memVars, crashes>>

\* LockRepository.Acquire.  Any constraint of job_locks counts as "already
\* running": the primary key, and the foreign key to a job that was deleted.
Acquire(r) ==
    /\ pc[r] = "acquire"
    /\ \/ /\ DbWrite(r, TRUE)
          /\ jobOf[r] \in jobRow /\ lock[jobOf[r]] = None
          /\ lock' = [lock EXCEPT ![jobOf[r]] = r] /\ Goto(r, "create")
       \/ /\ DbWrite(r, TRUE)
          /\ jobOf[r] \notin jobRow \/ lock[jobOf[r]] # None
          /\ UNCHANGED lock /\ Goto(r, "skip")
       \/ DbWrite(r, FALSE) /\ UNCHANGED lock /\ Goto(r, "done")
    /\ UNCHANGED <<svc, todo, jobRow, row, noted, jobOf, manual, cancelled, call,
                   memVars, crashes>>

CreateSkipped(r) ==
    /\ pc[r] = "skip"
    /\ \/ DbWrite(r, TRUE) /\ row' = [row EXCEPT ![r] = "SKIPPED"]
       \/ DbWrite(r, FALSE) /\ UNCHANGED row
    /\ Goto(r, "done")
    /\ UNCHANGED <<svc, todo, jobRow, lock, noted, jobOf, manual, cancelled, call,
                   memVars, crashes>>

\* Runs.Create; when it fails the lock is released, which may fail in its turn.
CreateRun(r) ==
    /\ pc[r] = "create"
    /\ \/ DbWrite(r, TRUE) /\ row' = [row EXCEPT ![r] = "RUNNING"] /\ Goto(r, "started")
       \/ DbWrite(r, FALSE) /\ UNCHANGED row /\ Goto(r, "release")
    /\ UNCHANGED <<svc, todo, jobRow, lock, noted, jobOf, manual, cancelled, call,
                   memVars, crashes>>

\* Events.RunStarted; Engine.Start then returns to the runs.start handler.
RunStarted(r) ==
    /\ pc[r] = "started"
    /\ wg' = wg + 1
    /\ Goto(r, "exec")
    /\ call' = IF r \in manual THEN [call EXCEPT ![r] = "check"] ELSE call
    /\ UNCHANGED <<svc, todo, dbVars, jobOf, manual, cancelled, registry, crashes, faults>>

\* The handler reads run.Status, which the run's goroutine may already have
\* changed; anything but RUNNING is taken for SKIPPED and the context cancelled.
HandlerChecks(r) ==
    /\ call[r] = "check"
    /\ IF pc[r] = "exec"
       THEN call' = [call EXCEPT ![r] = "register"] /\ UNCHANGED cancelled
       ELSE call' = [call EXCEPT ![r] = "none"] /\ cancelled' = cancelled \cup {r}
    /\ UNCHANGED <<svc, todo, dbVars, pc, jobOf, manual, memVars, crashes, faults>>

\* ActiveRunRegistry.Register.
Register(r) ==
    /\ call[r] = "register"
    /\ call' = [call EXCEPT ![r] = "none"]
    /\ registry' = registry \cup {r}
    /\ UNCHANGED <<svc, todo, dbVars, pc, jobOf, manual, cancelled, wg, crashes, faults>>

-----------------------------------------------------------------------------
(* The rest of Engine.finishRun *)

\* runContext.execute and run.Finish (module RunEngine).
Execute(r) ==
    /\ pc[r] = "exec"
    /\ Goto(r, "update")
    /\ UNCHANGED <<svc, todo, dbVars, jobOf, manual, cancelled, call, memVars, crashes, faults>>

\* Runs.Update, on the run's own context; an error is only logged.
UpdateRow(r) ==
    /\ pc[r] = "update"
    /\ \/ DbWrite(r, TRUE) /\ row' = [row EXCEPT ![r] = "ENDED"]
       \/ DbWrite(r, FALSE) /\ UNCHANGED row
    /\ Goto(r, "finished")
    /\ UNCHANGED <<svc, todo, jobRow, lock, noted, jobOf, manual, cancelled, call,
                   memVars, crashes>>

\* Mutant: runsWG.Done is missing.
RunFinished_keepsCount(r) ==
    /\ pc[r] = "finished"
    /\ registry' = registry \ {r}
    /\ Goto(r, "release")
    /\ UNCHANGED <<svc, todo, dbVars, jobOf, manual, cancelled, call, wg, crashes, faults>>

\* Events.RunFinished: Unregister, then runsWG.Done.
RunFinished(r) ==
    /\ pc[r] = "finished"
    /\ registry' = registry \ {r}
    /\ wg' = wg - 1
    /\ Goto(r, "release")
    /\ UNCHANGED <<svc, todo, dbVars, jobOf, manual, cancelled, call, crashes, faults>>

\* LockRepository.Release at the end of a run, or of one whose row could not be
\* created, on a detached context; errors are logged or ignored.
ReleaseLock(r) ==
    /\ pc[r] = "release"
    /\ \/ DbDetached(TRUE) /\ lock' = [lock EXCEPT ![jobOf[r]] = None]
       \/ DbDetached(FALSE) /\ UNCHANGED lock
    /\ Goto(r, "done")
    /\ UNCHANGED <<svc, todo, jobRow, row, noted, jobOf, manual, cancelled, call,
                   memVars, crashes>>

-----------------------------------------------------------------------------
(* Requests of the user *)

\* runs.cancel; a run that is not registered is answered NOT_FOUND.
CancelRun(r) ==
    /\ svc \notin {"down", "locks", "details"}
    /\ r \in registry
    /\ cancelled' = cancelled \cup {r}
    /\ UNCHANGED <<svc, todo, dbVars, pc, jobOf, manual, call, memVars, crashes, faults>>

\* Mutant: the lock is not looked at and goes with the job's row.
DeleteJob_noLock(j, deleteHistory) ==
    /\ svc \in {"up", "stopped"} /\ j \in jobRow
    /\ jobRow' = jobRow \ {j}
    /\ lock' = [lock EXCEPT ![j] = None]
    /\ row' = [r \in Runs |-> IF deleteHistory /\ jobOf[r] = j THEN "none" ELSE row[r]]
    /\ UNCHANGED <<svc, todo, noted, runVars, memVars, crashes, faults>>

\* JobRepository.Delete, one transaction, refused while the job is locked.
DeleteJob(j, deleteHistory) ==
    /\ svc \in {"up", "stopped"}
    /\ lock[j] = None /\ j \in jobRow
    /\ jobRow' = jobRow \ {j}
    /\ row' = [r \in Runs |-> IF deleteHistory /\ jobOf[r] = j THEN "none" ELSE row[r]]
    /\ UNCHANGED <<svc, todo, lock, noted, runVars, memVars, crashes, faults>>

-----------------------------------------------------------------------------
(* Shutdown and crash *)

\* Dispatcher.Stop waits for the loop; IPCServer.Close closes the listener.
StopDispatch ==
    /\ svc = "up" /\ svc' = "stopped"
    /\ UNCHANGED <<todo, dbVars, runVars, memVars, crashes, faults>>

\* a.cancel()
CancelService ==
    /\ svc = "stopped" /\ svc' = "cancelAll"
    /\ UNCHANGED <<todo, dbVars, runVars, memVars, crashes, faults>>

CancelAll ==
    /\ svc = "cancelAll" /\ svc' = "wait"
    /\ cancelled' = cancelled \cup registry
    /\ UNCHANGED <<todo, dbVars, pc, jobOf, manual, call, memVars, crashes, faults>>

\* Mutant: the wait has no deadline.
WaitEnds_noDeadline ==
    /\ svc = "wait" /\ wg = 0 /\ svc' = "closed"
    /\ UNCHANGED <<todo, dbVars, runVars, memVars, crashes, faults>>

\* runsWG.Wait returns, or shutdownBudget has passed; the database is closed.
WaitEnds ==
    /\ svc = "wait" /\ svc' = "closed"
    /\ UNCHANGED <<todo, dbVars, runVars, memVars, crashes, faults>>

\* What the end of the process does to everything that is not in the database.
ProcessGone ==
    /\ svc' = "down" /\ todo' = {}
    /\ pc' = [r \in Runs |-> IF pc[r] \in {"idle", "done"} THEN pc[r] ELSE "dead"]
    /\ call' = [r \in Runs |-> "none"]
    /\ cancelled' = {} /\ registry' = {} /\ wg' = 0
    /\ UNCHANGED <<dbVars, jobOf, manual, faults>>

Exit == svc = "closed" /\ ProcessGone /\ UNCHANGED crashes

Crash ==
    /\ svc # "down" /\ crashes < MaxCrashes
    /\ crashes' = crashes + 1
    /\ ProcessGone

-----------------------------------------------------------------------------

Recovery ==
    \/ Startup \/ InterruptRunningRuns \/ Serve
    \/ \E j \in Jobs : ReleaseStaleLock(j)
    \/ \E r \in Runs : RecoverRun(r)

RunStep(r) ==
    \/ Acquire(r) \/ CreateSkipped(r) \/ CreateRun(r) \/ RunStarted(r)
    \/ UpdateRow(r) \/ RunFinished(r) \/ ReleaseLock(r)

HandlerStep(r) == HandlerChecks(r) \/ Register(r)

UserStep ==
    \/ \E r \in Runs : BeginRun(r) \/ CancelRun(r)
    \/ \E j \in Jobs, deleteHistory \in BOOLEAN : DeleteJob(j, deleteHistory)

Shutdown == CancelService \/ CancelAll \/ WaitEnds \/ Exit

Next ==
    \/ Recovery \/ UserStep \/ Shutdown \/ StopDispatch \/ Crash
    \/ \E r \in Runs : RunStep(r) \/ Execute(r) \/ HandlerStep(r)

Spec == Init /\ [][Next]_vars

\* The process makes progress: recovery, the statements around a run, the
\* handler, and a shutdown once begun.  The service is registered with
\* automatic start, so it comes up again.  Nothing is assumed of Execute (it
\* waits for the server, see RunEngine) and of users.
FairSpec ==
    /\ Spec
    /\ WF_vars(Recovery) /\ WF_vars(Shutdown)
    /\ \A r \in Runs : WF_vars(RunStep(r)) /\ WF_vars(HandlerStep(r))

-----------------------------------------------------------------------------
(* Properties *)

\* At most one run of a job is between taking the job's lock and giving it
\* back, whatever crashes, recoveries, deletions and failed statements came
\* before (Acquire, Release by job id, releaseStaleLocks).
OneRunPerJob ==
    \A r, s \in Runs : r # s /\ pc[r] \in Holding /\ pc[s] \in Holding => jobOf[r] # jobOf[s]

\* JobRepository.Delete never takes the configuration or the history row of a
\* run in progress away from it.
DeleteSparesActive ==
    \A r \in Runs : Active(r) => jobOf[r] \in jobRow /\ row[r] # "none"

\* Once the service is up, a lock is held by a run of this process: nothing a
\* crash or a shutdown left behind blocks a job, if the database works
\* (releaseStaleLocks).
NoStaleLock ==
    svc = "up" /\ faults = 0 => \A j \in Jobs : lock[j] # None => pc[lock[j]] \in Holding /\ jobOf[lock[j]] = j

\* Once the service is up, a row that says RUNNING belongs to a run of this
\* process that has not written its end yet, or whose own cancellation has kept
\* it from doing so, if the database works: what earlier processes left is
\* repaired, their cancelled runs included (recoverInterruptedRuns).
RunningRowsExplained ==
    svc = "up" /\ faults = 0 => \A r \in Runs : row[r] = "RUNNING" =>
                      r \in cancelled \/ pc[r] \in {"started", "exec", "update"}

\* Neither the locks nor the rows show a run of a process that is gone
\* (releaseStaleLocks, recoverInterruptedRuns).
NothingLeftBehind == NoStaleLock /\ RunningRowsExplained

\* runsWG counts the runs between RunStarted and RunFinished, also when a run
\* starts while Shutdown is waiting: Done never makes it negative and a clean
\* wait means no run is in progress.
WaitGroupExact == wg = Cardinality({r \in Runs : Active(r)})

\* A shutdown that has begun ends, even if a run never returns.
ShutdownEnds == svc = "stopped" ~> svc = "down"

\* A run that died with the process is closed in the history and its lock is
\* given back after the next start, if the database works (startRuntime).
CrashedRunsRecovered ==
    \A r \in Runs : pc[r] = "dead" ~> faults > 0 \/ (row[r] # "RUNNING" /\ lock[jobOf[r]] # r)

-----------------------------------------------------------------------------
(* Inductive invariant *)

\* Goroutines of runs exist only in a process that is past its recovery, so
\* no stale lock released there can be one of theirs.
LiveOnlyWhenUp ==
    \A r \in Runs : pc[r] \notin {"idle", "done", "dead"} => svc \notin {"down", "locks", "details"}

\* A run in progress owns the lock of its job.
HoldersOwnLock ==
    \A r \in Runs : pc[r] \in Holding => lock[jobOf[r]] = r /\ jobOf[r] \in jobRow

\* A run that has been created keeps its row.
RowsOfActive ==
    \A r \in Runs : pc[r] \in Holding \ {"create", "release"} => row[r] # "none"

ServiceInv == TypeOK /\ LiveOnlyWhenUp /\ HoldersOwnLock /\ RowsOfActive /\ WaitGroupExact

\* While no statement fails: releaseStaleLocks still has every lock before it, and
\* from then on a lock is that of a run in progress.
LocksExplained ==
    faults = 0 =>
        \A j \in Jobs : lock[j] # None =>
            /\ svc = "locks" => j \in todo
            /\ svc \in {"details", "up"} => pc[lock[j]] \in Holding /\ jobOf[lock[j]] = j

\* And from the statement of recoverInterruptedRuns on, a RUNNING row is that of
\* a run in progress or of one that this process has cancelled.
RowsExplained ==
    faults = 0 /\ svc \in {"details", "up"} =>
        \A r \in Runs : row[r] = "RUNNING" => r \in cancelled \/ pc[r] \in {"started", "exec", "update"}

RecoveryInv == LocksExplained /\ RowsExplained
=============================================================================
