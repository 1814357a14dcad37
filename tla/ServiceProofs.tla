--------------------------- MODULE ServiceProofs ---------------------------
(***************************************************************************)
(* Mutual exclusion of the runs of a job, and what deleting a job leaves   *)
(* alone, for any number of jobs, runs, crashes and failed statements.     *)
(*                                                                         *)
(* The exclusion rests on HoldersOwnLock: a run in progress owns the lock  *)
(* row of its job.  It is inductive because the row is only removed by its *)
(* owner, or by releaseStaleLocks before any run of the process exists.    *)
(***************************************************************************)
EXTENDS Service, FiniteSetTheorems, TLAPS

\* Every step keeps the types of the variables other than the wait group.
LEMMA StepTypes ==
    ASSUME TypeOK, Next
    PROVE  DbTypeOK' /\ ProcessTypeOK'
<1> USE ServiceAssumption DEF TypeOK, DbTypeOK, ProcessTypeOK, Phase, Place, RowStatus, dbVars, runVars, memVars, Goto,
        DbWrite, DbDetached, DbFault
<1>1. ASSUME Recovery PROVE DbTypeOK' /\ ProcessTypeOK'
  <2>1. CASE Startup BY <2>1 DEF Startup
  <2>2. CASE InterruptRunningRuns BY <2>2 DEF InterruptRunningRuns
  <2>3. CASE Serve BY <2>3 DEF Serve
  <2>4. CASE \E j \in Jobs : ReleaseStaleLock(j) BY <2>4 DEF ReleaseStaleLock
  <2>5. CASE \E r \in Runs : RecoverRun(r) BY <2>5 DEF RecoverRun
  <2> QED BY <1>1, <2>1, <2>2, <2>3, <2>4, <2>5 DEF Recovery
<1>2. ASSUME UserStep PROVE DbTypeOK' /\ ProcessTypeOK'
  <2>1. CASE \E r \in Runs : BeginRun(r) BY <2>1 DEF BeginRun
  <2>2. CASE \E r \in Runs : CancelRun(r) BY <2>2 DEF CancelRun
  <2>3. CASE \E j \in Jobs, h \in BOOLEAN : DeleteJob(j, h) BY <2>3 DEF DeleteJob
  <2> QED BY <1>2, <2>1, <2>2, <2>3 DEF UserStep
<1>3. ASSUME Shutdown \/ StopDispatch \/ Crash PROVE DbTypeOK' /\ ProcessTypeOK'
  BY <1>3 DEF Shutdown, CancelService, CancelAll, WaitEnds, Exit, StopDispatch, Crash, ProcessGone
<1>4. ASSUME NEW r \in Runs, RunStep(r) PROVE DbTypeOK' /\ ProcessTypeOK'
  <2>1. CASE Acquire(r) BY <2>1 DEF Acquire
  <2>2. CASE CreateSkipped(r) BY <2>2 DEF CreateSkipped
  <2>3. CASE CreateRun(r) BY <2>3 DEF CreateRun
  <2>4. CASE RunStarted(r) BY <2>4 DEF RunStarted
  <2>5. CASE UpdateRow(r) BY <2>5 DEF UpdateRow
  <2>6. CASE RunFinished(r) BY <2>6 DEF RunFinished
  <2>7. CASE ReleaseLock(r) BY <2>7 DEF ReleaseLock
  <2> QED BY <1>4, <2>1, <2>2, <2>3, <2>4, <2>5, <2>6, <2>7 DEF RunStep
<1>5. ASSUME NEW r \in Runs, Execute(r) \/ HandlerStep(r) PROVE DbTypeOK' /\ ProcessTypeOK'
  BY <1>5 DEF Execute, HandlerStep, HandlerChecks, Register
<1> QED BY <1>1, <1>2, <1>3, <1>4, <1>5 DEF Next

\* The goroutines of a process end with it.
LEMMA StepLive ==
    ASSUME TypeOK, LiveOnlyWhenUp, Next
    PROVE  LiveOnlyWhenUp'
<1> USE DEF TypeOK, ProcessTypeOK, LiveOnlyWhenUp, dbVars, runVars, memVars, Goto
<1>1. ASSUME Recovery PROVE LiveOnlyWhenUp'
  BY <1>1 DEF Recovery, Startup, InterruptRunningRuns, Serve, ReleaseStaleLock, RecoverRun
<1>2. ASSUME UserStep PROVE LiveOnlyWhenUp'
  BY <1>2 DEF UserStep, BeginRun, CancelRun, DeleteJob
<1>3. ASSUME Shutdown \/ StopDispatch \/ Crash PROVE LiveOnlyWhenUp'
  BY <1>3 DEF Shutdown, CancelService, CancelAll, WaitEnds, Exit, StopDispatch, Crash, ProcessGone
<1>4. ASSUME NEW r \in Runs, RunStep(r) \/ Execute(r) \/ HandlerStep(r) PROVE LiveOnlyWhenUp'
  BY <1>4 DEF RunStep, Acquire, CreateSkipped, CreateRun, RunStarted, UpdateRow, RunFinished,
              ReleaseLock, Execute, HandlerStep, HandlerChecks, Register
<1> QED BY <1>1, <1>2, <1>3, <1>4 DEF Next

\* Every step keeps the lock rows of the runs in progress, and their rows in
\* the history.
LEMMA StepOwnership ==
    ASSUME TypeOK, LiveOnlyWhenUp, HoldersOwnLock, RowsOfActive, Next,
           NEW s \in Runs, pc'[s] \in Holding
    PROVE  /\ lock'[jobOf'[s]] = s
           /\ jobOf'[s] \in jobRow'
           /\ pc'[s] \notin {"create", "release"} => row'[s] # "none"
<1> DEFINE Kept == /\ lock'[jobOf'[s]] = s
                   /\ jobOf'[s] \in jobRow'
                   /\ pc'[s] \notin {"create", "release"} => row'[s] # "none"
<1>1. pc[s] \in Holding => /\ lock[jobOf[s]] = s
                           /\ jobOf[s] \in jobRow
                           /\ pc[s] \notin {"create", "release"} => row[s] # "none"
                           /\ svc \notin {"down", "locks", "details"}
  BY DEF HoldersOwnLock, RowsOfActive, LiveOnlyWhenUp, Holding
<1> USE ServiceAssumption DEF TypeOK, DbTypeOK, ProcessTypeOK, Holding, dbVars, runVars, memVars, Goto
<1>2. ASSUME Recovery PROVE Kept
  BY <1>1, <1>2 DEF Recovery, Startup, InterruptRunningRuns, Serve, ReleaseStaleLock, RecoverRun
<1>3. ASSUME UserStep PROVE Kept
  BY <1>1, <1>3 DEF UserStep, BeginRun, CancelRun, DeleteJob
<1>4. ASSUME Shutdown \/ StopDispatch \/ Crash PROVE Kept
  BY <1>1, <1>4 DEF Shutdown, CancelService, CancelAll, WaitEnds, Exit, StopDispatch, Crash,
                    ProcessGone
<1>5. ASSUME NEW r \in Runs, RunStep(r) \/ Execute(r) \/ HandlerStep(r) PROVE Kept
  <2>1. pc[r] \in Holding => lock[jobOf[r]] = r /\ jobOf[r] \in jobRow
    BY DEF HoldersOwnLock
  <2>2. CASE Acquire(r)
    <3>1. UNCHANGED <<jobOf, jobRow, row>> /\ pc' \in {[pc EXCEPT ![r] = p] : p \in {"create", "skip", "done"}}
      BY <2>2 DEF Acquire
    <3>2. CASE s = r
      <4>1. pc'[s] = "create" BY <3>1, <3>2
      <4>2. lock' = [lock EXCEPT ![jobOf[r]] = r] /\ jobOf[r] \in jobRow
        BY <2>2, <3>2, <4>1 DEF Acquire
      <4> QED BY <3>1, <3>2, <4>1, <4>2
    <3>3. CASE s # r
      <4>1. pc[s] \in Holding /\ pc'[s] = pc[s] BY <3>1, <3>3
      <4>2. lock[jobOf[s]] # None BY <1>1, <4>1
      <4>3. lock'[jobOf[s]] = s BY <1>1, <2>2, <4>1, <4>2 DEF Acquire
      <4> QED BY <1>1, <3>1, <4>1, <4>3
    <3> QED BY <3>2, <3>3
  <2>3. CASE CreateSkipped(r) BY <1>1, <2>3 DEF CreateSkipped
  <2>4. CASE CreateRun(r) BY <1>1, <2>1, <2>4 DEF CreateRun
  <2>5. CASE RunStarted(r) BY <1>1, <2>5 DEF RunStarted
  <2>6. CASE UpdateRow(r) BY <1>1, <2>6 DEF UpdateRow
  <2>7. CASE RunFinished(r) BY <1>1, <2>7 DEF RunFinished
  <2>8. CASE ReleaseLock(r) BY <1>1, <2>1, <2>8 DEF ReleaseLock
  <2>9. CASE Execute(r) \/ HandlerStep(r)
    BY <1>1, <2>9 DEF Execute, HandlerStep, HandlerChecks, Register
  <2> QED BY <1>5, <2>2, <2>3, <2>4, <2>5, <2>6, <2>7, <2>8, <2>9 DEF RunStep
<1> QED BY <1>2, <1>3, <1>4, <1>5 DEF Next

\* runsWG follows the set of runs between RunStarted and RunFinished.
LEMMA StepWaitGroup ==
    ASSUME TypeOK, WaitGroupExact, Next
    PROVE  WaitGroupExact'
<1> DEFINE A == {r \in Runs : Active(r)}
<1>1. IsFiniteSet(A) /\ IsFiniteSet(A')
  BY FS_Subset, ServiceAssumption
<1>2. SUFFICES wg' = Cardinality(A')
  BY DEF WaitGroupExact
<1>3. wg = Cardinality(A)
  BY DEF WaitGroupExact
<1>4. CASE A' = A /\ wg' = wg
  BY <1>3, <1>4
<1>5. ASSUME NEW r \in Runs, r \notin A, A' = A \cup {r}, wg' = wg + 1
      PROVE  wg' = Cardinality(A')
  BY <1>1, <1>3, <1>5, FS_AddElement
<1>6. ASSUME NEW r \in Runs, r \in A, A' = A \ {r}, wg' = wg - 1
      PROVE  wg' = Cardinality(A')
  BY <1>1, <1>3, <1>6, FS_RemoveElement
<1>7. ASSUME svc' = "down", wg' = 0, A' = {} PROVE wg' = Cardinality(A')
  BY <1>7, FS_EmptySet
<1>8. ASSUME Recovery \/ UserStep PROVE A' = A /\ wg' = wg
  <2> USE DEF Active, dbVars, runVars, memVars
  <2>1. CASE Recovery
    BY <2>1 DEF Recovery, Startup, InterruptRunningRuns, Serve, ReleaseStaleLock, RecoverRun
  <2>2. CASE UserStep
    BY <2>2 DEF UserStep, BeginRun, CancelRun, DeleteJob, Goto, TypeOK, ProcessTypeOK
  <2> QED BY <1>8, <2>1, <2>2
<1>9. ASSUME Shutdown \/ StopDispatch \/ Crash PROVE (A' = A /\ wg' = wg) \/ (svc' = "down" /\ wg' = 0 /\ A' = {})
  BY <1>9 DEF Shutdown, CancelService, CancelAll, WaitEnds, Exit, StopDispatch, Crash, ProcessGone,
              Active, dbVars, runVars, memVars
<1>10. ASSUME NEW r \in Runs, RunStep(r) \/ Execute(r) \/ HandlerStep(r)
       PROVE  \/ A' = A /\ wg' = wg
              \/ r \notin A /\ A' = A \cup {r} /\ wg' = wg + 1
              \/ r \in A /\ A' = A \ {r} /\ wg' = wg - 1
  <2> USE DEF Active, Goto, TypeOK, ProcessTypeOK, dbVars, runVars, memVars
  <2>1. CASE Acquire(r) BY <2>1 DEF Acquire
  <2>2. CASE CreateSkipped(r) BY <2>2 DEF CreateSkipped
  <2>3. CASE CreateRun(r) BY <2>3 DEF CreateRun
  <2>4. CASE RunStarted(r) BY <2>4 DEF RunStarted
  <2>5. CASE UpdateRow(r) BY <2>5 DEF UpdateRow
  <2>6. CASE RunFinished(r) BY <2>6 DEF RunFinished
  <2>7. CASE ReleaseLock(r) BY <2>7 DEF ReleaseLock
  <2>8. CASE Execute(r) \/ HandlerStep(r)
    BY <2>8 DEF Execute, HandlerStep, HandlerChecks, Register
  <2> QED BY <1>10, <2>1, <2>2, <2>3, <2>4, <2>5, <2>6, <2>7, <2>8 DEF RunStep
<1> HIDE DEF A
<1> QED BY <1>4, <1>5, <1>6, <1>7, <1>8, <1>9, <1>10 DEF Next

\* All four parts of the invariant hold initially and are kept together.
LEMMA ServiceInvariant == Spec => []ServiceInv
<1>1. Init => ServiceInv
  <2> SUFFICES ASSUME Init PROVE ServiceInv OBVIOUS
  <2>1. TypeOK
    BY ServiceAssumption DEF Init, TypeOK, DbTypeOK, ProcessTypeOK, Phase, Place, RowStatus
  <2>2. HoldersOwnLock /\ RowsOfActive /\ LiveOnlyWhenUp
    BY DEF Init, LiveOnlyWhenUp, HoldersOwnLock, RowsOfActive, Holding
  <2>3. {r \in Runs : Active(r)} = {}
    BY DEF Init, Active
  <2>4. WaitGroupExact
    BY <2>3, FS_EmptySet DEF Init, WaitGroupExact
  <2> QED BY <2>1, <2>2, <2>4 DEF ServiceInv
<1>2. ServiceInv /\ [Next]_vars => ServiceInv'
  <2> SUFFICES ASSUME ServiceInv, [Next]_vars PROVE ServiceInv' OBVIOUS
  <2>1. CASE Next
    <3>1. DbTypeOK' /\ ProcessTypeOK' BY <2>1, StepTypes DEF ServiceInv
    <3>2. HoldersOwnLock' /\ RowsOfActive'
      BY <2>1, StepOwnership DEF ServiceInv, HoldersOwnLock, RowsOfActive
    <3>6. LiveOnlyWhenUp' BY <2>1, StepLive DEF ServiceInv
    <3>3. WaitGroupExact' BY <2>1, StepWaitGroup DEF ServiceInv
    <3>4. IsFiniteSet({r \in Runs : Active(r)'}) BY FS_Subset, ServiceAssumption
    <3>5. wg' \in Nat BY <3>3, <3>4, FS_CardinalityType DEF WaitGroupExact
    <3> QED BY <3>1, <3>2, <3>3, <3>5, <3>6 DEF ServiceInv, TypeOK
  <2>2. CASE UNCHANGED vars
    BY <2>2 DEF ServiceInv, TypeOK, DbTypeOK, ProcessTypeOK, LiveOnlyWhenUp, HoldersOwnLock,
                RowsOfActive, WaitGroupExact, Active, vars, dbVars, runVars, memVars
  <2> QED BY <2>1, <2>2
<1> QED BY <1>1, <1>2, PTL DEF Spec

\* At most one run of a job holds the job's lock: beginRun and finishRun
\* exclude each other per job, over any number of crashes and failed
\* statements.
THEOREM RunsExclude == Spec => []OneRunPerJob
<1>1. ServiceInv => OneRunPerJob
  BY DEF ServiceInv, HoldersOwnLock, OneRunPerJob
<1> QED BY <1>1, ServiceInvariant, PTL

\* JobRepository.Delete leaves the job and the history row of a run in
\* progress alone.
THEOREM DeleteIsSafe == Spec => []DeleteSparesActive
<1>1. ServiceInv => DeleteSparesActive
  BY DEF ServiceInv, HoldersOwnLock, RowsOfActive, DeleteSparesActive, Active, Holding
<1> QED BY <1>1, ServiceInvariant, PTL

\* runsWG is the number of runs between RunStarted and RunFinished, so its
\* Done never drives it below zero.
THEOREM WaitGroupIsExact == Spec => []WaitGroupExact
<1>1. ServiceInv => WaitGroupExact
  BY DEF ServiceInv
<1> QED BY <1>1, ServiceInvariant, PTL

-----------------------------------------------------------------------------
(* What recovery at startup clears *)

\* A fault is never forgotten.
LEMMA FaultsStay ==
    ASSUME TypeOK, Next, faults' = 0
    PROVE  faults = 0
<1>1. faults \in Nat
  BY DEF TypeOK, ProcessTypeOK
<1>2. faults' = faults \/ faults' = faults + 1
  <2> USE DEF dbVars, runVars, memVars, DbWrite, DbDetached, DbFault
  <2>1. CASE Recovery
    BY <2>1 DEF Recovery, Startup, InterruptRunningRuns, Serve, ReleaseStaleLock, RecoverRun
  <2>2. CASE UserStep
    BY <2>2 DEF UserStep, BeginRun, CancelRun, DeleteJob
  <2>3. CASE Shutdown \/ StopDispatch \/ Crash
    BY <2>3 DEF Shutdown, CancelService, CancelAll, WaitEnds, Exit, StopDispatch, Crash, ProcessGone
  <2>4. CASE \E r \in Runs : RunStep(r)
    BY <2>4 DEF RunStep, Acquire, CreateSkipped, CreateRun, RunStarted, UpdateRow, RunFinished,
                ReleaseLock
  <2>5. CASE \E r \in Runs : Execute(r) \/ HandlerStep(r)
    BY <2>5 DEF Execute, HandlerStep, HandlerChecks, Register
  <2> QED BY <2>1, <2>2, <2>3, <2>4, <2>5 DEF Next
<1> QED BY <1>1, <1>2

\* releaseStaleLocks works off every lock, and a run gives its own lock back
\* whenever it leaves the places that hold it.
LEMMA StepLocks ==
    ASSUME ServiceInv, LocksExplained, Next
    PROVE  LocksExplained'
<1> SUFFICES ASSUME faults' = 0, NEW j \in Jobs, lock'[j] # None
             PROVE  /\ svc' = "locks" => j \in todo'
                    /\ svc' \in {"details", "up"} => pc'[lock'[j]] \in Holding /\ jobOf'[lock'[j]] = j
  BY DEF LocksExplained
<1>0. faults = 0
  BY FaultsStay DEF ServiceInv
<1>1. lock[j] # None => /\ lock[j] \in Runs
                        /\ svc = "locks" => j \in todo
                        /\ svc \in {"details", "up"} => pc[lock[j]] \in Holding /\ jobOf[lock[j]] = j
  BY <1>0 DEF LocksExplained, ServiceInv, TypeOK, DbTypeOK
<1> DEFINE Kept == /\ svc' = "locks" => j \in todo'
                   /\ svc' \in {"details", "up"} => pc'[lock'[j]] \in Holding /\ jobOf'[lock'[j]] = j
<1> USE ServiceAssumption DEF ServiceInv, TypeOK, DbTypeOK, ProcessTypeOK, Holding, dbVars, runVars, memVars, Goto,
        DbWrite, DbDetached, DbFault, dbOpen
<1>2. ASSUME Recovery PROVE Kept
  <2>1. CASE Startup BY <1>0, <1>1, <2>1 DEF Startup
  <2>2. CASE InterruptRunningRuns BY <1>0, <1>1, <2>2 DEF InterruptRunningRuns
  <2>3. CASE Serve BY <1>0, <1>1, <2>3 DEF Serve
  <2>4. CASE \E k \in Jobs : ReleaseStaleLock(k) BY <1>0, <1>1, <2>4 DEF ReleaseStaleLock
  <2>5. CASE \E r \in Runs : RecoverRun(r) BY <1>0, <1>1, <2>5 DEF RecoverRun
  <2> QED BY <1>2, <2>1, <2>2, <2>3, <2>4, <2>5 DEF Recovery
<1>3. ASSUME UserStep PROVE Kept
  BY <1>1, <1>3 DEF UserStep, BeginRun, CancelRun, DeleteJob
<1>4. ASSUME Shutdown \/ StopDispatch \/ Crash PROVE Kept
  BY <1>1, <1>4 DEF Shutdown, CancelService, CancelAll, WaitEnds, Exit, StopDispatch, Crash, ProcessGone
<1>5. ASSUME NEW r \in Runs, RunStep(r) \/ Execute(r) \/ HandlerStep(r) PROVE Kept
  <2>1. svc' = svc /\ todo' = todo /\ jobOf' = jobOf
    BY <1>5 DEF RunStep, Acquire, CreateSkipped, CreateRun, RunStarted, UpdateRow, RunFinished,
                ReleaseLock, Execute, HandlerStep, HandlerChecks, Register
  <2>2. CASE Acquire(r) BY <1>1, <2>1, <2>2 DEF Acquire, LiveOnlyWhenUp
  <2>3. CASE CreateSkipped(r) BY <1>1, <2>1, <2>3 DEF CreateSkipped
  <2>4. CASE CreateRun(r) BY <1>0, <1>1, <2>1, <2>4 DEF CreateRun
  <2>5. CASE RunStarted(r) BY <1>1, <2>1, <2>5 DEF RunStarted
  <2>6. CASE UpdateRow(r) BY <1>1, <2>1, <2>6 DEF UpdateRow
  <2>7. CASE RunFinished(r) BY <1>1, <2>1, <2>7 DEF RunFinished
  <2>8. CASE ReleaseLock(r) BY <1>0, <1>1, <2>1, <2>8 DEF ReleaseLock
  <2>9. CASE Execute(r) \/ HandlerStep(r)
    BY <1>1, <2>1, <2>9 DEF Execute, HandlerStep, HandlerChecks, Register
  <2> QED BY <1>5, <2>2, <2>3, <2>4, <2>5, <2>6, <2>7, <2>8, <2>9 DEF RunStep
<1> QED BY <1>2, <1>3, <1>4, <1>5 DEF Next

\* recoverInterruptedRuns closes every RUNNING row at once, and a run of the new
\* process leaves one behind only if it is cancelled.
LEMMA StepRows ==
    ASSUME ServiceInv, RowsExplained, Next
    PROVE  RowsExplained'
<1> SUFFICES ASSUME faults' = 0, svc' \in {"details", "up"}, NEW s \in Runs, row'[s] = "RUNNING"
             PROVE  s \in cancelled' \/ pc'[s] \in {"started", "exec", "update"}
  BY DEF RowsExplained
<1>0. faults = 0
  BY FaultsStay DEF ServiceInv
<1>1. svc \in {"details", "up"} /\ row[s] = "RUNNING" => s \in cancelled \/ pc[s] \in {"started", "exec", "update"}
  BY <1>0 DEF RowsExplained
<1> DEFINE Kept == s \in cancelled' \/ pc'[s] \in {"started", "exec", "update"}
<1> USE ServiceAssumption DEF ServiceInv, TypeOK, DbTypeOK, ProcessTypeOK, dbVars, runVars, memVars, Goto,
        DbWrite, DbDetached, DbFault, dbOpen, ctxDone, svcDone
<1>2. ASSUME Recovery PROVE Kept
  <2>1. CASE Startup BY <2>1 DEF Startup
  <2>2. CASE InterruptRunningRuns BY <1>0, <2>2 DEF InterruptRunningRuns
  <2>3. CASE Serve BY <1>1, <2>3 DEF Serve
  <2>4. CASE \E k \in Jobs : ReleaseStaleLock(k) BY <2>4 DEF ReleaseStaleLock
  <2>5. CASE \E r \in Runs : RecoverRun(r) BY <1>1, <2>5 DEF RecoverRun
  <2> QED BY <1>2, <2>1, <2>2, <2>3, <2>4, <2>5 DEF Recovery
<1>3. ASSUME UserStep PROVE Kept
  BY <1>1, <1>3 DEF UserStep, BeginRun, CancelRun, DeleteJob
<1>4. ASSUME Shutdown \/ StopDispatch \/ Crash PROVE Kept
  BY <1>4 DEF Shutdown, CancelService, CancelAll, WaitEnds, Exit, StopDispatch, Crash, ProcessGone
<1>5. ASSUME NEW r \in Runs, RunStep(r) \/ Execute(r) \/ HandlerStep(r) PROVE Kept
  <2>2. CASE Acquire(r) BY <1>1, <2>2 DEF Acquire
  <2>3. CASE CreateSkipped(r) BY <1>1, <2>3 DEF CreateSkipped
  <2>4. CASE CreateRun(r) BY <1>0, <1>1, <2>4 DEF CreateRun
  <2>5. CASE RunStarted(r) BY <1>1, <2>5 DEF RunStarted
  <2>6. CASE UpdateRow(r) BY <1>0, <1>1, <2>6 DEF UpdateRow
  <2>7. CASE RunFinished(r) BY <1>1, <2>7 DEF RunFinished
  <2>8. CASE ReleaseLock(r) BY <1>1, <2>8 DEF ReleaseLock
  <2>9. CASE Execute(r) \/ HandlerStep(r)
    BY <1>1, <2>9 DEF Execute, HandlerStep, HandlerChecks, Register
  <2> QED BY <1>5, <2>2, <2>3, <2>4, <2>5, <2>6, <2>7, <2>8, <2>9 DEF RunStep
<1> QED BY <1>2, <1>3, <1>4, <1>5 DEF Next

\* Once the service is up again, neither a lock nor a RUNNING row is left of a
\* process that crashed or was stopped, provided no statement failed.
THEOREM RecoveryIsComplete == Spec => []NothingLeftBehind
<1>1. Init => RecoveryInv
  BY DEF Init, RecoveryInv, LocksExplained, RowsExplained
<1>2. ServiceInv /\ RecoveryInv /\ [Next]_vars => RecoveryInv'
  <2>1. ServiceInv /\ RecoveryInv /\ Next => RecoveryInv'
    BY StepLocks, StepRows DEF RecoveryInv
  <2>2. RecoveryInv /\ UNCHANGED vars => RecoveryInv'
    BY DEF RecoveryInv, LocksExplained, RowsExplained, vars, dbVars, runVars, memVars
  <2> QED BY <2>1, <2>2
<1>3. RecoveryInv => NothingLeftBehind
  BY DEF RecoveryInv, LocksExplained, RowsExplained, NothingLeftBehind, NoStaleLock, RunningRowsExplained
<1> QED BY <1>1, <1>2, <1>3, ServiceInvariant, PTL DEF Spec
=============================================================================
