--------------------------- MODULE RunEngineProofs ---------------------------
(***************************************************************************)
(* Proofs about RunEngine for every set of jobs (any number of scripts,    *)
(* any number of health check attempts) and any number of database faults: *)
(* first the invariant of a run and its refinement of RunContract, then    *)
(* the scripts, the recovery outcome and the step history on top of it.    *)
(***************************************************************************)
EXTENDS RunEngine, SequenceTheorems, TLAPS

-----------------------------------------------------------------------------
(* The history of steps *)

\* Recording the end of a step keeps the history well formed and changes no
\* step's type (stepRecorder.Finish).
LEMMA FinishStepLemma ==
    ASSUME NEW s \in Seq(Step), NEW v \in {"SUCCESS", "FAILED"},
           NEW t, t = [s EXCEPT ![Len(s)].status = v]
    PROVE  /\ t \in Seq(Step)
           /\ Len(t) = Len(s)
           /\ \A i \in 1..Len(s) : t[i].type = s[i].type
  <1>1. CASE Len(s) = 0
    <2>1. s = << >>
      BY <1>1
    <2>2. t = << >>
      BY <2>1
    <2> QED BY <2>1, <2>2
  <1>2. CASE Len(s) # 0
    <2> DEFINE e == [s[Len(s)] EXCEPT !.status = v]
    <2>1. Len(s) \in 1..Len(s)
      BY <1>2
    <2>2. s[Len(s)] \in Step
      BY <2>1
    <2>3. e \in Step /\ e.type = s[Len(s)].type
      BY <2>2 DEF Step
    <2>4. t = [s EXCEPT ![Len(s)] = e]
      OBVIOUS
    <2> HIDE DEF e
    <2> QED BY <2>1, <2>3, <2>4, ExceptSeq
  <1> QED BY <1>1, <1>2

\* The same for the variables of the specification.
LEMMA FinishStepTypes ==
    ASSUME TypeOK, finishStep
    PROVE  /\ steps' \in Seq(Step)
           /\ faults' \in 0..MaxFaults
           /\ StepTypes' = StepTypes
  <1>1. steps \in Seq(Step)
    BY DEF TypeOK
  <1>2. PICK ok \in BOOLEAN : DbWrite(ok) /\ steps' = IF ok
             THEN [steps EXCEPT ![Len(steps)].status = IF verdict THEN "SUCCESS" ELSE "FAILED"]
             ELSE steps
    BY DEF finishStep
  <1>3. faults' \in 0..MaxFaults
    BY <1>2, JobsAssumption DEF DbWrite, DbFault, TypeOK
  <1>4. /\ steps' \in Seq(Step) /\ Len(steps') = Len(steps)
        /\ \A i \in 1..Len(steps) : steps'[i].type = steps[i].type
    <2>1. CASE ok
      <3> DEFINE v == IF verdict THEN "SUCCESS" ELSE "FAILED"
      <3>1. v \in {"SUCCESS", "FAILED"}
        OBVIOUS
      <3>2. steps' = [steps EXCEPT ![Len(steps)].status = v]
        BY <1>2, <2>1
      <3> HIDE DEF v
      <3>3. \A t : t = [steps EXCEPT ![Len(steps)].status = v] =>
                /\ t \in Seq(Step) /\ Len(t) = Len(steps)
                /\ \A i \in 1..Len(steps) : t[i].type = steps[i].type
        BY <1>1, <3>1, FinishStepLemma
      <3> QED BY <3>2, <3>3
    <2>2. CASE ~ok
      BY <1>1, <1>2, <2>2
    <2> QED BY <2>1, <2>2
  <1>5. StepTypes' = StepTypes
    BY <1>4 DEF StepTypes
  <1> QED BY <1>3, <1>4, <1>5

\* A new step adds its type to the history and nothing else.
LEMMA AppendStepTypes ==
    ASSUME TypeOK, NEW x \in Step, steps' = Append(steps, x)
    PROVE  /\ steps' \in Seq(Step)
           /\ StepTypes' = StepTypes \cup {x.type}
  <1>1. steps \in Seq(Step)
    BY DEF TypeOK
  <1>2. /\ steps' \in Seq(Step) /\ Len(steps') = Len(steps) + 1
        /\ \A i \in 1..Len(steps) : steps'[i] = steps[i]
        /\ steps'[Len(steps) + 1] = x
    BY <1>1, AppendProperties
  <1>3. StepTypes' = StepTypes \cup {x.type}
    <2>1. Len(steps) \in Nat
      BY <1>1
    <2>2. 1..(Len(steps) + 1) = 1..Len(steps) \cup {Len(steps) + 1}
      BY <2>1
    <2> QED BY <1>2, <2>2 DEF StepTypes
  <1> QED BY <1>2, <1>3

\* Where StepTypes is not changed because steps is not.
LEMMA SameSteps == ASSUME UNCHANGED steps PROVE StepTypes' = StepTypes
  BY DEF StepTypes

-----------------------------------------------------------------------------
(* The outcome of the run: failures, warnings, status *)

\* fail, warn, a script that returns, and a step that touches none of the
\* outcome keep it within its types.
LEMMA FailTypes ==
    ASSUME OutcomeTypeOK, NEW code \in ErrorCode, fail(code)
    PROVE  OutcomeTypeOK'
  BY DEF fail, errorAfter, OutcomeTypeOK

\* A warning leaves the types alone.
LEMMA WarnTypes ==
    ASSUME OutcomeTypeOK, NEW code \in ErrorCode, warn(code)
    PROVE  OutcomeTypeOK'
  BY DEF warn, OutcomeTypeOK

\* So does a step that changes nothing of the run.
LEMMA SameTypes ==
    ASSUME OutcomeTypeOK, UNCHANGED <<rcVars, runVars>>
    PROVE  OutcomeTypeOK'
  BY DEF rcVars, runVars, OutcomeTypeOK

\* So does the return of a script.
LEMMA ScriptReturnedTypes ==
    ASSUME OutcomeTypeOK, NEW error \in BOOLEAN, scriptReturned(error)
    PROVE  OutcomeTypeOK'
  <1>1. recovery' \in Recovery
    BY DEF scriptReturned, recordRecovery, OutcomeTypeOK, Recovery
  <1>2. failed' \in BOOLEAN
    BY DEF scriptReturned, OutcomeTypeOK
  <1>3. err' \in ErrorCode
    BY DEF scriptReturned, errorAfter, OutcomeTypeOK, ErrorCode
  <1> QED
    BY <1>1, <1>2, <1>3 DEF scriptReturned, OutcomeTypeOK

-----------------------------------------------------------------------------
(* The inductive invariant, one lemma for each part of it *)

\* The inductive invariant holds initially.
LEMMA InitIInv == Init => IInv
  <1> SUFFICES ASSUME Init PROVE IInv
    OBVIOUS
  <1>1. TypeOK
    <2>1. job \in Job
      BY JobsAssumption DEF Init
    <2>2. steps \in Seq(Step)
      BY EmptySeq DEF Init
    <2>3. OutcomeTypeOK
      BY DEF Init, OutcomeTypeOK, Recovery, ErrorCode, RunStatus
    <2>4. pc \in Place /\ stage \in Stage /\ row \in RunStatus /\ told \in RunStatus
      BY DEF Init, Place, Stage, RunStatus
    <2>5. /\ registry \in [Scripts -> {"none", "pending", "done"}]
          /\ ran \in [Scripts -> Nat]
      BY DEF Init
    <2>6. good \subseteq Scripts /\ reached \subseteq Scripts
      BY DEF Init
    <2>7. faults \in 0..MaxFaults /\ idx \in Nat \ {0} /\ attempt \in Nat
      BY JobsAssumption DEF Init
    <2> QED
      BY <2>1, <2>2, <2>3, <2>4, <2>5, <2>6, <2>7 DEF Init, TypeOK
  <1>2. Control /\ Bookkeeping
    BY DEF Init, Control, Bookkeeping
  <1>3. Evidence
    BY DEF Init, Evidence, PastDownload, StepTypes
  <1> QED BY <1>1, <1>2, <1>3 DEF IInv

\* Types and control: every action keeps the variables within their types and
\* the goroutine at a place that belongs to its stage.
LEMMA NextTyped ==
    ASSUME TypeOK, Control, [Next]_vars
    PROVE  TypeOK' /\ Control'
  <1>1. CASE Acquire
    BY <1>1, JobsAssumption DEF Acquire, DbWrite, DbFault, TypeOK, OutcomeTypeOK, Control,
       Place, Stage, ScriptStage, DownloadStage, RunStatus, Ended, Recovery, ErrorCode,
       Scripts, jobVars, ctlVars, ctxVars, rcVars, runVars, dbVars, scriptVars, fileVars
  <1>2. CASE CreateSkipped
    BY <1>2, JobsAssumption DEF CreateSkipped, DbWrite, DbFault, TypeOK, OutcomeTypeOK,
       Control, Place, Stage, ScriptStage, DownloadStage, RunStatus, Ended, Recovery,
       ErrorCode, Scripts, jobVars, ctlVars, ctxVars, rcVars, runVars, dbVars, scriptVars,
       fileVars
  <1>3. CASE CreateRun
    BY <1>3, JobsAssumption DEF CreateRun, DbWrite, DbFault, TypeOK, OutcomeTypeOK, Control,
       Place, Stage, ScriptStage, DownloadStage, RunStatus, Ended, Recovery, ErrorCode,
       Scripts, jobVars, ctlVars, ctxVars, rcVars, runVars, dbVars, scriptVars, fileVars
  <1>4. CASE StepStart
    <2>1. stepType \in StepType
      BY <1>4 DEF StepStart, stepType, scriptStepType, StepType, Stage, ScriptStage, DownloadStage, TypeOK, Control
    <2>2. [type |-> stepType, status |-> "RUNNING"] \in Step
      BY <2>1 DEF Step
    <2>3. steps' \in Seq(Step)
      BY <1>4, <2>2, AppendStepTypes DEF StepStart
    <2> QED
      BY <1>4, <2>3, JobsAssumption DEF StepStart, DbWrite, DbFault, TypeOK, OutcomeTypeOK,
         Control, Place, Stage, ScriptStage, DownloadStage, RunStatus, Ended, Recovery,
         ErrorCode, Scripts, jobVars, ctlVars, ctxVars, rcVars, runVars, dbVars, scriptVars,
         fileVars
  <1>5. CASE StepNotStarted
    <2>1. OutcomeTypeOK'
      BY <1>5, FailTypes, SameTypes DEF StepNotStarted, TypeOK, ErrorCode, rcVars, runVars
    <2>2. verdict' \in BOOLEAN
      BY <1>5 DEF StepNotStarted, TypeOK, Goto, afterPostBackup, afterRemoteCleanup
    <2>3. TypeOK'
      BY <1>5, <2>1, <2>2, JobsAssumption DEF StepNotStarted, TypeOK, Control, ScriptStage,
         DownloadStage, Place, Stage, Scripts, jobVars, ctlVars, ctxVars, dbVars,
         scriptVars, fileVars, DbWrite, DbFault, Goto, afterPostBackup, afterRemoteCleanup
    <2>4. Control'
      BY <1>5 DEF StepNotStarted, TypeOK, Control, Place, Stage, ScriptStage, DownloadStage,
         Scripts, jobVars, Goto, afterPostBackup, afterRemoteCleanup
    <2> QED BY <2>3, <2>4
  <1>6. CASE StepFinish
    <2>1. steps' \in Seq(Step) /\ faults' \in 0..MaxFaults
      BY <1>6, FinishStepTypes DEF StepFinish
    <2>2. OutcomeTypeOK'
      BY <1>6, SameTypes DEF StepFinish, TypeOK, rcVars, runVars
    <2>3. TypeOK'
      BY <1>6, <2>1, <2>2 DEF StepFinish, Goto, afterPostBackup, afterRemoteCleanup, TypeOK,
         Control, ScriptStage, DownloadStage, Place, Stage, Scripts, jobVars, ctlVars,
         ctxVars, dbVars, scriptVars, fileVars
    <2>4. Control'
      BY <1>6 DEF StepFinish, Goto, afterPostBackup, afterRemoteCleanup, TypeOK, Control,
         Place, Stage, ScriptStage, DownloadStage, Scripts, jobVars
    <2> QED BY <2>3, <2>4
  <1>7. CASE CheckCancelled
    <2>1. OutcomeTypeOK'
      BY <1>7 DEF CheckCancelled, TypeOK, ErrorCode, rcVars, runVars, OutcomeTypeOK
    <2>2. verdict' \in BOOLEAN
      BY <1>7 DEF CheckCancelled, TypeOK, Goto, afterPostBackup
    <2>3. TypeOK'
      BY <1>7, <2>1, <2>2, JobsAssumption DEF CheckCancelled, TypeOK, Control, ScriptStage,
         DownloadStage, Place, Stage, Scripts, jobVars, ctlVars, ctxVars, dbVars,
         scriptVars, fileVars, Goto, afterPostBackup
    <2>4. Control'
      BY <1>7 DEF CheckCancelled, TypeOK, Control, Place, Stage, ScriptStage, DownloadStage,
         Scripts, jobVars, Goto, afterPostBackup
    <2> QED BY <2>3, <2>4
  <1>8. CASE CloseTransport
    BY <1>8, JobsAssumption DEF CloseTransport, Goto, TypeOK, OutcomeTypeOK, Control, Place,
       Stage, ScriptStage, DownloadStage, RunStatus, Ended, Recovery, ErrorCode, Scripts,
       jobVars, ctlVars, ctxVars, rcVars, runVars, dbVars, scriptVars, fileVars
  <1>9. CASE Finish
    BY <1>9, JobsAssumption DEF Finish, finalStatus, TypeOK, OutcomeTypeOK, Control, Place,
       Stage, ScriptStage, DownloadStage, RunStatus, Ended, Recovery, ErrorCode, Scripts,
       jobVars, ctlVars, ctxVars, rcVars, runVars, dbVars, scriptVars, fileVars
  <1>10. CASE UpdateRow
    BY <1>10, JobsAssumption DEF UpdateRow, DbWrite, DbFault, TypeOK, OutcomeTypeOK,
       Control, Place, Stage, ScriptStage, DownloadStage, RunStatus, Ended, Recovery,
       ErrorCode, Scripts, jobVars, ctlVars, ctxVars, rcVars, runVars, dbVars, scriptVars,
       fileVars
  <1>11. CASE Release
    BY <1>11, JobsAssumption DEF Release, DbWriteDetached, DbFault, TypeOK, OutcomeTypeOK,
       Control, Place, Stage, ScriptStage, DownloadStage, RunStatus, Ended, Recovery,
       ErrorCode, Scripts, jobVars, ctlVars, ctxVars, rcVars, runVars, dbVars, scriptVars,
       fileVars
  <1>12. CASE Connect
    <2>1. OutcomeTypeOK'
      BY <1>12, FailTypes, SameTypes DEF Connect, TypeOK, ErrorCode, rcVars, runVars
    <2>2. verdict' \in BOOLEAN
      BY <1>12 DEF Connect, TypeOK
    <2>3. TypeOK'
      BY <1>12, <2>1, <2>2, JobsAssumption DEF Connect, TypeOK, Control, ScriptStage,
         DownloadStage, Place, Stage, Scripts, jobVars, ctlVars, ctxVars, dbVars,
         scriptVars, fileVars
    <2>4. Control'
      BY <1>12 DEF Connect, TypeOK, Control, Place, Stage, ScriptStage, DownloadStage,
         Scripts, jobVars
    <2> QED BY <2>3, <2>4
  <1>13. CASE PreflightChecks
    <2>0. \/ UNCHANGED <<rcVars, runVars>>
          \/ warn("INTERNAL_ERROR")
          \/ fail("PREFLIGHT_FAILED")
          \/ /\ hasWarn' = TRUE /\ failed' = TRUE /\ err' = "PREFLIGHT_FAILED"
             /\ UNCHANGED <<cancelled, verified, recovery, status, archived>>
      BY <1>13 DEF PreflightChecks
    <2>1. OutcomeTypeOK'
      BY <2>0, FailTypes, WarnTypes, SameTypes DEF TypeOK, ErrorCode, rcVars, runVars,
         OutcomeTypeOK
    <2>2. verdict' \in BOOLEAN
      BY <1>13 DEF PreflightChecks, TypeOK
    <2>3. TypeOK'
      BY <1>13, <2>1, <2>2, JobsAssumption DEF PreflightChecks, TypeOK, Control,
         ScriptStage, DownloadStage, Place, Stage, Scripts, jobVars, ctlVars, ctxVars,
         dbVars, scriptVars, fileVars
    <2>4. Control'
      BY <1>13 DEF PreflightChecks, TypeOK, Control, Place, Stage, ScriptStage,
         DownloadStage, Scripts, jobVars
    <2> QED BY <2>3, <2>4
  <1>14. CASE RunArchive
    <2>1. OutcomeTypeOK'
      BY <1>14 DEF RunArchive, TypeOK, ErrorCode, rcVars, runVars, OutcomeTypeOK
    <2>2. verdict' \in BOOLEAN
      BY <1>14 DEF RunArchive, TypeOK
    <2>3. TypeOK'
      BY <1>14, <2>1, <2>2, JobsAssumption DEF RunArchive, TypeOK, Control, ScriptStage,
         DownloadStage, Place, Stage, Scripts, jobVars, ctlVars, ctxVars, dbVars,
         scriptVars, fileVars
    <2>4. Control'
      BY <1>14 DEF RunArchive, TypeOK, Control, Place, Stage, ScriptStage, DownloadStage,
         Scripts, jobVars
    <2> QED BY <2>3, <2>4
  <1>15. CASE RemoteChecksum
    <2>1. OutcomeTypeOK'
      BY <1>15, FailTypes, SameTypes DEF RemoteChecksum, TypeOK, ErrorCode, rcVars, runVars
    <2>2. verdict' \in BOOLEAN
      BY <1>15 DEF RemoteChecksum, TypeOK
    <2>3. TypeOK'
      BY <1>15, <2>1, <2>2, JobsAssumption DEF RemoteChecksum, TypeOK, Control, ScriptStage,
         DownloadStage, Place, Stage, Scripts, jobVars, ctlVars, ctxVars, dbVars,
         scriptVars, fileVars
    <2>4. Control'
      BY <1>15 DEF RemoteChecksum, TypeOK, Control, Place, Stage, ScriptStage,
         DownloadStage, Scripts, jobVars
    <2> QED BY <2>3, <2>4
  <1>16. CASE LocalChecksum
    BY <1>16, JobsAssumption DEF LocalChecksum, TypeOK, OutcomeTypeOK, Control, Place,
       Stage, ScriptStage, DownloadStage, RunStatus, Ended, Recovery, ErrorCode, Scripts,
       jobVars, ctlVars, ctxVars, rcVars, runVars, dbVars, scriptVars, fileVars
  <1>17. CASE VerifyChecksums
    <2>1. OutcomeTypeOK'
      BY <1>17, FailTypes DEF VerifyChecksums, TypeOK, ErrorCode, rcVars, runVars,
         OutcomeTypeOK
    <2>2. verdict' \in BOOLEAN
      BY <1>17 DEF VerifyChecksums, TypeOK
    <2>3. TypeOK'
      BY <1>17, <2>1, <2>2, JobsAssumption DEF VerifyChecksums, TypeOK, Control,
         ScriptStage, DownloadStage, Place, Stage, Scripts, jobVars, ctlVars, ctxVars,
         dbVars, scriptVars, fileVars
    <2>4. Control'
      BY <1>17 DEF VerifyChecksums, TypeOK, Control, Place, Stage, ScriptStage,
         DownloadStage, Scripts, jobVars
    <2> QED BY <2>3, <2>4
  <1>18. CASE HealthAttempt
    <2>1. OutcomeTypeOK'
      BY <1>18, WarnTypes, SameTypes DEF HealthAttempt, TypeOK, ErrorCode
    <2>2. verdict' \in BOOLEAN
      BY <1>18 DEF HealthAttempt, TypeOK
    <2>3. attempt' \in Nat /\ pc' \in {"work", "record"}
      <3>1. attempt \in Nat /\ pc = "work"
        BY <1>18 DEF HealthAttempt, TypeOK
      <3>2. attempt' = attempt \/ attempt' = attempt + 1
        BY <1>18 DEF HealthAttempt
      <3>3. pc' = pc \/ pc' = "record"
        BY <1>18 DEF HealthAttempt
      <3> QED BY <3>1, <3>2, <3>3
    <2>4. UNCHANGED <<job, stage, idx, ctxVars, faults, told, dbVars, transport, scriptVars, fileVars>>
      BY <1>18 DEF HealthAttempt, jobVars
    <2>5. TypeOK'
      BY <2>1, <2>2, <2>3, <2>4 DEF TypeOK, Place, Scripts, ctxVars, dbVars, scriptVars,
         fileVars
    <2>6. Control'
      BY <1>18, <2>3, <2>4 DEF HealthAttempt, Control, ScriptStage
    <2> QED BY <2>5, <2>6
  <1>19. CASE RemoteCleanup
    <2>1. OutcomeTypeOK'
      BY <1>19, WarnTypes, SameTypes DEF RemoteCleanup, TypeOK, ErrorCode, rcVars, runVars
    <2>2. verdict' \in BOOLEAN
      BY <1>19 DEF RemoteCleanup, TypeOK
    <2>3. TypeOK'
      BY <1>19, <2>1, <2>2, JobsAssumption DEF RemoteCleanup, TypeOK, Control, ScriptStage,
         DownloadStage, Place, Stage, Scripts, jobVars, ctlVars, ctxVars, dbVars,
         scriptVars, fileVars
    <2>4. Control'
      BY <1>19 DEF RemoteCleanup, TypeOK, Control, Place, Stage, ScriptStage, DownloadStage,
         Scripts, jobVars
    <2> QED BY <2>3, <2>4
  <1>20. CASE PersistArchiveInfo
    BY <1>20, JobsAssumption DEF PersistArchiveInfo, DbWrite, DbFault, TypeOK,
       OutcomeTypeOK, Control, Place, Stage, ScriptStage, DownloadStage, RunStatus, Ended,
       Recovery, ErrorCode, Scripts, jobVars, ctlVars, ctxVars, rcVars, runVars, dbVars,
       scriptVars, fileVars
  <1>21. CASE ApplyRetention
    <2>1. OutcomeTypeOK'
      BY <1>21, WarnTypes, SameTypes DEF ApplyRetention, TypeOK, ErrorCode, rcVars, runVars
    <2>2. verdict' \in BOOLEAN
      BY <1>21 DEF ApplyRetention, TypeOK
    <2>3. TypeOK'
      BY <1>21, <2>1, <2>2, JobsAssumption DEF ApplyRetention, TypeOK, Control, ScriptStage,
         DownloadStage, Place, Stage, Scripts, jobVars, ctlVars, ctxVars, dbVars,
         scriptVars, fileVars
    <2>4. Control'
      BY <1>21 DEF ApplyRetention, TypeOK, Control, Place, Stage, ScriptStage,
         DownloadStage, Scripts, jobVars
    <2> QED BY <2>3, <2>4
  <1>22. CASE LoopEnd
    BY <1>22, JobsAssumption DEF LoopEnd, Goto, TypeOK, OutcomeTypeOK, Control, Place,
       Stage, ScriptStage, DownloadStage, RunStatus, Ended, Recovery, ErrorCode, Scripts,
       jobVars, ctlVars, ctxVars, rcVars, runVars, dbVars, scriptVars, fileVars
  <1>23. CASE LoopPass
    BY <1>23, JobsAssumption DEF LoopPass, TypeOK, OutcomeTypeOK, Control, Place, Stage,
       ScriptStage, DownloadStage, RunStatus, Ended, Recovery, ErrorCode, Scripts, jobVars,
       ctlVars, ctxVars, rcVars, runVars, dbVars, scriptVars, fileVars
  <1>24. CASE LoopCancelled
    <2>1. OutcomeTypeOK'
      BY <1>24 DEF LoopCancelled, TypeOK, ErrorCode, rcVars, runVars, OutcomeTypeOK
    <2>2. verdict' \in BOOLEAN
      BY <1>24 DEF LoopCancelled, TypeOK
    <2>3. TypeOK'
      BY <1>24, <2>1, <2>2, JobsAssumption DEF LoopCancelled, TypeOK, Control, ScriptStage,
         DownloadStage, Place, Stage, Scripts, jobVars, ctlVars, ctxVars, dbVars,
         scriptVars, fileVars
    <2>4. Control'
      BY <1>24 DEF LoopCancelled, TypeOK, Control, Place, Stage, ScriptStage, DownloadStage,
         Scripts, jobVars
    <2> QED BY <2>3, <2>4
  <1>25. CASE LoopPick
    BY <1>25, JobsAssumption DEF LoopPick, TypeOK, OutcomeTypeOK, Control, Place, Stage,
       ScriptStage, DownloadStage, RunStatus, Ended, Recovery, ErrorCode, Scripts, jobVars,
       ctlVars, ctxVars, rcVars, runVars, dbVars, scriptVars, fileVars
  <1>26. CASE SkipScript
    <2>1. [type |-> stage, status |-> "SKIPPED"] \in Step
      BY <1>26 DEF SkipScript, StepType, Step, Stage, ScriptStage, DownloadStage, Control
    <2>2. steps' \in Seq(Step)
      BY <1>26, <2>1, AppendStepTypes DEF SkipScript, TypeOK
    <2> QED
      BY <1>26, <2>2, JobsAssumption DEF SkipScript, DbWrite, DbFault, TypeOK,
         OutcomeTypeOK, Control, Place, Stage, ScriptStage, DownloadStage, RunStatus, Ended,
         Recovery, ErrorCode, Scripts, jobVars, ctlVars, ctxVars, rcVars, runVars, dbVars,
         scriptVars, fileVars
  <1>27. CASE ScriptNotStarted
    <2>1. OutcomeTypeOK'
      BY <1>27, ScriptReturnedTypes DEF ScriptNotStarted, TypeOK, ErrorCode, rcVars, runVars
    <2>2. verdict' \in BOOLEAN
      BY <1>27 DEF ScriptNotStarted, TypeOK
    <2>3. TypeOK'
      BY <1>27, <2>1, <2>2, JobsAssumption DEF ScriptNotStarted, TypeOK, Control,
         ScriptStage, DownloadStage, Place, Stage, Scripts, jobVars, ctlVars, ctxVars,
         dbVars, scriptVars, fileVars, DbWrite, DbFault, scriptReturned
    <2>4. Control'
      BY <1>27 DEF ScriptNotStarted, TypeOK, Control, Place, Stage, ScriptStage,
         DownloadStage, Scripts, jobVars, scriptReturned
    <2> QED BY <2>3, <2>4
  <1>28. CASE ScriptAttempt
    <2>1. OutcomeTypeOK'
      BY <1>28, SameTypes DEF ScriptAttempt, TypeOK, ErrorCode, rcVars, runVars
    <2>2. verdict' \in BOOLEAN
      BY <1>28 DEF ScriptAttempt, TypeOK
    <2>3. TypeOK'
      BY <1>28, <2>1, <2>2, JobsAssumption DEF ScriptAttempt, TypeOK, Control, ScriptStage,
         DownloadStage, Place, Stage, Scripts, jobVars, ctlVars, ctxVars, dbVars,
         scriptVars, fileVars
    <2>4. Control'
      BY <1>28 DEF ScriptAttempt, TypeOK, Control, Place, Stage, ScriptStage, DownloadStage,
         Scripts, jobVars
    <2> QED BY <2>3, <2>4
  <1>29. CASE ScriptFinish
    <2>1. steps' \in Seq(Step) /\ faults' \in 0..MaxFaults
      BY <1>29, FinishStepTypes DEF ScriptFinish
    <2>2. OutcomeTypeOK'
      BY <1>29, ScriptReturnedTypes DEF ScriptFinish, TypeOK, rcVars, runVars
    <2>3. TypeOK'
      BY <1>29, <2>1, <2>2 DEF ScriptFinish, scriptReturned, TypeOK, Control, ScriptStage,
         DownloadStage, Place, Stage, Scripts, jobVars, ctlVars, ctxVars, dbVars,
         scriptVars, fileVars
    <2>4. Control'
      BY <1>29 DEF ScriptFinish, scriptReturned, TypeOK, Control, Place, Stage, ScriptStage,
         DownloadStage, Scripts, jobVars
    <2> QED BY <2>3, <2>4
  <1>30. CASE DownloadArchive
    <2>1. OutcomeTypeOK'
      BY <1>30, FailTypes, SameTypes DEF DownloadArchive, TypeOK, ErrorCode, rcVars, runVars
    <2>2. verdict' \in BOOLEAN
      BY <1>30 DEF DownloadArchive, TypeOK
    <2>3. TypeOK'
      BY <1>30, <2>1, <2>2, JobsAssumption DEF DownloadArchive, TypeOK, Control,
         ScriptStage, DownloadStage, Place, Stage, Scripts, jobVars, ctlVars, ctxVars,
         dbVars, scriptVars, fileVars
    <2>4. Control'
      BY <1>30 DEF DownloadArchive, TypeOK, Control, Place, Stage, ScriptStage,
         DownloadStage, Scripts, jobVars
    <2> QED BY <2>3, <2>4
  <1>31. CASE Cancel
    BY <1>31, JobsAssumption DEF Cancel, TypeOK, OutcomeTypeOK, Control, Place, Stage,
       ScriptStage, DownloadStage, RunStatus, Ended, Recovery, ErrorCode, Scripts, jobVars,
       ctlVars, ctxVars, rcVars, runVars, dbVars, scriptVars, fileVars
  <1>32. CASE BudgetExpires
    BY <1>32, JobsAssumption DEF BudgetExpires, TypeOK, OutcomeTypeOK, Control, Place,
       Stage, ScriptStage, DownloadStage, RunStatus, Ended, Recovery, ErrorCode, Scripts,
       jobVars, ctlVars, ctxVars, rcVars, runVars, dbVars, scriptVars, fileVars
  <1>33. CASE Terminated
    BY <1>33, JobsAssumption DEF Terminated, vars, TypeOK, OutcomeTypeOK, Control, Place,
       Stage, ScriptStage, DownloadStage, RunStatus, Ended, Recovery, ErrorCode, Scripts,
       jobVars, ctlVars, ctxVars, rcVars, runVars, dbVars, scriptVars, fileVars
  <1>34. CASE UNCHANGED vars
    BY <1>34 DEF vars, TypeOK, OutcomeTypeOK, Control, Scripts, jobVars, ctlVars, ctxVars, rcVars, runVars, dbVars, scriptVars, fileVars
  <1> QED
    BY <1>1, <1>2, <1>3, <1>4, <1>5, <1>6, <1>7, <1>8, <1>9, <1>10, <1>11, <1>12, <1>13,
       <1>14, <1>15, <1>16, <1>17, <1>18, <1>19, <1>20, <1>21, <1>22, <1>23, <1>24, <1>25,
       <1>26, <1>27, <1>28, <1>29, <1>30, <1>31, <1>32, <1>33, <1>34 DEF Next, Frame,
       Stages, Loops

\* Evidence: what each stage leaves for the next is preserved.
LEMMA NextEvidence ==
    ASSUME TypeOK, Control, Evidence, [Next]_vars
    PROVE  Evidence'
  <1> USE DEF TypeOK, OutcomeTypeOK, Control, Evidence, PastDownload, ScriptStage, DownloadStage,
          jobVars, ctlVars, ctxVars, rcVars, runVars, dbVars, scriptVars, fileVars
  <1>1. CASE Acquire
    BY <1>1, SameSteps DEF Acquire, DbWrite, DbFault
  <1>2. CASE CreateSkipped
    BY <1>2, SameSteps DEF CreateSkipped, DbWrite, DbFault
  <1>3. CASE CreateRun
    BY <1>3, SameSteps DEF CreateRun, DbWrite, DbFault
  <1>4. CASE StepStart
    <2>1. stepType \in StepType /\ (stepType = "RETENTION" => stage = "RETENTION")
      BY <1>4 DEF StepStart, stepType, scriptStepType, StepType, Stage
    <2>2. [type |-> stepType, status |-> "RUNNING"] \in Step
      BY <2>1 DEF Step
    <2>3. StepTypes' = StepTypes \cup {stepType}
      BY <1>4, <2>2, AppendStepTypes DEF StepStart
    <2> QED
      BY <1>4, <2>1, <2>3 DEF StepStart
  <1>5. CASE StepNotStarted
    BY <1>5, SameSteps DEF StepNotStarted, DbWrite, DbFault, fail, Goto, afterPostBackup,
       afterRemoteCleanup
  <1>6. CASE StepFinish
    <2>1. StepTypes' = StepTypes
      BY <1>6, FinishStepTypes DEF StepFinish
    <2> QED
      BY <1>6, <2>1 DEF StepFinish, Goto, afterPostBackup, afterRemoteCleanup
  <1>7. CASE CheckCancelled
    BY <1>7, SameSteps DEF CheckCancelled, Goto, afterPostBackup
  <1>8. CASE CloseTransport
    BY <1>8, SameSteps DEF CloseTransport, Goto
  <1>9. CASE Finish
    BY <1>9, SameSteps DEF Finish, finalStatus
  <1>10. CASE UpdateRow
    BY <1>10, SameSteps DEF UpdateRow, DbWrite, DbFault
  <1>11. CASE Release
    BY <1>11, SameSteps DEF Release, DbWriteDetached, DbFault
  <1>12. CASE Connect
    BY <1>12, SameSteps DEF Connect, fail
  <1>13. CASE PreflightChecks
    BY <1>13, SameSteps DEF PreflightChecks, fail, warn
  <1>14. CASE RunArchive
    BY <1>14, SameSteps DEF RunArchive
  <1>15. CASE RemoteChecksum
    <2>1. StepTypes' = StepTypes
      BY <1>15, SameSteps DEF RemoteChecksum, dbVars
    <2>2. CASE fail("ARCHIVE_FAILED")
      BY <1>15, <2>1, <2>2 DEF RemoteChecksum, fail
    <2>3. CASE verdict' = TRUE /\ UNCHANGED <<rcVars, runVars>>
      BY <1>15, <2>1, <2>3 DEF RemoteChecksum
    <2> QED BY <1>15, <2>2, <2>3 DEF RemoteChecksum
  <1>16. CASE LocalChecksum
    BY <1>16, SameSteps DEF LocalChecksum
  <1>17. CASE VerifyChecksums
    <2>1. StepTypes' = StepTypes
      BY <1>17, SameSteps DEF VerifyChecksums, dbVars
    <2>2. CASE fail("CHECKSUM_MISMATCH") /\ UNCHANGED final
      BY <1>17, <2>1, <2>2 DEF VerifyChecksums, fail
    <2>3. CASE fail("DOWNLOAD_FAILED") /\ UNCHANGED final
      BY <1>17, <2>1, <2>3 DEF VerifyChecksums, fail
    <2>4. CASE verified' = TRUE /\ final' = part /\ part = "good" /\ UNCHANGED <<failed, cancelled, archived>>
      BY <1>17, <2>1, <2>4 DEF VerifyChecksums
    <2> QED BY <1>17, <2>2, <2>3, <2>4 DEF VerifyChecksums
  <1>18. CASE HealthAttempt
    <2>1. StepTypes' = StepTypes
      BY <1>18, SameSteps DEF HealthAttempt, dbVars
    <2>2. CASE warn("HEALTH_CHECK_FAILED")
      BY <1>18, <2>1, <2>2 DEF HealthAttempt, warn
    <2>3. CASE UNCHANGED <<rcVars, runVars>>
      BY <1>18, <2>1, <2>3 DEF HealthAttempt
    <2> QED BY <1>18, <2>2, <2>3 DEF HealthAttempt
  <1>19. CASE RemoteCleanup
    BY <1>19, SameSteps DEF RemoteCleanup, warn
  <1>20. CASE PersistArchiveInfo
    BY <1>20, SameSteps DEF PersistArchiveInfo, DbWrite, DbFault
  <1>21. CASE ApplyRetention
    <2>1. StepTypes' = StepTypes
      BY <1>21, SameSteps DEF ApplyRetention, dbVars
    <2>2. CASE warn("INTERNAL_ERROR")
      BY <1>21, <2>1, <2>2 DEF ApplyRetention, warn
    <2>3. CASE UNCHANGED <<rcVars, runVars>>
      BY <1>21, <2>1, <2>3 DEF ApplyRetention
    <2> QED BY <1>21, <2>2, <2>3 DEF ApplyRetention
  <1>22. CASE LoopEnd
    BY <1>22, SameSteps DEF LoopEnd, Goto
  <1>23. CASE LoopPass
    BY <1>23, SameSteps DEF LoopPass
  <1>24. CASE LoopCancelled
    BY <1>24, SameSteps DEF LoopCancelled
  <1>25. CASE LoopPick
    BY <1>25, SameSteps DEF LoopPick
  <1>26. CASE SkipScript
    <2>1. [type |-> stage, status |-> "SKIPPED"] \in Step
      BY <1>26 DEF SkipScript, StepType, Step, Stage
    <2>2. StepTypes' \in {StepTypes, StepTypes \cup {stage}}
      BY <1>26, <2>1, AppendStepTypes, SameSteps DEF SkipScript
    <2> QED
      BY <1>26, <2>2 DEF SkipScript
  <1>27. CASE ScriptNotStarted
    BY <1>27, SameSteps DEF ScriptNotStarted, DbWrite, DbFault, scriptReturned,
       recordRecovery
  <1>28. CASE ScriptAttempt
    BY <1>28, SameSteps DEF ScriptAttempt
  <1>29. CASE ScriptFinish
    <2>1. StepTypes' = StepTypes
      BY <1>29, FinishStepTypes DEF ScriptFinish
    <2> QED
      BY <1>29, <2>1 DEF ScriptFinish, scriptReturned, recordRecovery
  <1>30. CASE DownloadArchive
    <2>1. StepTypes' = StepTypes
      BY <1>30, SameSteps DEF DownloadArchive, dbVars
    <2>2. CASE fail("DOWNLOAD_FAILED")
      BY <1>30, <2>1, <2>2 DEF DownloadArchive, fail
    <2>3. CASE verdict' = TRUE /\ UNCHANGED <<rcVars, runVars>>
      BY <1>30, <2>1, <2>3 DEF DownloadArchive
    <2> QED BY <1>30, <2>2, <2>3 DEF DownloadArchive
  <1>31. CASE Cancel
    BY <1>31, SameSteps DEF Cancel
  <1>32. CASE BudgetExpires
    BY <1>32, SameSteps DEF BudgetExpires
  <1>33. CASE Terminated
    BY <1>33, SameSteps DEF Terminated, vars
  <1>34. CASE UNCHANGED vars
    BY <1>34, SameSteps DEF vars
  <1> QED
    BY <1>1, <1>2, <1>3, <1>4, <1>5, <1>6, <1>7, <1>8, <1>9, <1>10, <1>11, <1>12, <1>13,
       <1>14, <1>15, <1>16, <1>17, <1>18, <1>19, <1>20, <1>21, <1>22, <1>23, <1>24, <1>25,
       <1>26, <1>27, <1>28, <1>29, <1>30, <1>31, <1>32, <1>33, <1>34 DEF Next, Frame,
       Stages, Loops

\* Bookkeeping: status, row, event and lock stay in step.
LEMMA NextBookkeeping ==
    ASSUME TypeOK, Control, Evidence, Bookkeeping, [Next]_vars
    PROVE  Bookkeeping'
  <1> USE DEF TypeOK, OutcomeTypeOK, Control, Bookkeeping, Ended, ScriptStage, DownloadStage,
          jobVars, ctlVars, ctxVars, rcVars, runVars, dbVars, scriptVars, fileVars
  <1>1. CASE Acquire
    BY <1>1 DEF Acquire, DbWrite, DbFault
  <1>2. CASE CreateSkipped
    BY <1>2 DEF CreateSkipped, DbWrite, DbFault
  <1>3. CASE CreateRun
    BY <1>3 DEF CreateRun, DbWrite, DbFault
  <1>4. CASE StepStart
    BY <1>4 DEF StepStart, DbWrite, DbFault
  <1>5. CASE StepNotStarted
    BY <1>5 DEF StepNotStarted, DbWrite, DbFault, fail, Goto, afterPostBackup,
       afterRemoteCleanup
  <1>6. CASE StepFinish
    BY <1>6 DEF StepFinish, Goto, afterPostBackup, afterRemoteCleanup
  <1>7. CASE CheckCancelled
    BY <1>7 DEF CheckCancelled, Goto, afterPostBackup
  <1>8. CASE CloseTransport
    BY <1>8 DEF CloseTransport, Goto
  <1>9. CASE Finish
    BY <1>9 DEF Finish, finalStatus, Evidence, PastDownload
  <1>10. CASE UpdateRow
    BY <1>10 DEF UpdateRow, DbWrite, DbFault
  <1>11. CASE Release
    BY <1>11 DEF Release, DbWriteDetached, DbFault
  <1>12. CASE Connect
    BY <1>12 DEF Connect, fail
  <1>13. CASE PreflightChecks
    BY <1>13 DEF PreflightChecks, fail, warn
  <1>14. CASE RunArchive
    BY <1>14 DEF RunArchive
  <1>15. CASE RemoteChecksum
    BY <1>15 DEF RemoteChecksum, fail
  <1>16. CASE LocalChecksum
    BY <1>16 DEF LocalChecksum
  <1>17. CASE VerifyChecksums
    BY <1>17 DEF VerifyChecksums, fail
  <1>18. CASE HealthAttempt
    BY <1>18 DEF HealthAttempt, warn
  <1>19. CASE RemoteCleanup
    BY <1>19 DEF RemoteCleanup, warn
  <1>20. CASE PersistArchiveInfo
    BY <1>20 DEF PersistArchiveInfo, DbWrite, DbFault
  <1>21. CASE ApplyRetention
    BY <1>21 DEF ApplyRetention, warn
  <1>22. CASE LoopEnd
    BY <1>22 DEF LoopEnd, Goto
  <1>23. CASE LoopPass
    BY <1>23 DEF LoopPass
  <1>24. CASE LoopCancelled
    BY <1>24 DEF LoopCancelled
  <1>25. CASE LoopPick
    BY <1>25 DEF LoopPick
  <1>26. CASE SkipScript
    BY <1>26 DEF SkipScript, DbWrite, DbFault
  <1>27. CASE ScriptNotStarted
    BY <1>27 DEF ScriptNotStarted, DbWrite, DbFault, scriptReturned, recordRecovery
  <1>28. CASE ScriptAttempt
    BY <1>28 DEF ScriptAttempt
  <1>29. CASE ScriptFinish
    BY <1>29 DEF ScriptFinish, scriptReturned, recordRecovery
  <1>30. CASE DownloadArchive
    BY <1>30 DEF DownloadArchive, fail
  <1>31. CASE Cancel
    BY <1>31 DEF Cancel
  <1>32. CASE BudgetExpires
    BY <1>32 DEF BudgetExpires
  <1>33. CASE Terminated
    BY <1>33 DEF Terminated, vars
  <1>34. CASE UNCHANGED vars
    BY <1>34 DEF vars
  <1> QED
    BY <1>1, <1>2, <1>3, <1>4, <1>5, <1>6, <1>7, <1>8, <1>9, <1>10, <1>11, <1>12, <1>13,
       <1>14, <1>15, <1>16, <1>17, <1>18, <1>19, <1>20, <1>21, <1>22, <1>23, <1>24, <1>25,
       <1>26, <1>27, <1>28, <1>29, <1>30, <1>31, <1>32, <1>33, <1>34 DEF Next, Frame,
       Stages, Loops

\* The inductive invariant holds in every reachable state.
LEMMA InvariantHolds == Spec => []IInv
  <1>1. Init => IInv
    BY InitIInv
  <1>2. IInv /\ [Next]_vars => IInv'
    BY NextTyped, NextEvidence, NextBookkeeping DEF IInv
  <1> QED
    BY <1>1, <1>2, PTL DEF Spec

-----------------------------------------------------------------------------
(* Theorems *)

\* Type correctness: control, database rows, files and the bookkeeping of
\* scripts stay within their types.
THEOREM TypeCorrect == Spec => []TypeOK
  <1>1. IInv => TypeOK
    BY DEF IInv
  <1> QED
    BY <1>1, InvariantHolds, PTL

\* No run ends as a success without its verified archive, and a file whose
\* checksum differs never gets the final name, whatever fails or is cancelled.
THEOREM SuccessIsVerified == Spec => []NoFalseSuccess
  <1>1. IInv => NoFalseSuccess
    BY DEF IInv, Evidence, Bookkeeping, NoFalseSuccess
  <1> QED
    BY <1>1, InvariantHolds, PTL

\* Old archives are only pruned by a run with a verified archive of its own
\* that ends neither failed nor cancelled.
THEOREM RetentionIsSafe == Spec => []RetentionOnlyAfterSuccess
  <1>1. IInv => RetentionOnlyAfterSuccess
    BY DEF IInv, Evidence, Bookkeeping, RetentionOnlyAfterSuccess
  <1> QED
    BY <1>1, InvariantHolds, PTL

-----------------------------------------------------------------------------
(* RunEngine implements RunContract *)

\* An action that touches neither the rows, the lock, the event nor the files
\* under their final name, and stays between the creation of the row and the
\* release of the lock, is a stuttering step of the contract.
LEMMA Stutters ==
    ASSUME UNCHANGED <<lock, row, told, final>>, StepTypes' = StepTypes,
           pc \notin {"begin", "createSkipped", "done"}, pc' \notin {"begin", "createSkipped", "done"}
    PROVE  UNCHANGED Contract!vars
  BY DEF Contract!vars

\* A run that begins is new to the rest of the service.
LEMMA InitContract == Init => Contract!Init
  BY DEF Init, Contract!Init, StepTypes

\* Every step of a run is a step of its contract or is invisible to it.
LEMMA StepContract ==
    ASSUME IInv, [Next]_vars
    PROVE  [Contract!Next]_Contract!vars
  <1> USE DEF IInv, TypeOK, OutcomeTypeOK, Control, ScriptStage, DownloadStage, jobVars, ctlVars, ctxVars,
          rcVars, runVars, dbVars, scriptVars, fileVars
  <1>1. CASE Acquire
    <2>1. StepTypes' = StepTypes /\ UNCHANGED <<row, told, final>> /\ row = "NONE" /\ pc = "begin"
      BY <1>1, SameSteps DEF Acquire, Bookkeeping
    <2>2. CASE pc' = "done" /\ UNCHANGED lock
      BY <2>1, <2>2 DEF Contract!Next, Contract!Refuse
    <2>3. CASE pc' = "create" /\ lock = "free" /\ lock' = "mine"
      BY <2>1, <2>3 DEF Contract!Next, Contract!Begin
    <2>4. CASE pc' = "createSkipped" /\ UNCHANGED lock
      BY <2>1, <2>4 DEF Contract!vars
    <2> QED BY <1>1, <2>2, <2>3, <2>4 DEF Acquire
  <1>2. CASE CreateSkipped
    <2>1. StepTypes' = StepTypes /\ UNCHANGED <<lock, told, final>> /\ pc = "createSkipped" /\ pc' = "done"
      BY <1>2, SameSteps DEF CreateSkipped
    <2>2. row = "NONE" /\ lock = "other" /\ status = "SKIPPED" /\ row' \in {row, status}
      BY <1>2 DEF CreateSkipped, Bookkeeping
    <2> QED BY <2>1, <2>2 DEF Contract!Next, Contract!Refuse
  <1>3. CASE CreateRun
    <2>1. StepTypes' = StepTypes /\ UNCHANGED <<lock, told, final>> /\ pc = "create" /\ pc' \in {"start", "release"}
      BY <1>3, SameSteps DEF CreateRun
    <2>2. row = "NONE" /\ told = "NONE" /\ status = "RUNNING" /\ row' \in {row, status}
      BY <1>3 DEF CreateRun, Bookkeeping
    <2>3. CASE row' = row BY <2>1, <2>3, Stutters
    <2>4. CASE row' = "RUNNING" BY <2>1, <2>2, <2>4 DEF Contract!Next, Contract!Record
    <2> QED BY <2>2, <2>3, <2>4
  <1>4. CASE StepStart
    <2>1. stepType \in StepType /\ (stepType = "RETENTION" => stage = "RETENTION")
      BY <1>4 DEF StepStart, stepType, scriptStepType, StepType, Stage
    <2>2. [type |-> stepType, status |-> "RUNNING"] \in Step
      BY <2>1 DEF Step
    <2>3. StepTypes' = StepTypes \cup {stepType}
      BY <1>4, <2>2, AppendStepTypes DEF StepStart
    <2>4. UNCHANGED <<lock, row, told, final>> /\ pc = "start" /\ pc' = "work" /\ told = "NONE"
      BY <1>4 DEF StepStart, Bookkeeping
    <2>5. CASE stepType = "RETENTION"
      <3>1. final = "good"
        BY <2>1, <2>5 DEF Evidence
      <3> QED BY <2>3, <2>4, <2>5, <3>1 DEF Contract!Next, Contract!Prune
    <2>6. CASE stepType # "RETENTION"
      <3>1. ("RETENTION" \in StepTypes') = ("RETENTION" \in StepTypes)
        BY <2>3, <2>6
      <3> QED BY <2>4, <3>1 DEF Contract!vars
    <2> QED BY <2>5, <2>6
  <1>5. CASE VerifyChecksums
    <2>1. StepTypes' = StepTypes /\ UNCHANGED <<lock, row, told>> /\ pc = "work" /\ pc' = "record"
      BY <1>5, SameSteps DEF VerifyChecksums
    <2>2. row = "RUNNING" /\ told = "NONE"
      BY <1>5 DEF VerifyChecksums, Bookkeeping
    <2>3. final' = final \/ final' = "good"
      BY <1>5 DEF VerifyChecksums
    <2>4. CASE final' = final BY <2>1, <2>4, Stutters
    <2>5. CASE final' = "good" BY <2>1, <2>2, <2>5 DEF Contract!Next, Contract!Archive
    <2> QED BY <2>3, <2>4, <2>5
  <1>6. CASE PersistArchiveInfo
    <2>1. StepTypes' = StepTypes /\ UNCHANGED <<lock, told, final>> /\ pc = "persist" /\ pc' = "start"
      BY <1>6, SameSteps DEF PersistArchiveInfo
    <2>2. row' = row
      BY <1>6 DEF PersistArchiveInfo, Bookkeeping
    <2> QED BY <2>1, <2>2, Stutters
  <1>7. CASE UpdateRow
    <2>1. StepTypes' = StepTypes /\ UNCHANGED <<lock, final>> /\ pc = "update" /\ pc' = "release"
      BY <1>7, SameSteps DEF UpdateRow
    <2>2. told = "NONE" /\ told' = status /\ status \in Ended /\ row = "RUNNING" /\ row' \in {row, status}
      BY <1>7 DEF UpdateRow, Bookkeeping
    <2>3. status \in {"SUCCESS", "WARNING"} => final = "good"
      BY DEF Bookkeeping, Evidence
    <2>4. status \in {"FAILED", "CANCELLED"} => "RETENTION" \notin StepTypes
      BY DEF Bookkeeping, Evidence
    <2>5. Contract!Announce(status)
      BY <2>1, <2>2, <2>3, <2>4 DEF Contract!Announce
    <2> QED BY <2>2, <2>5 DEF Contract!Next, Contract!Final, Ended
  <1>8. CASE Release
    <2>1. StepTypes' = StepTypes /\ UNCHANGED <<row, told, final>> /\ pc = "release" /\ pc' = "done"
      BY <1>8, SameSteps DEF Release
    <2>2. lock' \in {"free", lock}
      BY <1>8 DEF Release
    <2>3. told # "NONE" \/ row = "NONE"
      BY <2>1 DEF Bookkeeping, Ended
    <2> QED BY <2>1, <2>2, <2>3 DEF Contract!Next, Contract!Release
  <1>9. CASE StepFinish \/ ScriptFinish
    <2>1. StepTypes' = StepTypes
      BY <1>9, FinishStepTypes DEF StepFinish, ScriptFinish
    <2>2. UNCHANGED <<lock, row, told, final>> /\ pc = "record" /\ pc' \notin {"begin", "createSkipped", "done"}
      BY <1>9 DEF StepFinish, ScriptFinish, scriptReturned, Goto, afterPostBackup, afterRemoteCleanup
    <2> QED BY <2>1, <2>2, Stutters
  <1>10. CASE SkipScript
    <2>1. [type |-> stage, status |-> "SKIPPED"] \in Step /\ stage # "RETENTION"
      BY <1>10 DEF SkipScript, StepType, Step, Stage
    <2>2. StepTypes' \in {StepTypes, StepTypes \cup {stage}}
      BY <1>10, <2>1, AppendStepTypes, SameSteps DEF SkipScript
    <2>3. ("RETENTION" \in StepTypes') = ("RETENTION" \in StepTypes)
      BY <2>1, <2>2
    <2>4. UNCHANGED <<lock, row, told, final>> /\ pc = "skip" /\ pc' = "loop"
      BY <1>10 DEF SkipScript
    <2> QED BY <2>3, <2>4 DEF Contract!vars
  <1>11. CASE StepNotStarted \/ CheckCancelled \/ CloseTransport \/ Finish
    BY <1>11, SameSteps, Stutters DEF StepNotStarted, CheckCancelled, CloseTransport, Finish, Goto,
       afterPostBackup, afterRemoteCleanup
  <1>12. CASE Connect \/ PreflightChecks \/ RunArchive \/ RemoteChecksum \/ DownloadArchive
    BY <1>12, SameSteps, Stutters DEF Connect, PreflightChecks, RunArchive, RemoteChecksum, DownloadArchive
  <1>13. CASE LocalChecksum \/ HealthAttempt \/ RemoteCleanup \/ ApplyRetention
    BY <1>13, SameSteps, Stutters DEF LocalChecksum, HealthAttempt, RemoteCleanup, ApplyRetention
  <1>14. CASE LoopEnd \/ LoopPass \/ LoopCancelled \/ LoopPick
    BY <1>14, SameSteps, Stutters DEF LoopEnd, LoopPass, LoopCancelled, LoopPick, Goto
  <1>15. CASE ScriptNotStarted \/ ScriptAttempt
    BY <1>15, SameSteps, Stutters DEF ScriptNotStarted, ScriptAttempt, scriptReturned
  <1>16. CASE Cancel \/ BudgetExpires \/ Terminated \/ UNCHANGED vars
    BY <1>16, SameSteps DEF Cancel, BudgetExpires, Terminated, vars, Contract!vars
  <1> QED
    BY <1>1, <1>2, <1>3, <1>4, <1>5, <1>6, <1>7, <1>8, <1>9, <1>10, <1>11, <1>12, <1>13, <1>14,
       <1>15, <1>16 DEF Next, Frame, Stages, Loops

\* The engine implements RunContract for any job configurations, cancellations
\* and failing writes.
THEOREM EngineImplementsContract == Spec => ImplementsContract
  <1>1. Init => Contract!Init
    BY InitContract
  <1>2. IInv /\ [Next]_vars => [Contract!Next]_Contract!vars
    BY StepContract
  <1> QED
    BY <1>1, <1>2, InvariantHolds, PTL DEF Spec, ImplementsContract, Contract!Spec

-----------------------------------------------------------------------------
(* Scripts and their positions *)

\* Scripts are known by their positions.
LEMMA ScriptsAreNumbered ==
    ASSUME job \in Job
    PROVE  Scripts \subseteq Nat \ {0} /\ Scripts = 1..Len(job.scripts)
  BY DEF Job, Scripts

\* MarkDone: a script that returns is done if it was pending, and no other
\* entry of the registry changes.
LEMMA MarkDone ==
    ASSUME TypeOK, idx \in Scripts, NEW error \in BOOLEAN, scriptReturned(error)
    PROVE  \A i \in Scripts :
               registry'[i] = IF i = idx /\ registry[i] = "pending" THEN "done" ELSE registry[i]
  BY DEF TypeOK, scriptReturned

\* recordRecovery keeps the outcome that of the actions that are done: the
\* script that returns was not done before.
LEMMA RecoveryRecorded ==
    ASSUME TypeOK, idx \in Scripts, registry[idx] # "done", RecoverySoFar,
           NEW error \in BOOLEAN, scriptReturned(error), UNCHANGED job
    PROVE  RecoverySoFar'
  <1>1. good' = IF error THEN good \ {idx} ELSE good \cup {idx}
    BY DEF scriptReturned
  <1>2. idx \notin DoneScripts
    BY DEF DoneScripts
  <1>3. Scripts' = Scripts
    BY DEF Scripts
  <1>4. CASE registry[idx] = "pending"
    <2>1. DoneScripts' = DoneScripts \cup {idx}
      BY <1>3, <1>4, MarkDone DEF DoneScripts
    <2>2. recovery' = IF error \/ recovery = "FAILED" THEN "FAILED" ELSE "SUCCESS"
      BY <1>4 DEF scriptReturned, recordRecovery
    <2> QED
      BY <1>1, <1>2, <2>1, <2>2 DEF RecoverySoFar
  <1>5. CASE registry[idx] # "pending"
    <2>1. DoneScripts' = DoneScripts /\ recovery' = recovery
      BY <1>3, <1>5, MarkDone DEF DoneScripts, scriptReturned
    <2> QED
      BY <1>1, <1>2, <2>1 DEF RecoverySoFar
  <1> QED BY <1>4, <1>5

\* Position: the loops and the drain start at the first script and take up what is
\* theirs.
LEMMA NextPosition ==
    ASSUME TypeOK, Control, Position, [Next]_vars
    PROVE  Position'
  <1> USE DEF Position, TypeOK, OutcomeTypeOK, Control, Scripts, ownStage, AtWork, Ahead, ScriptStage, LoopStage,
          DownloadStage, jobVars, ctlVars, ctxVars, rcVars, runVars, dbVars, scriptVars, fileVars
  <1>1. CASE Acquire
    BY <1>1 DEF Acquire, DbWrite, DbFault
  <1>2. CASE CreateSkipped
    BY <1>2 DEF CreateSkipped, DbWrite, DbFault
  <1>3. CASE CreateRun
    BY <1>3 DEF CreateRun, DbWrite, DbFault
  <1>4. CASE StepStart
    BY <1>4 DEF StepStart, DbWrite, DbFault
  <1>5. CASE StepNotStarted
    BY <1>5 DEF StepNotStarted, DbWrite, DbFault, fail, Goto, afterPostBackup,
       afterRemoteCleanup
  <1>6. CASE StepFinish
    BY <1>6 DEF StepFinish, Goto, afterPostBackup, afterRemoteCleanup
  <1>7. CASE CheckCancelled
    BY <1>7 DEF CheckCancelled, Goto, afterPostBackup
  <1>8. CASE CloseTransport
    BY <1>8 DEF CloseTransport, Goto
  <1>9. CASE Finish
    BY <1>9 DEF Finish, finalStatus
  <1>10. CASE UpdateRow
    BY <1>10 DEF UpdateRow, DbWrite, DbFault
  <1>11. CASE Release
    BY <1>11 DEF Release, DbWriteDetached, DbFault
  <1>12. CASE Connect
    BY <1>12 DEF Connect, fail
  <1>13. CASE PreflightChecks
    BY <1>13 DEF PreflightChecks, fail, warn
  <1>14. CASE RunArchive
    BY <1>14 DEF RunArchive
  <1>15. CASE RemoteChecksum
    BY <1>15 DEF RemoteChecksum, fail
  <1>16. CASE LocalChecksum
    BY <1>16 DEF LocalChecksum
  <1>17. CASE VerifyChecksums
    BY <1>17 DEF VerifyChecksums, fail
  <1>18. CASE HealthAttempt
    BY <1>18 DEF HealthAttempt, warn
  <1>19. CASE RemoteCleanup
    BY <1>19 DEF RemoteCleanup, warn
  <1>20. CASE PersistArchiveInfo
    BY <1>20 DEF PersistArchiveInfo, DbWrite, DbFault
  <1>21. CASE ApplyRetention
    BY <1>21 DEF ApplyRetention, warn
  <1>22. CASE LoopEnd
    BY <1>22 DEF LoopEnd, Goto
  <1>23. CASE LoopPass
    BY <1>23 DEF LoopPass, takesUp
  <1>24. CASE LoopCancelled
    BY <1>24 DEF LoopCancelled, takesUp
  <1>25. CASE LoopPick
    BY <1>25 DEF LoopPick, takesUp
  <1>26. CASE SkipScript
    BY <1>26 DEF SkipScript, DbWrite, DbFault
  <1>27. CASE ScriptNotStarted
    BY <1>27 DEF ScriptNotStarted, DbWrite, DbFault, scriptReturned, recordRecovery
  <1>28. CASE ScriptAttempt
    BY <1>28 DEF ScriptAttempt
  <1>29. CASE ScriptFinish
    BY <1>29 DEF ScriptFinish, scriptReturned, recordRecovery
  <1>30. CASE DownloadArchive
    BY <1>30 DEF DownloadArchive, fail
  <1>31. CASE Cancel
    BY <1>31 DEF Cancel
  <1>32. CASE BudgetExpires
    BY <1>32 DEF BudgetExpires
  <1>33. CASE Terminated
    BY <1>33 DEF Terminated, vars
  <1>34. CASE UNCHANGED vars
    BY <1>34 DEF vars
  <1> QED
    BY <1>1, <1>2, <1>3, <1>4, <1>5, <1>6, <1>7, <1>8, <1>9, <1>10, <1>11, <1>12, <1>13,
       <1>14, <1>15, <1>16, <1>17, <1>18, <1>19, <1>20, <1>21, <1>22, <1>23, <1>24, <1>25,
       <1>26, <1>27, <1>28, <1>29, <1>30, <1>31, <1>32, <1>33, <1>34 DEF Next, Frame,
       Stages, Loops

\* RunCounts: only StepStart and ScriptNotStarted count a script as run, and only
\* one that was still ahead, or pending in the drain.
LEMMA NextRunCounts ==
    ASSUME TypeOK, Control, Position, RunCounts, [Next]_vars
    PROVE  RunCounts'
  <1> USE ScriptsAreNumbered DEF RunCounts, TypeOK, OutcomeTypeOK, Position, scriptStepType, Control, Scripts, ownStage, AtWork, Ahead, ScriptStage, LoopStage,
          DownloadStage, jobVars, ctlVars, ctxVars, rcVars, runVars, dbVars, scriptVars, fileVars
  <1>1. CASE Acquire
    BY <1>1 DEF Acquire, DbWrite, DbFault
  <1>2. CASE CreateSkipped
    BY <1>2 DEF CreateSkipped, DbWrite, DbFault
  <1>3. CASE CreateRun
    BY <1>3 DEF CreateRun, DbWrite, DbFault
  <1>4. CASE StepStart
    BY <1>4 DEF StepStart, DbWrite, DbFault
  <1>5. CASE StepNotStarted
    BY <1>5 DEF StepNotStarted, DbWrite, DbFault, fail, Goto, afterPostBackup,
       afterRemoteCleanup
  <1>6. CASE StepFinish
    BY <1>6 DEF StepFinish, Goto, afterPostBackup, afterRemoteCleanup
  <1>7. CASE CheckCancelled
    BY <1>7 DEF CheckCancelled, Goto, afterPostBackup
  <1>8. CASE CloseTransport
    BY <1>8 DEF CloseTransport, Goto
  <1>9. CASE Finish
    BY <1>9 DEF Finish, finalStatus
  <1>10. CASE UpdateRow
    BY <1>10 DEF UpdateRow, DbWrite, DbFault
  <1>11. CASE Release
    BY <1>11 DEF Release, DbWriteDetached, DbFault
  <1>12. CASE Connect
    BY <1>12 DEF Connect, fail
  <1>13. CASE PreflightChecks
    BY <1>13 DEF PreflightChecks, fail, warn
  <1>14. CASE RunArchive
    BY <1>14 DEF RunArchive
  <1>15. CASE RemoteChecksum
    BY <1>15 DEF RemoteChecksum, fail
  <1>16. CASE LocalChecksum
    BY <1>16 DEF LocalChecksum
  <1>17. CASE VerifyChecksums
    BY <1>17 DEF VerifyChecksums, fail
  <1>18. CASE HealthAttempt
    BY <1>18 DEF HealthAttempt, warn
  <1>19. CASE RemoteCleanup
    BY <1>19 DEF RemoteCleanup, warn
  <1>20. CASE PersistArchiveInfo
    BY <1>20 DEF PersistArchiveInfo, DbWrite, DbFault
  <1>21. CASE ApplyRetention
    BY <1>21 DEF ApplyRetention, warn
  <1>22. CASE LoopEnd
    BY <1>22 DEF LoopEnd, Goto
  <1>23. CASE LoopPass
    BY <1>23 DEF LoopPass, takesUp
  <1>24. CASE LoopCancelled
    BY <1>24 DEF LoopCancelled, takesUp
  <1>25. CASE LoopPick
    BY <1>25 DEF LoopPick, takesUp
  <1>26. CASE SkipScript
    BY <1>26 DEF SkipScript, DbWrite, DbFault
  <1>27. CASE ScriptNotStarted
    BY <1>27 DEF ScriptNotStarted, DbWrite, DbFault, scriptReturned, recordRecovery
  <1>28. CASE ScriptAttempt
    BY <1>28 DEF ScriptAttempt
  <1>29. CASE ScriptFinish
    BY <1>29 DEF ScriptFinish, scriptReturned, recordRecovery
  <1>30. CASE DownloadArchive
    BY <1>30 DEF DownloadArchive, fail
  <1>31. CASE Cancel
    BY <1>31 DEF Cancel
  <1>32. CASE BudgetExpires
    BY <1>32 DEF BudgetExpires
  <1>33. CASE Terminated
    BY <1>33 DEF Terminated, vars
  <1>34. CASE UNCHANGED vars
    BY <1>34 DEF vars
  <1> QED
    BY <1>1, <1>2, <1>3, <1>4, <1>5, <1>6, <1>7, <1>8, <1>9, <1>10, <1>11, <1>12, <1>13,
       <1>14, <1>15, <1>16, <1>17, <1>18, <1>19, <1>20, <1>21, <1>22, <1>23, <1>24, <1>25,
       <1>26, <1>27, <1>28, <1>29, <1>30, <1>31, <1>32, <1>33, <1>34 DEF Next, Frame,
       Stages, Loops

\* Registration: scripts are registered once, by Connect, and the drain leaves
\* nothing pending behind it.
LEMMA NextRegistration ==
    ASSUME TypeOK, Control, Position, RunCounts, Registration, [Next]_vars
    PROVE  Registration'
  <1> USE DEF Registration, TypeOK, OutcomeTypeOK, Position, Control, Scripts, ownStage, AtWork, Ahead, ScriptStage, LoopStage,
          DownloadStage, jobVars, ctlVars, ctxVars, rcVars, runVars, dbVars, scriptVars, fileVars
  <1>1. CASE Acquire
    BY <1>1 DEF Acquire, DbWrite, DbFault
  <1>2. CASE CreateSkipped
    BY <1>2 DEF CreateSkipped, DbWrite, DbFault
  <1>3. CASE CreateRun
    BY <1>3 DEF CreateRun, DbWrite, DbFault
  <1>4. CASE StepStart
    BY <1>4 DEF StepStart, DbWrite, DbFault
  <1>5. CASE StepNotStarted
    BY <1>5 DEF StepNotStarted, DbWrite, DbFault, fail, Goto, afterPostBackup,
       afterRemoteCleanup
  <1>6. CASE StepFinish
    BY <1>6 DEF StepFinish, Goto, afterPostBackup, afterRemoteCleanup
  <1>7. CASE CheckCancelled
    BY <1>7 DEF CheckCancelled, Goto, afterPostBackup
  <1>8. CASE CloseTransport
    BY <1>8 DEF CloseTransport, Goto
  <1>9. CASE Finish
    BY <1>9 DEF Finish, finalStatus
  <1>10. CASE UpdateRow
    BY <1>10 DEF UpdateRow, DbWrite, DbFault
  <1>11. CASE Release
    BY <1>11 DEF Release, DbWriteDetached, DbFault
  <1>12. CASE Connect
    BY <1>12 DEF Connect, fail
  <1>13. CASE PreflightChecks
    BY <1>13 DEF PreflightChecks, fail, warn
  <1>14. CASE RunArchive
    BY <1>14 DEF RunArchive
  <1>15. CASE RemoteChecksum
    BY <1>15 DEF RemoteChecksum, fail
  <1>16. CASE LocalChecksum
    BY <1>16 DEF LocalChecksum
  <1>17. CASE VerifyChecksums
    BY <1>17 DEF VerifyChecksums, fail
  <1>18. CASE HealthAttempt
    BY <1>18 DEF HealthAttempt, warn
  <1>19. CASE RemoteCleanup
    BY <1>19 DEF RemoteCleanup, warn
  <1>20. CASE PersistArchiveInfo
    BY <1>20 DEF PersistArchiveInfo, DbWrite, DbFault
  <1>21. CASE ApplyRetention
    BY <1>21 DEF ApplyRetention, warn
  <1>22. CASE LoopEnd
    BY <1>22 DEF LoopEnd, Goto
  <1>23. CASE LoopPass
    BY <1>23 DEF LoopPass, takesUp
  <1>24. CASE LoopCancelled
    BY <1>24 DEF LoopCancelled, takesUp
  <1>25. CASE LoopPick
    BY <1>25 DEF LoopPick, takesUp
  <1>26. CASE SkipScript
    BY <1>26 DEF SkipScript, DbWrite, DbFault
  <1>27. CASE ScriptNotStarted
    <2>1. /\ idx \in Scripts /\ stage \in ScriptStage /\ stage' = stage
          /\ job' = job /\ transport' = transport /\ idx' = idx + 1
      BY <1>27 DEF ScriptNotStarted, scriptReturned
    <2>2. \A i \in Scripts : registry'[i] = IF i = idx /\ registry[i] = "pending" THEN "done"
                                            ELSE registry[i]
      BY <1>27, <2>1, MarkDone DEF ScriptNotStarted
    <2> QED
      BY <2>1, <2>2, ScriptsAreNumbered
  <1>28. CASE ScriptAttempt
    BY <1>28 DEF ScriptAttempt
  <1>29. CASE ScriptFinish
    <2>1. /\ idx \in Scripts /\ stage \in ScriptStage /\ stage' = stage
          /\ job' = job /\ transport' = transport /\ idx' = idx + 1
      BY <1>29 DEF ScriptFinish, scriptReturned
    <2>2. \A i \in Scripts : registry'[i] = IF i = idx /\ registry[i] = "pending" THEN "done"
                                            ELSE registry[i]
      BY <1>29, <2>1, MarkDone DEF ScriptFinish
    <2> QED
      BY <2>1, <2>2, ScriptsAreNumbered
  <1>30. CASE DownloadArchive
    BY <1>30 DEF DownloadArchive, fail
  <1>31. CASE Cancel
    BY <1>31 DEF Cancel
  <1>32. CASE BudgetExpires
    BY <1>32 DEF BudgetExpires
  <1>33. CASE Terminated
    BY <1>33 DEF Terminated, vars
  <1>34. CASE UNCHANGED vars
    BY <1>34 DEF vars
  <1> QED
    BY <1>1, <1>2, <1>3, <1>4, <1>5, <1>6, <1>7, <1>8, <1>9, <1>10, <1>11, <1>12, <1>13,
       <1>14, <1>15, <1>16, <1>17, <1>18, <1>19, <1>20, <1>21, <1>22, <1>23, <1>24, <1>25,
       <1>26, <1>27, <1>28, <1>29, <1>30, <1>31, <1>32, <1>33, <1>34 DEF Next, Frame,
       Stages, Loops

\* RecoverySoFar: only a script that returns changes the outcome.
LEMMA NextRecovery ==
    ASSUME TypeOK, Control, Position, RunCounts, Registration, RecoverySoFar, [Next]_vars
    PROVE  RecoverySoFar'
  <1> USE DEF RecoverySoFar, DoneScripts,  TypeOK, OutcomeTypeOK,  Control, Scripts, ownStage, AtWork, Ahead, ScriptStage, LoopStage,
          DownloadStage, jobVars, ctlVars, ctxVars, rcVars, runVars, dbVars, scriptVars, fileVars
  <1>1. CASE Acquire
    BY <1>1 DEF Acquire, DbWrite, DbFault
  <1>2. CASE CreateSkipped
    BY <1>2 DEF CreateSkipped, DbWrite, DbFault
  <1>3. CASE CreateRun
    BY <1>3 DEF CreateRun, DbWrite, DbFault
  <1>4. CASE StepStart
    BY <1>4 DEF StepStart, DbWrite, DbFault
  <1>5. CASE StepNotStarted
    BY <1>5 DEF StepNotStarted, DbWrite, DbFault, fail, Goto, afterPostBackup,
       afterRemoteCleanup
  <1>6. CASE StepFinish
    BY <1>6 DEF StepFinish, Goto, afterPostBackup, afterRemoteCleanup
  <1>7. CASE CheckCancelled
    BY <1>7 DEF CheckCancelled, Goto, afterPostBackup
  <1>8. CASE CloseTransport
    BY <1>8 DEF CloseTransport, Goto
  <1>9. CASE Finish
    BY <1>9 DEF Finish, finalStatus
  <1>10. CASE UpdateRow
    BY <1>10 DEF UpdateRow, DbWrite, DbFault
  <1>11. CASE Release
    BY <1>11 DEF Release, DbWriteDetached, DbFault
  <1>12. CASE Connect
    <2>1. \A i \in Scripts : registry[i] = "none"
      BY <1>12 DEF Connect, Registration
    <2>2. recovery = "NOT_APPLICABLE" /\ recovery' = recovery /\ Scripts' = Scripts
      BY <1>12, <2>1 DEF Connect, fail
    <2>3. \A i \in Scripts : registry'[i] # "done"
      BY <1>12, <2>1 DEF Connect
    <2> QED
      BY <2>2, <2>3
  <1>13. CASE PreflightChecks
    BY <1>13 DEF PreflightChecks, fail, warn
  <1>14. CASE RunArchive
    BY <1>14 DEF RunArchive
  <1>15. CASE RemoteChecksum
    BY <1>15 DEF RemoteChecksum, fail
  <1>16. CASE LocalChecksum
    BY <1>16 DEF LocalChecksum
  <1>17. CASE VerifyChecksums
    BY <1>17 DEF VerifyChecksums, fail
  <1>18. CASE HealthAttempt
    BY <1>18 DEF HealthAttempt, warn
  <1>19. CASE RemoteCleanup
    BY <1>19 DEF RemoteCleanup, warn
  <1>20. CASE PersistArchiveInfo
    BY <1>20 DEF PersistArchiveInfo, DbWrite, DbFault
  <1>21. CASE ApplyRetention
    BY <1>21 DEF ApplyRetention, warn
  <1>22. CASE LoopEnd
    BY <1>22 DEF LoopEnd, Goto
  <1>23. CASE LoopPass
    BY <1>23 DEF LoopPass, takesUp
  <1>24. CASE LoopCancelled
    BY <1>24 DEF LoopCancelled, takesUp
  <1>25. CASE LoopPick
    BY <1>25 DEF LoopPick, takesUp
  <1>26. CASE SkipScript
    BY <1>26 DEF SkipScript, DbWrite, DbFault
  <1>27. CASE ScriptNotStarted
    <2>1. idx \in Scripts /\ registry[idx] # "done" /\ UNCHANGED job
      BY <1>27 DEF ScriptNotStarted, RunCounts, Position
    <2> QED
      BY <1>27, <2>1, RecoveryRecorded DEF ScriptNotStarted
  <1>28. CASE ScriptAttempt
    BY <1>28 DEF ScriptAttempt
  <1>29. CASE ScriptFinish
    <2>1. idx \in Scripts /\ registry[idx] # "done" /\ UNCHANGED job
      BY <1>29 DEF ScriptFinish, RunCounts, Position
    <2> QED
      BY <1>29, <2>1, RecoveryRecorded DEF ScriptFinish
  <1>30. CASE DownloadArchive
    BY <1>30 DEF DownloadArchive, fail
  <1>31. CASE Cancel
    BY <1>31 DEF Cancel
  <1>32. CASE BudgetExpires
    BY <1>32 DEF BudgetExpires
  <1>33. CASE Terminated
    BY <1>33 DEF Terminated, vars
  <1>34. CASE UNCHANGED vars
    BY <1>34 DEF vars
  <1> QED
    BY <1>1, <1>2, <1>3, <1>4, <1>5, <1>6, <1>7, <1>8, <1>9, <1>10, <1>11, <1>12, <1>13,
       <1>14, <1>15, <1>16, <1>17, <1>18, <1>19, <1>20, <1>21, <1>22, <1>23, <1>24, <1>25,
       <1>26, <1>27, <1>28, <1>29, <1>30, <1>31, <1>32, <1>33, <1>34 DEF Next, Frame,
       Stages, Loops

-----------------------------------------------------------------------------
(* The outcome and the history *)

\* A script that is about to be started has not been run before.
LEMMA FreshScript ==
    ASSUME TypeOK, Control, Position, RunCounts, pc = "start", stage \in ScriptStage
    PROVE  ran[idx] = 0
  <1>1. idx \in Scripts
    BY DEF Control
  <1>2. CASE stage = "DRAIN"
    BY <1>1, <1>2 DEF Position, RunCounts, AtWork
  <1>3. CASE stage \in LoopStage
    BY <1>1, <1>3 DEF TypeOK, Position, RunCounts, Ahead
  <1> QED BY <1>2, <1>3 DEF ScriptStage, LoopStage

\* A script that is known to have failed is still known to have failed when
\* another one returns, and a script that returns with an error in the loops is.
LEMMA FailureKnown ==
    ASSUME TypeOK, idx \in Scripts, UNCHANGED <<job, stage>>, verified' = verified, pc' = "loop",
           ran' \in [Scripts -> Nat],
           \A i \in Scripts : ran'[i] = IF i = idx THEN 1 ELSE ran[i],
           ~AtWork(idx) => ran[idx] = 0,
           failed /\ verified => \E i \in Scripts : ran[i] = 1 /\ i \notin good /\ ~AtWork(i),
           NEW error \in BOOLEAN, scriptReturned(error)
    PROVE  failed' /\ verified' => \E i \in Scripts' : ran'[i] = 1 /\ i \notin good' /\ ~AtWork(i)'
  <1>1. Scripts' = Scripts /\ \A i \in Scripts : ~AtWork(i)'
    BY DEF Scripts, AtWork
  <1>2. good' = IF error THEN good \ {idx} ELSE good \cup {idx}
    BY DEF scriptReturned
  <1>3. CASE error
    BY <1>1, <1>2, <1>3
  <1>4. CASE ~error
    <2>1. failed' = failed
      BY <1>4 DEF scriptReturned
    <2>2. SUFFICES ASSUME failed, verified
                   PROVE  \E i \in Scripts : ran'[i] = 1 /\ i \notin good' /\ ~AtWork(i)'
      BY <1>1, <2>1
    <2>3. PICK i \in Scripts : ran[i] = 1 /\ i \notin good /\ ~AtWork(i)
      BY <2>2
    <2>4. i # idx
      BY <2>3
    <2> QED BY <1>1, <1>2, <1>4, <2>3, <2>4
  <1> QED BY <1>3, <1>4

\* When the write succeeds, Finish brings the last step to its end and leaves
\* the others alone.
LEMMA FinishCloses ==
    ASSUME TypeOK, finishStep, ~ctxDead, faults' = 0
    PROVE  /\ Len(steps') = Len(steps)
           /\ \A i \in 1..Len(steps) :
                  steps'[i].status = IF i # Len(steps) THEN steps[i].status
                                     ELSE IF verdict THEN "SUCCESS" ELSE "FAILED"
  <1>1. steps \in Seq(Step) /\ faults \in Nat
    BY JobsAssumption DEF TypeOK
  <1> DEFINE v == IF verdict THEN "SUCCESS" ELSE "FAILED"
  <1>2. steps' = [steps EXCEPT ![Len(steps)].status = v]
    BY <1>1 DEF finishStep, DbWrite, DbFault
  <1> HIDE DEF v
  <1>3. Len(steps') = Len(steps) /\ DOMAIN steps = 1..Len(steps)
    BY <1>1, <1>2
  <1>4. ASSUME NEW i \in 1..Len(steps), i # Len(steps) PROVE steps'[i] = steps[i]
    BY <1>1, <1>2, <1>4
  <1>5. ASSUME Len(steps) \in 1..Len(steps) PROVE steps'[Len(steps)].status = v
    <2>1. steps[Len(steps)] \in Step
      BY <1>1, <1>5
    <2>2. steps'[Len(steps)] = [steps[Len(steps)] EXCEPT !.status = v]
      BY <1>1, <1>2, <1>5
    <2> QED BY <2>1, <2>2 DEF Step
  <1> QED BY <1>3, <1>4, <1>5 DEF v

\* A write never takes a fault back.
LEMMA FaultsGrow ==
    ASSUME TypeOK, finishStep
    PROVE  faults \in Nat /\ faults' \in Nat /\ faults' >= faults
  BY JobsAssumption DEF TypeOK, finishStep, DbWrite, DbFault

\* Blame: fail is only called before the archive is verified, and scripts that
\* failed stay known.
LEMMA NextBlame ==
    ASSUME TypeOK, Control, Evidence, Position, RunCounts, Blame, [Next]_vars
    PROVE  Blame'
  <1> USE DEF Blame, PastDownload, TypeOK, OutcomeTypeOK, Control, Scripts, AtWork, ScriptStage,
          DownloadStage, jobVars, ctlVars, ctxVars, rcVars, runVars, dbVars, scriptVars, fileVars
  <1>1. CASE Acquire
    BY <1>1 DEF Acquire, DbWrite, DbFault
  <1>2. CASE CreateSkipped
    BY <1>2 DEF CreateSkipped, DbWrite, DbFault
  <1>3. CASE CreateRun
    BY <1>3 DEF CreateRun, DbWrite, DbFault
  <1>4. CASE StepStart
    <2>1. stage \in ScriptStage => ran[idx] = 0
      BY <1>4, FreshScript DEF StepStart
    <2>2. \A i \in Scripts : ran[i] = 1 /\ ~AtWork(i) => ran'[i] = 1 /\ ~AtWork(i)'
      BY <1>4, <2>1 DEF StepStart
    <2> QED
      BY <1>4, <2>2 DEF StepStart
  <1>5. CASE StepNotStarted
    BY <1>5 DEF StepNotStarted, DbWrite, DbFault, fail, Goto, afterPostBackup,
       afterRemoteCleanup
  <1>6. CASE StepFinish
    <2>1. \A i \in Scripts : ~AtWork(i)'
      BY <1>6 DEF StepFinish, Goto, afterPostBackup, afterRemoteCleanup
    <2>2. failed' /\ verified' => \E i \in Scripts' : ran'[i] = 1 /\ i \notin good' /\ ~AtWork(i)'
      BY <1>6, <2>1 DEF StepFinish
    <2> HIDE DEF AtWork
    <2> QED
      BY <1>6, <2>2 DEF StepFinish, Goto, afterPostBackup, afterRemoteCleanup
  <1>7. CASE CheckCancelled
    BY <1>7 DEF CheckCancelled, Goto, afterPostBackup
  <1>8. CASE CloseTransport
    BY <1>8 DEF CloseTransport, Goto
  <1>9. CASE Finish
    BY <1>9 DEF Finish, finalStatus
  <1>10. CASE UpdateRow
    BY <1>10 DEF UpdateRow, DbWrite, DbFault
  <1>11. CASE Release
    BY <1>11 DEF Release, DbWriteDetached, DbFault
  <1>12. CASE Connect
    BY <1>12 DEF Connect, fail
  <1>13. CASE PreflightChecks
    BY <1>13 DEF PreflightChecks, fail, warn
  <1>14. CASE RunArchive
    BY <1>14 DEF RunArchive
  <1>15. CASE RemoteChecksum
    <2>1. CASE fail("ARCHIVE_FAILED")
      BY <1>15, <2>1 DEF RemoteChecksum, fail
    <2>2. CASE UNCHANGED <<rcVars, runVars>>
      BY <1>15, <2>2 DEF RemoteChecksum
    <2> QED BY <1>15, <2>1, <2>2 DEF RemoteChecksum
  <1>16. CASE LocalChecksum
    BY <1>16 DEF LocalChecksum
  <1>17. CASE VerifyChecksums
    BY <1>17 DEF VerifyChecksums, fail
  <1>18. CASE HealthAttempt
    <2>1. UNCHANGED <<failed, verified, job, ran, good, stage, idx>> /\ pc' \in {"work", "record"}
      BY <1>18 DEF HealthAttempt, warn
    <2> QED
      BY <1>18, <2>1 DEF HealthAttempt
  <1>19. CASE RemoteCleanup
    BY <1>19 DEF RemoteCleanup, warn
  <1>20. CASE PersistArchiveInfo
    BY <1>20 DEF PersistArchiveInfo, DbWrite, DbFault
  <1>21. CASE ApplyRetention
    BY <1>21 DEF ApplyRetention, warn
  <1>22. CASE LoopEnd
    BY <1>22 DEF LoopEnd, Goto
  <1>23. CASE LoopPass
    BY <1>23 DEF LoopPass
  <1>24. CASE LoopCancelled
    BY <1>24 DEF LoopCancelled
  <1>25. CASE LoopPick
    BY <1>25 DEF LoopPick
  <1>26. CASE SkipScript
    BY <1>26 DEF SkipScript, DbWrite, DbFault
  <1>27. CASE ScriptNotStarted
    <2>1. /\ idx \in Scripts /\ UNCHANGED <<job, stage>> /\ verified' = verified /\ pc' = "loop"
          /\ stage \in ScriptStage /\ pc \in {"start", "record"}
      BY <1>27 DEF ScriptNotStarted, scriptReturned
    <2>2. /\ ran' \in [Scripts -> Nat] /\ (~AtWork(idx) => ran[idx] = 0)
          /\ \A i \in Scripts : ran'[i] = IF i = idx THEN 1 ELSE ran[i]
      BY <1>27, <2>1, FreshScript DEF ScriptNotStarted, RunCounts
    <2>3. failed' /\ verified' => \E i \in Scripts' : ran'[i] = 1 /\ i \notin good' /\ ~AtWork(i)'
      BY <1>27, <2>1, <2>2, FailureKnown DEF ScriptNotStarted
    <2> HIDE DEF AtWork
    <2> QED
      BY <2>1, <2>3
  <1>28. CASE ScriptAttempt
    BY <1>28 DEF ScriptAttempt
  <1>29. CASE ScriptFinish
    <2>1. /\ idx \in Scripts /\ UNCHANGED <<job, stage>> /\ verified' = verified /\ pc' = "loop"
          /\ stage \in ScriptStage /\ pc \in {"start", "record"}
      BY <1>29 DEF ScriptFinish, scriptReturned
    <2>2. /\ ran' \in [Scripts -> Nat] /\ (~AtWork(idx) => ran[idx] = 0)
          /\ \A i \in Scripts : ran'[i] = IF i = idx THEN 1 ELSE ran[i]
      BY <1>29, <2>1, FreshScript DEF ScriptFinish, RunCounts
    <2>3. failed' /\ verified' => \E i \in Scripts' : ran'[i] = 1 /\ i \notin good' /\ ~AtWork(i)'
      BY <1>29, <2>1, <2>2, FailureKnown DEF ScriptFinish
    <2> HIDE DEF AtWork
    <2> QED
      BY <2>1, <2>3
  <1>30. CASE DownloadArchive
    BY <1>30 DEF DownloadArchive, fail
  <1>31. CASE Cancel
    BY <1>31 DEF Cancel
  <1>32. CASE BudgetExpires
    BY <1>32 DEF BudgetExpires
  <1>33. CASE Terminated
    BY <1>33 DEF Terminated, vars
  <1>34. CASE UNCHANGED vars
    BY <1>34 DEF vars
  <1> QED
    BY <1>1, <1>2, <1>3, <1>4, <1>5, <1>6, <1>7, <1>8, <1>9, <1>10, <1>11, <1>12, <1>13,
       <1>14, <1>15, <1>16, <1>17, <1>18, <1>19, <1>20, <1>21, <1>22, <1>23, <1>24, <1>25,
       <1>26, <1>27, <1>28, <1>29, <1>30, <1>31, <1>32, <1>33, <1>34 DEF Next, Frame,
       Stages, Loops

\* Tidiness: past remoteCleanup nothing clears a failure, a warning or a fault.
LEMMA NextTidiness ==
    ASSUME TypeOK, Control, Evidence, Bookkeeping, Tidiness, [Next]_vars
    PROVE  Tidiness'
  <1> USE DEF Tidiness, CleanupOver, PastDownload, TypeOK, OutcomeTypeOK, Control, Evidence, Bookkeeping,
          ctxDead, ScriptStage, DownloadStage, jobVars, ctlVars, ctxVars, rcVars, runVars, dbVars, scriptVars, fileVars
  <1>1. CASE Acquire
    BY <1>1 DEF Acquire, DbWrite, DbFault
  <1>2. CASE CreateSkipped
    BY <1>2 DEF CreateSkipped, DbWrite, DbFault
  <1>3. CASE CreateRun
    BY <1>3 DEF CreateRun, DbWrite, DbFault
  <1>4. CASE StepStart
    BY <1>4 DEF StepStart, DbWrite, DbFault
  <1>5. CASE StepNotStarted
    BY <1>5 DEF StepNotStarted, DbWrite, DbFault, fail, Goto, afterPostBackup,
       afterRemoteCleanup
  <1>6. CASE StepFinish
    <2>1. faults \in Nat /\ faults' \in Nat /\ faults' >= faults
      BY <1>6, FaultsGrow DEF StepFinish
    <2> QED
      BY <1>6, <2>1 DEF StepFinish, Goto, afterPostBackup, afterRemoteCleanup
  <1>7. CASE CheckCancelled
    BY <1>7 DEF CheckCancelled, Goto, afterPostBackup
  <1>8. CASE CloseTransport
    BY <1>8 DEF CloseTransport, Goto
  <1>9. CASE Finish
    BY <1>9 DEF Finish, finalStatus
  <1>10. CASE UpdateRow
    BY <1>10 DEF UpdateRow, DbWrite, DbFault
  <1>11. CASE Release
    BY <1>11 DEF Release, DbWriteDetached, DbFault
  <1>12. CASE Connect
    BY <1>12 DEF Connect, fail
  <1>13. CASE PreflightChecks
    BY <1>13 DEF PreflightChecks, fail, warn
  <1>14. CASE RunArchive
    BY <1>14 DEF RunArchive
  <1>15. CASE RemoteChecksum
    BY <1>15 DEF RemoteChecksum, fail
  <1>16. CASE LocalChecksum
    BY <1>16 DEF LocalChecksum
  <1>17. CASE VerifyChecksums
    BY <1>17 DEF VerifyChecksums, fail
  <1>18. CASE HealthAttempt
    BY <1>18 DEF HealthAttempt, warn
  <1>19. CASE RemoteCleanup
    BY <1>19 DEF RemoteCleanup, warn
  <1>20. CASE PersistArchiveInfo
    BY <1>20 DEF PersistArchiveInfo, DbWrite, DbFault
  <1>21. CASE ApplyRetention
    BY <1>21 DEF ApplyRetention, warn
  <1>22. CASE LoopEnd
    BY <1>22 DEF LoopEnd, Goto
  <1>23. CASE LoopPass
    BY <1>23 DEF LoopPass
  <1>24. CASE LoopCancelled
    BY <1>24 DEF LoopCancelled
  <1>25. CASE LoopPick
    BY <1>25 DEF LoopPick
  <1>26. CASE SkipScript
    BY <1>26 DEF SkipScript, DbWrite, DbFault
  <1>27. CASE ScriptNotStarted
    BY <1>27 DEF ScriptNotStarted, DbWrite, DbFault, scriptReturned, recordRecovery
  <1>28. CASE ScriptAttempt
    BY <1>28 DEF ScriptAttempt
  <1>29. CASE ScriptFinish
    <2>1. faults \in Nat /\ faults' \in Nat /\ faults' >= faults
      BY <1>29, FaultsGrow DEF ScriptFinish
    <2> QED
      BY <1>29, <2>1 DEF ScriptFinish, scriptReturned
  <1>30. CASE DownloadArchive
    BY <1>30 DEF DownloadArchive, fail
  <1>31. CASE Cancel
    BY <1>31 DEF Cancel
  <1>32. CASE BudgetExpires
    BY <1>32 DEF BudgetExpires
  <1>33. CASE Terminated
    BY <1>33 DEF Terminated, vars
  <1>34. CASE UNCHANGED vars
    BY <1>34 DEF vars
  <1> QED
    BY <1>1, <1>2, <1>3, <1>4, <1>5, <1>6, <1>7, <1>8, <1>9, <1>10, <1>11, <1>12, <1>13,
       <1>14, <1>15, <1>16, <1>17, <1>18, <1>19, <1>20, <1>21, <1>22, <1>23, <1>24, <1>25,
       <1>26, <1>27, <1>28, <1>29, <1>30, <1>31, <1>32, <1>33, <1>34 DEF Next, Frame,
       Stages, Loops

\* OneOpenStep: a stage records its step before the next one is created.
LEMMA NextOpenStep ==
    ASSUME TypeOK, Control, OneOpenStep, [Next]_vars
    PROVE  OneOpenStep'
  <1> USE DEF OneOpenStep, TypeOK, Control, ScriptStage, ctxDead,
          DownloadStage, jobVars, ctlVars, ctxVars, dbVars
  <1>1. CASE Acquire
    BY <1>1 DEF Acquire, DbWrite, DbFault
  <1>2. CASE CreateSkipped
    BY <1>2 DEF CreateSkipped, DbWrite, DbFault
  <1>3. CASE CreateRun
    BY <1>3 DEF CreateRun, DbWrite, DbFault
  <1>4. CASE StepStart
    BY <1>4 DEF StepStart, DbWrite, DbFault
  <1>5. CASE StepNotStarted
    BY <1>5 DEF StepNotStarted, DbWrite, DbFault, fail, Goto, afterPostBackup,
       afterRemoteCleanup
  <1>6. CASE StepFinish
    <2>1. SUFFICES ASSUME ~ctxDone, ~budgetOut, faults' = 0
                   PROVE  \A i \in 1..Len(steps') : steps'[i].status # "RUNNING"
      BY <1>6 DEF StepFinish
    <2>2. faults = 0
      BY <1>6, <2>1, FaultsGrow DEF StepFinish
    <2>3. \A i \in 1..Len(steps) : steps[i].status = "RUNNING" => i = Len(steps)
      BY <2>1, <2>2
    <2> QED
      BY <1>6, <2>1, <2>3, FinishCloses DEF StepFinish
  <1>7. CASE CheckCancelled
    BY <1>7 DEF CheckCancelled, Goto, afterPostBackup
  <1>8. CASE CloseTransport
    BY <1>8 DEF CloseTransport, Goto
  <1>9. CASE Finish
    BY <1>9 DEF Finish, finalStatus
  <1>10. CASE UpdateRow
    BY <1>10 DEF UpdateRow, DbWrite, DbFault
  <1>11. CASE Release
    BY <1>11 DEF Release, DbWriteDetached, DbFault
  <1>12. CASE Connect
    BY <1>12 DEF Connect, fail
  <1>13. CASE PreflightChecks
    BY <1>13 DEF PreflightChecks, fail, warn
  <1>14. CASE RunArchive
    BY <1>14 DEF RunArchive
  <1>15. CASE RemoteChecksum
    BY <1>15 DEF RemoteChecksum, fail
  <1>16. CASE LocalChecksum
    BY <1>16 DEF LocalChecksum
  <1>17. CASE VerifyChecksums
    BY <1>17 DEF VerifyChecksums, fail
  <1>18. CASE HealthAttempt
    BY <1>18 DEF HealthAttempt, warn
  <1>19. CASE RemoteCleanup
    BY <1>19 DEF RemoteCleanup, warn
  <1>20. CASE PersistArchiveInfo
    BY <1>20 DEF PersistArchiveInfo, DbWrite, DbFault
  <1>21. CASE ApplyRetention
    BY <1>21 DEF ApplyRetention, warn
  <1>22. CASE LoopEnd
    BY <1>22 DEF LoopEnd, Goto
  <1>23. CASE LoopPass
    BY <1>23 DEF LoopPass
  <1>24. CASE LoopCancelled
    BY <1>24 DEF LoopCancelled
  <1>25. CASE LoopPick
    BY <1>25 DEF LoopPick
  <1>26. CASE SkipScript
    BY <1>26 DEF SkipScript, DbWrite, DbFault
  <1>27. CASE ScriptNotStarted
    BY <1>27 DEF ScriptNotStarted, DbWrite, DbFault, scriptReturned, recordRecovery
  <1>28. CASE ScriptAttempt
    BY <1>28 DEF ScriptAttempt
  <1>29. CASE ScriptFinish
    <2>1. SUFFICES ASSUME ~ctxDone, ~budgetOut, faults' = 0
                   PROVE  \A i \in 1..Len(steps') : steps'[i].status # "RUNNING"
      BY <1>29 DEF ScriptFinish
    <2>2. faults = 0
      BY <1>29, <2>1, FaultsGrow DEF ScriptFinish
    <2>3. \A i \in 1..Len(steps) : steps[i].status = "RUNNING" => i = Len(steps)
      BY <2>1, <2>2
    <2> QED
      BY <1>29, <2>1, <2>3, FinishCloses DEF ScriptFinish
  <1>30. CASE DownloadArchive
    BY <1>30 DEF DownloadArchive, fail
  <1>31. CASE Cancel
    BY <1>31 DEF Cancel
  <1>32. CASE BudgetExpires
    BY <1>32 DEF BudgetExpires
  <1>33. CASE Terminated
    BY <1>33 DEF Terminated, vars
  <1>34. CASE UNCHANGED vars
    BY <1>34 DEF vars
  <1> QED
    BY <1>1, <1>2, <1>3, <1>4, <1>5, <1>6, <1>7, <1>8, <1>9, <1>10, <1>11, <1>12, <1>13,
       <1>14, <1>15, <1>16, <1>17, <1>18, <1>19, <1>20, <1>21, <1>22, <1>23, <1>24, <1>25,
       <1>26, <1>27, <1>28, <1>29, <1>30, <1>31, <1>32, <1>33, <1>34 DEF Next, Frame,
       Stages, Loops

-----------------------------------------------------------------------------
(* The whole invariant *)

\* It holds when a run begins.
LEMMA InitScriptInv == Init => ScriptInv /\ HistoryInv
  <1> SUFFICES ASSUME Init PROVE ScriptInv /\ HistoryInv
    OBVIOUS
  <1>1. Position /\ Registration
    BY DEF Init, Position, Registration, ScriptStage, LoopStage
  <1>2. RunCounts
    BY DEF Init, RunCounts, AtWork
  <1>3. RecoverySoFar
    BY DEF Init, RecoverySoFar, DoneScripts
  <1>4. Blame /\ Tidiness
    BY DEF Init, Blame, Tidiness, CleanupOver
  <1>5. OneOpenStep
    BY DEF Init, OneOpenStep
  <1> QED BY <1>1, <1>2, <1>3, <1>4, <1>5 DEF ScriptInv, HistoryInv

\* And in every state of a run.
LEMMA ScriptInvariantHolds == Spec => [](IInv /\ ScriptInv /\ HistoryInv)
  <1>1. Init => ScriptInv /\ HistoryInv
    BY InitScriptInv
  <1>2. IInv /\ ScriptInv /\ HistoryInv /\ [Next]_vars => ScriptInv' /\ HistoryInv'
    <2> SUFFICES ASSUME IInv, ScriptInv, HistoryInv, [Next]_vars
                 PROVE  ScriptInv' /\ HistoryInv'
      OBVIOUS
    <2>1. ScriptInv'
      BY NextPosition, NextRunCounts, NextRegistration, NextRecovery DEF IInv, ScriptInv
    <2>2. HistoryInv'
      BY NextBlame, NextTidiness, NextOpenStep DEF IInv, ScriptInv, HistoryInv
    <2> QED BY <2>1, <2>2
  <1> QED
    BY <1>1, <1>2, InvariantHolds, PTL DEF Spec

-----------------------------------------------------------------------------
(* Theorems *)

\* A run past its drain is at its end, or gave up before it had a connection.
LEMMA PastTheDrain ==
    ASSUME IInv, ScriptInv, HistoryInv, Drained
    PROVE  stage = "END" \/ transport = "none"
  BY DEF IInv, Control, ScriptInv, Registration, HistoryInv, Tidiness, Drained

\* Every script with a guarantee goes through runScriptRecorded exactly once if
\* the run ever connected, by the loops or by the drain, and no script does
\* twice: for any list of scripts, whatever is cancelled or fails.
THEOREM ScriptsRunOnce == Spec => []CleanupExactlyOnce
  <1>1. IInv /\ ScriptInv /\ HistoryInv => CleanupExactlyOnce
    <2> SUFFICES ASSUME IInv, ScriptInv, HistoryInv
                 PROVE  CleanupExactlyOnce
      OBVIOUS
    <2>1. \A i \in Scripts : ran[i] <= 1
      BY DEF ScriptInv, RunCounts
    <2>2. ASSUME Drained, transport # "none", NEW i \in Scripts, Guaranteed(job.scripts[i])
          PROVE  ran[i] = 1
      <3>1. stage = "END"
        BY <2>2, PastTheDrain
      <3>2. registry[i] = "done"
        BY <2>2, <3>1 DEF IInv, TypeOK, ScriptInv, Registration
      <3> QED
        BY <3>2 DEF ScriptInv, RunCounts
    <2> QED BY <2>1, <2>2 DEF CleanupExactlyOnce
  <1> QED
    BY <1>1, ScriptInvariantHolds, PTL

\* The recovery outcome of a run that has left execute says what happened to
\* its registered actions, all of them and over loops and drain together.
THEOREM RecoveryIsTruthful == Spec => []RecoveryTruthful
  <1>1. IInv /\ ScriptInv /\ HistoryInv => RecoveryTruthful
    <2> SUFFICES ASSUME IInv, ScriptInv, HistoryInv, Drained
                 PROVE  DoneScripts = Registered
      BY DEF ScriptInv, RecoverySoFar, RecoveryTruthful
    <2>1. \A i \in Scripts : registry[i] \in {"none", "done"}
      BY PastTheDrain DEF IInv, TypeOK, ScriptInv, Registration
    <2> QED BY <2>1 DEF DoneScripts, Registered
  <1> QED
    BY <1>1, ScriptInvariantHolds, PTL

\* A finished run's status and steps are true: a verified run only fails by a
\* script, a success leaves no archive on the server unnoticed, and no step
\* stays open unless the run was cancelled or a write failed.
THEOREM HistoryIsTruthful == Spec => []HistoryTruthful
  <1>1. IInv /\ ScriptInv /\ HistoryInv => HistoryTruthful
    <2> SUFFICES ASSUME IInv, ScriptInv, HistoryInv
                 PROVE  HistoryTruthful
      OBVIOUS
    <2>1. VerifiedFailsOnlyByScript
      BY DEF IInv, Bookkeeping, HistoryInv, Tidiness, Blame, VerifiedFailsOnlyByScript
    <2>2. LeftoverReported
      BY DEF HistoryInv, Tidiness, CleanupOver, LeftoverReported
    <2>3. StepsClosed
      BY DEF HistoryInv, OneOpenStep, StepsClosed
    <2> QED BY <2>1, <2>2, <2>3 DEF HistoryTruthful
  <1> QED
    BY <1>1, ScriptInvariantHolds, PTL

=============================================================================
