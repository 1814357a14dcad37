------------------------------ MODULE RunEngine ------------------------------
(***************************************************************************)
(* One backup run: server/internal/backup, from Engine.beginRun to the     *)
(* release of the job lock at the end of Engine.finishRun.                 *)
(*                                                                         *)
(* The run is one goroutine.  Its control is the pair (stage, pc): stage   *)
(* is the stage function it is in, pc the place inside it.  A stage that   *)
(* records a step goes start -> work -> record: the step row is created,   *)
(* the stage does its work, the step row is brought to its final state.    *)
(* Cancel (a user's request, or the shutdown of the service) may come      *)
(* between any two of these, because every one of them blocks on the       *)
(* network, the disk or the database.                                      *)
(*                                                                         *)
(* Data is reduced to what the properties tell apart: an archive on the    *)
(* server is absent, partial or complete; a local file is absent, partial, *)
(* or has a checksum that is equal to the remote one ("good") or not       *)
(* ("bad"); an error is its code.                                          *)
(***************************************************************************)
EXTENDS Integers, Sequences

CONSTANTS
    Jobs,      \* the job configurations a run may be started for
    MaxFaults  \* bound on database writes that fail although their context is live

ScriptKind == {"PRE_BACKUP", "POST_BACKUP"}
RunCondition == {"ON_SUCCESS", "ON_FAILURE", "ALWAYS"}
Script == [type: ScriptKind, cond: RunCondition, critical: BOOLEAN, retry: BOOLEAN]

\* attempts = 0 stands for a job without a health check
Job == [scripts: Seq(Script), attempts: Nat]

ASSUME JobsAssumption == Jobs \subseteq Job /\ MaxFaults \in Nat

VARIABLES
    job,        \* configuration snapshot the run works on
    pc, stage,  \* control of the run's goroutine
    idx,        \* position in job.scripts of the script loops and of the drain
    attempt,    \* attempt number of the retry loops (script, health check)
    ctxDone,    \* the run's context has been cancelled
    budgetOut,  \* the drain's own context has reached its deadline
    faults,     \* database writes that have failed on their own
    failed, hasWarn, cancelled,  \* runContext
    verified,   \* archiveVerified; also: Run.Checksum is set
    recovery,   \* recoveryOut, copied into the run at its end
    status, err,  \* the in-memory domain.Run
    archived,   \* Run.ArchiveName, and with it remoteArchivePath, is set
    row,        \* status of its row in backup_runs
    told,       \* status carried by the RunFinished event
    lock,       \* row of job_locks for this job
    steps,      \* rows of run_steps, by position
    verdict,    \* outcome of the work whose step is about to be recorded
    transport,  \* the SSH connection
    registry,   \* cleanupRegistry, by script index
    ran, good,  \* times a script went through runScriptRecorded; last one without error
    reached,    \* scripts whose command was started on the server
    remote, part, final  \* remote archive, local .part file, final archive file

jobVars == <<job>>
ctlVars == <<pc, stage, idx, attempt>>
ctxVars == <<ctxDone, budgetOut>>
rcVars == <<failed, hasWarn, cancelled, verified, recovery>>
runVars == <<status, err, archived>>
dbVars == <<row, lock, steps>>
scriptVars == <<registry, ran, good, reached>>
fileVars == <<remote, part, final>>
vars == <<jobVars, ctlVars, ctxVars, faults, rcVars, runVars, told, dbVars, verdict,
          transport, scriptVars, fileVars>>

-----------------------------------------------------------------------------
(* Types *)

ScriptStage == {"PRE_SCRIPT", "POST_SCRIPT", "DRAIN"}
DownloadStage == {"REMOTE_CHECKSUM", "DOWNLOAD", "LOCAL_CHECKSUM", "VERIFY_CHECKSUM"}
Stage == ScriptStage \cup DownloadStage \cup
         {"PREFLIGHT", "ARCHIVE", "HEALTH_CHECK", "REMOTE_CLEANUP", "RETENTION", "END"}
StepType == (Stage \ {"DRAIN", "END"})
Place == {"begin", "create", "createSkipped", "start", "work", "checks", "record",
          "loop", "skip", "check", "persist", "close", "finish", "update",
          "release", "done"}
Ended == {"SUCCESS", "WARNING", "FAILED", "CANCELLED"}
RunStatus == {"NONE", "PENDING", "RUNNING", "SKIPPED"} \cup Ended
Recovery == {"NOT_APPLICABLE", "SUCCESS", "FAILED"}
ErrorCode == {"NONE", "INTERNAL_ERROR", "PREFLIGHT_FAILED", "PRE_SCRIPT_FAILED",
              "POST_SCRIPT_FAILED", "ARCHIVE_FAILED", "ARCHIVE_TIMEOUT",
              "DOWNLOAD_FAILED", "CHECKSUM_MISMATCH", "HEALTH_CHECK_FAILED"}

Step == [type: StepType, status: {"RUNNING", "SUCCESS", "FAILED", "SKIPPED"}]

Scripts == DOMAIN job.scripts

OutcomeTypeOK ==
    /\ failed \in BOOLEAN /\ hasWarn \in BOOLEAN /\ cancelled \in BOOLEAN
    /\ verified \in BOOLEAN /\ archived \in BOOLEAN
    /\ recovery \in Recovery /\ err \in ErrorCode /\ status \in RunStatus

TypeOK ==
    /\ job \in Job
    /\ pc \in Place /\ stage \in Stage
    /\ idx \in Nat \ {0} /\ attempt \in Nat
    /\ ctxDone \in BOOLEAN /\ budgetOut \in BOOLEAN
    /\ faults \in 0..MaxFaults
    /\ OutcomeTypeOK
    /\ row \in RunStatus /\ told \in RunStatus
    /\ lock \in {"free", "mine", "other"}
    /\ steps \in Seq(Step)
    /\ verdict \in BOOLEAN
    /\ transport \in {"none", "open", "closed"}
    /\ registry \in [Scripts -> {"none", "pending", "done"}]
    /\ ran \in [Scripts -> Nat]
    /\ good \subseteq Scripts /\ reached \subseteq Scripts
    /\ remote \in {"absent", "partial", "complete"}
    /\ part \in {"absent", "partial", "bad", "good"}
    /\ final \in {"absent", "bad", "good"}

-----------------------------------------------------------------------------
(* Environment: what the database and the SSH connection may answer *)

\* The context the goroutine works under: the drain's own, else the run's.
ctxDead == IF stage = "DRAIN" THEN budgetOut ELSE ctxDone

\* A write fails by itself, at most MaxFaults times in a behaviour.
DbFault == faults < MaxFaults /\ faults' = faults + 1

\* A write through context.WithoutCancel.
DbWriteDetached(ok) == IF ok THEN UNCHANGED faults ELSE DbFault

\* A write through a context fails if the context is done.
DbWrite(ok) ==
    IF ctxDead THEN ~ok /\ UNCHANGED faults
    ELSE IF ok THEN UNCHANGED faults ELSE DbFault

\* Transport.Run: exit code 0, another exit code, or an error; sent tells
\* whether the command was started.  A command whose context ends is killed,
\* but its result may also win the race.  A closed client opens no session.
TransportRun(out, sent) ==
    /\ out \in {"ok", "exit", "error"}
    /\ sent \in BOOLEAN
    /\ out # "error" => sent
    /\ transport # "open" => out = "error" /\ ~sent

-----------------------------------------------------------------------------
(* runContext helpers *)

\* Only the first failure is reported.
errorAfter(code) == IF failed THEN err ELSE code

fail(code) ==
    /\ failed' = TRUE /\ err' = errorAfter(code)
    /\ UNCHANGED <<hasWarn, cancelled, verified, recovery, status, archived>>

\* Mutant: a warning only sets the message.
warn_silent(code) ==
    /\ err' = IF ~failed /\ err = "NONE" THEN code ELSE err
    /\ UNCHANGED <<rcVars, status, archived>>

warn(code) ==
    /\ hasWarn' = TRUE
    /\ err' = IF ~failed /\ err = "NONE" THEN code ELSE err
    /\ UNCHANGED <<failed, cancelled, verified, recovery, status, archived>>

\* Mutant: the last recovery action decides.
recordRecovery_last(error) == IF error THEN "FAILED" ELSE "SUCCESS"

recordRecovery(error) ==
    IF error \/ recovery = "FAILED" THEN "FAILED" ELSE "SUCCESS"

\* Mutant: warnings are looked at before failures.
finalStatus_warnFirst ==
    IF cancelled THEN "CANCELLED"
    ELSE IF hasWarn THEN "WARNING"
    ELSE IF failed THEN "FAILED"
    ELSE "SUCCESS"

finalStatus ==
    IF cancelled THEN "CANCELLED"
    ELSE IF failed THEN "FAILED"
    ELSE IF hasWarn THEN "WARNING"
    ELSE "SUCCESS"

ShouldRun(s) ==
    \/ s.cond = "ALWAYS"
    \/ s.cond = "ON_FAILURE" /\ failed
    \/ s.cond = "ON_SUCCESS" /\ ~failed

\* A script with a guarantee: run exactly once, by the loops or by the drain.
Guaranteed(s) == s.cond = "ALWAYS" \/ s.critical

Goto(p, s) == pc' = p /\ stage' = s

\* After the health check: remoteCleanup, then retention if it is due.
afterPostBackup ==
    IF archived THEN Goto("start", "REMOTE_CLEANUP") ELSE Goto("close", stage)

\* Mutant: retention does not look at the failures of the run.
afterRemoteCleanup_evenFailed ==
    IF verified THEN Goto("persist", "RETENTION") ELSE Goto("close", stage)

afterRemoteCleanup ==
    IF ~failed /\ verified THEN Goto("persist", "RETENTION") ELSE Goto("close", stage)

-----------------------------------------------------------------------------
Init ==
    /\ job \in Jobs
    /\ pc = "begin" /\ stage = "PREFLIGHT"
    /\ idx = 1 /\ attempt = 1
    /\ ctxDone = FALSE /\ budgetOut = FALSE /\ faults = 0
    /\ failed = FALSE /\ hasWarn = FALSE /\ cancelled = FALSE /\ verified = FALSE
    /\ recovery = "NOT_APPLICABLE" /\ err = "NONE" /\ archived = FALSE
    /\ status = "PENDING" /\ row = "NONE"
    /\ told = "NONE"
    /\ lock \in {"free", "other"}
    /\ steps = <<>>
    /\ verdict = FALSE
    /\ transport = "none"
    /\ registry = [i \in Scripts |-> "none"]
    /\ ran = [i \in Scripts |-> 0]
    /\ good = {} /\ reached = {}
    /\ remote = "absent" /\ part = "absent" /\ final = "absent"

-----------------------------------------------------------------------------
(* beginRun *)

\* Locks.Acquire: the lock, JOB_ALREADY_RUNNING, or another error.
Acquire ==
    /\ pc = "begin"
    /\ \E ok \in BOOLEAN :
          /\ DbWrite(ok)
          /\ IF ~ok THEN pc' = "done" /\ UNCHANGED <<lock, status>>
             ELSE IF lock = "free"
             THEN /\ lock' = "mine" /\ pc' = "create"
                  /\ status' = "RUNNING"
             ELSE /\ pc' = "createSkipped" /\ UNCHANGED lock
                  /\ status' = "SKIPPED"
    /\ UNCHANGED <<jobVars, stage, idx, attempt, ctxVars, rcVars, err, archived, row, told,
                   steps, verdict, transport, scriptVars, fileVars>>

CreateSkipped ==
    /\ pc = "createSkipped"
    /\ \E ok \in BOOLEAN : DbWrite(ok) /\ row' = IF ok THEN status ELSE row
    /\ pc' = "done"
    /\ UNCHANGED <<jobVars, stage, idx, attempt, ctxVars, rcVars, runVars, told, lock, steps,
                   verdict, transport, scriptVars, fileVars>>

\* Runs.Create; a failure gives the lock back.
CreateRun ==
    /\ pc = "create"
    /\ \E ok \in BOOLEAN :
          /\ DbWrite(ok)
          /\ row' = IF ok THEN status ELSE row
          /\ pc' = IF ok THEN "start" ELSE "release"
    /\ UNCHANGED <<jobVars, stage, idx, attempt, ctxVars, rcVars, runVars, told, lock, steps, verdict,
                   transport, scriptVars, fileVars>>

-----------------------------------------------------------------------------
(* stepRecorder, shared by every stage *)

scriptStepType(t) == IF t = "POST_BACKUP" THEN "POST_SCRIPT" ELSE "PRE_SCRIPT"

stepType == IF stage = "DRAIN" THEN scriptStepType(job.scripts[idx].type) ELSE stage

StepStart ==
    /\ pc = "start"
    /\ DbWrite(TRUE)
    /\ steps' = Append(steps, [type |-> stepType, status |-> "RUNNING"])
    /\ ran' = IF stage \in ScriptStage THEN [ran EXCEPT ![idx] = @ + 1] ELSE ran
    /\ attempt' = 1
    /\ pc' = "work"
    /\ UNCHANGED <<jobVars, stage, idx, ctxVars, rcVars, runVars, told, row, lock, verdict,
                   transport, registry, good, reached, fileVars>>

\* What a stage other than a script does when its step row cannot be created.
StepNotStarted ==
    /\ pc = "start"
    /\ DbWrite(FALSE)
    /\ \/ /\ stage = "PREFLIGHT"
          /\ fail("INTERNAL_ERROR")
          /\ Goto("loop", "DRAIN")
       \/ /\ stage \in {"ARCHIVE", "REMOTE_CHECKSUM", "DOWNLOAD", "VERIFY_CHECKSUM"}
          /\ fail("INTERNAL_ERROR")
          /\ Goto("check", stage)
       \/ stage = "LOCAL_CHECKSUM" /\ Goto("start", "VERIFY_CHECKSUM") /\ UNCHANGED <<rcVars, runVars>>
       \/ stage = "HEALTH_CHECK" /\ afterPostBackup /\ UNCHANGED <<rcVars, runVars>>
       \/ stage = "REMOTE_CLEANUP" /\ afterRemoteCleanup /\ UNCHANGED <<rcVars, runVars>>
       \/ stage = "RETENTION" /\ Goto("close", stage) /\ UNCHANGED <<rcVars, runVars>>
    /\ UNCHANGED <<jobVars, idx, attempt, ctxVars, told, dbVars, verdict, transport,
                   scriptVars, fileVars>>

\* Steps.Finish: a failure to persist the step is only logged.
finishStep ==
    \E ok \in BOOLEAN :
        /\ DbWrite(ok)
        /\ steps' = IF ok
                    THEN [steps EXCEPT ![Len(steps)].status =
                              IF verdict THEN "SUCCESS" ELSE "FAILED"]
                    ELSE steps

\* The stage records its step and returns to execute.
StepFinish ==
    /\ pc = "record" /\ stage \notin ScriptStage
    /\ finishStep
    /\ \/ stage = "PREFLIGHT" /\ IF verdict THEN Goto("loop", "PRE_SCRIPT")
                                 ELSE Goto("loop", "DRAIN")
       \/ stage = "ARCHIVE" /\ Goto("check", stage)
       \/ stage = "REMOTE_CHECKSUM" /\ IF verdict THEN Goto("start", "DOWNLOAD")
                                       ELSE Goto("check", stage)
       \/ stage = "DOWNLOAD" /\ IF verdict THEN Goto("start", "LOCAL_CHECKSUM")
                                ELSE Goto("check", stage)
       \/ stage = "LOCAL_CHECKSUM" /\ Goto("start", "VERIFY_CHECKSUM")
       \/ stage = "VERIFY_CHECKSUM" /\ Goto("check", stage)
       \/ stage = "HEALTH_CHECK" /\ afterPostBackup
       \/ stage = "REMOTE_CLEANUP" /\ afterRemoteCleanup
       \/ stage = "RETENTION" /\ Goto("close", stage)
    /\ UNCHANGED <<jobVars, idx, attempt, ctxVars, rcVars, runVars, told, row, lock, verdict,
                   transport, scriptVars, fileVars>>

\* execute's checkCancelled between two stages, and the stage that is next.
CheckCancelled ==
    /\ pc = "check"
    /\ IF ctxDone
       THEN cancelled' = TRUE /\ Goto("close", stage)
       ELSE /\ UNCHANGED cancelled
            /\ \/ stage = "PRE_SCRIPT" /\ Goto(IF failed THEN "check" ELSE "start", "ARCHIVE")
               \/ stage = "ARCHIVE" /\ IF failed THEN Goto("check", "DOWNLOAD")
                                       ELSE Goto("start", "REMOTE_CHECKSUM")
               \/ stage \in DownloadStage /\ Goto("loop", "POST_SCRIPT")
               \/ /\ stage = "POST_SCRIPT"
                  /\ IF ~failed /\ job.attempts > 0 THEN Goto("start", "HEALTH_CHECK")
                     ELSE afterPostBackup
    /\ UNCHANGED <<jobVars, faults, idx, attempt, ctxVars, failed, hasWarn, verified, recovery, runVars, told, dbVars, verdict, transport,
                   scriptVars, fileVars>>

-----------------------------------------------------------------------------
(* preflight *)

\* Job.Validate and Connect; on success the guaranteed scripts are registered.
Connect ==
    /\ pc = "work" /\ stage = "PREFLIGHT"
    /\ \/ /\ fail("PREFLIGHT_FAILED")
          /\ verdict' = FALSE /\ pc' = "record"
          /\ UNCHANGED <<transport, registry>>
       \/ /\ ~ctxDone
          /\ transport' = "open"
          /\ registry' = [i \in Scripts |->
                             IF Guaranteed(job.scripts[i]) THEN "pending" ELSE "none"]
          /\ pc' = "checks"
          /\ UNCHANGED <<rcVars, runVars, verdict>>
    /\ UNCHANGED <<jobVars, faults, stage, idx, attempt, ctxVars, told, dbVars, ran, good, reached,
                   fileVars>>

\* A source is readable, a tool installed or the remote directory writable if
\* the command that tests it runs and exits with 0.
checkPasses(out) == out = "ok"

\* What du and df measure, or fail to.
Measured == {"enough", "short", "unknown"}

\* A volume is too small only if the size of the sources and its free space
\* are both known.
checkRemoteFreeSpace(free, sizeKnown) == ~(sizeKnown /\ free = "short")
checkLocalFreeSpace(free, sizeKnown) == ~(sizeKnown /\ free = "short")

\* The checks in their order, the first that fails being the last (out: its
\* command, if it is a remote one); what could not be measured on the way is
\* a warning.
PreflightChecks ==
    /\ pc = "checks"
    /\ \E out \in {"ok", "exit", "error"}, sent, sizeKnown, writable \in BOOLEAN,
          remoteFree, localFree \in Measured :
          LET remoteFits == checkPasses(out) /\ checkRemoteFreeSpace(remoteFree, sizeKnown)
              ok == remoteFits /\ writable /\ checkLocalFreeSpace(localFree, sizeKnown)
              warned == \/ checkPasses(out) /\ (~sizeKnown \/ remoteFree = "unknown")
                        \/ remoteFits /\ writable /\ localFree = "unknown"
          IN /\ TransportRun(out, sent)
             /\ verdict' = ok
             /\ \/ ok /\ ~warned /\ UNCHANGED <<rcVars, runVars>>
                \/ ok /\ warned /\ warn("INTERNAL_ERROR")
                \/ ~ok /\ ~warned /\ fail("PREFLIGHT_FAILED")
                \/ /\ ~ok /\ warned
                   /\ hasWarn' = TRUE /\ failed' = TRUE /\ err' = "PREFLIGHT_FAILED"
                   /\ UNCHANGED <<cancelled, verified, recovery, status, archived>>
    /\ pc' = "record"
    /\ UNCHANGED <<jobVars, faults, stage, idx, attempt, ctxVars, told, dbVars, transport,
                   scriptVars, fileVars>>

-----------------------------------------------------------------------------
(* runScripts (stages PRE_SCRIPT and POST_SCRIPT) and drainCleanup (DRAIN) *)

\* Mutant: the drain does not look at done.
takesUp_drainAll(i) == IF stage = "DRAIN" THEN registry[i] # "none"
                       ELSE scriptStepType(job.scripts[i].type) = stage

\* The loop at its current position takes up this script.
takesUp(i) == IF stage = "DRAIN" THEN registry[i] = "pending"
              ELSE scriptStepType(job.scripts[i].type) = stage

\* Mutant: positions restart at 0.
LoopEnd_zero ==
    /\ pc = "loop" /\ idx > Len(job.scripts)
    /\ idx' = 0
    /\ IF stage = "DRAIN" THEN Goto("finish", "END") ELSE Goto("check", stage)
    /\ UNCHANGED <<jobVars, faults, attempt, ctxVars, rcVars, runVars, told, dbVars, verdict, transport,
                   scriptVars, fileVars>>

LoopEnd ==
    /\ pc = "loop" /\ idx > Len(job.scripts)
    /\ idx' = 1
    /\ IF stage = "DRAIN" THEN Goto("finish", "END") ELSE Goto("check", stage)
    /\ UNCHANGED <<jobVars, faults, attempt, ctxVars, rcVars, runVars, told, dbVars, verdict, transport,
                   scriptVars, fileVars>>

LoopPass ==
    /\ pc = "loop" /\ idx \in Scripts /\ ~takesUp(idx)
    /\ idx' = idx + 1
    /\ UNCHANGED <<jobVars, faults, pc, stage, attempt, ctxVars, rcVars, runVars, told, dbVars, verdict,
                   transport, scriptVars, fileVars>>

LoopCancelled ==
    /\ pc = "loop" /\ stage # "DRAIN" /\ idx \in Scripts /\ takesUp(idx)
    /\ ctxDone
    /\ cancelled' = TRUE
    /\ idx' = 1 /\ pc' = "check"
    /\ UNCHANGED <<jobVars, faults, stage, attempt, ctxVars, failed, hasWarn, verified, recovery, runVars, told, dbVars, verdict, transport,
                   scriptVars, fileVars>>

LoopPick ==
    /\ pc = "loop" /\ idx \in Scripts /\ takesUp(idx)
    /\ stage # "DRAIN" => ~ctxDone
    /\ pc' = IF stage = "DRAIN" \/ ShouldRun(job.scripts[idx]) THEN "start" ELSE "skip"
    /\ UNCHANGED <<jobVars, faults, stage, idx, attempt, ctxVars, rcVars, runVars, told, dbVars, verdict,
                   transport, scriptVars, fileVars>>

\* A script whose run condition is not met leaves a SKIPPED step.
SkipScript ==
    /\ pc = "skip"
    /\ \E ok \in BOOLEAN :
          /\ DbWrite(ok)
          /\ steps' = IF ok THEN Append(steps, [type |-> stage, status |-> "SKIPPED"])
                      ELSE steps
    /\ idx' = idx + 1 /\ pc' = "loop"
    /\ UNCHANGED <<jobVars, stage, attempt, ctxVars, rcVars, runVars, told, row, lock, verdict,
                   transport, scriptVars, fileVars>>

\* runScriptRecorded has returned: MarkDone, recordRecovery, and in the loops fail.
scriptReturned(error) ==
    /\ registry' = IF registry[idx] = "pending" THEN [registry EXCEPT ![idx] = "done"]
                   ELSE registry
    /\ good' = IF error THEN good \ {idx} ELSE good \cup {idx}
    /\ recovery' = IF registry[idx] = "pending" THEN recordRecovery(error) ELSE recovery
    /\ IF error /\ stage # "DRAIN"
       THEN /\ failed' = TRUE
            /\ err' = errorAfter(IF stage = "PRE_SCRIPT" THEN "PRE_SCRIPT_FAILED"
                                 ELSE "POST_SCRIPT_FAILED")
       ELSE UNCHANGED <<failed, err>>
    /\ UNCHANGED <<hasWarn, cancelled, verified, status, archived>>
    /\ idx' = idx + 1
    /\ pc' = "loop"

\* The step row could not be created: the script is not run, but counts as run.
ScriptNotStarted ==
    /\ pc = "start" /\ stage \in ScriptStage
    /\ DbWrite(FALSE)
    /\ ran' = [ran EXCEPT ![idx] = @ + 1]
    /\ scriptReturned(TRUE)
    /\ UNCHANGED <<jobVars, stage, attempt, ctxVars, told, dbVars, verdict, transport,
                   reached, fileVars>>

\* One attempt of executeScript: one attempt, or two if retry_on_failure.
ScriptAttempt ==
    /\ pc = "work" /\ stage \in ScriptStage
    /\ \E out \in {"ok", "exit", "error"}, sent \in BOOLEAN :
          /\ TransportRun(out, sent)
          /\ reached' = IF sent THEN reached \cup {idx} ELSE reached
          /\ IF out # "ok" /\ job.scripts[idx].retry /\ attempt = 1
             THEN attempt' = 2 /\ UNCHANGED <<pc, verdict>>
             ELSE verdict' = (out = "ok") /\ pc' = "record" /\ UNCHANGED attempt
    /\ UNCHANGED <<jobVars, faults, stage, idx, ctxVars, rcVars, runVars, told, dbVars, transport, registry,
                   ran, good, fileVars>>

ScriptFinish ==
    /\ pc = "record" /\ stage \in ScriptStage
    /\ finishStep
    /\ scriptReturned(~verdict)
    /\ UNCHANGED <<jobVars, stage, attempt, ctxVars, told, row, lock, verdict, transport,
                   ran, reached, fileVars>>

-----------------------------------------------------------------------------
(* archive, downloadAndVerify *)

\* tar on the server.  A failure is followed by removePartialRemoteArchive,
\* which is best effort.
RunArchive ==
    /\ pc = "work" /\ stage = "ARCHIVE"
    /\ \E out, rm \in {"ok", "exit", "error"}, sent, rmSent \in BOOLEAN :
          /\ TransportRun(out, sent)
          /\ IF out = "ok"
             THEN /\ remote' = "complete" /\ verdict' = TRUE
                  /\ UNCHANGED <<failed, err>>
             ELSE /\ TransportRun(rm, rmSent)
                  /\ remote' \in IF sent /\ rm # "ok" THEN {"absent", "partial"} ELSE {"absent"}
                  /\ verdict' = FALSE /\ failed' = TRUE
                  /\ err' \in IF out = "error" THEN {"ARCHIVE_FAILED", "ARCHIVE_TIMEOUT"}
                              ELSE {"ARCHIVE_FAILED"}
    /\ archived' = TRUE
    /\ pc' = "record"
    /\ UNCHANGED <<jobVars, faults, stage, idx, attempt, ctxVars, hasWarn, cancelled, verified,
                   recovery, status, told, dbVars, transport, scriptVars, part, final>>

\* sha256sum on the server; an empty sum is a failure too.
RemoteChecksum ==
    /\ pc = "work" /\ stage = "REMOTE_CHECKSUM"
    /\ \/ /\ TransportRun("ok", TRUE) /\ remote = "complete"
          /\ verdict' = TRUE /\ UNCHANGED <<rcVars, runVars>>
       \/ verdict' = FALSE /\ fail("ARCHIVE_FAILED")
    /\ pc' = "record"
    /\ UNCHANGED <<jobVars, faults, stage, idx, attempt, ctxVars, told, dbVars, transport,
                   scriptVars, fileVars>>

\* The archive is streamed into the .part file.  A failed transfer deletes
\* the file, which may fail and then is only logged.
DownloadArchive ==
    /\ pc = "work" /\ stage = "DOWNLOAD"
    /\ \/ /\ transport = "open" /\ ~ctxDone
          /\ part' \in {"good", "bad"}
          /\ verdict' = TRUE /\ UNCHANGED <<rcVars, runVars>>
       \/ /\ fail("DOWNLOAD_FAILED")
          /\ part' \in {"absent", "partial"}
          /\ verdict' = FALSE
    /\ pc' = "record"
    /\ UNCHANGED <<jobVars, faults, stage, idx, attempt, ctxVars, told, dbVars, transport,
                   scriptVars, remote, final>>

LocalChecksum ==
    /\ pc = "work" /\ stage = "LOCAL_CHECKSUM"
    /\ verdict' = TRUE /\ pc' = "record"
    /\ UNCHANGED <<jobVars, faults, stage, idx, attempt, ctxVars, rcVars, runVars, told, dbVars, transport,
                   scriptVars, fileVars>>

\* Compare, then rename .part to the final name.
VerifyChecksums ==
    /\ pc = "work" /\ stage = "VERIFY_CHECKSUM"
    /\ \/ /\ part # "good"
          /\ fail("CHECKSUM_MISMATCH")
          /\ part' \in {"absent", part}
          /\ verdict' = FALSE /\ UNCHANGED final
       \/ /\ part = "good"
          /\ part' = "absent" /\ final' = part
          /\ verified' = TRUE /\ verdict' = TRUE
          /\ UNCHANGED <<failed, hasWarn, cancelled, recovery, runVars>>
       \/ /\ part = "good"
          /\ fail("DOWNLOAD_FAILED")
          /\ verdict' = FALSE /\ UNCHANGED <<part, final>>
    /\ pc' = "record"
    /\ UNCHANGED <<jobVars, faults, stage, idx, attempt, ctxVars, told, dbVars, transport,
                   scriptVars, remote>>

-----------------------------------------------------------------------------
(* healthCheck, remoteCleanup, applyRetention *)

\* One attempt; the pause before a later one ends the loop if the context is done.
HealthAttempt ==
    /\ pc = "work" /\ stage = "HEALTH_CHECK"
    /\ LET interrupted == attempt > 1 /\ ctxDone IN
       \/ /\ TransportRun("ok", TRUE) /\ ~interrupted
          /\ verdict' = TRUE /\ pc' = "record" /\ UNCHANGED <<attempt, rcVars, runVars>>
       \/ /\ ~interrupted /\ attempt < job.attempts
          /\ attempt' = attempt + 1 /\ UNCHANGED <<pc, verdict, rcVars, runVars>>
       \/ /\ interrupted \/ attempt >= job.attempts
          /\ warn("HEALTH_CHECK_FAILED")
          /\ verdict' = FALSE /\ pc' = "record" /\ UNCHANGED attempt
    /\ UNCHANGED <<jobVars, faults, stage, idx, ctxVars, told, dbVars, transport, scriptVars, fileVars>>

RemoteCleanup ==
    /\ pc = "work" /\ stage = "REMOTE_CLEANUP"
    /\ \E out \in {"ok", "exit", "error"}, sent \in BOOLEAN :
          /\ TransportRun(out, sent)
          /\ remote' \in IF out = "ok" THEN {"absent"}
                         ELSE IF sent THEN {"absent", remote} ELSE {remote}
          /\ verdict' = (out = "ok")
          /\ IF out = "ok" THEN UNCHANGED <<rcVars, runVars>> ELSE warn("INTERNAL_ERROR")
    /\ pc' = "record"
    /\ UNCHANGED <<jobVars, faults, stage, idx, attempt, ctxVars, told, dbVars, transport,
                   scriptVars, part, final>>

\* applyRetention first persists the run, so that its own archive is counted.
PersistArchiveInfo ==
    /\ pc = "persist"
    /\ \E ok \in BOOLEAN : DbWrite(ok) /\ row' = IF ok THEN status ELSE row
    /\ pc' = "start"
    /\ UNCHANGED <<jobVars, stage, idx, attempt, ctxVars, rcVars, runVars, told, lock, steps, verdict,
                   transport, scriptVars, fileVars>>

\* Retention.Apply (module Retention): its errors and warnings are warnings.
ApplyRetention ==
    /\ pc = "work" /\ stage = "RETENTION"
    /\ \/ verdict' = TRUE /\ UNCHANGED <<rcVars, runVars>>
       \/ verdict' = FALSE /\ warn("INTERNAL_ERROR")
    /\ pc' = "record"
    /\ UNCHANGED <<jobVars, faults, stage, idx, attempt, ctxVars, told, dbVars, transport,
                   scriptVars, fileVars>>

-----------------------------------------------------------------------------
(* The deferred calls of execute, and finishRun *)

\* Deferred calls run last in, first out: the transport is closed, then the
\* registry is drained.
CloseTransport ==
    /\ pc = "close"
    /\ transport' = IF transport = "open" THEN "closed" ELSE transport
    /\ Goto("loop", "DRAIN")
    /\ UNCHANGED <<jobVars, faults, idx, attempt, ctxVars, rcVars, runVars, told, dbVars, verdict,
                   scriptVars, fileVars>>

Finish ==
    /\ pc = "finish"
    /\ status' = finalStatus
    /\ pc' = "update"
    /\ UNCHANGED <<jobVars, faults, stage, idx, attempt, ctxVars, rcVars, err, archived, told, dbVars, verdict,
                   transport, scriptVars, fileVars>>

\* Runs.Update under the run's own context, then the RunFinished event.
UpdateRow ==
    /\ pc = "update"
    /\ \E ok \in BOOLEAN : DbWrite(ok) /\ row' = IF ok THEN status ELSE row
    /\ told' = status
    /\ pc' = "release"
    /\ UNCHANGED <<jobVars, stage, idx, attempt, ctxVars, rcVars, runVars, lock, steps, verdict,
                   transport, scriptVars, fileVars>>

\* Mutant: the lock is only given back by a run that did not fail.
Release_unlessFailed ==
    /\ pc = "release"
    /\ \E ok \in BOOLEAN :
          DbWriteDetached(ok) /\ lock' = IF ok /\ ~failed THEN "free" ELSE lock
    /\ pc' = "done"
    /\ UNCHANGED <<jobVars, stage, idx, attempt, ctxVars, rcVars, runVars, told, row, steps, verdict,
                   transport, scriptVars, fileVars>>

Release ==
    /\ pc = "release"
    /\ \E ok \in BOOLEAN : DbWriteDetached(ok) /\ lock' = IF ok THEN "free" ELSE lock
    /\ pc' = "done"
    /\ UNCHANGED <<jobVars, stage, idx, attempt, ctxVars, rcVars, runVars, told, row, steps, verdict,
                   transport, scriptVars, fileVars>>

-----------------------------------------------------------------------------
(* Environment *)

Cancel ==
    /\ ~ctxDone /\ pc # "done"
    /\ ctxDone' = TRUE
    /\ UNCHANGED <<jobVars, faults, ctlVars, budgetOut, rcVars, runVars, told, dbVars, verdict, transport,
                   scriptVars, fileVars>>

\* The deadline of the drain's context passes (cleanupBudget).
BudgetExpires ==
    /\ stage = "DRAIN" /\ ~budgetOut
    /\ budgetOut' = TRUE
    /\ UNCHANGED <<jobVars, faults, ctlVars, ctxDone, rcVars, runVars, told, dbVars, verdict, transport,
                   scriptVars, fileVars>>

Stages ==
    \/ Connect \/ PreflightChecks \/ RunArchive \/ RemoteChecksum
    \/ LocalChecksum \/ VerifyChecksums \/ HealthAttempt \/ RemoteCleanup
    \/ PersistArchiveInfo \/ ApplyRetention

Loops ==
    \/ LoopEnd \/ LoopPass \/ LoopCancelled \/ LoopPick \/ SkipScript
    \/ ScriptNotStarted \/ ScriptAttempt \/ ScriptFinish

Frame ==
    \/ Acquire \/ CreateSkipped \/ CreateRun \/ StepStart \/ StepNotStarted \/ StepFinish
    \/ CheckCancelled \/ CloseTransport \/ Finish \/ UpdateRow \/ Release

Terminated == pc = "done" /\ UNCHANGED vars

Next ==
    \/ Frame \/ Stages \/ Loops \/ DownloadArchive
    \/ Cancel \/ BudgetExpires \/ Terminated

Spec == Init /\ [][Next]_vars

\* The goroutine waits for the server: it dials and shakes hands, runs a command,
\* reads the archive or closes the connection.  None of these calls has a bound
\* of its own: the command timeout covers neither the opening of the session and
\* the start of the command before it nor the wait for the session after it, and
\* there is no deadline on the handshakes, the transfer and the close.
AwaitsPeer ==
    \/ pc = "work" /\ stage = "PREFLIGHT"
    \/ /\ transport = "open"
       /\ \/ pc \in {"checks", "close"}
          \/ pc = "work" /\ stage \in ScriptStage \cup {"ARCHIVE", "REMOTE_CHECKSUM", "DOWNLOAD",
                                                       "HEALTH_CHECK", "REMOTE_CLEANUP"}

\* The goroutine keeps running where it does not wait for the server; nothing is
\* assumed of the server, of cancellation and of the drain's deadline.
FairSpec == Spec /\ WF_vars(~AwaitsPeer /\ (Frame \/ Stages \/ Loops \/ DownloadArchive))

-----------------------------------------------------------------------------
(* Properties *)

\* The run has left execute: its drain is over.
Drained == pc \in {"finish", "update", "release"} \/ told # "NONE"

Registered == {i \in Scripts : registry[i] # "none"}

StepTypes == {steps[i].type : i \in 1..Len(steps)}

\* No run ends as a success, with or without warnings, unless the archive whose
\* local checksum is the remote one is in place under its final name and the
\* checksum is recorded; and a file that does not match never gets that name
\* (verifyChecksums, finalStatus), whichever stage was cancelled or failed.
NoFalseSuccess ==
    /\ final # "bad"
    /\ status \in {"SUCCESS", "WARNING"} => final = "good" /\ archived /\ verified

\* Old archives are only considered for deletion by a run that has a verified
\* archive of its own and ends neither failed nor cancelled (execute's guard on
\* applyRetention).
RetentionOnlyAfterSuccess ==
    "RETENTION" \in StepTypes =>
        /\ final = "good"
        /\ status \notin {"FAILED", "CANCELLED"}

\* Each script with a guarantee goes through runScriptRecorded exactly once if
\* the run ever connected, whether the loops or the drain took it up, and no
\* script ever does twice (cleanupRegistry).
CleanupExactlyOnce ==
    /\ \A i \in Scripts : ran[i] <= 1
    /\ Drained /\ transport # "none" =>
         \A i \in Scripts : Guaranteed(job.scripts[i]) => ran[i] = 1

\* The recovery outcome shown to the user is SUCCESS only if every registered
\* action ran without error, FAILED only if one did not, and NOT_APPLICABLE
\* only if there was none (recordRecovery over loops and drain together).
RecoveryTruthful ==
    Drained =>
        recovery = IF Registered = {} THEN "NOT_APPLICABLE"
                      ELSE IF Registered \subseteq good THEN "SUCCESS" ELSE "FAILED"

\* A run whose archive is verified can only be FAILED because one of its
\* scripts failed: health check, remote cleanup and retention never do that.
VerifiedFailsOnlyByScript ==
    told = "FAILED" /\ verified => \E i \in Scripts : ran[i] > 0 /\ i \notin good

\* A remote archive that is left behind is never hidden by a SUCCESS, unless the
\* run was cancelled or the database failed (remoteCleanup).
LeftoverReported ==
    told = "SUCCESS" /\ ~ctxDone /\ faults = 0 => remote = "absent"

\* Every step of a run that was not cancelled has its final state in the
\* history when the run is over, unless a write failed; a drain out of budget
\* may stop (StepRecorder.Finish).
StepsClosed ==
    pc = "done" /\ ~ctxDone /\ ~budgetOut /\ faults = 0 =>
        \A i \in 1..Len(steps) : steps[i].status # "RUNNING"

\* What the history and the status of a finished run say is true: a failure has a
\* script behind it once the archive is verified, a success hides no archive on
\* the server, and no step is left open (fail, warn, StepRecorder.Finish).
HistoryTruthful == VerifiedFailsOnlyByScript /\ LeftoverReported /\ StepsClosed

\* If no wait for the server lasts for ever (AwaitsPeer), the run ends, whatever
\* writes fail and whenever it is cancelled; it is announced if it was begun, and
\* the job lock is free again if the database works.
RunEnds ==
    []<>~AwaitsPeer =>
        <>[](pc = "done" /\ (row = "RUNNING" => told \in Ended) /\ (lock = "mine" => faults > 0))

-----------------------------------------------------------------------------
(* The run as the rest of the service sees it *)

Contract == INSTANCE RunContract WITH
    state <- IF pc \in {"begin", "createSkipped"} THEN "new"
             ELSE IF pc = "done" THEN "over" ELSE "active",
    history <- row,
    archive <- (final = "good"),
    pruned <- ("RETENTION" \in StepTypes),
    announced <- told

\* The engine implements RunContract: in particular retention and a success need
\* a verified archive, a run that pruned does not end failed or cancelled, and
\* the end is announced before the lock is released.
ImplementsContract == Contract!Spec

-----------------------------------------------------------------------------
(* The inductive invariant behind the safety properties (RunEngineProofs) *)

\* Which places belong to which stages, and where idx points into the scripts.
Control ==
    /\ pc \in {"begin", "create", "createSkipped", "checks"} => stage = "PREFLIGHT"
    /\ pc = "loop" => stage \in ScriptStage
    /\ pc = "skip" => stage \in {"PRE_SCRIPT", "POST_SCRIPT"}
    /\ pc = "check" => stage \in {"PRE_SCRIPT", "ARCHIVE", "POST_SCRIPT"} \cup DownloadStage
    /\ pc = "persist" => stage = "RETENTION"
    /\ pc \in {"finish", "update"} => stage = "END"
    /\ pc \in {"release", "done"} => stage \in {"PREFLIGHT", "END"}
    /\ stage = "RETENTION" => pc \in {"persist", "start", "work", "record", "close"}
    /\ stage = "DRAIN" => pc \in {"loop", "start", "work", "record"}
    /\ stage = "END" => pc \in {"finish", "update", "release", "done"}
    /\ pc \in {"start", "work", "record", "skip"} /\ stage \in ScriptStage => idx \in Scripts

\* The stages up to the verification are over.
PastDownload ==
    \/ stage \in {"POST_SCRIPT", "HEALTH_CHECK", "REMOTE_CLEANUP", "RETENTION", "DRAIN", "END"}
    \/ pc = "close"
    \/ pc = "check" /\ stage \in DownloadStage

\* What a stage leaves behind for the next one to rely on.
Evidence ==
    /\ final = IF verified THEN "good" ELSE "absent"
    /\ verified => archived
    /\ pc = "record" /\ stage \in {"PREFLIGHT", "ARCHIVE", "REMOTE_CHECKSUM", "DOWNLOAD"} =>
         verdict \/ failed
    /\ pc = "record" /\ stage = "VERIFY_CHECKSUM" => failed \/ verified
    /\ pc \in {"start", "work", "record"} /\ stage \in DownloadStage => archived
    /\ pc = "record" /\ stage = "ARCHIVE" => archived
    /\ pc = "check" /\ stage = "ARCHIVE" => failed \/ archived
    /\ PastDownload /\ pc # "done" => failed \/ cancelled \/ verified
    /\ cancelled => ctxDone /\ (pc \in {"check", "close"} \/ stage \in {"DRAIN", "END"})
    /\ stage = "RETENTION" => verified /\ ~failed /\ ~cancelled
    /\ "RETENTION" \in StepTypes => /\ verified /\ ~failed /\ ~cancelled
                                    /\ stage \in {"RETENTION", "DRAIN", "END"}

\* How the in-memory status, the row, the event and the lock go together.
Bookkeeping ==
    /\ pc = "begin" => status = "PENDING" /\ lock \in {"free", "other"}
    /\ pc = "createSkipped" => status = "SKIPPED" /\ lock = "other"
    /\ pc \notin {"begin", "createSkipped", "update", "release", "done"} => status = "RUNNING"
    /\ status \in {"SUCCESS", "WARNING"} => verified
    /\ status = "FAILED" => failed
    /\ status = "CANCELLED" => cancelled
    /\ pc = "update" => status \in Ended
    /\ pc \in {"begin", "createSkipped", "create"} => row = "NONE"
    /\ pc \notin {"begin", "createSkipped", "create", "release", "done"} => row = "RUNNING"
    /\ pc \notin {"release", "done"} => told = "NONE"
    /\ pc = "release" => told \in Ended \/ row = "NONE"

IInv == TypeOK /\ Control /\ Evidence /\ Bookkeeping

-----------------------------------------------------------------------------
(* The inductive invariant behind the properties of scripts and history     *)
(* (RunEngineProofs)                                                         *)

LoopStage == {"PRE_SCRIPT", "POST_SCRIPT"}

ownStage(i) == scriptStepType(job.scripts[i].type)

\* The goroutine is inside runScriptRecorded for script i.
AtWork(i) == stage \in ScriptStage /\ pc \in {"work", "record"} /\ idx = i

\* The loop that takes up script i has not come to it yet.
Ahead(i) ==
    \/ stage = "PREFLIGHT"
    \/ ownStage(i) = "POST_SCRIPT" /\ stage \in {"PRE_SCRIPT", "ARCHIVE"} \cup DownloadStage
    \/ ownStage(i) = stage /\ pc \in {"loop", "start", "skip"} /\ idx <= i
    \/ ownStage(i) = stage /\ pc \in {"work", "record"} /\ idx < i

DoneScripts == {i \in Scripts : registry[i] = "done"}

\* Each loop starts at the first script, takes up scripts of its own stage, and
\* the drain those that are pending.
Position ==
    /\ stage \notin ScriptStage \/ pc \in {"check", "close"} => idx = 1
    /\ pc \in {"start", "skip", "work", "record"} /\ stage \in LoopStage => ownStage(idx) = stage
    /\ pc \in {"start", "work", "record"} /\ stage = "DRAIN" => registry[idx] = "pending"

\* How often a script has been run, from where the goroutine is.
RunCounts ==
    \A i \in Scripts :
        /\ ran[i] \in {0, 1}
        /\ Ahead(i) => ran[i] = 0
        /\ registry[i] = "done" => ran[i] = 1
        /\ registry[i] = "pending" /\ ran[i] = 1 => AtWork(i)
        /\ AtWork(i) => ran[i] = 1 /\ registry[i] # "done"

\* What is registered, and how far the drain has come.
Registration ==
    /\ stage = "PREFLIGHT" /\ pc \notin {"checks", "record"} => transport = "none"
    /\ \A i \in Scripts :
         /\ transport = "none" => registry[i] = "none"
         /\ transport # "none" => (registry[i] # "none" <=> Guaranteed(job.scripts[i]))
         /\ stage = "DRAIN" /\ i < idx => registry[i] # "pending"
         /\ stage = "END" => registry[i] # "pending"

\* The recovery outcome of the actions that are done so far.
RecoverySoFar ==
    recovery = IF DoneScripts = {} THEN "NOT_APPLICABLE"
               ELSE IF DoneScripts \subseteq good THEN "SUCCESS" ELSE "FAILED"

ScriptInv == Position /\ RunCounts /\ Registration /\ RecoverySoFar

\* The checksums are compared by a run that has not failed, and from then on only
\* a script makes it fail.
Blame ==
    /\ verified => PastDownload \/ (stage = "VERIFY_CHECKSUM" /\ pc = "record")
    /\ stage \in DownloadStage /\ pc \in {"start", "work"} => ~failed
    /\ stage \in DownloadStage /\ pc = "record" /\ (verdict \/ stage = "LOCAL_CHECKSUM") => ~failed
    /\ failed /\ verified => \E i \in Scripts : ran[i] = 1 /\ i \notin good /\ ~AtWork(i)

\* remoteCleanup is behind the run.
CleanupOver ==
    \/ stage = "REMOTE_CLEANUP" /\ pc = "record"
    \/ stage \in {"RETENTION", "DRAIN", "END"}
    \/ pc = "close"

\* An archive that is still on the server shows in the outcome.
Tidiness ==
    /\ CleanupOver => \/ failed \/ cancelled \/ hasWarn \/ ctxDone \/ faults > 0
                      \/ remote = "absent"
    /\ status = "SUCCESS" => ~failed /\ ~cancelled /\ ~hasWarn
    /\ told \in {"NONE", status}
    /\ told # "NONE" => stage = "END"

\* As long as every write succeeds, only the current step is open.
OneOpenStep ==
    ~ctxDone /\ ~budgetOut /\ faults = 0 =>
        \A i \in 1..Len(steps) :
            steps[i].status = "RUNNING" => i = Len(steps) /\ pc \in {"work", "checks", "record"}

HistoryInv == Blame /\ Tidiness /\ OneOpenStep

-----------------------------------------------------------------------------
(* What comments and the specification say, and the code does not do *)

\* runcontext.go:101-103: the deferred drain "guarantees ALWAYS/critical_cleanup
\* actions still run" when a run is cancelled, so an action that is drained must
\* find a connection to run on.
DrainHasConnection == stage = "DRAIN" /\ pc = "work" => transport = "open"

=============================================================================
