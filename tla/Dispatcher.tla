----------------------------- MODULE Dispatcher -----------------------------
(***************************************************************************)
(* When the scheduler starts jobs: internal/scheduler (Dispatcher and      *)
(* DetectMissedRuns) with the settings and the run history it reads.       *)
(*                                                                         *)
(* Three kinds of goroutine share the dispatcher's map of baselines: the   *)
(* poll loop (tick...), the missed-run detection that a start of the       *)
(* service runs beside it (det...), and one worker per dispatched run      *)
(* (w...).  A run itself is one step here (modules RunEngine, Service).    *)
(* Times are minutes of the schedules' resolution, on a clock that only    *)
(* goes forward; the calendar is the set of occurrences of each schedule.  *)
(***************************************************************************)
EXTENDS Integers, FiniteSets

CONSTANTS
    Jobs, Servers,
    Workers,     \* goroutines of runAndRelease, idle ones included
    ServerOf,    \* server of a job
    Sched,       \* occurrences of the job's schedule; {} is a valid cron
                 \* expression that never comes due, such as 30 February
    Policy,      \* missed-run policy of a job
    Limits,      \* values of global_concurrency_limit
    MaxTime,     \* bound on the clock
    MaxRestarts, \* bound on stops of the service
    MaxRequests, \* bound on requests of users
    MaxFaults    \* bound on runs that fail before their row is written

Time == 0..MaxTime

\* Go's zero time, which cron returns when there is no next occurrence.
ZeroTime == -1

\* No baseline, no run in the history, no live start.
Never == -1

ASSUME DispatcherAssumption ==
    /\ Jobs # {} /\ IsFiniteSet(Workers)
    /\ ServerOf \in [Jobs -> Servers]
    /\ Policy \in [Jobs -> {"RUN_AS_SOON_AS_POSSIBLE", "SKIP"}]
    /\ MaxTime \in Nat /\ MaxRestarts \in Nat /\ MaxRequests \in Nat /\ MaxFaults \in Nat
    /\ Sched \in [Jobs -> SUBSET Time]
    /\ Limits \subseteq Nat \ {0} /\ Limits # {}

VARIABLES
    now, up, restarts, requests, faults,
    paused, limit,      \* settings
    enabled,            \* jobs whose enabled flag is set
    lastRun,            \* started_at of the newest run of a job in the history
    holder,             \* who holds the lock of a job
    baseline,           \* scheduledUpTo
    runningCount, runningServers,
    wpc, wjob,          \* runAndRelease
    tickPc, tickNow, tickTodo, tickJob, tickLimit,
    detPc, detNow, detTodo, detJob, detMissed,
    firedAt,            \* history: tick of the last live start in this process
    blind,              \* history: jobs the detection judged without seeing
                        \* the row of their last live start
    quiet               \* history: times the clock reached while paused

envVars == <<now, up, restarts, requests, faults, quiet>>
setVars == <<paused, limit, enabled>>
tickVars == <<tickPc, tickNow, tickTodo, tickJob, tickLimit>>
detVars == <<detPc, detNow, detTodo, detJob, detMissed>>
workVars == <<wpc, wjob, runningCount, runningServers>>
histVars == <<firedAt, blind>>
vars == <<envVars, setVars, lastRun, holder, baseline, workVars, tickVars, detVars, histVars>>

-----------------------------------------------------------------------------
(* Types *)

\* What the goroutines of the runs and the loop share; DispatcherProofs has it as
\* a part of the inductive invariant.
WorkTypeOK ==
    /\ runningCount \in Nat /\ runningServers \in [Servers -> Nat]
    /\ wpc \in [Workers -> {"idle", "begin", "run", "leave"}]
    /\ wjob \in [Workers -> Jobs]

-----------------------------------------------------------------------------
(* Helpers *)

MaxOf(a, b) == IF a < b THEN b ELSE a

\* Value of a local variable that is not in scope.
NoJob == CHOOSE j \in Jobs : TRUE

\* NextRun: the first occurrence after a time, ZeroTime if the schedule has
\* none at all, and a time beyond the bound if the next one lies there.
NextRun(j, after) ==
    LET later == {o \in Sched[j] : o > after}
    IN  IF Sched[j] = {} THEN ZeroTime
        ELSE IF later = {} THEN MaxTime + 1
        ELSE CHOOSE o \in later : \A p \in later : o <= p

\* A new row; LastRun looks at the greatest started_at only.
Record(j, startedAt) == lastRun' = [lastRun EXCEPT ![j] = MaxOf(@, startedAt)]

Fault == faults < MaxFaults /\ faults' = faults + 1

Init ==
    /\ now = 0 /\ up = FALSE /\ restarts = 0 /\ requests = 0 /\ faults = 0
    /\ paused \in BOOLEAN /\ limit \in Limits /\ enabled = Jobs
    /\ lastRun \in [Jobs -> {Never, 0}]
    /\ holder = [j \in Jobs |-> "none"]
    /\ baseline = [j \in Jobs |-> Never]
    /\ runningCount = 0 /\ runningServers = [s \in Servers |-> 0]
    /\ wpc = [w \in Workers |-> "idle"] /\ wjob = [w \in Workers |-> NoJob]
    /\ tickPc = "idle" /\ tickNow = 0 /\ tickTodo = {} /\ tickJob = NoJob
    /\ tickLimit = limit
    /\ detPc = "off" /\ detNow = 0 /\ detTodo = {} /\ detJob = NoJob /\ detMissed = 0
    /\ firedAt = [j \in Jobs |-> Never] /\ blind = {} /\ quiet = {}

-----------------------------------------------------------------------------
(* Runner.Run: credentials, lock and first row of a run (Engine.beginRun) *)

\* The lock of the job is free: the run is recorded and goes on.
Begun(j, who) ==
    /\ holder[j] = "none"
    /\ holder' = [holder EXCEPT ![j] = who]
    /\ Record(j, now)
    /\ UNCHANGED faults

\* The job is locked: the run is recorded as SKIPPED and is over.
BegunSkipped(j) ==
    /\ holder[j] # "none"
    /\ Record(j, now)
    /\ UNCHANGED <<holder, faults>>

\* Credentials, lock or row cannot be had: an error and no row.
NotBegun == Fault /\ UNCHANGED <<holder, lastRun>>

-----------------------------------------------------------------------------
(* The poll loop *)

\* tick: the settings and the enabled automatic jobs are read.
Tick ==
    /\ up /\ tickPc = "idle" /\ ~paused
    /\ tickNow' = now /\ tickLimit' = limit
    /\ tickTodo' = enabled
    /\ tickPc' = "consider"
    /\ UNCHANGED <<envVars, setVars, lastRun, holder, baseline, workVars, tickJob, detVars, histVars>>

TickEnds ==
    /\ tickPc = "consider" /\ tickTodo = {}
    /\ tickPc' = "idle" /\ tickNow' = 0
    /\ UNCHANGED <<envVars, setVars, lastRun, holder, baseline, workVars, tickTodo, tickJob,
                   tickLimit, detVars, histVars>>

\* considerJob up to tryStart: the first tick that sees a job only notes the
\* time; later ones go on if an occurrence lies between baseline and tick.
Consider(j) ==
    /\ tickPc = "consider" /\ j \in tickTodo
    /\ tickTodo' = tickTodo \ {j}
    /\ \/ /\ baseline[j] = Never
          /\ baseline' = [baseline EXCEPT ![j] = tickNow]
          /\ UNCHANGED <<tickPc, tickJob>>
       \/ /\ baseline[j] # Never /\ NextRun(j, baseline[j]) > tickNow
          /\ UNCHANGED <<baseline, tickPc, tickJob>>
       \/ /\ baseline[j] # Never /\ NextRun(j, baseline[j]) <= tickNow
          /\ tickJob' = j /\ tickPc' = "start"
          /\ UNCHANGED baseline
    /\ UNCHANGED <<envVars, setVars, lastRun, holder, workVars, tickNow, tickLimit, detVars, histVars>>

\* Mutant: the limit per server is not looked at.
HasRoom_globalOnly(j) == runningCount < tickLimit

\* Mutant: one run too many.
HasRoom_offByOne(j) == runningCount <= tickLimit /\ runningServers[ServerOf[j]] = 0

\* tryStart's conditions.
HasRoom(j) == runningCount < tickLimit /\ runningServers[ServerOf[j]] = 0

\* tryStart under the mutex, and the start of the worker.
Dispatch(w) ==
    /\ tickPc = "start" /\ HasRoom(tickJob)
    /\ wpc[w] = "idle"
    /\ runningCount' = runningCount + 1
    /\ runningServers' = [runningServers EXCEPT ![ServerOf[tickJob]] = @ + 1]
    /\ wpc' = [wpc EXCEPT ![w] = "begin"] /\ wjob' = [wjob EXCEPT ![w] = tickJob]
    /\ tickPc' = "advance"
    /\ firedAt' = [firedAt EXCEPT ![tickJob] = tickNow]
    /\ blind' = IF detPc = "mark" /\ detJob = tickJob THEN blind \cup {tickJob} ELSE blind \ {tickJob}
    /\ UNCHANGED <<envVars, setVars, lastRun, holder, baseline, tickNow, tickTodo, tickJob,
                   tickLimit, detVars>>

\* tryStart reports FALSE: a limit is reached or the server cannot be loaded.
\* The baseline stays, so the next tick tries again.
Blocked ==
    /\ tickPc = "start"
    /\ \/ ~HasRoom(tickJob) /\ UNCHANGED faults
       \/ Fault
    /\ tickPc' = "consider" /\ tickJob' = NoJob
    /\ UNCHANGED <<now, up, restarts, requests, quiet, setVars, lastRun, holder, baseline, workVars,
                   tickNow, tickTodo, tickLimit, detVars, histVars>>

\* Mutant: the baseline moves to the occurrence that fired.
Advance_toOccurrence ==
    /\ tickPc = "advance"
    /\ baseline' = [baseline EXCEPT ![tickJob] = IF NextRun(tickJob, @) <= tickNow
                                                THEN NextRun(tickJob, @) ELSE tickNow]
    /\ tickPc' = "consider" /\ tickJob' = NoJob
    /\ UNCHANGED <<envVars, setVars, lastRun, holder, workVars, tickNow, tickTodo, tickLimit,
                   detVars, histVars>>

\* After a start the baseline moves to the time of the tick.
Advance ==
    /\ tickPc = "advance"
    /\ baseline' = [baseline EXCEPT ![tickJob] = tickNow]
    /\ tickPc' = "consider" /\ tickJob' = NoJob
    /\ UNCHANGED <<envVars, setVars, lastRun, holder, workVars, tickNow, tickTodo,
                   tickLimit, detVars, histVars>>

-----------------------------------------------------------------------------
(* runAndRelease *)

WorkerBegin(w) ==
    /\ wpc[w] = "begin"
    /\ \/ Begun(wjob[w], "dispatch") /\ wpc' = [wpc EXCEPT ![w] = "run"]
       \/ (BegunSkipped(wjob[w]) \/ NotBegun) /\ wpc' = [wpc EXCEPT ![w] = "leave"]
    /\ UNCHANGED <<now, up, restarts, requests, quiet, setVars, baseline, wjob, runningCount,
                   runningServers, tickVars, detVars, histVars>>

\* The run is over and its lock released.
WorkerRunEnds(w) ==
    /\ wpc[w] = "run"
    /\ holder' = [holder EXCEPT ![wjob[w]] = "none"]
    /\ wpc' = [wpc EXCEPT ![w] = "leave"]
    /\ UNCHANGED <<envVars, setVars, lastRun, baseline, wjob, runningCount, runningServers,
                   tickVars, detVars, histVars>>

\* Mutant: the server is not given free.
WorkerLeaves_onlyCount(w) ==
    /\ wpc[w] = "leave"
    /\ runningCount' = runningCount - 1
    /\ wpc' = [wpc EXCEPT ![w] = "idle"] /\ wjob' = [wjob EXCEPT ![w] = NoJob]
    /\ UNCHANGED <<envVars, setVars, lastRun, holder, baseline, runningServers, tickVars, detVars,
                   histVars>>

\* The deferred function of runAndRelease.
WorkerLeaves(w) ==
    /\ wpc[w] = "leave"
    /\ runningCount' = runningCount - 1
    /\ runningServers' = [runningServers EXCEPT ![ServerOf[wjob[w]]] = @ - 1]
    /\ wpc' = [wpc EXCEPT ![w] = "idle"] /\ wjob' = [wjob EXCEPT ![w] = NoJob]
    /\ UNCHANGED <<envVars, setVars, lastRun, holder, baseline, tickVars, detVars, histVars>>

-----------------------------------------------------------------------------
(* DetectMissedRuns, once per start of the service *)

DetectBegins ==
    /\ detPc = "ready"
    /\ IF paused
       THEN detPc' = "off" /\ UNCHANGED <<detNow, detTodo>>
       ELSE detPc' = "look" /\ detNow' = now /\ detTodo' = enabled
    /\ UNCHANGED <<envVars, setVars, lastRun, holder, baseline, workVars, tickVars, detJob,
                   detMissed, histVars>>

DetectEnds ==
    /\ detPc = "look" /\ detTodo = {}
    /\ detPc' = "off" /\ detNow' = 0 /\ detJob' = NoJob /\ detMissed' = 0
    /\ UNCHANGED <<envVars, setVars, lastRun, holder, baseline, workVars, tickVars, detTodo, histVars>>

\* An occurrence after the newest run of the job has passed.
Missed(j) == lastRun[j] # Never /\ NextRun(j, lastRun[j]) <= detNow

\* Mutant: a job that missed nothing ends the loop.
DetectLooks_returns(j) ==
    /\ detPc = "look" /\ j \in detTodo
    /\ IF Missed(j)
       THEN /\ detTodo' = detTodo \ {j}
            /\ detPc' = "mark" /\ detJob' = j /\ detMissed' = NextRun(j, lastRun[j])
       ELSE detTodo' = {} /\ UNCHANGED <<detPc, detJob, detMissed>>
    /\ UNCHANGED <<envVars, setVars, lastRun, holder, baseline, workVars, tickVars, detNow, histVars>>

\* LastRun and the comparison; a job without a run in the history is left alone.
DetectLooks(j) ==
    /\ detPc = "look" /\ j \in detTodo
    /\ detTodo' = detTodo \ {j}
    /\ IF Missed(j)
       THEN /\ detPc' = "mark" /\ detJob' = j /\ detMissed' = NextRun(j, lastRun[j])
            /\ blind' = IF lastRun[j] < firedAt[j] THEN blind \cup {j} ELSE blind
       ELSE UNCHANGED <<detPc, detJob, detMissed, blind>>
    /\ UNCHANGED <<envVars, setVars, lastRun, holder, baseline, workVars, tickVars, detNow, firedAt>>

\* The baseline is set to the time the detection began at.
DetectMarks ==
    /\ detPc = "mark"
    /\ baseline' = [baseline EXCEPT ![detJob] = detNow]
    /\ detPc' = "apply"
    /\ UNCHANGED <<envVars, setVars, lastRun, holder, workVars, tickVars, detNow, detTodo, detJob,
                   detMissed, histVars>>

\* recordSkippedMissedRun, or a catch-up run; errors are only logged.
DetectApplies ==
    /\ detPc = "apply"
    /\ \/ /\ Policy[detJob] = "SKIP"
          /\ \/ Record(detJob, detMissed) /\ UNCHANGED <<holder, faults>>
             \/ NotBegun
          /\ detPc' = "look"
       \/ /\ Policy[detJob] # "SKIP"
          /\ \/ Begun(detJob, "catchup") /\ detPc' = "run"
             \/ (BegunSkipped(detJob) \/ NotBegun) /\ detPc' = "look"
    /\ UNCHANGED <<now, up, restarts, requests, quiet, setVars, baseline, workVars, tickVars, detNow,
                   detTodo, detJob, detMissed, histVars>>

CatchUpEnds ==
    /\ detPc = "run"
    /\ holder' = [holder EXCEPT ![detJob] = "none"]
    /\ detPc' = "look"
    /\ UNCHANGED <<envVars, setVars, lastRun, baseline, workVars, tickVars, detNow, detTodo, detJob,
                   detMissed, histVars>>

-----------------------------------------------------------------------------
(* Users, the clock, and the process *)

\* runs.start; the same lock and history, none of the dispatcher's limits.
RunNow(j) ==
    /\ up /\ requests < MaxRequests /\ requests' = requests + 1
    /\ Begun(j, "manual") \/ BegunSkipped(j)
    /\ UNCHANGED <<now, up, restarts, quiet, setVars, baseline, workVars, tickVars, detVars,
                   histVars>>

RunNowEnds(j) ==
    /\ holder[j] = "manual"
    /\ holder' = [holder EXCEPT ![j] = "none"]
    /\ UNCHANGED <<envVars, setVars, lastRun, baseline, workVars, tickVars, detVars, histVars>>

\* settings.set
SetSettings ==
    /\ up /\ requests < MaxRequests /\ requests' = requests + 1
    /\ paused' \in BOOLEAN /\ limit' \in Limits
    /\ UNCHANGED <<now, up, restarts, faults, quiet, enabled, lastRun, holder, baseline, workVars,
                   tickVars, detVars, histVars>>

\* jobs.enable and jobs.disable
SetEnabled(j) ==
    /\ up /\ requests < MaxRequests /\ requests' = requests + 1
    /\ enabled' = IF j \in enabled THEN enabled \ {j} ELSE enabled \cup {j}
    /\ UNCHANGED <<now, up, restarts, faults, quiet, paused, limit, lastRun, holder, baseline,
                   workVars, tickVars, detVars, histVars>>

TimePasses ==
    /\ now < MaxTime /\ now' = now + 1
    /\ quiet' = IF paused THEN quiet \cup {now + 1} ELSE quiet
    /\ UNCHANGED <<up, restarts, requests, faults, setVars, lastRun, holder, baseline, workVars,
                   tickVars, detVars, histVars>>

\* startup: recovery has freed the locks; the loop and the detection start.
ServiceStarts ==
    /\ ~up /\ up' = TRUE
    /\ detPc' = "ready"
    /\ UNCHANGED <<now, restarts, requests, faults, quiet, setVars, lastRun, holder, baseline,
                   workVars, tickVars, detNow, detTodo, detJob, detMissed, histVars>>

\* A stop or a crash: what is in memory is gone, the history stays.
ServiceStops ==
    /\ up /\ up' = FALSE
    /\ restarts < MaxRestarts /\ restarts' = restarts + 1
    /\ holder' = [j \in Jobs |-> "none"]
    /\ baseline' = [j \in Jobs |-> Never] /\ firedAt' = [j \in Jobs |-> Never] /\ blind' = {}
    /\ runningCount' = 0 /\ runningServers' = [s \in Servers |-> 0]
    /\ wpc' = [w \in Workers |-> "idle"] /\ wjob' = [w \in Workers |-> NoJob]
    /\ tickPc' = "idle" /\ tickNow' = 0 /\ tickTodo' = {} /\ tickJob' = NoJob
    /\ detPc' = "off" /\ detNow' = 0 /\ detTodo' = {} /\ detJob' = NoJob /\ detMissed' = 0
    /\ UNCHANGED <<now, requests, faults, quiet, setVars, lastRun, tickLimit>>

-----------------------------------------------------------------------------

PollLoop ==
    \/ Tick \/ TickEnds \/ Blocked \/ Advance
    \/ \E j \in Jobs : Consider(j)
    \/ \E w \in Workers : Dispatch(w)

Detection ==
    \/ DetectBegins \/ DetectEnds \/ DetectMarks \/ DetectApplies
    \/ \E j \in Jobs : DetectLooks(j)

WorkerStep(w) == WorkerBegin(w) \/ WorkerLeaves(w)

RunOver ==
    \/ CatchUpEnds
    \/ \E w \in Workers : WorkerRunEnds(w)
    \/ \E j \in Jobs : RunNowEnds(j)

Environment ==
    \/ TimePasses \/ ServiceStarts \/ ServiceStops \/ SetSettings
    \/ \E j \in Jobs : RunNow(j) \/ SetEnabled(j)

Next ==
    \/ PollLoop \/ Detection \/ RunOver \/ Environment
    \/ \E w \in Workers : WorkerStep(w)

Spec == Init /\ [][Next]_vars

\* The goroutines of the scheduler run.  Nothing is assumed of the length of
\* runs, of users and of the clock.
FairSpec ==
    /\ Spec
    /\ WF_vars(PollLoop) /\ WF_vars(Detection)
    /\ \A w \in Workers : WF_vars(WorkerStep(w))

-----------------------------------------------------------------------------
(* Properties *)

Busy(w) == wpc[w] # "idle"
BusyOn(s) == {w \in Workers : Busy(w) /\ ServerOf[wjob[w]] = s}

\* However ticks, ends of runs and restarts interleave, dispatched runs never
\* share a server (tryStart checks and counts under one lock, runAndRelease
\* counts down on every path).
ServerLimitKept ==
    \A v, w \in Workers :
        v # w /\ Busy(v) /\ Busy(w) => ServerOf[wjob[v]] # ServerOf[wjob[w]]

\* There are never more dispatched runs than the largest limit that may have
\* been set; a limit that is lowered does not stop runs.
GlobalLimitKept ==
    \E l \in Limits : Cardinality({w \in Workers : Busy(w)}) <= l

\* A start of the poll loop is for an occurrence it has not started the job for
\* before, unless the detection of missed runs judged the job without having
\* seen the row of the previous start (considerJob: "the whole backlog counts
\* as caught up after one run").  A schedule that never comes due has no
\* occurrence to be started for; it is left out.
BacklogCollapses ==
    tickPc = "start" /\ tickJob \notin blind /\ Sched[tickJob] # {} =>
        \E o \in Sched[tickJob] : firedAt[tickJob] < o /\ o <= tickNow

RunsEnd == \A j \in Jobs : []<>(holder[j] = "none")

Due(j) ==
    /\ up /\ ~paused /\ j \in enabled
    /\ baseline[j] # Never /\ NextRun(j, baseline[j]) <= now

\* The poll loop has started the job and its baseline is about to advance.
Started(j) == tickPc = "advance" /\ tickJob = j

\* A due job that a limit holds back is started by a later tick, or is due no
\* longer, if runs end and the loop does not go on for ever starting other jobs
\* (tryStart's callers retry, considerJob).  The second premise is the code's
\* own weakness, whatever the bound on the clock: there is no queue, a tick looks
\* at the jobs in the order of their names, and a job whose runs outlast its
\* period takes the room again as soon as it is free.
DueIsServed ==
    \A j \in Jobs :
        RunsEnd /\ <>[](\A i \in Jobs \ {j} : ~Started(i)) => (Due(j) ~> Started(j) \/ ~Due(j))

\* A job with policy RUN_AS_SOON_AS_POSSIBLE that the detection has to look at
\* and that missed an occurrence has a run recorded in this life of the
\* process, unless the attempt itself fails (detectMissedRunForJob).
MissedRunCaughtUp ==
    RunsEnd => \A j \in Jobs, t0 \in Time :
        (detPc = "look" /\ j \in detTodo /\ Missed(j) /\ Policy[j] # "SKIP" /\ detNow = t0)
            ~> (lastRun[j] >= t0 \/ ~up \/ faults > 0)

-----------------------------------------------------------------------------
(* Inductive invariant behind the limits (DispatcherProofs) *)

\* The counters of the dispatcher count its workers.
CountersExact ==
    /\ runningCount = Cardinality({w \in Workers : Busy(w)})
    /\ \A s \in Servers : runningServers[s] = Cardinality(BusyOn(s))

\* tryStart counts up only below a limit that a tick has read.
Uncrowded ==
    /\ \E l \in Limits : runningCount <= l
    /\ \A s \in Servers : runningServers[s] <= 1

LimitInv ==
    /\ WorkTypeOK /\ tickJob \in Jobs /\ limit \in Limits /\ tickLimit \in Limits
    /\ CountersExact /\ Uncrowded

-----------------------------------------------------------------------------
(* Inductive invariant behind BacklogCollapses (DispatcherProofs) *)

ScheduleTypeOK ==
    /\ now \in Time /\ tickNow \in Time /\ detNow \in Time
    /\ baseline \in [Jobs -> Time \cup {Never}] /\ firedAt \in [Jobs -> Time \cup {Never}]
    /\ lastRun \in [Jobs -> Int] /\ detMissed \in Int /\ tickJob \in Jobs /\ detJob \in Jobs

\* What the detection judges is visible to it.
Seen(j) == j \notin blind /\ Sched[j] # {}

\* A baseline is not older than the last start, whoever sets it.
BaselinesCover ==
    /\ tickPc \in {"start", "advance"} => baseline[tickJob] # Never
    /\ tickPc = "advance" => firedAt[tickJob] = tickNow
    /\ \A j \in Jobs :
          /\ baseline[j] = Never => firedAt[j] = Never
          /\ baseline[j] # Never /\ Seen(j) /\ ~Started(j) => firedAt[j] <= baseline[j]
    /\ detPc = "mark" /\ Seen(detJob) => firedAt[detJob] <= detNow

BacklogInv == ScheduleTypeOK /\ BaselinesCover /\ BacklogCollapses

-----------------------------------------------------------------------------
(* What a comment says and the code does not do *)

\* missedrun.go: "paused occurrences are never queued as catch-up".  A start of
\* the poll loop is for an occurrence that came due while not paused.
PausedNeverCaughtUp ==
    tickPc = "start" =>
        \E o \in Sched[tickJob] \ quiet : firedAt[tickJob] < o /\ o <= tickNow

=============================================================================
