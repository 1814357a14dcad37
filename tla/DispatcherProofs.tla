-------------------------- MODULE DispatcherProofs --------------------------
(***************************************************************************)
(* The dispatcher keeps its limits for any number of jobs, servers and     *)
(* workers, any schedules, and however its goroutines interleave; and each *)
(* start of its loop is for an occurrence after the previous one.          *)
(*                                                                         *)
(* The argument of the second: whoever sets the baseline of a job, poll    *)
(* loop or detection, sets it to a time at or after the last start of the  *)
(* job (BaselinesCover), and NextRun is later than the baseline.           *)
(***************************************************************************)
EXTENDS Dispatcher, FiniteSetTheorems, WellFoundedInduction, TLAPS

BusyWorkers == {w \in Workers : Busy(w)}

\* The sets the counters count are finite.
LEMMA BusyFinite ==
    /\ IsFiniteSet(BusyWorkers)
    /\ \A s \in Servers : IsFiniteSet(BusyOn(s))
<1>1. IsFiniteSet(Workers)
  BY DispatcherAssumption
<1>2. BusyWorkers \subseteq Workers /\ \A s \in Servers : BusyOn(s) \subseteq Workers
  BY DEF BusyWorkers, BusyOn
<1> QED
  BY <1>1, <1>2, FS_Subset

\* The fields the invariant reads besides the workers keep their types.
LEMMA StepConfig ==
    ASSUME LimitInv, [Next]_vars
    PROVE  tickJob' \in Jobs /\ limit' \in Limits /\ tickLimit' \in Limits
<1> NoJob \in Jobs
  BY DispatcherAssumption DEF NoJob
<1> USE DEF LimitInv, setVars, tickVars, envVars
<1>1. CASE PollLoop
  BY <1>1 DEF PollLoop, Tick, TickEnds, Blocked, Advance, Consider, Dispatch
<1>2. CASE Detection
  BY <1>2 DEF Detection, DetectBegins, DetectEnds, DetectMarks, DetectApplies, DetectLooks
<1>3. CASE RunOver
  BY <1>3 DEF RunOver, CatchUpEnds, WorkerRunEnds, RunNowEnds
<1>4. CASE Environment
  BY <1>4 DEF Environment, TimePasses, ServiceStarts, ServiceStops, SetSettings, RunNow, SetEnabled
<1>5. CASE \E w \in Workers : WorkerStep(w)
  BY <1>5 DEF WorkerStep, WorkerBegin, WorkerLeaves
<1>6. CASE UNCHANGED vars
  BY <1>6 DEF vars
<1> QED
  BY <1>1, <1>2, <1>3, <1>4, <1>5, <1>6 DEF Next

\* Steps that do not touch the workers and the counters.
LEMMA SameWorkers ==
    ASSUME LimitInv, UNCHANGED workVars
    PROVE  WorkTypeOK' /\ CountersExact' /\ Uncrowded'
<1> USE DEF LimitInv, workVars
<1>1. WorkTypeOK'
  BY DEF WorkTypeOK
<1>2. BusyWorkers' = BusyWorkers /\ \A s \in Servers : BusyOn(s)' = BusyOn(s)
  BY DEF BusyWorkers, BusyOn, Busy
<1>3. CountersExact'
  BY <1>2 DEF CountersExact, BusyWorkers
<1>4. Uncrowded'
  BY DEF Uncrowded
<1> QED
  BY <1>1, <1>3, <1>4

\* A worker that starts or ends its run stays busy.
LEMMA WorkerMoves ==
    ASSUME LimitInv, NEW w \in Workers, NEW p \in {"run", "leave"},
           wpc[w] # "idle", wpc' = [wpc EXCEPT ![w] = p],
           UNCHANGED <<wjob, runningCount, runningServers>>
    PROVE  WorkTypeOK' /\ CountersExact' /\ Uncrowded'
<1> USE DEF LimitInv
<1>1. WorkTypeOK'
  BY DEF WorkTypeOK
<1>2. \A v \in Workers : Busy(v)' <=> Busy(v)
  BY DEF Busy, WorkTypeOK
<1>3. BusyWorkers' = BusyWorkers /\ \A s \in Servers : BusyOn(s)' = BusyOn(s)
  BY <1>2 DEF BusyWorkers, BusyOn
<1>4. CountersExact'
  BY <1>3 DEF CountersExact, BusyWorkers
<1>5. Uncrowded'
  BY DEF Uncrowded
<1> QED
  BY <1>1, <1>4, <1>5

\* tryStart: one worker more, on a server that had none.
LEMMA DispatchStep ==
    ASSUME LimitInv, NEW w \in Workers, Dispatch(w)
    PROVE  WorkTypeOK' /\ CountersExact' /\ Uncrowded'
<1> PICK here \in Servers : here = ServerOf[tickJob]
  BY DispatcherAssumption DEF LimitInv
<1> USE DEF LimitInv, Dispatch
<1>1. WorkTypeOK'
  BY DEF WorkTypeOK
<1>2. /\ BusyWorkers' = BusyWorkers \cup {w} /\ w \notin BusyWorkers
      /\ BusyOn(here)' = BusyOn(here) \cup {w} /\ w \notin BusyOn(here)
  BY DEF BusyWorkers, BusyOn, Busy, WorkTypeOK
<1>3. \A s \in Servers : s # here => BusyOn(s)' = BusyOn(s)
  BY DEF BusyOn, Busy, WorkTypeOK
<1>4. /\ Cardinality(BusyWorkers') = Cardinality(BusyWorkers) + 1
      /\ Cardinality(BusyOn(here)') = Cardinality(BusyOn(here)) + 1
  BY <1>2, BusyFinite, FS_AddElement
<1>5. CountersExact'
  BY <1>3, <1>4 DEF CountersExact, BusyWorkers, WorkTypeOK
<1>6. Uncrowded'
  BY DispatcherAssumption DEF Uncrowded, HasRoom, WorkTypeOK
<1> QED
  BY <1>1, <1>5, <1>6

\* The deferred function of runAndRelease: one worker less.
LEMMA LeaveStep ==
    ASSUME LimitInv, NEW w \in Workers, WorkerLeaves(w)
    PROVE  WorkTypeOK' /\ CountersExact' /\ Uncrowded'
<1> PICK here \in Servers : here = ServerOf[wjob[w]]
  BY DispatcherAssumption DEF LimitInv, WorkTypeOK
<1> NoJob \in Jobs
  BY DispatcherAssumption DEF NoJob
<1> USE DEF LimitInv, WorkerLeaves
<1>1. /\ BusyWorkers' = BusyWorkers \ {w} /\ w \in BusyWorkers
      /\ BusyOn(here)' = BusyOn(here) \ {w} /\ w \in BusyOn(here)
  BY DEF BusyWorkers, BusyOn, Busy, WorkTypeOK
<1>2. \A s \in Servers : s # here => BusyOn(s)' = BusyOn(s)
  BY DEF BusyOn, Busy, WorkTypeOK
<1>3. /\ Cardinality(BusyWorkers') = Cardinality(BusyWorkers) - 1
      /\ Cardinality(BusyOn(here)') = Cardinality(BusyOn(here)) - 1
      /\ Cardinality(BusyWorkers') \in Nat /\ Cardinality(BusyOn(here)') \in Nat
  BY <1>1, BusyFinite, FS_RemoveElement, FS_CardinalityType
<1>4. CountersExact'
  BY <1>2, <1>3 DEF CountersExact, BusyWorkers, WorkTypeOK
<1>5. WorkTypeOK'
  BY <1>3 DEF WorkTypeOK, CountersExact, BusyWorkers
<1>6. Uncrowded'
  BY DispatcherAssumption DEF Uncrowded, WorkTypeOK
<1> QED
  BY <1>4, <1>5, <1>6

\* Nothing is busy in a process that is gone.
LEMMA NobodyBusy ==
    ASSUME wpc = [w \in Workers |-> "idle"], wjob = [w \in Workers |-> NoJob],
           runningCount = 0, runningServers = [s \in Servers |-> 0]
    PROVE  WorkTypeOK /\ CountersExact /\ Uncrowded
<1> NoJob \in Jobs
  BY DispatcherAssumption DEF NoJob
<1>1. WorkTypeOK
  BY DEF WorkTypeOK
<1>2. BusyWorkers = {} /\ \A s \in Servers : BusyOn(s) = {}
  BY DEF BusyWorkers, BusyOn, Busy
<1>3. CountersExact
  BY <1>2, FS_EmptySet DEF CountersExact, BusyWorkers
<1>4. Uncrowded
  <2>0. Limits # {} /\ Limits \subseteq Nat
    BY DispatcherAssumption
  <2>1. PICK l \in Limits : TRUE
    BY <2>0
  <2>2. \A s \in Servers : runningServers[s] <= 1
    OBVIOUS
  <2> QED
    BY <2>0, <2>1, <2>2 DEF Uncrowded
<1> QED
  BY <1>1, <1>3, <1>4

\* The same after a stop of the service.
LEMMA StopStep ==
    ASSUME ServiceStops
    PROVE  WorkTypeOK' /\ CountersExact' /\ Uncrowded'
<1> NoJob \in Jobs
  BY DispatcherAssumption DEF NoJob
<1> USE DEF ServiceStops
<1>1. WorkTypeOK'
  BY DEF WorkTypeOK
<1>2. BusyWorkers' = {} /\ \A s \in Servers : BusyOn(s)' = {}
  BY DEF BusyWorkers, BusyOn, Busy
<1>3. CountersExact'
  BY <1>2, FS_EmptySet DEF CountersExact, BusyWorkers
<1>4. Uncrowded'
  <2>0. Limits # {} /\ Limits \subseteq Nat
    BY DispatcherAssumption
  <2>1. PICK l \in Limits : TRUE
    BY <2>0
  <2>2. \A s \in Servers : runningServers'[s] <= 1
    OBVIOUS
  <2> QED
    BY <2>0, <2>1, <2>2 DEF Uncrowded
<1> QED
  BY <1>1, <1>3, <1>4

\* Every step keeps the counters exact and below the limits.
LEMMA StepCounters ==
    ASSUME LimitInv, [Next]_vars
    PROVE  WorkTypeOK' /\ CountersExact' /\ Uncrowded'
<1>1. ASSUME NEW w \in Workers, Dispatch(w) PROVE WorkTypeOK' /\ CountersExact' /\ Uncrowded'
  BY <1>1, DispatchStep
<1>2. CASE Tick \/ TickEnds \/ Blocked \/ Advance \/ \E j \in Jobs : Consider(j)
  <2> UNCHANGED workVars
    BY <1>2 DEF Tick, TickEnds, Blocked, Advance, Consider
  <2> QED BY SameWorkers
<1>3. CASE Detection
  <2> UNCHANGED workVars
    BY <1>3 DEF Detection, DetectBegins, DetectEnds, DetectMarks, DetectApplies, DetectLooks
  <2> QED BY SameWorkers
<1>4. CASE CatchUpEnds \/ \E j \in Jobs : RunNowEnds(j)
  <2> UNCHANGED workVars
    BY <1>4 DEF CatchUpEnds, RunNowEnds
  <2> QED BY SameWorkers
<1>5. CASE TimePasses \/ ServiceStarts \/ SetSettings \/ \E j \in Jobs : RunNow(j) \/ SetEnabled(j)
  <2> UNCHANGED workVars
    BY <1>5 DEF TimePasses, ServiceStarts, SetSettings, RunNow, SetEnabled
  <2> QED BY SameWorkers
<1>6. CASE ServiceStops
  BY <1>6, StopStep
<1>7. ASSUME NEW w \in Workers, WorkerBegin(w) PROVE WorkTypeOK' /\ CountersExact' /\ Uncrowded'
  BY <1>7, WorkerMoves DEF WorkerBegin
<1>8. ASSUME NEW w \in Workers, WorkerRunEnds(w) PROVE WorkTypeOK' /\ CountersExact' /\ Uncrowded'
  BY <1>8, WorkerMoves DEF WorkerRunEnds
<1>9. ASSUME NEW w \in Workers, WorkerLeaves(w) PROVE WorkTypeOK' /\ CountersExact' /\ Uncrowded'
  BY <1>9, LeaveStep
<1>10. CASE UNCHANGED vars
  BY <1>10, SameWorkers DEF vars
<1> QED
  BY <1>1, <1>2, <1>3, <1>4, <1>5, <1>6, <1>7, <1>8, <1>9, <1>10
     DEF Next, PollLoop, RunOver, Environment, WorkerStep

\* The inductive invariant holds in every reachable state.
LEMMA LimitInvariant == Spec => []LimitInv
<1>1. Init => LimitInv
  <2> SUFFICES ASSUME Init PROVE LimitInv
    OBVIOUS
  <2>1. WorkTypeOK /\ CountersExact /\ Uncrowded
    BY NobodyBusy DEF Init
  <2>2. tickJob \in Jobs /\ limit \in Limits /\ tickLimit \in Limits
    BY DispatcherAssumption DEF Init, NoJob
  <2> QED
    BY <2>1, <2>2 DEF LimitInv
<1>2. LimitInv /\ [Next]_vars => LimitInv'
  BY StepConfig, StepCounters DEF LimitInv
<1> QED
  BY <1>1, <1>2, PTL DEF Spec

\* Dispatched runs never share a server.
THEOREM ServersAreExclusive == Spec => []ServerLimitKept
<1>1. LimitInv => ServerLimitKept
  <2> SUFFICES ASSUME LimitInv, NEW v \in Workers, NEW w \in Workers, v # w, Busy(v), Busy(w),
                      ServerOf[wjob[v]] = ServerOf[wjob[w]]
               PROVE  FALSE
    BY DEF ServerLimitKept
  <2> DEFINE here == ServerOf[wjob[v]]
  <2>1. here \in Servers
    BY DispatcherAssumption DEF LimitInv, WorkTypeOK
  <2>2. {v, w} \subseteq BusyOn(here)
    BY DEF BusyOn
  <2>3. Cardinality({v}) = 1 /\ IsFiniteSet({v})
    BY FS_Singleton
  <2>4. Cardinality({v, w}) = 2
    <3>1. {v, w} = {v} \cup {w} /\ w \notin {v}
      OBVIOUS
    <3> QED
      BY <3>1, <2>3, FS_AddElement
  <2>5. Cardinality({v, w}) <= Cardinality(BusyOn(here))
    BY <2>1, <2>2, BusyFinite, FS_Subset
  <2> QED
    BY <2>1, <2>4, <2>5 DEF LimitInv, CountersExact, Uncrowded, WorkTypeOK
<1> QED
  BY <1>1, LimitInvariant, PTL

\* There are never more dispatched runs than the largest limit that was set.
THEOREM GlobalLimitHolds == Spec => []GlobalLimitKept
<1>1. LimitInv => GlobalLimitKept
  BY DEF LimitInv, CountersExact, Uncrowded, GlobalLimitKept
<1> QED
  BY <1>1, LimitInvariant, PTL

-----------------------------------------------------------------------------
(* Starts are for new occurrences *)

\* A set of times has a first one.
LEMMA FirstTime ==
    ASSUME NEW T \in SUBSET Time, T # {}
    PROVE  \E o \in T : \A p \in T : o <= p
<1>1. T \subseteq Nat
  BY DispatcherAssumption DEF Time
<1>2. PICK o \in T : \A p \in T : ~(<<p, o>> \in OpToRel(<, Nat))
  BY <1>1, NatLessThanWellFounded, WFMin
<1>3. \A p \in T : ~(p < o)
  BY <1>1, <1>2 DEF OpToRel
<1>4. \A p \in T : o <= p
  BY <1>1, <1>3
<1> QED
  BY <1>4

\* What NextRun returns: if it is not beyond the bound and the schedule comes
\* due at all, it is an occurrence after the given time.
LEMMA NextRunFacts ==
    ASSUME NEW j \in Jobs, NEW after \in Int
    PROVE  /\ NextRun(j, after) \in Int
           /\ Sched[j] # {} => NextRun(j, after) > after \/ NextRun(j, after) = MaxTime + 1
           /\ Sched[j] # {} /\ NextRun(j, after) <= MaxTime =>
                NextRun(j, after) \in Sched[j] /\ NextRun(j, after) > after
<1> DEFINE later == {o \in Sched[j] : o > after}
<1>0. Sched[j] \subseteq Time /\ MaxTime \in Nat /\ Time \subseteq Int
  BY DispatcherAssumption DEF Time
<1>1. CASE Sched[j] = {}
  BY <1>1 DEF NextRun, ZeroTime
<1>2. CASE Sched[j] # {} /\ later = {}
  <2>1. NextRun(j, after) = MaxTime + 1
    BY <1>2 DEF NextRun
  <2>2. ~(MaxTime + 1 <= MaxTime)
    BY <1>0
  <2> QED
    BY <1>0, <1>2, <2>1, <2>2
<1>3. CASE Sched[j] # {} /\ later # {}
  <2>1. NextRun(j, after) = CHOOSE o \in later : \A p \in later : o <= p
    BY <1>3 DEF NextRun
  <2>2. later \in SUBSET Time
    BY <1>0
  <2>3. \E o \in later : \A p \in later : o <= p
    BY <1>3, <2>2, FirstTime
  <2>4. NextRun(j, after) \in later
    BY <2>1, <2>3
  <2> QED
    BY <1>0, <1>3, <2>4
<1> QED
  BY <1>1, <1>2, <1>3

\* What the poll loop and the detection decide by.
scheduleVars == <<tickPc, tickNow, tickJob, baseline, firedAt, blind, detPc, detNow, detJob>>

\* Steps that leave the scheduling alone.
LEMMA ScheduleKept ==
    ASSUME BacklogInv, UNCHANGED scheduleVars
    PROVE  BaselinesCover' /\ BacklogCollapses'
<1>1. BaselinesCover'
  BY DEF BacklogInv, BaselinesCover, Seen, Started, scheduleVars
<1>2. BacklogCollapses'
  BY DEF BacklogInv, BacklogCollapses, scheduleVars
<1> QED
  BY <1>1, <1>2

\* A step of the detection or of the loop that starts nothing and moves no
\* baseline.
LEMMA QuietStep ==
    ASSUME BacklogInv, UNCHANGED <<baseline, firedAt>>, blind \subseteq blind',
           tickPc' # "start", tickPc' # "advance", tickPc # "advance",
           detPc' = "mark" => detPc = "mark" /\ UNCHANGED <<detNow, detJob>>
    PROVE  BaselinesCover' /\ BacklogCollapses'
<1>1. BaselinesCover'
  BY DEF BacklogInv, BaselinesCover, Seen, Started
<1>2. BacklogCollapses'
  BY DEF BacklogCollapses
<1> QED
  BY <1>1, <1>2

\* The same beside the loop.
LEMMA DetectionStep ==
    ASSUME BacklogInv, UNCHANGED <<baseline, firedAt, tickPc, tickNow, tickJob>>, blind \subseteq blind',
           detPc' = "mark" /\ Seen(detJob)' => firedAt[detJob'] <= detNow'
    PROVE  BaselinesCover' /\ BacklogCollapses'
<1>1. BaselinesCover'
  BY DEF BacklogInv, BaselinesCover, Seen, Started
<1>2. BacklogCollapses'
  BY DEF BacklogInv, BacklogCollapses
<1> QED
  BY <1>1, <1>2

\* Every step keeps the types.
LEMMA StepSchedule ==
    ASSUME LimitInv, BacklogInv, [Next]_vars
    PROVE  ScheduleTypeOK'
<1>0. /\ NoJob \in Jobs /\ 0 \in Time /\ MaxTime \in Nat /\ Never \in Int /\ Time \subseteq Int
      /\ [j \in Jobs |-> Never] \in [Jobs -> Time \cup {Never}]
  BY DispatcherAssumption DEF NoJob, Time, Never
<1>a. ScheduleTypeOK
  BY DEF BacklogInv
<1>r. ASSUME NEW j \in Jobs, NEW t \in Int, Record(j, t) PROVE lastRun' \in [Jobs -> Int]
  BY <1>a, <1>r DEF Record, MaxOf, ScheduleTypeOK
<1>b. ASSUME NEW j \in Jobs, lastRun' = lastRun \/ Record(j, now) PROVE lastRun' \in [Jobs -> Int]
  <2>1. now \in Int
    BY <1>0, <1>a DEF ScheduleTypeOK
  <2> QED
    BY <1>a, <1>b, <1>r, <2>1 DEF ScheduleTypeOK
<1>1. CASE Tick \/ TickEnds \/ Blocked
  BY <1>0, <1>a, <1>1 DEF Tick, TickEnds, Blocked, envVars, detVars, histVars, ScheduleTypeOK
<1>2. ASSUME NEW j \in Jobs, Consider(j) PROVE ScheduleTypeOK'
  <2>1. baseline' \in [Jobs -> Time \cup {Never}]
    BY <1>a, <1>2 DEF Consider, ScheduleTypeOK
  <2>2. tickJob' \in Jobs
    BY <1>a, <1>2 DEF Consider, ScheduleTypeOK
  <2> QED
    BY <1>a, <1>2, <2>1, <2>2 DEF Consider, envVars, detVars, histVars, ScheduleTypeOK
<1>3. ASSUME NEW w \in Workers, Dispatch(w) PROVE ScheduleTypeOK'
  <2>1. firedAt' \in [Jobs -> Time \cup {Never}]
    BY <1>a, <1>3 DEF Dispatch, ScheduleTypeOK
  <2> QED
    BY <1>a, <1>3, <2>1 DEF Dispatch, envVars, detVars, ScheduleTypeOK
<1>4. CASE Advance
  <2>1. baseline' \in [Jobs -> Time \cup {Never}]
    BY <1>a, <1>4 DEF Advance, ScheduleTypeOK
  <2> QED
    BY <1>0, <1>a, <1>4, <2>1 DEF Advance, envVars, detVars, histVars, ScheduleTypeOK
<1>5. ASSUME NEW w \in Workers, WorkerBegin(w) \/ WorkerRunEnds(w) \/ WorkerLeaves(w), wjob[w] \in Jobs
      PROVE  ScheduleTypeOK'
  <2>1. lastRun' = lastRun \/ Record(wjob[w], now)
    BY <1>5 DEF WorkerBegin, WorkerRunEnds, WorkerLeaves, Begun, BegunSkipped, NotBegun
  <2>2. lastRun' \in [Jobs -> Int]
    BY <1>5, <1>b, <2>1
  <2> QED
    BY <1>a, <1>5, <2>2
       DEF WorkerBegin, WorkerRunEnds, WorkerLeaves, envVars, tickVars, detVars, histVars, ScheduleTypeOK
<1>6. CASE DetectBegins \/ DetectEnds \/ CatchUpEnds
  BY <1>0, <1>a, <1>6 DEF DetectBegins, DetectEnds, CatchUpEnds, envVars, tickVars, histVars, ScheduleTypeOK
<1>7. ASSUME NEW j \in Jobs, DetectLooks(j) PROVE ScheduleTypeOK'
  <2>1. lastRun[j] \in Int
    BY <1>a DEF ScheduleTypeOK
  <2>2. NextRun(j, lastRun[j]) \in Int
    BY <2>1, NextRunFacts
  <2>3. detJob' \in Jobs /\ detMissed' \in Int
    BY <1>a, <1>7, <2>2 DEF DetectLooks, ScheduleTypeOK
  <2> QED
    BY <1>a, <1>7, <2>3 DEF DetectLooks, envVars, tickVars, ScheduleTypeOK
<1>8. CASE DetectMarks
  <2>1. baseline' \in [Jobs -> Time \cup {Never}]
    BY <1>a, <1>8 DEF DetectMarks, ScheduleTypeOK
  <2> QED
    BY <1>a, <1>8, <2>1 DEF DetectMarks, envVars, tickVars, histVars, ScheduleTypeOK
<1>9. CASE DetectApplies
  <2>1. lastRun' = lastRun \/ Record(detJob, now) \/ Record(detJob, detMissed)
    BY <1>9 DEF DetectApplies, Begun, BegunSkipped, NotBegun
  <2>2. lastRun' \in [Jobs -> Int]
    BY <1>a, <1>b, <1>r, <2>1 DEF ScheduleTypeOK
  <2> QED
    BY <1>a, <1>9, <2>2 DEF DetectApplies, tickVars, histVars, ScheduleTypeOK
<1>10. ASSUME NEW j \in Jobs, RunNow(j) \/ RunNowEnds(j) \/ SetEnabled(j) PROVE ScheduleTypeOK'
  <2>1. lastRun' = lastRun \/ Record(j, now)
    BY <1>10 DEF RunNow, RunNowEnds, SetEnabled, Begun, BegunSkipped
  <2>2. lastRun' \in [Jobs -> Int]
    BY <1>b, <2>1
  <2> QED
    BY <1>a, <1>10, <2>2 DEF RunNow, RunNowEnds, SetEnabled, envVars, tickVars, detVars, histVars, ScheduleTypeOK
<1>11. CASE SetSettings \/ ServiceStarts
  BY <1>a, <1>11 DEF SetSettings, ServiceStarts, tickVars, detVars, histVars, ScheduleTypeOK
<1>12. CASE TimePasses
  <2>1. now' \in Time
    BY <1>a, <1>12, DispatcherAssumption DEF TimePasses, ScheduleTypeOK, Time
  <2> QED
    BY <1>a, <1>12, <2>1 DEF TimePasses, tickVars, detVars, histVars, ScheduleTypeOK
<1>13. CASE ServiceStops
  BY <1>0, <1>a, <1>13 DEF ServiceStops, ScheduleTypeOK
<1>14. CASE UNCHANGED vars
  BY <1>a, <1>14 DEF vars, envVars, tickVars, detVars, histVars, ScheduleTypeOK
<1>15. \A w \in Workers : wjob[w] \in Jobs
  BY DEF LimitInv, WorkTypeOK
<1> QED
  BY <1>1, <1>2, <1>3, <1>4, <1>5, <1>6, <1>7, <1>8, <1>9, <1>10, <1>11, <1>12, <1>13, <1>14, <1>15
     DEF Next, PollLoop, Detection, RunOver, Environment, WorkerStep

\* considerJob: a job is started only for an occurrence after its baseline, and
\* the baseline is not older than the last start.
LEMMA ConsiderStep ==
    ASSUME BacklogInv, NEW j \in Jobs, Consider(j)
    PROVE  BaselinesCover' /\ BacklogCollapses'
<1>0. /\ tickPc = "consider" /\ UNCHANGED <<tickNow, firedAt, blind, detPc, detNow, detJob>>
      /\ ScheduleTypeOK /\ BaselinesCover
  BY DEF Consider, detVars, histVars, BacklogInv
<1>1. CASE baseline[j] = Never /\ baseline' = [baseline EXCEPT ![j] = tickNow] /\ UNCHANGED <<tickPc, tickJob>>
  <2>0. firedAt[j] = Never /\ Never <= tickNow /\ tickNow # Never
    BY <1>0, <1>1, DispatcherAssumption DEF BaselinesCover, ScheduleTypeOK, Time, Never
  <2>1. baseline'[j] = tickNow /\ \A i \in Jobs : i # j => baseline'[i] = baseline[i]
    BY <1>0, <1>1 DEF ScheduleTypeOK
  <2>2. BaselinesCover'
    BY <1>0, <1>1, <2>0, <2>1 DEF BaselinesCover, Seen, Started
  <2> QED
    BY <1>0, <1>1, <2>2 DEF BacklogCollapses
<1>2. CASE UNCHANGED <<baseline, tickPc, tickJob>>
  BY <1>0, <1>2, QuietStep
<1>3. CASE /\ baseline[j] # Never /\ NextRun(j, baseline[j]) <= tickNow
           /\ tickJob' = j /\ tickPc' = "start" /\ UNCHANGED baseline
  <2>1. BaselinesCover'
    BY <1>0, <1>3 DEF BaselinesCover, Seen, Started
  <2>2. ASSUME j \notin blind, Sched[j] # {}
        PROVE  \E o \in Sched[j] : firedAt[j] < o /\ o <= tickNow
    <3>1. firedAt[j] <= baseline[j]
      BY <1>0, <1>3, <2>2 DEF BaselinesCover, Seen, Started
    <3>2. /\ baseline[j] \in Int /\ firedAt[j] \in Int /\ tickNow \in Int /\ tickNow <= MaxTime
          /\ MaxTime \in Int
      BY <1>0, DispatcherAssumption DEF ScheduleTypeOK, Time, Never
    <3>3. NextRun(j, baseline[j]) \in Int /\ NextRun(j, baseline[j]) <= MaxTime
      BY <1>3, <3>2, NextRunFacts
    <3>4. NextRun(j, baseline[j]) \in Sched[j] /\ NextRun(j, baseline[j]) > baseline[j]
      BY <2>2, <3>2, <3>3, NextRunFacts
    <3>5. firedAt[j] < NextRun(j, baseline[j])
      BY <3>1, <3>2, <3>3, <3>4
    <3> QED
      BY <1>3, <3>4, <3>5
  <2>3. BacklogCollapses'
    BY <1>0, <1>3, <2>2 DEF BacklogCollapses
  <2> QED
    BY <2>1, <2>3
<1> QED
  BY <1>1, <1>2, <1>3 DEF Consider

\* The start itself: its time is noted before the baseline moves.
LEMMA StartStep ==
    ASSUME BacklogInv, NEW w \in Workers, Dispatch(w)
    PROVE  BaselinesCover' /\ BacklogCollapses'
<1>0. /\ tickPc = "start" /\ tickPc' = "advance"
      /\ firedAt' = [firedAt EXCEPT ![tickJob] = tickNow]
      /\ blind' = IF detPc = "mark" /\ detJob = tickJob THEN blind \cup {tickJob} ELSE blind \ {tickJob}
      /\ UNCHANGED <<baseline, tickNow, tickJob, detPc, detNow, detJob>>
      /\ ScheduleTypeOK /\ BaselinesCover
  BY DEF Dispatch, detVars, BacklogInv
<1>1. /\ tickJob \in Jobs /\ detJob \in Jobs /\ firedAt'[tickJob] = tickNow
      /\ \A j \in Jobs : j # tickJob => firedAt'[j] = firedAt[j] /\ (j \in blind' <=> j \in blind)
  BY <1>0 DEF ScheduleTypeOK
<1>2. baseline[tickJob] # Never
  BY <1>0 DEF BaselinesCover
<1>3. ASSUME NEW j \in Jobs
      PROVE  /\ baseline[j] = Never => firedAt'[j] = Never
             /\ baseline[j] # Never /\ Seen(j)' /\ ~Started(j)' => firedAt'[j] <= baseline[j]
  <2>1. CASE j = tickJob
    BY <1>0, <1>2, <2>1 DEF Started
  <2>2. CASE j # tickJob
    BY <1>0, <1>1, <2>2 DEF BaselinesCover, Seen, Started
  <2> QED
    BY <2>1, <2>2
<1>4. detPc = "mark" /\ Seen(detJob)' => firedAt'[detJob] <= detNow
  <2>1. CASE detJob = tickJob
    BY <1>0, <2>1 DEF Seen
  <2>2. CASE detJob # tickJob
    BY <1>0, <1>1, <2>2 DEF BaselinesCover, Seen
  <2> QED
    BY <2>1, <2>2
<1>5. BaselinesCover'
  BY <1>0, <1>1, <1>2, <1>3, <1>4 DEF BaselinesCover
<1> QED
  BY <1>0, <1>5 DEF BacklogCollapses

\* The baseline of a job that was started becomes the time of its start.
LEMMA AdvanceStep ==
    ASSUME BacklogInv, Advance
    PROVE  BaselinesCover' /\ BacklogCollapses'
<1>0. /\ tickPc = "advance" /\ tickPc' = "consider"
      /\ baseline' = [baseline EXCEPT ![tickJob] = tickNow]
      /\ UNCHANGED <<firedAt, blind, detPc, detNow, detJob>>
      /\ ScheduleTypeOK /\ BaselinesCover
  BY DEF Advance, detVars, histVars, BacklogInv
<1>1. /\ tickJob \in Jobs /\ baseline'[tickJob] = tickNow /\ firedAt[tickJob] = tickNow
      /\ tickNow \in Int /\ tickNow # Never
      /\ \A j \in Jobs : j # tickJob => baseline'[j] = baseline[j]
  BY <1>0, DispatcherAssumption DEF ScheduleTypeOK, BaselinesCover, Time, Never
<1>2. BaselinesCover'
  BY <1>0, <1>1 DEF BaselinesCover, Seen, Started
<1> QED
  BY <1>0, <1>2 DEF BacklogCollapses

\* The detection judges a job whose last start it sees by an occurrence after
\* that start.
LEMMA LookStep ==
    ASSUME BacklogInv, NEW j \in Jobs, DetectLooks(j)
    PROVE  BaselinesCover' /\ BacklogCollapses'
<1>0. /\ UNCHANGED <<baseline, firedAt, tickPc, tickNow, tickJob, detNow>>
      /\ detPc = "look" /\ ScheduleTypeOK /\ blind \subseteq blind'
  BY DEF DetectLooks, tickVars, BacklogInv
<1>1. ASSUME detPc' = "mark", Seen(detJob)' PROVE firedAt[detJob'] <= detNow'
  <2>1. /\ detJob' = j /\ Missed(j)
        /\ blind' = IF lastRun[j] < firedAt[j] THEN blind \cup {j} ELSE blind
    BY <1>0, <1>1 DEF DetectLooks
  <2>2. ~(lastRun[j] < firedAt[j]) /\ Sched[j] # {}
    BY <1>1, <2>1 DEF Seen
  <2>3. /\ lastRun[j] \in Int /\ firedAt[j] \in Int /\ detNow \in Int /\ detNow <= MaxTime
        /\ MaxTime \in Int
    BY <1>0, DispatcherAssumption DEF ScheduleTypeOK, Time, Never
  <2>4. NextRun(j, lastRun[j]) \in Int /\ NextRun(j, lastRun[j]) <= detNow
    BY <2>1, <2>3, NextRunFacts DEF Missed
  <2>5. NextRun(j, lastRun[j]) > lastRun[j]
    <3>1. NextRun(j, lastRun[j]) <= MaxTime
      BY <2>3, <2>4
    <3> QED
      BY <2>2, <2>3, <3>1, NextRunFacts
  <2>6. firedAt[j] <= detNow
    BY <2>2, <2>3, <2>4, <2>5
  <2> QED
    BY <1>0, <2>1, <2>6
<1> QED
  BY <1>0, <1>1, DetectionStep

\* The detection moves the baseline of that job past its last start.
LEMMA MarkStep ==
    ASSUME BacklogInv, DetectMarks
    PROVE  BaselinesCover' /\ BacklogCollapses'
<1>0. /\ detPc = "mark" /\ detPc' = "apply"
      /\ baseline' = [baseline EXCEPT ![detJob] = detNow]
      /\ UNCHANGED <<tickPc, tickNow, tickJob, firedAt, blind, detNow, detJob>>
      /\ ScheduleTypeOK /\ BaselinesCover /\ BacklogCollapses
  BY DEF DetectMarks, tickVars, histVars, BacklogInv
<1>1. /\ detJob \in Jobs /\ tickJob \in Jobs /\ baseline'[detJob] = detNow /\ detNow # Never
      /\ \A j \in Jobs : j # detJob => baseline'[j] = baseline[j]
  BY <1>0, DispatcherAssumption DEF ScheduleTypeOK, Time, Never
<1>2. BaselinesCover'
  BY <1>0, <1>1 DEF BaselinesCover, Seen, Started
<1>3. BacklogCollapses'
  BY <1>0 DEF BacklogCollapses
<1> QED
  BY <1>2, <1>3

\* Every step keeps the baselines at or after the starts.
LEMMA StepBaselines ==
    ASSUME BacklogInv, [Next]_vars
    PROVE  BaselinesCover' /\ BacklogCollapses'
<1>1. CASE Tick \/ TickEnds \/ Blocked
  BY <1>1, QuietStep DEF Tick, TickEnds, Blocked, detVars, histVars
<1>2. ASSUME NEW j \in Jobs, Consider(j) PROVE BaselinesCover' /\ BacklogCollapses'
  BY <1>2, ConsiderStep
<1>3. ASSUME NEW w \in Workers, Dispatch(w) PROVE BaselinesCover' /\ BacklogCollapses'
  BY <1>3, StartStep
<1>4. CASE Advance
  BY <1>4, AdvanceStep
<1>5. ASSUME NEW j \in Jobs, DetectLooks(j) PROVE BaselinesCover' /\ BacklogCollapses'
  BY <1>5, LookStep
<1>6. CASE DetectMarks
  BY <1>6, MarkStep
<1>7. CASE DetectBegins \/ DetectEnds \/ DetectApplies \/ CatchUpEnds \/ ServiceStarts
  <2>1. /\ UNCHANGED <<baseline, firedAt, tickPc, tickNow, tickJob, blind>> /\ detPc' # "mark"
    BY <1>7 DEF DetectBegins, DetectEnds, DetectApplies, CatchUpEnds, ServiceStarts, tickVars, histVars
  <2> QED
    BY <2>1, DetectionStep
<1>8. CASE ServiceStops
  <2>1. /\ tickPc' = "idle" /\ detPc' = "off" /\ \A j \in Jobs : firedAt'[j] = Never /\ baseline'[j] = Never
    BY <1>8 DEF ServiceStops
  <2> QED
    BY <2>1 DEF BaselinesCover, BacklogCollapses
<1>9. CASE \/ TimePasses \/ SetSettings
           \/ \E j \in Jobs : RunNow(j) \/ RunNowEnds(j) \/ SetEnabled(j)
           \/ \E w \in Workers : WorkerBegin(w) \/ WorkerRunEnds(w) \/ WorkerLeaves(w)
           \/ UNCHANGED vars
  <2> UNCHANGED scheduleVars
    BY <1>9 DEF TimePasses, SetSettings, RunNow, RunNowEnds, SetEnabled, WorkerBegin, WorkerRunEnds,
                WorkerLeaves, vars, tickVars, detVars, histVars, scheduleVars
  <2> QED
    BY ScheduleKept
<1> QED
  BY <1>1, <1>2, <1>3, <1>4, <1>5, <1>6, <1>7, <1>8, <1>9
     DEF Next, PollLoop, Detection, RunOver, Environment, WorkerStep

\* The baselines cover the starts in every reachable state.
LEMMA BacklogInvariant == Spec => []BacklogInv
<1>1. Init => BacklogInv
  <2> SUFFICES ASSUME Init PROVE BacklogInv
    OBVIOUS
  <2>1. ScheduleTypeOK
    <3>1. /\ NoJob \in Jobs /\ 0 \in Time /\ 0 \in Int /\ Never \in Int
      BY DispatcherAssumption DEF NoJob, Time, Never
    <3> QED
      BY <3>1 DEF Init, ScheduleTypeOK
  <2>2. BaselinesCover /\ BacklogCollapses
    BY DEF Init, BaselinesCover, BacklogCollapses
  <2> QED
    BY <2>1, <2>2 DEF BacklogInv
<1>2. LimitInv /\ BacklogInv /\ [Next]_vars => BacklogInv'
  BY StepSchedule, StepBaselines DEF BacklogInv
<1> QED
  BY <1>1, <1>2, LimitInvariant, PTL DEF Spec

\* However the poll loop and the detection of missed runs interleave, a start
\* is for an occurrence the loop has not started the job for before: the whole
\* backlog counts as caught up after one run (considerJob).
THEOREM BacklogIsOneRun == Spec => []BacklogCollapses
<1>1. BacklogInv => BacklogCollapses
  BY DEF BacklogInv
<1> QED
  BY <1>1, BacklogInvariant, PTL

=============================================================================
