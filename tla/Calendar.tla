------------------------------ MODULE Calendar ------------------------------
(***************************************************************************)
(* When a schedule comes due: scheduler/nextrun.go and domain/schedule.go, *)
(* with the dispatcher's use of NextRun (considerJob) walking a schedule   *)
(* from occurrence to occurrence.                                          *)
(*                                                                         *)
(* Time is counted in slots of the day, from the first day of a window of  *)
(* months.  An instant and what the clock on the wall shows at it differ   *)
(* while daylight saving time is in force: one slot of the wall clock is   *)
(* skipped when it begins and one is repeated when it ends.  A zone has    *)
(* any number of such summers.  Hour and minute of a schedule are one      *)
(* slot; the package time and the library of cron expressions are external *)
(* and modelled by what the code asks of them.                             *)
(***************************************************************************)
EXTENDS Integers, FiniteSets

CONSTANTS
    FirstYear, FirstMonth, FirstWeekday,  \* the first day of the window
    Months,      \* months in the window
    Slots,       \* slots of a day
    Schedules,   \* schedules users may have made
    Zones,       \* time zones of the host
    MaxDelay     \* bound on how late a tick comes

ASSUME CalendarAssumption ==
    /\ FirstYear \in Nat /\ FirstMonth \in 1..12 /\ FirstWeekday \in 0..6
    /\ Months \in Nat \ {0} /\ Slots \in Nat \ {0} /\ MaxDelay \in 0..(Slots - 1)

-----------------------------------------------------------------------------
(* External: the calendar of package time *)

IsLeap(year) == year % 4 = 0 /\ (year % 100 # 0 \/ year % 400 = 0)

DaysIn(year, month) ==
    IF month = 2 THEN IF IsLeap(year) THEN 29 ELSE 28
    ELSE IF month \in {4, 6, 9, 11} THEN 30 ELSE 31

\* The months of the window and one more are numbered from 0.
YearOf(k) == FirstYear + (FirstMonth - 1 + k) \div 12
MonthOf(k) == 1 + ((FirstMonth - 1 + k) % 12)
IndexOf(year, month) == (year - FirstYear) * 12 + month - FirstMonth

\* Days since an epoch: whole years, their leap days, and the months before.
LeapsBefore(year) == (year - 1) \div 4 - (year - 1) \div 100 + (year - 1) \div 400
DaysBefore == <<0, 31, 59, 90, 120, 151, 181, 212, 243, 273, 304, 334>>
DayNumber(year, month) ==
    365 * year + LeapsBefore(year) + DaysBefore[month] + IF month > 2 /\ IsLeap(year) THEN 1 ELSE 0

FirstDay(k) == DayNumber(YearOf(k), MonthOf(k)) - DayNumber(FirstYear, FirstMonth)

Days == 0..(FirstDay(Months + 2) - 1)
MonthAt == [d \in Days |-> CHOOSE k \in 0..(Months + 1) : FirstDay(k) <= d /\ d < FirstDay(k + 1)]
Weekday(d) == (FirstWeekday + d) % 7
DayOfMonth(d) == d - FirstDay(MonthAt[d]) + 1

\* The last instant of the window; what lies beyond it is not asked for.
Horizon == FirstDay(Months) * Slots - 1

\* Go's zero time, and no occurrence yet.
ZeroTime == -1
Never == -2

\* From instant begins of a summer on the wall clock is one slot ahead, until
\* instant ends.
Wall(zone, i) == IF \E s \in zone.summers : s.begins <= i /\ i < s.ends THEN i + 1 ELSE i

\* The wall clock shows such a time twice or not at all.
Changed(zone, w) == \E s \in zone.summers : w \in {s.begins, s.ends}

\* time.Date: a time that was skipped or is repeated is read with the standard
\* offset east of Greenwich and with the other one west of it; its
\* documentation leaves open which.
Date(zone, w) ==
    IF (\E s \in zone.summers : s.begins <= w /\ w <= s.ends) /\ ~(Changed(zone, w) /\ zone.east)
    THEN w - 1 ELSE w

DayAt(zone, i) == Wall(zone, i) \div Slots
SlotAt(zone, i) == Wall(zone, i) % Slots

\* Summers are apart, and no change of the clock touches midnight.
ASSUME ZonesAssumption ==
    \A z \in Zones :
        /\ z.east \in BOOLEAN /\ z.summers \subseteq [begins : Int, ends : Int]
        /\ \A s \in z.summers :
              s.begins < s.ends /\ s.begins % Slots \notin {0, Slots - 1} /\ s.ends % Slots # 0
        /\ \A s, t \in z.summers : s # t => s.ends < t.begins \/ t.ends < s.begins

-----------------------------------------------------------------------------
(* Schedules *)

\* Schedule.Validate, for schedules whose cron expression the parser takes.
Validate(s) ==
    /\ s.type \in {"MANUAL", "DAILY", "WEEKLY", "MONTHLY", "CRON"}
    /\ s.type \in {"DAILY", "WEEKLY", "MONTHLY"} => s.hour \in 0..(Slots - 1)
    /\ s.type = "WEEKLY" => s.weekdays # {}
    /\ s.type = "MONTHLY" => s.day \in 1..31

\* A cron expression: fields are sets, a star is the set of all values.
AnyDay == 1..31
AnyMonth == 1..12
AnyWeekday == 0..6
Spec5(hours, days, months, weekdays) ==
    [hours |-> hours, days |-> days, months |-> months, weekdays |-> weekdays]

\* External: a day of the month and a weekday that are both given are
\* alternatives.
DayMatches(spec, d) ==
    LET inMonth == DayOfMonth(d) \in spec.days
        inWeek == Weekday(d) \in spec.weekdays
    IN  /\ MonthOf(MonthAt[d]) \in spec.months
        /\ IF spec.days = AnyDay \/ spec.weekdays = AnyWeekday THEN inMonth /\ inWeek
           ELSE inMonth \/ inWeek

\* The instants of day d after a given one that match.
Times(zone, spec, after, d) ==
    {i \in (d * Slots - 1)..((d + 1) * Slots) :
        i > after /\ DayAt(zone, i) = d /\ SlotAt(zone, i) \in spec.hours}

Due(zone, spec, after, d) == DayMatches(spec, d) /\ Times(zone, spec, after, d) # {}

\* External: the search gives up after five years, which a 30 February never
\* meets and a 29 February misses when a century is no leap year.
NeverDue(zone, spec, after) ==
    LET today == DayAt(zone, after)
        year == YearOf(MonthAt[today])
    IN  /\ spec.weekdays = AnyWeekday
        /\ \A y \in year..(year + 5), m \in spec.months, day \in spec.days :
              day <= DaysIn(y, m) =>
                LET d == FirstDay(IndexOf(y, m)) + day - 1
                IN  d < today \/ (d = today /\ Times(zone, spec, after, d) = {})

\* External: the first instant after a time whose wall clock matches; a time
\* beyond the window if it is there, the zero time if the search finds none.
CronNext(zone, spec, after) ==
    LET days == DayAt(zone, after)..(FirstDay(Months) - 1)
        due(d) == Due(zone, spec, after, d)
        first == CHOOSE d \in days : due(d) /\ \A e \in days : e < d => ~due(e)
        times == Times(zone, spec, after, first)
    IN  IF \E d \in days : due(d) THEN CHOOSE i \in times : \A j \in times : i <= j
        ELSE IF NeverDue(zone, spec, after) THEN ZeroTime
        ELSE Horizon + 1

\* The day before the first of the next month.
lastDayOfMonth(year, month) == DayOfMonth(FirstDay(IndexOf(year, month + 1)) - 1)

\* Mutant: the day is left to time.Date, which goes on into the next month.
monthlyOccurrence_noClamp(zone, year, month, day, hour) ==
    Date(zone, (FirstDay(IndexOf(year, month)) + day - 1) * Slots + hour)

monthlyOccurrence(zone, year, month, day, hour) ==
    LET last == lastDayOfMonth(year, month)
    IN  Date(zone, (FirstDay(IndexOf(year, month)) + (IF day > last THEN last ELSE day) - 1) * Slots + hour)

\* Mutant: the year stays.
following_sameYear(year, month) == IF month + 1 > 12 THEN <<year, 1>> ELSE <<year, month + 1>>

following(year, month) == IF month + 1 > 12 THEN <<year + 1, 1>> ELSE <<year, month + 1>>

nextMonthly(zone, s, after) ==
    LET k == MonthAt[DayAt(zone, after)]
        candidate == monthlyOccurrence(zone, YearOf(k), MonthOf(k), s.day, s.hour)
        next == following(YearOf(k), MonthOf(k))
    IN  IF candidate > after THEN candidate
        ELSE monthlyOccurrence(zone, next[1], next[2], s.day, s.hour)

\* NextRun for the schedules that have a next run at all.
NextRun(zone, s, after) ==
    IF s.type = "MONTHLY" THEN nextMonthly(zone, s, after)
    ELSE CronNext(zone,
           IF s.type = "DAILY" THEN Spec5({s.hour}, AnyDay, AnyMonth, AnyWeekday)
           ELSE IF s.type = "WEEKLY" THEN Spec5({s.hour}, AnyDay, AnyMonth, s.weekdays)
           ELSE s.spec, after)

IsAutomatic(s) == s.type # "MANUAL"

-----------------------------------------------------------------------------
(* A job that is dispatched whenever it comes due *)

VARIABLES
    zone, schedule,
    after,   \* the dispatcher's scheduledUpTo of the job
    last     \* the occurrence that started the job last

vars == <<zone, schedule, after, last>>

\* The first tick sets the baseline, at any time of the first month.
Init ==
    /\ zone \in Zones
    /\ schedule \in {s \in Schedules : Validate(s)}
    /\ after \in 0..(FirstDay(1) * Slots - 1)
    /\ last = Never

\* considerJob: the first tick at or after the next occurrence starts the job
\* and moves the baseline to its own time.
Start ==
    /\ IsAutomatic(schedule)
    /\ LET next == NextRun(zone, schedule, after)
       IN  /\ \E delay \in 0..MaxDelay :
                 after' = (IF next > after THEN next ELSE after) + delay
           /\ after' <= Horizon
           /\ last' = next
    /\ UNCHANGED <<zone, schedule>>

Next == Start

Spec == Init /\ [][Next]_vars

-----------------------------------------------------------------------------
(* Properties *)

\* What a schedule means, said of the wall clock at an instant.  In a month
\* without the day it is the last of the month.
MeantFor(s, d) ==
    CASE s.type = "DAILY" -> TRUE
      [] s.type = "WEEKLY" -> Weekday(d) \in s.weekdays
      [] s.type = "MONTHLY" ->
             \/ DayOfMonth(d) = s.day
             \/ DayOfMonth(d) < s.day /\ MonthAt[d + 1] # MonthAt[d]

\* The clock does not change on the day.
Steady(d) == \A s \in zone.summers : d \notin {s.begins \div Slots, s.ends \div Slots}

Timed == schedule.type \in {"DAILY", "WEEKLY", "MONTHLY"}

\* On days without a change of the clock the next run is at the first time
\* after the given one that the schedule means: on a day it means, at its
\* hour, and no such time is passed over, at ends of months and years and
\* in leap years too (NextRun, nextMonthly).  Only for a cron expression that
\* comes due in none of the next five years is the next run not after the given
\* time, but the zero time, which makes the job due at every tick
\* (nextFromCronSpec).
NextIsFirst ==
    LET next == NextRun(zone, schedule, after)
        day == DayAt(zone, next)
    IN  /\ IsAutomatic(schedule) /\ ~(schedule.type = "CRON" /\ NeverDue(zone, schedule.spec, after)) => next > after
        /\ Timed /\ next <= Horizon =>
              /\ MeantFor(schedule, day)
              /\ Steady(day) => SlotAt(zone, next) = schedule.hour
              /\ \A d \in DayAt(zone, after)..day :
                    Steady(d) /\ MeantFor(schedule, d) =>
                        LET at == Date(zone, d * Slots + schedule.hour) IN at <= after \/ at >= next

\* A monthly job starts once in every month, also when the clock is changed at
\* its hour (monthlyOccurrence, time.Date).
EveryMonth ==
    [][schedule.type = "MONTHLY" /\ last # Never =>
          MonthAt[DayAt(zone, last')] = MonthAt[DayAt(zone, last)] + 1]_vars

-----------------------------------------------------------------------------
(* Inductive invariant behind them (CalendarProofs) *)

\* The occurrence of a monthly schedule in the month with number k.
Occurrence(k) == monthlyOccurrence(zone, YearOf(k), MonthOf(k), schedule.day, schedule.hour)

\* A monthly job was started last for the occurrence of some month, by a tick less
\* than a day later.
CalendarInv ==
    /\ zone \in Zones /\ schedule \in {s \in Schedules : Validate(s)} /\ after \in 0..Horizon
    /\ schedule.type = "MONTHLY" /\ last # Never =>
          \E k \in 0..Months : last = Occurrence(k) /\ last <= after /\ after < last + Slots

=============================================================================
