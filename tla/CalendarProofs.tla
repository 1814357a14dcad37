--------------------------- MODULE CalendarProofs ---------------------------
(***************************************************************************)
(* Proofs about module Calendar: the next run is the first time that a     *)
(* schedule means, and a monthly job starts once in every month, for any   *)
(* window of months, any slots of a day, any time zones whose clock does   *)
(* not change at midnight and any schedules.                               *)
(***************************************************************************)
EXTENDS Calendar, WellFoundedInduction, TLAPS

-----------------------------------------------------------------------------
(* Months and days *)

\* Types of the constants.
LEMMA ConstantTypes ==
    /\ FirstYear \in Int /\ FirstYear >= 0 /\ FirstMonth \in Int /\ 1 <= FirstMonth /\ FirstMonth <= 12
    /\ Months \in Int /\ Months >= 1 /\ Slots \in Int /\ Slots >= 1
    /\ FirstWeekday \in Int /\ MaxDelay \in Int /\ 0 <= MaxDelay /\ MaxDelay < Slots
BY CalendarAssumption

\* A number of months since the first one is a year and a month ...
LEMMA MonthTypes ==
    ASSUME NEW k \in Int
    PROVE  YearOf(k) \in Int /\ MonthOf(k) \in 1..12 /\ IndexOf(YearOf(k), MonthOf(k)) = k
BY ConstantTypes DEF YearOf, MonthOf, IndexOf

\* ... and the month after it is the next one of the year or the first of the
\* next.
LEMMA NextMonth ==
    ASSUME NEW k \in Int
    PROVE  IF MonthOf(k) = 12 THEN YearOf(k + 1) = YearOf(k) + 1 /\ MonthOf(k + 1) = 1
           ELSE YearOf(k + 1) = YearOf(k) /\ MonthOf(k + 1) = MonthOf(k) + 1
BY ConstantTypes DEF YearOf, MonthOf

\* following is the next month.
LEMMA FollowingMonth ==
    ASSUME NEW k \in Int
    PROVE  /\ following(YearOf(k), MonthOf(k)) = <<YearOf(k + 1), MonthOf(k + 1)>>
           /\ IndexOf(YearOf(k), MonthOf(k) + 1) = k + 1
<1>1. IndexOf(YearOf(k), MonthOf(k) + 1) = k + 1
  BY ConstantTypes DEF YearOf, MonthOf, IndexOf
<1> QED
  BY <1>1, MonthTypes, NextMonth DEF following

\* One leap day in a leap year and none in another.
LEMMA LeapDays ==
    ASSUME NEW y \in Int
    PROVE  LeapsBefore(y) \in Int /\ LeapsBefore(y + 1) = LeapsBefore(y) + IF IsLeap(y) THEN 1 ELSE 0
BY DEF LeapsBefore, IsLeap

\* The table of package time has the lengths of the months.
LEMMA TableOfDays ==
    ASSUME NEW y \in Int, NEW m \in 1..12
    PROVE  /\ DaysBefore[m] \in Int /\ DaysIn(y, m) \in 28..31
           /\ m < 12 => DaysBefore[m + 1] + (IF m + 1 > 2 /\ IsLeap(y) THEN 1 ELSE 0)
                          = DaysBefore[m] + (IF m > 2 /\ IsLeap(y) THEN 1 ELSE 0) + DaysIn(y, m)
           /\ DaysBefore[1] = 0 /\ DaysBefore[12] + DaysIn(y, 12) = 365
BY DEF DaysBefore, DaysIn

\* Days are numbered by integers.
LEMMA DayNumberType ==
    /\ \A y \in Int, m \in 1..12 : DayNumber(y, m) \in Int
    /\ DayNumber(FirstYear, FirstMonth) \in Int
<1>1. ASSUME NEW y \in Int, NEW m \in 1..12 PROVE DayNumber(y, m) \in Int
  <2>1. LeapsBefore(y) \in Int /\ DaysBefore[m] \in Int
    BY LeapDays, TableOfDays
  <2> QED
    BY <2>1 DEF DayNumber
<1>2. FirstYear \in Int /\ FirstMonth \in 1..12
  BY ConstantTypes
<1> QED
  BY <1>1, <1>2

\* A month is as long as DaysIn says.
LEMMA MonthLength ==
    ASSUME NEW k \in Int
    PROVE  FirstDay(k) \in Int /\ FirstDay(k + 1) = FirstDay(k) + DaysIn(YearOf(k), MonthOf(k))
<1> DEFINE y == YearOf(k)
           m == MonthOf(k)
<1>1. y \in Int /\ m \in 1..12 /\ YearOf(k + 1) \in Int /\ MonthOf(k + 1) \in 1..12
  BY MonthTypes
<1>2. DayNumber(FirstYear, FirstMonth) \in Int
  BY DayNumberType
<1>3. DayNumber(y, m) \in Int /\ DayNumber(YearOf(k + 1), MonthOf(k + 1)) \in Int
  <2> HIDE DEF y, m
  <2> QED
    BY <1>1, DayNumberType
<1>n. DaysIn(y, m) \in Int
  <2>1. DaysIn(y, m) \in 28..31
    BY <1>1, TableOfDays
  <2> QED
    BY <2>1
<1>4. CASE m = 12
  <2>1. YearOf(k + 1) = y + 1 /\ MonthOf(k + 1) = 1
    BY <1>4, NextMonth
  <2>2. DayNumber(y + 1, 1) = DayNumber(y, 12) + DaysIn(y, 12)
    <3>1. DaysBefore[1] = 0 /\ DaysBefore[12] \in Int /\ DaysIn(y, 12) = 365 - DaysBefore[12]
      BY <1>1, TableOfDays
    <3>2. LeapsBefore(y) \in Int /\ LeapsBefore(y + 1) = LeapsBefore(y) + IF IsLeap(y) THEN 1 ELSE 0
      BY <1>1, LeapDays
    <3> QED
      BY <1>1, <3>1, <3>2 DEF DayNumber
  <2> QED
    BY <1>2, <1>3, <1>4, <1>n, <2>1, <2>2 DEF FirstDay
<1>5. CASE m # 12
  <2>1. YearOf(k + 1) = y /\ MonthOf(k + 1) = m + 1
    BY <1>5, NextMonth
  <2>2. DayNumber(y, m + 1) = DayNumber(y, m) + DaysIn(y, m)
    <3>1. /\ DaysBefore[m] \in Int /\ DaysBefore[m + 1] \in Int /\ DaysIn(y, m) \in Int
          /\ DaysBefore[m + 1] + (IF m + 1 > 2 /\ IsLeap(y) THEN 1 ELSE 0)
               = DaysBefore[m] + (IF m > 2 /\ IsLeap(y) THEN 1 ELSE 0) + DaysIn(y, m)
      BY <1>1, <1>5, TableOfDays
    <3>2. LeapsBefore(y) \in Int
      BY <1>1, LeapDays
    <3> QED
      BY <1>1, <3>1, <3>2 DEF DayNumber
  <2> QED
    BY <1>2, <1>3, <1>n, <2>1, <2>2 DEF FirstDay
<1> QED
  BY <1>4, <1>5

\* Later years have at least as many leap days before them.
LEMMA LeapDaysGrow ==
    ASSUME NEW y \in Int, NEW z \in Int, y <= z
    PROVE  LeapsBefore(y) <= LeapsBefore(z)
BY DEF LeapsBefore

\* Later months begin later.
LEMMA MonthsInOrder ==
    ASSUME NEW i \in Int, NEW k \in Int, i <= k
    PROVE  FirstDay(i) <= FirstDay(k)
<1> DEFINE y == YearOf(i)
           m == MonthOf(i)
           z == YearOf(k)
           n == MonthOf(k)
<1>1. y \in Int /\ m \in 1..12 /\ z \in Int /\ n \in 1..12
  BY MonthTypes
<1>2. y < z \/ (y = z /\ m <= n)
  BY ConstantTypes DEF YearOf, MonthOf
<1>3. /\ DayNumber(y, m) \in Int /\ DayNumber(z, n) \in Int
      /\ DayNumber(FirstYear, FirstMonth) \in Int
  <2> HIDE DEF y, m, z, n
  <2> QED
    BY <1>1, DayNumberType
<1>4. CASE y = z /\ m <= n
  <2>1. DaysBefore[m] \in Int /\ DaysBefore[n] \in Int /\ DaysBefore[m] <= DaysBefore[n]
    BY <1>1, <1>4 DEF DaysBefore
  <2>2. DayNumber(y, m) <= DayNumber(y, n)
    BY <1>1, <1>4, <2>1, LeapDays DEF DayNumber
  <2> QED
    BY <1>3, <1>4, <2>2 DEF FirstDay
<1>5. CASE y < z
  <2>1. DaysBefore[m] \in Int /\ DaysBefore[n] \in Int /\ DaysBefore[m] <= 334 /\ DaysBefore[n] >= 0
    BY <1>1 DEF DaysBefore
  <2>2. LeapsBefore(y) \in Int /\ LeapsBefore(z) \in Int /\ LeapsBefore(y) <= LeapsBefore(z)
    BY <1>1, <1>5, LeapDays, LeapDaysGrow
  <2>3. DayNumber(y, m) <= DayNumber(z, n)
    BY <1>1, <1>5, <2>1, <2>2 DEF DayNumber
  <2> QED
    BY <1>3, <2>3 DEF FirstDay
<1> QED
  BY <1>2, <1>4, <1>5

\* The window begins with day 0 and has a day.
LEMMA WindowTypes ==
    /\ FirstDay(0) = 0 /\ FirstDay(Months) \in Int /\ FirstDay(Months) >= 28
    /\ Horizon \in Int /\ Horizon >= 0
<1>1. FirstDay(0) = 0
  <2>1. YearOf(0) = FirstYear /\ MonthOf(0) = FirstMonth
    BY ConstantTypes DEF YearOf, MonthOf
  <2>2. DayNumber(FirstYear, FirstMonth) \in Int
    BY DayNumberType
  <2> QED
    BY <2>1, <2>2 DEF FirstDay
<1>2. FirstDay(1) >= 28 /\ FirstDay(1) \in Int
  <2>1. YearOf(0) \in Int /\ MonthOf(0) \in 1..12
    BY MonthTypes
  <2>2. DaysIn(YearOf(0), MonthOf(0)) \in 28..31
    BY <2>1, TableOfDays
  <2>3. FirstDay(0 + 1) = FirstDay(0) + DaysIn(YearOf(0), MonthOf(0))
    BY MonthLength
  <2> QED
    BY <1>1, <2>2, <2>3
<1>3. FirstDay(Months) \in Int /\ FirstDay(1) <= FirstDay(Months)
  BY ConstantTypes, MonthLength, MonthsInOrder
<1>4. \A n, s \in Int : n >= 28 /\ s >= 1 => n * s - 1 \in Int /\ n * s - 1 >= 0
  OBVIOUS
<1> QED
  BY <1>1, <1>2, <1>3, <1>4, ConstantTypes DEF Horizon

\* Every day of the window and of the two months after it has its month.
LEMMA MonthOfDay ==
    ASSUME NEW d \in Days
    PROVE  /\ MonthAt[d] \in 0..(Months + 1)
           /\ FirstDay(MonthAt[d]) <= d /\ d < FirstDay(MonthAt[d] + 1)
<1> DEFINE T == {k \in Nat : d < FirstDay(k + 1)}
<1>0. d \in Nat /\ d < FirstDay(Months + 2) /\ Months + 2 \in Int /\ Months + 1 \in Nat
  <2>1. Months + 2 \in Int /\ Months + 1 \in Nat
    BY ConstantTypes
  <2>2. FirstDay(Months + 2) \in Int
    BY <2>1, MonthLength
  <2> QED
    BY <2>1, <2>2 DEF Days
<1>1. Months + 1 \in T
  <2>1. (Months + 1) + 1 = Months + 2
    BY ConstantTypes
  <2> QED
    BY <1>0, <2>1
<1>2. PICK k \in T : \A i \in T : ~(<<i, k>> \in OpToRel(<, Nat))
  <2>1. T \subseteq Nat /\ T # {}
    BY <1>1
  <2> QED
    BY <2>1, NatLessThanWellFounded, WFMin
<1>3. k \in Nat /\ k <= Months + 1 /\ d < FirstDay(k + 1)
  <2>1. k \in Nat /\ d < FirstDay(k + 1)
    OBVIOUS
  <2>2. ~(Months + 1 < k)
    BY <1>0, <1>1, <1>2, <2>1 DEF OpToRel
  <2> QED
    BY <1>0, <2>1, <2>2
<1>4. FirstDay(k) <= d
  <2>1. CASE k = 0
    BY <1>0, <2>1, WindowTypes
  <2>2. CASE k # 0
    <3>1. k - 1 \in Nat /\ (k - 1) + 1 = k /\ k - 1 < k
      BY <1>3, <2>2
    <3>2. k - 1 \notin T
      BY <1>2, <1>3, <3>1 DEF OpToRel
    <3>3. FirstDay(k) \in Int
      BY <1>3, MonthLength
    <3> QED
      BY <1>0, <3>1, <3>2, <3>3
  <2> QED
    BY <2>1, <2>2
<1>5. \E i \in 0..(Months + 1) : FirstDay(i) <= d /\ d < FirstDay(i + 1)
  BY <1>0, <1>3, <1>4
<1>6. MonthAt[d] = CHOOSE i \in 0..(Months + 1) : FirstDay(i) <= d /\ d < FirstDay(i + 1)
  BY DEF MonthAt
<1> QED
  BY <1>5, <1>6

\* And no other one.
LEMMA OneMonth ==
    ASSUME NEW d \in Int, NEW k \in Int, 0 <= k, k <= Months + 1, FirstDay(k) <= d, d < FirstDay(k + 1)
    PROVE  d \in Days /\ MonthAt[d] = k
<1>0. Months \in Int /\ FirstDay(k) \in Int /\ FirstDay(k + 1) \in Int /\ FirstDay(Months + 2) \in Int
  BY ConstantTypes, MonthLength
<1>1. d \in Days
  <2>1. FirstDay(0) = 0 /\ FirstDay(0) <= FirstDay(k) /\ FirstDay(k + 1) <= FirstDay(Months + 2)
    BY <1>0, WindowTypes, MonthsInOrder
  <2> QED
    BY <1>0, <2>1 DEF Days
<1>2. MonthAt[d] \in Int /\ FirstDay(MonthAt[d]) <= d /\ d < FirstDay(MonthAt[d] + 1)
  BY <1>0, <1>1, MonthOfDay
<1>3. FirstDay(MonthAt[d]) \in Int /\ FirstDay(MonthAt[d] + 1) \in Int
  BY <1>2, MonthLength
<1>4. ~(MonthAt[d] + 1 <= k)
  BY <1>0, <1>2, <1>3, MonthsInOrder
<1>5. ~(k + 1 <= MonthAt[d])
  BY <1>0, <1>2, <1>3, MonthsInOrder
<1> QED
  BY <1>1, <1>2, <1>4, <1>5

\* lastDayOfMonth is the length of the month.
LEMMA LastDay ==
    ASSUME NEW k \in 0..(Months + 1)
    PROVE  lastDayOfMonth(YearOf(k), MonthOf(k)) = DaysIn(YearOf(k), MonthOf(k))
<1>0. k \in Int /\ Months \in Int /\ FirstDay(k) \in Int /\ FirstDay(k + 1) \in Int
  BY ConstantTypes, MonthLength
<1>1. /\ FirstDay(k + 1) = FirstDay(k) + DaysIn(YearOf(k), MonthOf(k))
      /\ DaysIn(YearOf(k), MonthOf(k)) \in 28..31
  BY <1>0, MonthLength, MonthTypes, TableOfDays
<1>2. MonthAt[FirstDay(k + 1) - 1] = k
  BY <1>0, <1>1, OneMonth
<1>3. IndexOf(YearOf(k), MonthOf(k) + 1) = k + 1
  BY <1>0, FollowingMonth
<1> QED
  BY <1>0, <1>1, <1>2, <1>3 DEF lastDayOfMonth, DayOfMonth

-----------------------------------------------------------------------------
(* Instants and the wall clock *)

\* A time is a day and a slot of it ...
LEMMA DaySlot ==
    ASSUME NEW a \in Int
    PROVE  /\ a \div Slots \in Int /\ a % Slots \in Int /\ 0 <= a % Slots /\ a % Slots < Slots
           /\ a = (a \div Slots) * Slots + (a % Slots)
<1>1. Slots \in Nat \ {0}
  BY ConstantTypes
<1> QED
  BY <1>1

\* ... in one way.
LEMMA OneDaySlot ==
    ASSUME NEW q \in Int, NEW r \in Int, 0 <= r, r < Slots
    PROVE  q * Slots + r \in Int /\ (q * Slots + r) \div Slots = q /\ (q * Slots + r) % Slots = r
<1>1. Slots \in Nat \ {0}
  BY ConstantTypes
<1> QED
  BY <1>1

\* A later time is on the same day or a later one.
LEMMA DaysInOrder ==
    ASSUME NEW a \in Int, NEW b \in Int, a <= b
    PROVE  a \div Slots <= b \div Slots
<1>1. Slots \in Nat \ {0}
  BY ConstantTypes
<1> QED
  BY <1>1

\* What is assumed of a summer.
LEMMA SummerFacts ==
    ASSUME NEW z \in Zones, NEW s \in z.summers
    PROVE  /\ s.begins \in Int /\ s.ends \in Int /\ s.begins < s.ends
           /\ s.begins % Slots # 0 /\ s.begins % Slots # Slots - 1 /\ s.ends % Slots # 0
           /\ \A t \in z.summers : s # t => s.ends < t.begins \/ t.ends < s.begins
<1>1. s \in [begins : Int, ends : Int]
  BY ZonesAssumption
<1> QED
  BY <1>1, ZonesAssumption

\* The wall clock is at most one slot ahead ...
LEMMA WallFacts ==
    ASSUME NEW z, NEW i \in Int
    PROVE  Wall(z, i) \in Int /\ i <= Wall(z, i) /\ Wall(z, i) <= i + 1
BY DEF Wall

\* ... so a later instant shows no earlier time ...
LEMMA WallInOrder ==
    ASSUME NEW z, NEW i \in Int, NEW j \in Int, i <= j
    PROVE  Wall(z, i) <= Wall(z, j)
<1>1. CASE i = j
  BY <1>1, WallFacts
<1>2. CASE i < j
  BY <1>2, WallFacts
<1> QED
  BY <1>1, <1>2

\* ... and no earlier day.
LEMMA DayTypes ==
    ASSUME NEW z, NEW i \in Int
    PROVE  DayAt(z, i) \in Int /\ \A j \in Int : i <= j => DayAt(z, i) <= DayAt(z, j)
BY WallFacts, WallInOrder, DaySlot, DaysInOrder DEF DayAt

\* The neighbours of a slot are on its day unless midnight is between them.
LEMMA SameDay ==
    ASSUME NEW w \in Int
    PROVE  /\ w % Slots # 0 => (w - 1) \div Slots = w \div Slots
           /\ w % Slots # Slots - 1 => (w + 1) \div Slots = w \div Slots
<1> DEFINE q == w \div Slots
           r == w % Slots
<1>0. q \in Int /\ r \in Int /\ 0 <= r /\ r < Slots /\ w = q * Slots + r /\ Slots \in Int /\ q * Slots \in Int
  BY DaySlot, ConstantTypes
<1> HIDE DEF q, r
<1>1. ASSUME r # 0 PROVE (w - 1) \div Slots = q
  <2>1. r - 1 \in Int /\ 0 <= r - 1 /\ r - 1 < Slots /\ w - 1 = q * Slots + (r - 1)
    BY <1>0, <1>1
  <2> QED
    BY <1>0, <2>1, OneDaySlot
<1>2. ASSUME r # Slots - 1 PROVE (w + 1) \div Slots = q
  <2>1. r + 1 \in Int /\ 0 <= r + 1 /\ r + 1 < Slots /\ w + 1 = q * Slots + (r + 1)
    BY <1>0, <1>2
  <2> QED
    BY <1>0, <2>1, OneDaySlot
<1> QED
  BY <1>1, <1>2 DEF q, r

\* time.Date returns an instant of the day asked for, and unless the clock is
\* changed then, one at which the clock shows the time asked for.
LEMMA DateFacts ==
    ASSUME NEW z \in Zones, NEW w \in Int
    PROVE  /\ Date(z, w) \in {w - 1, w} /\ Date(z, w) \in Int
           /\ DayAt(z, Date(z, w)) = w \div Slots
           /\ ~Changed(z, w) => Wall(z, Date(z, w)) = w
<1> DEFINE In(s) == s.begins <= w /\ w <= s.ends
<1>0. Date(z, w) \in {w - 1, w} /\ Date(z, w) \in Int
  BY DEF Date
<1>1. CASE ~\E s \in z.summers : In(s)
  <2>1. Date(z, w) = w
    BY <1>1 DEF Date
  <2>2. ~\E s \in z.summers : s.begins <= w /\ w < s.ends
    BY <1>1, SummerFacts
  <2>3. Wall(z, w) = w
    BY <2>2 DEF Wall
  <2> QED
    BY <1>0, <2>1, <2>3 DEF DayAt
<1>2. ASSUME NEW s \in z.summers, In(s)
      PROVE  /\ DayAt(z, Date(z, w)) = w \div Slots
             /\ ~Changed(z, w) => Wall(z, Date(z, w)) = w
  <2>0. /\ s.begins \in Int /\ s.ends \in Int /\ s.begins < s.ends
        /\ s.begins % Slots # 0 /\ s.begins % Slots # Slots - 1
    BY SummerFacts
  <2>1. CASE w = s.begins /\ z.east
    <3>1. Date(z, w) = w /\ Changed(z, w)
      BY <2>1 DEF Date, Changed
    <3>2. Wall(z, w) = w + 1
      BY <2>0, <2>1 DEF Wall
    <3>3. (w + 1) \div Slots = w \div Slots
      BY <2>0, <2>1, SameDay
    <3> QED
      BY <3>1, <3>2, <3>3 DEF DayAt
  <2>2. CASE w = s.begins /\ ~z.east
    <3>1. Date(z, w) = w - 1 /\ Changed(z, w)
      BY <1>2, <2>2 DEF Date, Changed
    <3>2. ASSUME NEW t \in z.summers, t.begins <= w - 1, w - 1 < t.ends PROVE FALSE
      <4>1. t.begins \in Int /\ t.ends \in Int /\ (s # t => s.ends < t.begins \/ t.ends < s.begins)
        BY SummerFacts
      <4> QED
        BY <2>0, <2>2, <3>2, <4>1
    <3>3. Wall(z, w - 1) = w - 1
      BY <3>2 DEF Wall
    <3>4. (w - 1) \div Slots = w \div Slots
      BY <2>0, <2>2, SameDay
    <3> QED
      BY <3>1, <3>3, <3>4 DEF DayAt
  <2>3. CASE w = s.ends /\ z.east
    <3>1. Date(z, w) = w
      BY <2>3 DEF Date, Changed
    <3>2. ASSUME NEW t \in z.summers, t.begins <= w, w < t.ends PROVE FALSE
      <4>1. t.begins \in Int /\ t.ends \in Int /\ (s # t => s.ends < t.begins \/ t.ends < s.begins)
        BY SummerFacts
      <4> QED
        BY <2>0, <2>3, <3>2, <4>1
    <3>3. Wall(z, w) = w
      BY <3>2 DEF Wall
    <3> QED
      BY <3>1, <3>3 DEF DayAt
  <2>4. CASE w # s.begins /\ ~(w = s.ends /\ z.east)
    <3>1. Date(z, w) = w - 1
      <4>1. ASSUME Changed(z, w), z.east PROVE FALSE
        <5>1. PICK t \in z.summers : w \in {t.begins, t.ends}
          BY <4>1 DEF Changed
        <5>2. /\ t.begins \in Int /\ t.ends \in Int /\ t.begins < t.ends
              /\ (s # t => s.ends < t.begins \/ t.ends < s.begins)
          BY SummerFacts
        <5> QED
          BY <1>2, <2>0, <2>4, <4>1, <5>1, <5>2
      <4> QED
        BY <1>2, <4>1 DEF Date
    <3>2. s.begins <= w - 1 /\ w - 1 < s.ends
      BY <1>2, <2>0, <2>4
    <3>3. Wall(z, w - 1) = w
      BY <3>2 DEF Wall
    <3> QED
      BY <3>1, <3>3 DEF DayAt
  <2> QED
    BY <2>1, <2>2, <2>3, <2>4
<1> QED
  BY <1>0, <1>1, <1>2

\* An instant on a later day is later.
LEMMA LaterDay ==
    ASSUME NEW z, NEW i \in Int, NEW j \in Int, DayAt(z, i) < DayAt(z, j)
    PROVE  i < j
BY DayTypes

-----------------------------------------------------------------------------
(* Monthly schedules *)

\* The day of month k that a monthly schedule means.
MonthlyDay(k, day) ==
    FirstDay(k) + (IF day > DaysIn(YearOf(k), MonthOf(k)) THEN DaysIn(YearOf(k), MonthOf(k)) ELSE day) - 1

\* It is a day of that month, late in it if the month is too short.
LEMMA MonthlyDayFacts ==
    ASSUME NEW k \in Int, 0 <= k, k <= Months + 1, NEW day \in 1..31
    PROVE  /\ MonthlyDay(k, day) \in Int
           /\ FirstDay(k) <= MonthlyDay(k, day) /\ MonthlyDay(k, day) < FirstDay(k + 1)
           /\ MonthlyDay(k, day) \in Days /\ MonthAt[MonthlyDay(k, day)] = k
<1>0. Months \in Int /\ FirstDay(k) \in Int
  BY ConstantTypes, MonthLength
<1>1. /\ FirstDay(k + 1) = FirstDay(k) + DaysIn(YearOf(k), MonthOf(k))
      /\ DaysIn(YearOf(k), MonthOf(k)) \in 28..31
  BY <1>0, MonthLength, MonthTypes, TableOfDays
<1>2. /\ MonthlyDay(k, day) \in Int
      /\ FirstDay(k) <= MonthlyDay(k, day) /\ MonthlyDay(k, day) < FirstDay(k + 1)
  BY <1>0, <1>1 DEF MonthlyDay
<1> QED
  BY <1>2, OneMonth

\* monthlyOccurrence is on that day, and at the hour asked for unless the clock
\* is changed then.
LEMMA OccurrenceFacts ==
    ASSUME NEW z \in Zones, NEW k \in Int, 0 <= k, k <= Months + 1,
           NEW day \in 1..31, NEW hour \in 0..(Slots - 1)
    PROVE  LET o == monthlyOccurrence(z, YearOf(k), MonthOf(k), day, hour)
           IN  /\ o = Date(z, MonthlyDay(k, day) * Slots + hour) /\ o \in Int
               /\ DayAt(z, o) = MonthlyDay(k, day)
<1>0. /\ k \in 0..(Months + 1) /\ hour \in Int /\ 0 <= hour /\ hour < Slots /\ MonthlyDay(k, day) \in Int
  BY ConstantTypes, MonthlyDayFacts
<1>1. lastDayOfMonth(YearOf(k), MonthOf(k)) = DaysIn(YearOf(k), MonthOf(k))
  BY <1>0, LastDay
<1>2. IndexOf(YearOf(k), MonthOf(k)) = k
  BY MonthTypes
<1>3. monthlyOccurrence(z, YearOf(k), MonthOf(k), day, hour) = Date(z, MonthlyDay(k, day) * Slots + hour)
  BY <1>1, <1>2 DEF monthlyOccurrence, MonthlyDay
<1>4. /\ MonthlyDay(k, day) * Slots + hour \in Int
      /\ (MonthlyDay(k, day) * Slots + hour) \div Slots = MonthlyDay(k, day)
  BY <1>0, OneDaySlot
<1> QED
  BY <1>3, <1>4, DateFacts

\* In the window the wall clock is at most in the month after it.
LEMMA WindowDay ==
    ASSUME NEW z \in Zones, NEW i \in 0..Horizon
    PROVE  /\ i \in Int /\ DayAt(z, i) \in Days /\ DayAt(z, i) \in Int
           /\ 0 <= DayAt(z, i) /\ DayAt(z, i) <= FirstDay(Months)
           /\ MonthAt[DayAt(z, i)] \in 0..Months
<1> DEFINE end == FirstDay(Months)
           d == DayAt(z, i)
<1>0. /\ end \in Int /\ Slots \in Int /\ Slots >= 1 /\ Months \in Int /\ Months >= 1 /\ end >= 28
      /\ end * Slots \in Int
  BY WindowTypes, ConstantTypes
<1>1. i \in Int /\ 0 <= i /\ i <= end * Slots - 1
  BY <1>0, WindowTypes DEF Horizon
<1>2. Wall(z, i) \in Int /\ 0 <= Wall(z, i) /\ Wall(z, i) <= end * Slots + 0
  BY <1>0, <1>1, WallFacts
<1>3. (0 * Slots + 0) \div Slots = 0 /\ (end * Slots + 0) \div Slots = end /\ 0 * Slots + 0 = 0
  <2>1. 0 \in Int /\ 0 <= 0 /\ 0 < Slots
    BY <1>0
  <2>2. (0 * Slots + 0) \div Slots = 0
    BY <2>1, OneDaySlot
  <2>3. (end * Slots + 0) \div Slots = end
    <3> HIDE DEF end
    <3> QED
      BY <1>0, <2>1, OneDaySlot
  <2> QED
    BY <1>0, <2>2, <2>3
<1>4. 0 <= d /\ d <= end /\ d \in Int
  <2>1. end * Slots + 0 \in Int
    BY <1>0
  <2> QED
    BY <1>0, <1>2, <1>3, <2>1, DaysInOrder, DaySlot DEF DayAt
<1>5. /\ FirstDay(Months + 2) \in Int /\ FirstDay(Months + 1) \in Int
      /\ end < FirstDay(Months + 1) /\ FirstDay(Months + 1) <= FirstDay(Months + 2)
  <2>1. DaysIn(YearOf(Months), MonthOf(Months)) \in 28..31
    BY <1>0, MonthTypes, TableOfDays
  <2>2. FirstDay(Months + 1) = end + DaysIn(YearOf(Months), MonthOf(Months))
    BY <1>0, MonthLength
  <2>3. Months + 1 \in Int /\ Months + 2 \in Int /\ Months + 1 <= Months + 2
    BY <1>0
  <2>4. FirstDay(Months + 1) \in Int /\ FirstDay(Months + 2) \in Int
    BY <2>3, MonthLength
  <2>5. FirstDay(Months + 1) <= FirstDay(Months + 2)
    BY <2>3, MonthsInOrder
  <2> QED
    BY <1>0, <2>1, <2>2, <2>4, <2>5
<1>6. d \in Days
  BY <1>0, <1>4, <1>5 DEF Days
<1>7. MonthAt[d] \in 0..(Months + 1) /\ FirstDay(MonthAt[d]) <= d
  BY <1>6, MonthOfDay
<1>8. MonthAt[d] # Months + 1
  BY <1>0, <1>4, <1>5, <1>7
<1> QED
  BY <1>0, <1>1, <1>4, <1>6, <1>7, <1>8

\* nextMonthly takes this month's occurrence, or next month's if that is past, and
\* the result is later than the given time.
LEMMA NextMonthlyFacts ==
    ASSUME NEW z \in Zones, NEW s, s.day \in 1..31, s.hour \in 0..(Slots - 1), NEW i \in 0..Horizon
    PROVE  LET k == MonthAt[DayAt(z, i)]
               o(n) == monthlyOccurrence(z, YearOf(n), MonthOf(n), s.day, s.hour)
           IN  /\ nextMonthly(z, s, i) = IF o(k) > i THEN o(k) ELSE o(k + 1)
               /\ nextMonthly(z, s, i) > i /\ nextMonthly(z, s, i) \in Int
<1> DEFINE k == MonthAt[DayAt(z, i)]
           o(n) == monthlyOccurrence(z, YearOf(n), MonthOf(n), s.day, s.hour)
<1>0. /\ i \in Int /\ k \in 0..Months /\ k \in Int /\ Months \in Int /\ DayAt(z, i) \in Days
      /\ DayAt(z, i) \in Int
  BY WindowDay, ConstantTypes
<1>1. following(YearOf(k), MonthOf(k)) = <<YearOf(k + 1), MonthOf(k + 1)>>
  BY <1>0, FollowingMonth
<1>2. nextMonthly(z, s, i) = IF o(k) > i THEN o(k) ELSE o(k + 1)
  BY <1>1 DEF nextMonthly
<1>3. o(k) \in Int /\ o(k + 1) \in Int /\ DayAt(z, o(k + 1)) = MonthlyDay(k + 1, s.day)
  <2>1. k + 1 \in Int /\ 0 <= k /\ 0 <= k + 1 /\ k <= Months + 1 /\ k + 1 <= Months + 1
    BY <1>0
  <2> HIDE DEF k
  <2> QED
    BY <1>0, <2>1, OccurrenceFacts
<1>4. o(k + 1) > i
  <2>1. DayAt(z, i) < FirstDay(k + 1)
    BY <1>0, MonthOfDay
  <2>2. FirstDay(k + 1) <= MonthlyDay(k + 1, s.day) /\ MonthlyDay(k + 1, s.day) \in Int /\ FirstDay(k + 1) \in Int
    <3>1. k + 1 \in Int /\ 0 <= k + 1 /\ k + 1 <= Months + 1
      BY <1>0
    <3> HIDE DEF k
    <3> QED
      BY <3>1, MonthlyDayFacts, MonthLength
  <2>3. DayAt(z, i) < DayAt(z, o(k + 1))
    BY <1>0, <1>3, <2>1, <2>2
  <2> QED
    BY <1>0, <1>3, <2>3, LaterDay
<1> QED
  BY <1>2, <1>3, <1>4

\* What a monthly schedule means is one day of every month.
LEMMA MeantMonthly ==
    ASSUME NEW s, s.type = "MONTHLY", s.day \in 1..31, NEW d \in Days, MonthAt[d] \in 0..Months
    PROVE  MeantFor(s, d) <=> d = MonthlyDay(MonthAt[d], s.day)
<1> DEFINE k == MonthAt[d]
           len == DaysIn(YearOf(k), MonthOf(k))
<1>0. /\ d \in Int /\ k \in Int /\ 0 <= k /\ k <= Months /\ Months \in Int
      /\ FirstDay(k) \in Int /\ FirstDay(k + 1) = FirstDay(k) + len /\ len \in 28..31
  <2>1. k \in Int /\ 0 <= k /\ k <= Months /\ d \in Int /\ Months \in Int
    BY ConstantTypes DEF Days
  <2>2. YearOf(k) \in Int /\ MonthOf(k) \in 1..12
    BY <2>1, MonthTypes
  <2>3. len \in 28..31
    BY <2>2, TableOfDays
  <2>4. FirstDay(k) \in Int /\ FirstDay(k + 1) = FirstDay(k) + len
    BY <2>1, MonthLength
  <2> QED
    BY <2>1, <2>3, <2>4
<1>1. FirstDay(k) <= d /\ d < FirstDay(k + 1)
  BY MonthOfDay
<1>2. DayOfMonth(d) = d - FirstDay(k) + 1
  BY DEF DayOfMonth
<1>3. MonthAt[d + 1] # k <=> d + 1 = FirstDay(k + 1)
  <2>1. CASE d + 1 < FirstDay(k + 1)
    <3>1. MonthAt[d + 1] = k
      <4>1. k <= Months + 1 /\ FirstDay(k) <= d + 1 /\ d + 1 \in Int
        BY <1>0, <1>1
      <4> HIDE DEF k
      <4> QED
        BY <1>0, <2>1, <4>1, OneMonth
    <3> QED
      BY <1>0, <2>1, <3>1
  <2>2. CASE d + 1 = FirstDay(k + 1)
    <3>1. MonthAt[d + 1] = k + 1
      <4>1. k + 1 \in Int /\ 0 <= k + 1 /\ k + 1 <= Months + 1 /\ d + 1 \in Int
        BY <1>0
      <4>2. FirstDay(k + 1) < FirstDay((k + 1) + 1)
        <5>1. YearOf(k + 1) \in Int /\ MonthOf(k + 1) \in 1..12
          BY <4>1, MonthTypes
        <5>2. DaysIn(YearOf(k + 1), MonthOf(k + 1)) \in 28..31
          BY <5>1, TableOfDays
        <5>3. /\ FirstDay(k + 1) \in Int
              /\ FirstDay((k + 1) + 1) = FirstDay(k + 1) + DaysIn(YearOf(k + 1), MonthOf(k + 1))
          BY <4>1, MonthLength
        <5> QED
          BY <5>2, <5>3
      <4>3. FirstDay(k + 1) <= d + 1 /\ d + 1 < FirstDay((k + 1) + 1)
        BY <1>0, <2>2, <4>2
      <4> HIDE DEF k
      <4> QED
        BY <4>1, <4>3, OneMonth
    <3> QED
      BY <1>0, <2>2, <3>1
  <2> QED
    BY <1>0, <1>1, <2>1, <2>2
<1>4. MeantFor(s, d) <=> DayOfMonth(d) = s.day \/ (DayOfMonth(d) < s.day /\ MonthAt[d + 1] # MonthAt[d])
  BY DEF MeantFor
<1>5. MonthlyDay(k, s.day) = FirstDay(k) + (IF s.day > len THEN len ELSE s.day) - 1
  BY DEF MonthlyDay
<1> HIDE DEF k, len
<1>6. d = MonthlyDay(k, s.day) <=> \/ d - FirstDay(k) + 1 = s.day
                                   \/ d - FirstDay(k) + 1 < s.day /\ d + 1 = FirstDay(k + 1)
  BY <1>0, <1>1, <1>5
<1> QED
  BY <1>2, <1>3, <1>4, <1>6 DEF k

\* Later days are not in earlier months.
LEMMA MonthsOfDays ==
    ASSUME NEW d \in Days, NEW e \in Days, d <= e
    PROVE  MonthAt[d] <= MonthAt[e]
<1> DEFINE m == MonthAt[d]
           n == MonthAt[e]
<1>0. d \in Int /\ e \in Int /\ m \in Int /\ n \in Int
  <2>1. m \in 0..(Months + 1) /\ n \in 0..(Months + 1)
    BY MonthOfDay
  <2> QED
    BY <2>1, ConstantTypes DEF Days
<1>1. FirstDay(m) <= d /\ e < FirstDay(n + 1)
  BY MonthOfDay
<1>2. FirstDay(m) \in Int /\ FirstDay(n + 1) \in Int
  BY <1>0, MonthLength
<1>3. ASSUME n + 1 <= m PROVE FALSE
  <2>1. n + 1 \in Int
    BY <1>0
  <2>2. FirstDay(n + 1) <= FirstDay(m)
    BY <1>0, <1>3, <2>1, MonthsInOrder
  <2> QED
    BY <1>0, <1>1, <1>2, <2>2
<1> QED
  BY <1>0, <1>3

\* On a day without a change of the clock time.Date finds the time asked for.
LEMMA SteadyDate ==
    ASSUME zone \in Zones, NEW d \in Int, Steady(d), NEW hour \in 0..(Slots - 1)
    PROVE  LET at == Date(zone, d * Slots + hour)
           IN  /\ at \in Int /\ DayAt(zone, at) = d /\ SlotAt(zone, at) = hour
               /\ d * Slots - 1 <= at /\ at <= (d + 1) * Slots
<1> DEFINE w == d * Slots + hour
<1>0. hour \in Int /\ 0 <= hour /\ hour < Slots /\ Slots \in Int
  BY ConstantTypes
<1>1. w \in Int /\ w \div Slots = d /\ w % Slots = hour
  BY <1>0, OneDaySlot
<1>2. ~Changed(zone, w)
  <2>1. ASSUME NEW s \in zone.summers, w \in {s.begins, s.ends} PROVE FALSE
    BY <1>1, <2>1 DEF Steady
  <2> QED
    BY <2>1 DEF Changed
<1>3. d * Slots <= w /\ w <= (d + 1) * Slots /\ d * Slots \in Int /\ (d + 1) * Slots \in Int
  <2>1. (d + 1) * Slots = d * Slots + Slots /\ d * Slots \in Int
    BY <1>0
  <2> HIDE DEF w
  <2> QED
    BY <1>0, <2>1 DEF w
<1> HIDE DEF w
<1>4. /\ Date(zone, w) \in {w - 1, w} /\ Date(zone, w) \in Int
      /\ DayAt(zone, Date(zone, w)) = w \div Slots /\ Wall(zone, Date(zone, w)) = w
  BY <1>1, <1>2, DateFacts
<1>5. d * Slots - 1 <= Date(zone, w) /\ Date(zone, w) <= (d + 1) * Slots
  BY <1>1, <1>3, <1>4
<1>6. SlotAt(zone, Date(zone, w)) = hour
  BY <1>1, <1>4 DEF SlotAt
<1> QED
  BY <1>1, <1>4, <1>5, <1>6 DEF w

-----------------------------------------------------------------------------
(* Cron expressions *)

\* A set of natural numbers has a least one.
LEMMA Least ==
    ASSUME NEW T, T \subseteq Nat, T # {}
    PROVE  \E x \in T : \A y \in T : x <= y
<1>1. PICK x \in T : \A y \in T : ~(<<y, x>> \in OpToRel(<, Nat))
  BY NatLessThanWellFounded, WFMin
<1>2. ASSUME NEW y \in T PROVE x <= y
  <2>1. ~(y < x)
    BY <1>1 DEF OpToRel
  <2> QED
    BY <2>1
<1> QED
  BY <1>2

\* The search finds the first matching instant of the first day that has one, a
\* time beyond the window, or nothing.
LEMMA CronFacts ==
    ASSUME NEW z \in Zones, NEW spec, NEW i \in 0..Horizon
    PROVE  LET next == CronNext(z, spec, i)
               days == DayAt(z, i)..(FirstDay(Months) - 1)
           IN  /\ next \in Int
               /\ \/ NeverDue(z, spec, i)
                  \/ next = Horizon + 1
                  \/ \E d \in days :
                        /\ Due(z, spec, i, d) /\ \A e \in days : e < d => ~Due(z, spec, i, e)
                        /\ next \in Times(z, spec, i, d) /\ \A j \in Times(z, spec, i, d) : next <= j
<1> DEFINE days == DayAt(z, i)..(FirstDay(Months) - 1)
           due(d) == Due(z, spec, i, d)
           First(d) == due(d) /\ \A e \in days : e < d => ~due(e)
           first == CHOOSE d \in days : First(d)
           times == Times(z, spec, i, first)
<1>0. days \subseteq Nat /\ i \in Nat
  <2>1. DayAt(z, i) \in Int /\ 0 <= DayAt(z, i) /\ FirstDay(Months) \in Int /\ i \in Nat
    BY WindowDay, WindowTypes
  <2> QED
    BY <2>1
<1>1. CASE ~\E d \in days : due(d)
  BY <1>1, WindowTypes DEF CronNext, ZeroTime
<1>2. CASE \E d \in days : due(d)
  <2>1. \E d \in days : First(d)
    <3>1. {d \in days : due(d)} \subseteq Nat /\ {d \in days : due(d)} # {}
      BY <1>0, <1>2
    <3>2. PICK d \in {e \in days : due(e)} : \A e \in {f \in days : due(f)} : d <= e
      <4> HIDE DEF days, due
      <4> QED
        BY <3>1, Least
    <3>3. d \in days /\ due(d) /\ d \in Nat
      BY <1>0, <3>2
    <3>4. ASSUME NEW e \in days, e < d PROVE ~due(e)
      BY <1>0, <3>2, <3>3, <3>4
    <3> QED
      BY <3>3, <3>4
  <2>2. first \in days /\ First(first)
    <3> HIDE DEF First, days
    <3> QED
      BY <2>1
  <2>3. times # {}
    BY <2>2 DEF Due
  <2>4. times \subseteq Nat
    <3>1. first \in Int /\ Slots \in Int
      BY <1>0, <2>2, ConstantTypes
    <3>2. first * Slots - 1 \in Int /\ (first + 1) * Slots \in Int
      <4> HIDE DEF first
      <4> QED
        BY <3>1
    <3> HIDE DEF first
    <3> QED
      BY <1>0, <3>1, <3>2 DEF Times
  <2>5. \E x \in times : \A y \in times : x <= y
    BY <2>3, <2>4, Least
  <2>6. CronNext(z, spec, i) = CHOOSE x \in times : \A y \in times : x <= y
    BY <1>2 DEF CronNext
  <2>7. CronNext(z, spec, i) \in times /\ \A y \in times : CronNext(z, spec, i) <= y
    BY <2>5, <2>6
  <2>8. CronNext(z, spec, i) \in Int
    BY <2>4, <2>7
  <2> HIDE DEF first
  <2> QED
    BY <2>2, <2>7, <2>8
<1> QED
  BY <1>1, <1>2

\* An expression for every day of every month finds something.
LEMMA AlwaysDue ==
    ASSUME NEW z \in Zones, NEW spec, spec.days = AnyDay, spec.months = AnyMonth, NEW i \in 0..Horizon
    PROVE  ~NeverDue(z, spec, i)
<1> DEFINE today == DayAt(z, i)
           k == MonthAt[today]
           y == YearOf(k) + 1
           n == IndexOf(y, 1)
           d == FirstDay(n) + 1 - 1
<1>0. today \in Days /\ today \in Int /\ k \in 0..Months /\ k \in Int
  BY WindowDay, ConstantTypes
<1>1. YearOf(k) \in Int /\ y \in Int
  BY <1>0, MonthTypes
<1>2. n \in Int /\ k + 1 <= n
  <2> HIDE DEF k
  <2>1. YearOf(k) = FirstYear + (FirstMonth - 1 + k) \div 12 /\ FirstMonth - 1 + k \in Int
    BY <1>0, ConstantTypes DEF YearOf
  <2>2. \A a \in Int : a \div 12 \in Int /\ a < (a \div 12 + 1) * 12
    OBVIOUS
  <2> QED
    BY <1>0, <2>1, <2>2, ConstantTypes DEF IndexOf
<1>3. FirstDay(k + 1) <= FirstDay(n) /\ FirstDay(k + 1) \in Int /\ FirstDay(n) \in Int
  <2>1. k + 1 \in Int
    BY <1>0
  <2> HIDE DEF n, k
  <2> QED
    BY <1>2, <2>1, MonthsInOrder, MonthLength
<1>4. today < FirstDay(k + 1)
  BY <1>0, MonthOfDay
<1>5. ~(d < today) /\ d # today
  BY <1>0, <1>3, <1>4
<1>6. 1 <= DaysIn(y, 1) /\ 1 \in spec.days /\ 1 \in spec.months
  <2>1. DaysIn(y, 1) \in 28..31
    <3> HIDE DEF y
    <3> QED
      BY <1>1, TableOfDays
  <2> QED
    BY <2>1 DEF AnyDay, AnyMonth
<1>7. y \in YearOf(k)..(YearOf(k) + 5)
  BY <1>1
<1>8. ASSUME NeverDue(z, spec, i) PROVE d < today \/ d = today
  BY <1>6, <1>7, <1>8 DEF NeverDue
<1> QED
  BY <1>5, <1>8

\* A day of the window has a number in its month, a month and a weekday.
LEMMA DayFields ==
    ASSUME NEW d \in Days
    PROVE  DayOfMonth(d) \in AnyDay /\ MonthOf(MonthAt[d]) \in AnyMonth /\ Weekday(d) \in AnyWeekday
<1> DEFINE k == MonthAt[d]
<1>0. d \in Int /\ k \in Int
  <2>1. k \in 0..(Months + 1)
    BY MonthOfDay
  <2> QED
    BY <2>1, ConstantTypes DEF Days
<1>1. FirstDay(k) <= d /\ d < FirstDay(k + 1)
  BY MonthOfDay
<1>2. YearOf(k) \in Int /\ MonthOf(k) \in 1..12
  BY <1>0, MonthTypes
<1>3. DaysIn(YearOf(k), MonthOf(k)) \in 28..31
  BY <1>2, TableOfDays
<1>4. FirstDay(k) \in Int /\ FirstDay(k + 1) = FirstDay(k) + DaysIn(YearOf(k), MonthOf(k))
  BY <1>0, MonthLength
<1>5. DayOfMonth(d) \in AnyDay
  BY <1>0, <1>1, <1>3, <1>4 DEF DayOfMonth, AnyDay
<1>6. Weekday(d) \in AnyWeekday
  <2>1. FirstWeekday + d \in Int
    BY <1>0, ConstantTypes
  <2> QED
    BY <2>1 DEF Weekday, AnyWeekday
<1> QED
  BY <1>2, <1>5, <1>6 DEF AnyMonth

\* Every valid schedule but a manual one has a next run, and it is a time.
LEMMA NextRunType ==
    ASSUME CalendarInv, IsAutomatic(schedule)
    PROVE  NextRun(zone, schedule, after) \in Int /\ after \in Int
<1>0. zone \in Zones /\ Validate(schedule) /\ after \in 0..Horizon /\ after \in Int
  BY WindowTypes DEF CalendarInv
<1>1. CASE schedule.type = "MONTHLY"
  BY <1>0, <1>1, NextMonthlyFacts DEF NextRun, Validate
<1>2. CASE schedule.type # "MONTHLY"
  BY <1>0, <1>2, CronFacts DEF NextRun
<1> QED
  BY <1>0, <1>1, <1>2

\* The next run of a daily or weekly schedule.
LEMMA NextOfDays ==
    ASSUME CalendarInv, schedule.type \in {"DAILY", "WEEKLY"}
    PROVE  NextIsFirst
<1> DEFINE next == NextRun(zone, schedule, after)
           day == DayAt(zone, next)
           spec == Spec5({schedule.hour}, AnyDay, AnyMonth,
                         IF schedule.type = "DAILY" THEN AnyWeekday ELSE schedule.weekdays)
           days == DayAt(zone, after)..(FirstDay(Months) - 1)
<1>0. zone \in Zones /\ Validate(schedule) /\ after \in 0..Horizon /\ after \in Int
  BY WindowTypes DEF CalendarInv
<1>1. next = CronNext(zone, spec, after)
  BY DEF NextRun
<1>2. /\ spec.hours = {schedule.hour} /\ spec.days = AnyDay /\ spec.months = AnyMonth
      /\ schedule.type = "DAILY" => spec.weekdays = AnyWeekday
      /\ schedule.type = "WEEKLY" => spec.weekdays = schedule.weekdays
  BY DEF Spec5
<1>3. schedule.hour \in 0..(Slots - 1)
  BY <1>0 DEF Validate
<1> HIDE DEF spec
<1>4. ~NeverDue(zone, spec, after)
  BY <1>0, <1>2, AlwaysDue
<1>5. /\ next \in Int
      /\ \/ next = Horizon + 1
         \/ \E d \in days :
               /\ Due(zone, spec, after, d) /\ \A e \in days : e < d => ~Due(zone, spec, after, e)
               /\ next \in Times(zone, spec, after, d) /\ \A j \in Times(zone, spec, after, d) : next <= j
  BY <1>0, <1>1, <1>4, CronFacts
<1>6. next > after
  <2>1. CASE next = Horizon + 1
    BY <1>0, <2>1, WindowTypes
  <2>2. CASE next # Horizon + 1
    BY <1>5, <2>2 DEF Times
  <2> QED
    BY <2>1, <2>2
<1> HIDE DEF next
<1>7. ASSUME next <= Horizon
      PROVE  /\ MeantFor(schedule, day)
             /\ Steady(day) => SlotAt(zone, next) = schedule.hour
             /\ \A d \in DayAt(zone, after)..day :
                   Steady(d) /\ MeantFor(schedule, d) =>
                       LET at == Date(zone, d * Slots + schedule.hour) IN at <= after \/ at >= next
  <2>1. next # Horizon + 1
    BY <1>5, <1>7, WindowTypes
  <2>2. PICK first \in days :
           /\ Due(zone, spec, after, first) /\ \A e \in days : e < first => ~Due(zone, spec, after, e)
           /\ next \in Times(zone, spec, after, first) /\ \A j \in Times(zone, spec, after, first) : next <= j
    BY <1>5, <2>1
  <2>3. day = first /\ SlotAt(zone, next) = schedule.hour
    BY <1>2, <2>2 DEF Times
  <2>4. MeantFor(schedule, first)
    BY <1>2, <2>2 DEF Due, DayMatches, MeantFor
  <2>5. ASSUME NEW d \in DayAt(zone, after)..first, Steady(d), MeantFor(schedule, d),
               Date(zone, d * Slots + schedule.hour) > after
        PROVE  next <= Date(zone, d * Slots + schedule.hour)
    <3> DEFINE at == Date(zone, d * Slots + schedule.hour)
    <3>0. /\ DayAt(zone, after) \in Int /\ 0 <= DayAt(zone, after) /\ FirstDay(Months) \in Int
          /\ first \in Int /\ d \in Int /\ d \in days /\ d <= first /\ d < FirstDay(Months)
      BY <1>0, <2>2, WindowDay, WindowTypes
    <3>1. d \in Days
      <4>1. Months \in Int /\ Months + 2 \in Int
        BY ConstantTypes
      <4>2. FirstDay(Months) <= FirstDay(Months + 2) /\ FirstDay(Months + 2) \in Int
        BY <4>1, MonthsInOrder, MonthLength
      <4> QED
        BY <3>0, <4>2 DEF Days
    <3>2. DayMatches(spec, d)
      <4>1. Weekday(d) \in spec.weekdays
        BY <1>2, <2>5, <3>1, DayFields DEF MeantFor
      <4> QED
        BY <1>2, <3>1, <4>1, DayFields DEF DayMatches
    <3>3. /\ at \in Int /\ DayAt(zone, at) = d /\ SlotAt(zone, at) = schedule.hour
          /\ d * Slots - 1 <= at /\ at <= (d + 1) * Slots
      BY <1>0, <1>3, <2>5, <3>0, SteadyDate
    <3>4. at \in Times(zone, spec, after, d)
      <4>1. d * Slots - 1 \in Int /\ (d + 1) * Slots \in Int
        BY <3>0, ConstantTypes
      <4> HIDE DEF at
      <4>2. at \in (d * Slots - 1)..((d + 1) * Slots)
        BY <3>3, <4>1
      <4>3. at > after
        BY <2>5 DEF at
      <4> QED
        BY <1>2, <3>3, <4>2, <4>3 DEF Times
    <3>5. ~(d < first)
      BY <2>2, <3>0, <3>2, <3>4 DEF Due
    <3>6. d = first
      BY <3>0, <3>5
    <3> QED
      BY <2>2, <3>4, <3>6
  <2>6. ASSUME NEW d \in DayAt(zone, after)..day, Steady(d), MeantFor(schedule, d)
        PROVE  Date(zone, d * Slots + schedule.hour) <= after \/ Date(zone, d * Slots + schedule.hour) >= next
    <3>1. d \in Int
      BY <1>0, <1>5, DayTypes
    <3>2. Date(zone, d * Slots + schedule.hour) \in Int
      BY <1>0, <1>3, <2>6, <3>1, SteadyDate
    <3> QED
      BY <1>0, <1>5, <2>3, <2>5, <2>6, <3>2
  <2> QED
    BY <2>3, <2>4, <2>6
<1> QED
  BY <1>6, <1>7 DEF NextIsFirst, next

\* The next run of a monthly schedule.
LEMMA NextOfMonths ==
    ASSUME CalendarInv, schedule.type = "MONTHLY"
    PROVE  NextIsFirst
<1> DEFINE next == NextRun(zone, schedule, after)
           day == DayAt(zone, next)
           k == MonthAt[DayAt(zone, after)]
<1>0. /\ zone \in Zones /\ after \in 0..Horizon /\ after \in Int
      /\ schedule.day \in 1..31 /\ schedule.hour \in 0..(Slots - 1)
  BY WindowTypes DEF CalendarInv, Validate
<1>1. /\ next = IF Occurrence(k) > after THEN Occurrence(k) ELSE Occurrence(k + 1)
      /\ next > after /\ next \in Int
  <2>1. next = nextMonthly(zone, schedule, after)
    BY DEF NextRun
  <2> QED
    BY <1>0, <2>1, NextMonthlyFacts DEF Occurrence
<1>2. k \in 0..Months /\ k \in Int /\ DayAt(zone, after) \in Days /\ DayAt(zone, after) \in Int
      /\ 0 <= DayAt(zone, after)
  BY <1>0, WindowDay, ConstantTypes
<1>3. ASSUME NEW m \in Int, 0 <= m, m <= Months + 1
      PROVE  /\ Occurrence(m) = Date(zone, MonthlyDay(m, schedule.day) * Slots + schedule.hour)
             /\ Occurrence(m) \in Int /\ DayAt(zone, Occurrence(m)) = MonthlyDay(m, schedule.day)
             /\ MonthAt[MonthlyDay(m, schedule.day)] = m
  BY <1>0, <1>3, OccurrenceFacts, MonthlyDayFacts DEF Occurrence
<1>4. PICK n \in {k, k + 1} : next = Occurrence(n) /\ (n # k => ~(Occurrence(k) > after))
  BY <1>1
<1>5. n \in Int /\ 0 <= n /\ n <= Months + 1 /\ k <= n /\ n <= k + 1
  BY <1>2, ConstantTypes
<1> HIDE DEF next, k
<1>6. day = MonthlyDay(n, schedule.day) /\ MonthAt[day] = n
      /\ next = Date(zone, MonthlyDay(n, schedule.day) * Slots + schedule.hour)
  BY <1>3, <1>4, <1>5
<1>7. ASSUME next <= Horizon
      PROVE  /\ MeantFor(schedule, day)
             /\ Steady(day) => SlotAt(zone, next) = schedule.hour
             /\ \A d \in DayAt(zone, after)..day :
                   Steady(d) /\ MeantFor(schedule, d) =>
                       LET at == Date(zone, d * Slots + schedule.hour) IN at <= after \/ at >= next
  <2>0. next \in 0..Horizon
    BY <1>0, <1>1, <1>7, WindowTypes
  <2>1. day \in Days /\ day \in Int /\ MonthAt[day] \in 0..Months
    BY <1>0, <2>0, WindowDay
  <2> HIDE DEF day
  <2>2. MeantFor(schedule, day)
    BY <1>0, <1>6, <2>1, MeantMonthly
  <2>3. ASSUME Steady(day) PROVE SlotAt(zone, next) = schedule.hour
    BY <1>0, <1>6, <2>1, <2>3, SteadyDate
  <2>4. ASSUME NEW d \in DayAt(zone, after)..day, MeantFor(schedule, d)
        PROVE  Date(zone, d * Slots + schedule.hour) <= after \/ Date(zone, d * Slots + schedule.hour) >= next
    <3>1. d \in Int /\ DayAt(zone, after) <= d /\ d <= day
      BY <1>2, <2>1
    <3>2. d \in Days
      <4>1. FirstDay(Months + 2) \in Int
        BY ConstantTypes, MonthLength
      <4> QED
        BY <1>2, <2>1, <3>1, <4>1 DEF Days
    <3> DEFINE m == MonthAt[d]
    <3>3. k <= m /\ m <= n /\ m \in Int
      <4>1. k <= m
        BY <1>2, <3>1, <3>2, MonthsOfDays DEF k
      <4>2. m <= MonthAt[day]
        BY <2>1, <3>1, <3>2, MonthsOfDays
      <4>3. m \in 0..(Months + 1)
        BY <3>2, MonthOfDay
      <4> QED
        BY <1>6, <4>1, <4>2, <4>3, ConstantTypes
    <3>4. m \in 0..Months /\ m <= Months + 1 /\ 0 <= m
      BY <1>2, <1>6, <2>1, <3>3, ConstantTypes
    <3>5. d = MonthlyDay(m, schedule.day)
      BY <1>0, <2>4, <3>2, <3>4, MeantMonthly
    <3> HIDE DEF m
    <3>6. Date(zone, d * Slots + schedule.hour) = Occurrence(m) /\ Occurrence(m) \in Int
      BY <1>3, <3>3, <3>4, <3>5
    <3>7. CASE m = n
      BY <1>1, <1>4, <3>6, <3>7
    <3>8. CASE m # n
      <4>1. m = k /\ n # k
        BY <1>2, <1>5, <3>3, <3>8
      <4> QED
        BY <1>0, <1>4, <3>6, <4>1
    <3> QED
      BY <3>7, <3>8
  <2> QED
    BY <2>2, <2>3, <2>4
<1> QED
  BY <1>1, <1>7 DEF NextIsFirst, next

\* The inductive invariant is enough.
LEMMA InvariantSuffices == CalendarInv => NextIsFirst
<1> SUFFICES ASSUME CalendarInv PROVE NextIsFirst
  OBVIOUS
<1>1. CASE schedule.type = "MONTHLY"
  BY <1>1, NextOfMonths
<1>2. CASE schedule.type \in {"DAILY", "WEEKLY"}
  BY <1>2, NextOfDays
<1>3. CASE schedule.type \in {"MANUAL", "CRON"}
  <2>1. ~Timed
    BY <1>3 DEF Timed
  <2>2. ASSUME schedule.type = "CRON", ~NeverDue(zone, schedule.spec, after)
        PROVE  NextRun(zone, schedule, after) > after
    <3>1. zone \in Zones /\ after \in 0..Horizon /\ after \in Int /\ Horizon \in Int
      BY WindowTypes DEF CalendarInv
    <3>2. NextRun(zone, schedule, after) = CronNext(zone, schedule.spec, after)
      BY <2>2 DEF NextRun
    <3>3. \/ CronNext(zone, schedule.spec, after) = Horizon + 1
          \/ \E d : CronNext(zone, schedule.spec, after) \in Times(zone, schedule.spec, after, d)
      BY <2>2, <3>1, CronFacts
    <3> QED
      BY <3>1, <3>2, <3>3 DEF Times
  <2> QED
    BY <1>3, <2>1, <2>2 DEF NextIsFirst, IsAutomatic
<1> QED
  BY <1>1, <1>2, <1>3 DEF CalendarInv, Validate

-----------------------------------------------------------------------------
(* The walk from occurrence to occurrence *)

\* The first tick is in the window.
LEMMA InvariantInitially == Init => CalendarInv
<1> SUFFICES ASSUME Init PROVE CalendarInv
  OBVIOUS
<1>1. FirstDay(1) \in Int /\ FirstDay(Months) \in Int /\ FirstDay(1) <= FirstDay(Months)
  BY ConstantTypes, MonthLength, MonthsInOrder
<1>2. \A a, b, c \in Int : a <= b /\ c >= 1 => a * c \in Int /\ b * c \in Int /\ a * c <= b * c
  OBVIOUS
<1>3. FirstDay(1) * Slots \in Int /\ FirstDay(1) * Slots - 1 <= Horizon /\ Horizon \in Int
  BY <1>1, <1>2, ConstantTypes, WindowTypes DEF Horizon
<1>4. after \in 0..Horizon
  BY <1>3 DEF Init
<1> QED
  BY <1>4 DEF Init, CalendarInv

\* A step of a monthly job: from a month to an occurrence in it or in the next.
LEMMA MonthlyStep ==
    ASSUME CalendarInv, Start, schedule.type = "MONTHLY"
    PROVE  \E n \in 0..Months : last' = Occurrence(n) /\ last' <= after' /\ after' < last' + Slots
<1> DEFINE k == MonthAt[DayAt(zone, after)]
<1>0. /\ zone \in Zones /\ after \in 0..Horizon /\ after \in Int /\ Horizon \in Int
      /\ schedule.day \in 1..31 /\ schedule.hour \in 0..(Slots - 1)
  BY WindowTypes DEF CalendarInv, Validate
<1>1. /\ last' = NextRun(zone, schedule, after) /\ after' <= Horizon
      /\ \E delay \in 0..MaxDelay : after' = (IF last' > after THEN last' ELSE after) + delay
  BY DEF Start
<1>2. /\ last' = IF Occurrence(k) > after THEN Occurrence(k) ELSE Occurrence(k + 1)
      /\ last' > after /\ last' \in Int
  <2>1. last' = nextMonthly(zone, schedule, after)
    BY <1>1 DEF NextRun
  <2> QED
    BY <1>0, <2>1, NextMonthlyFacts DEF Occurrence
<1>3. last' <= after' /\ after' < last' + Slots /\ last' \in 0..Horizon
  BY <1>0, <1>1, <1>2, ConstantTypes
<1>4. PICK n \in {k, k + 1} : last' = Occurrence(n)
  BY <1>2
<1>5. n \in Int /\ 0 <= n /\ n <= Months + 1
  <2>1. k \in 0..Months
    BY <1>0, WindowDay
  <2> QED
    BY <2>1, ConstantTypes
<1>6. DayAt(zone, last') = MonthlyDay(n, schedule.day) /\ MonthAt[MonthlyDay(n, schedule.day)] = n
  BY <1>0, <1>4, <1>5, OccurrenceFacts, MonthlyDayFacts DEF Occurrence
<1>7. MonthAt[DayAt(zone, last')] \in 0..Months
  BY <1>0, <1>3, WindowDay
<1> QED
  BY <1>3, <1>4, <1>6, <1>7

\* A start keeps the invariant.
LEMMA InvariantPreserved == CalendarInv /\ [Next]_vars => CalendarInv'
<1> SUFFICES ASSUME CalendarInv, [Next]_vars PROVE CalendarInv'
  OBVIOUS
<1>1. CASE Start
  <2>0. after \in 0..Horizon /\ Horizon \in Int /\ MaxDelay \in Int
    BY ConstantTypes, WindowTypes DEF CalendarInv
  <2>1. zone' = zone /\ schedule' = schedule /\ IsAutomatic(schedule)
    BY <1>1 DEF Start
  <2>2. NextRun(zone, schedule, after) \in Int
    BY <2>1, NextRunType
  <2>3. after' \in 0..Horizon
    BY <1>1, <2>0, <2>2 DEF Start
  <2>4. ASSUME schedule.type = "MONTHLY"
        PROVE  \E n \in 0..Months : last' = Occurrence(n)' /\ last' <= after' /\ after' < last' + Slots
    <3>1. \E n \in 0..Months : last' = Occurrence(n) /\ last' <= after' /\ after' < last' + Slots
      BY <1>1, <2>4, MonthlyStep
    <3> QED
      BY <2>1, <3>1 DEF Occurrence
  <2> QED
    BY <2>1, <2>3, <2>4 DEF CalendarInv
<1>2. CASE UNCHANGED vars
  BY <1>2 DEF CalendarInv, Occurrence, vars
<1> QED
  BY <1>1, <1>2 DEF Next

\* A start of a monthly job is for the month after the one it was started for last:
\* a tick that came so late that the month was over has not passed the next
\* occurrence.
LEMMA NextMonthServed ==
    ASSUME CalendarInv, Start, schedule.type = "MONTHLY", last # Never
    PROVE  MonthAt[DayAt(zone, last')] = MonthAt[DayAt(zone, last)] + 1
<1> DEFINE m == MonthAt[DayAt(zone, after)]
           day == schedule.day
           today == DayAt(zone, after)
<1>0. /\ zone \in Zones /\ after \in 0..Horizon /\ after \in Int /\ Slots \in Int /\ Slots >= 1 /\ Months \in Int
      /\ schedule.day \in 1..31 /\ schedule.hour \in 0..(Slots - 1)
  BY WindowTypes, ConstantTypes DEF CalendarInv, Validate
<1>1. last' = IF Occurrence(m) > after THEN Occurrence(m) ELSE Occurrence(m + 1)
  <2>1. last' = nextMonthly(zone, schedule, after)
    BY DEF Start, NextRun
  <2> QED
    BY <1>0, <2>1, NextMonthlyFacts DEF Occurrence
<1>2. PICK k \in 0..Months : last = Occurrence(k) /\ last <= after /\ after < last + Slots
  BY DEF CalendarInv
<1>3. k \in Int /\ 0 <= k /\ k <= Months + 1 /\ k + 1 \in Int /\ 0 <= k + 1 /\ k + 1 <= Months + 1
  BY <1>0
<1>4. ASSUME NEW n \in {k, k + 1}
      PROVE  /\ Occurrence(n) = Date(zone, MonthlyDay(n, day) * Slots + schedule.hour)
             /\ Occurrence(n) \in Int /\ DayAt(zone, Occurrence(n)) = MonthlyDay(n, day)
             /\ MonthlyDay(n, day) \in Int /\ MonthAt[MonthlyDay(n, day)] = n
             /\ MonthlyDay(n, day) \in Days
             /\ FirstDay(n) <= MonthlyDay(n, day) /\ MonthlyDay(n, day) < FirstDay(n + 1)
  <2>1. n \in Int /\ 0 <= n /\ n <= Months + 1
    BY <1>3, <1>4
  <2>2. /\ Occurrence(n) = Date(zone, MonthlyDay(n, day) * Slots + schedule.hour)
        /\ Occurrence(n) \in Int /\ DayAt(zone, Occurrence(n)) = MonthlyDay(n, day)
    BY <1>0, <2>1, OccurrenceFacts DEF Occurrence
  <2>3. /\ MonthlyDay(n, day) \in Int /\ MonthlyDay(n, day) \in Days
        /\ MonthAt[MonthlyDay(n, day)] = n
        /\ FirstDay(n) <= MonthlyDay(n, day) /\ MonthlyDay(n, day) < FirstDay(n + 1)
    BY <1>0, <2>1, MonthlyDayFacts
  <2> QED
    BY <2>2, <2>3
<1>5. today \in Days /\ today \in Int /\ m \in 0..Months /\ m \in Int
  BY <1>0, WindowDay
<1>6. FirstDay(k) \in Int /\ FirstDay(k + 1) \in Int
  BY <1>3, MonthLength
<1>7. MonthlyDay(k, day) <= today /\ k <= m
  <2>1. MonthlyDay(k, day) <= today
    BY <1>0, <1>2, <1>4, DayTypes
  <2>2. MonthAt[MonthlyDay(k, day)] <= m
    BY <1>4, <1>5, <2>1, MonthsOfDays
  <2> QED
    BY <1>4, <2>1, <2>2
<1>8. today <= MonthlyDay(k, day) + 1
  <2> DEFINE D == MonthlyDay(k, day)
             hour == schedule.hour
  <2>1. D \in Int /\ hour \in Int /\ 0 <= hour /\ hour < Slots /\ D * Slots \in Int
    BY <1>0, <1>4
  <2> HIDE DEF D, hour
  <2>2. last \in Int /\ last <= D * Slots + hour
    <3>1. D * Slots + hour \in Int /\ last = Date(zone, D * Slots + hour)
      BY <1>2, <1>4, <2>1 DEF D, hour
    <3> QED
      BY <1>0, <3>1, DateFacts
  <2>3. Wall(zone, after) \in Int /\ Wall(zone, after) <= after + 1
    BY <1>0, WallFacts
  <2>4. Wall(zone, after) <= (D + 1) * Slots + hour
    <3>1. (D + 1) * Slots = D * Slots + Slots
      BY <1>0, <2>1
    <3> QED
      BY <1>0, <1>2, <2>1, <2>2, <2>3, <3>1
  <2>5. (D + 1) * Slots + hour \in Int /\ ((D + 1) * Slots + hour) \div Slots = D + 1
    BY <2>1, OneDaySlot
  <2> QED
    BY <2>3, <2>4, <2>5, DaysInOrder DEF DayAt, D
<1> HIDE DEF m, day, today
<1>9. CASE m = k
  <2>1. last' = Occurrence(k + 1)
    BY <1>0, <1>1, <1>2, <1>4, <1>9
  <2> QED
    BY <1>2, <1>4, <2>1
<1>10. CASE m # k
  <2>1. FirstDay(m) <= today /\ k + 1 <= m
    BY <1>3, <1>5, <1>7, <1>10, MonthOfDay DEF m, today
  <2>2. FirstDay(k + 1) <= FirstDay(m) /\ FirstDay(m) \in Int
    BY <1>3, <1>5, <2>1, MonthsInOrder, MonthLength
  <2>3. today = FirstDay(k + 1) /\ MonthlyDay(k, day) = FirstDay(k + 1) - 1
    BY <1>4, <1>5, <1>6, <1>8, <2>1, <2>2
  <2> DEFINE len(n) == DaysIn(YearOf(n), MonthOf(n))
  <2>4. ASSUME NEW n \in {k, k + 1} PROVE len(n) \in 28..31 /\ FirstDay(n + 1) = FirstDay(n) + len(n)
    <3>1. n \in Int
      BY <1>3, <2>4
    <3>2. YearOf(n) \in Int /\ MonthOf(n) \in 1..12
      BY <3>1, MonthTypes
    <3> QED
      BY <3>1, <3>2, MonthLength, TableOfDays
  <2>5. m = k + 1
    <3>1. FirstDay(k + 1) < FirstDay((k + 1) + 1)
      BY <1>6, <2>4
    <3> QED
      BY <1>3, <1>5, <2>3, <3>1, OneMonth DEF m, today
  <2>6. day \in Int /\ day >= 28
    BY <1>0, <1>6, <2>3, <2>4 DEF MonthlyDay, day
  <2>7. MonthlyDay(k + 1, day) >= FirstDay(k + 1) + 27
    BY <1>6, <2>4, <2>6 DEF MonthlyDay
  <2>8. DayAt(zone, after) < DayAt(zone, Occurrence(k + 1))
    BY <1>4, <1>5, <1>6, <2>3, <2>7 DEF today
  <2>9. after < Occurrence(k + 1)
    BY <1>0, <1>4, <2>8, LaterDay
  <2>10. last' = Occurrence(k + 1)
    BY <1>0, <1>1, <1>4, <2>5, <2>9
  <2> QED
    BY <1>2, <1>4, <2>10
<1> QED
  BY <1>9, <1>10

\* The invariant holds throughout.
LEMMA InvariantHolds == Spec => []CalendarInv
BY InvariantInitially, InvariantPreserved, PTL DEF Spec

\* The next run that NextRun computes is always the first time after the given one
\* that the schedule means.
THEOREM NextRunIsFirst == Spec => []NextIsFirst
BY InvariantHolds, InvariantSuffices, PTL

\* A monthly job is never started twice for a month and never not at all.
THEOREM MonthsAreServed == Spec => EveryMonth
<1>1. CalendarInv /\ [Next]_vars
        => [schedule.type = "MONTHLY" /\ last # Never =>
              MonthAt[DayAt(zone, last')] = MonthAt[DayAt(zone, last)] + 1]_vars
  BY NextMonthServed DEF Next
<1> QED
  BY <1>1, InvariantHolds, PTL DEF Spec, EveryMonth

=============================================================================
