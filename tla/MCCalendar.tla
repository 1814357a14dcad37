----------------------------- MODULE MCCalendar -----------------------------
(* January 2024 to March 2025: the turn of a year, a February with and one    *)
(* without a 29th.  A day has three slots; daylight saving time skips the     *)
(* second slot of 31 March 2024 and repeats that of 27 October 2024.          *)
EXTENDS Calendar

\* Day 0, day 32 and a week without days are for Validate to refuse; no year
\* has a 30 February.
MCSchedules ==
    [type : {"MONTHLY"}, day : {0, 1, 27, 28, 29, 30, 31, 32}, hour : 0..2]
    \cup [type : {"DAILY"}, hour : 0..2]
    \cup [type : {"WEEKLY"}, hour : 0..2, weekdays : {{}, {0}, {1, 3, 5}, {0, 6}}]
    \cup [type : {"CRON"}, spec : {Spec5({0}, {29}, {2}, AnyWeekday), Spec5({1}, {30}, {2}, AnyWeekday),
                                   Spec5({1, 2}, {13}, AnyMonth, {5})}]
    \cup [type : {"MANUAL"}]

\* North of the equator one summer, south of it two that reach out of the window.
Begins == (31 + 29 + 30) * 3 + 1
Ends == Begins + 210 * 3
North == [begins |-> Begins, ends |-> Ends]
South == {[begins |-> -2, ends |-> (31 + 29 + 31 + 6) * 3 + 2], [begins |-> Ends - 63, ends |-> Horizon + 2]}
MCZones ==
    {[summers |-> {}, east |-> FALSE], [summers |-> {North}, east |-> FALSE],
     [summers |-> {North}, east |-> TRUE], [summers |-> South, east |-> TRUE]}
=============================================================================
