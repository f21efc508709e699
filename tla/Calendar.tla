------------------------------ MODULE Calendar ------------------------------
(***************************************************************************)
(* The periods that snapshot retention thinks in (helpers/filesystem       *)
(* lib/snapshots.ts).  A day is counted from 1970-01-01, a Thursday.  The   *)
(* operators that stand for JavaScript's Date are the proleptic Gregorian  *)
(* calendar; the period keys are the code's.                               *)
(***************************************************************************)
EXTENDS Integers, Sequences

-----------------------------------------------------------------------------
(* Date.                                                                   *)

LeapDaysBefore(y) == LET n == y - 1 IN n \div 4 - n \div 100 + n \div 400
YearStart(y) == 365 * (y - 1970) + LeapDaysBefore(y) - LeapDaysBefore(1970)

\* getUTCFullYear.
Year(d) ==
    LET low == 1970 + d \div 366
    IN CHOOSE y \in low..(low + 2) : YearStart(y) <= d /\ d < YearStart(y + 1)

\* The first day of each month, counted from the first of the year.
MonthStarts(y) ==
    LET leap == YearStart(y + 1) - YearStart(y) - 365
        common == <<0, 31, 59, 90, 120, 151, 181, 212, 243, 273, 304, 334>>
    IN [m \in 1..12 |-> IF m <= 2 THEN common[m] ELSE common[m] + leap]

\* getUTCMonth, from 1.
Month(d) ==
    LET into == d - YearStart(Year(d))
    IN CHOOSE m \in 1..12 :
          /\ MonthStarts(Year(d))[m] <= into
          /\ m = 12 \/ into < MonthStarts(Year(d))[m + 1]

\* getUTCDay, from Sunday = 0.
DayOfWeek(d) == (d + 4) % 7

-----------------------------------------------------------------------------
(* The keys (snapshots.ts:93).                                             *)

DayKey(d) == <<d>>
MonthKey(d) == <<Year(d), Month(d)>>
YearKey(d) == <<Year(d)>>

\* The Thursday of the week of d; weeks start on Monday.
ThursdayOf(d) == d - ((DayOfWeek(d) + 6) % 7) + 3

\* The first week of a year is the one with January 4th.
WeekKey(d) ==
    LET isoYear == Year(ThursdayOf(d))
        firstThursday == ThursdayOf(YearStart(isoYear) + 3)
    IN <<isoYear, 1 + (ThursdayOf(d) - firstThursday) \div 7>>

-----------------------------------------------------------------------------
\* Two days share a week key exactly when they lie in the same Monday-to-Sunday
\* week, across every kind of year end: "getting that wrong silently merges two
\* weeks into one bucket and deletes a backup" (snapshots.ts:103).
MondayOf(d) == d - ((d + 3) % 7)
WeeksAreWeeks(Days) ==
    \A d \in Days : \A e \in (d - 7)..(d + 7) :
        (WeekKey(d) = WeekKey(e)) <=> (MondayOf(d) = MondayOf(e))
=============================================================================
