---------------------------- MODULE MCRetention ----------------------------
(* Retention over real dates: snapshots around a year end that is also a   *)
(* week and a month end of its own, keyed as the code keys them.           *)
EXTENDS Retention, Calendar

\* The days of five snapshots: 2027-12-25, 2027-12-31, 2028-01-02 (a Sunday),
\* and twice the Monday after it.  A stamp is the place in this list.
Days == <<YearStart(2028) - 7, YearStart(2028) - 1, YearStart(2028) + 1,
          YearStart(2028) + 2, YearStart(2028) + 2>>
MCStamp == 1..5

MCTier == {"daily", "weekly", "monthly", "yearly"}
\* The periods of those days, numbered; the assumption says that these are the
\* periods of the code's keys.  (As literals, because TLC looks them up often.)
MCKey == [daily |-> <<1, 2, 3, 4, 4>>, weekly |-> <<1, 2, 2, 3, 3>>,
          monthly |-> <<1, 1, 2, 2, 2>>, yearly |-> <<1, 1, 2, 2, 2>>]

CodeKey(t, d) ==
    CASE t = "daily" -> DayKey(d) [] t = "weekly" -> WeekKey(d)
      [] t = "monthly" -> MonthKey(d) [] t = "yearly" -> YearKey(d)
ASSUME KeysAreTheCodes ==
    \A t \in MCTier, s, r \in MCStamp :
        (MCKey[t][s] = MCKey[t][r]) <=> (CodeKey(t, Days[s]) = CodeKey(t, Days[r]))

\* The year ends of a whole cycle of weekdays and leap years.
ASSUME WeekKeysAreWeeks == WeeksAreWeeks({YearStart(y) + d : y \in 2015..2043, d \in -8..8})

Policy(d, w, m, y) == [daily |-> d, weekly |-> w, monthly |-> m, yearly |-> y]
MCPolicies == {Policy(0, 0, 0, 0), Policy(2, 0, 0, 0), Policy(1, 2, 0, 0), Policy(0, 1, 2, 1)}
ZeroPolicy == {Policy(0, 0, 0, 0)}
=============================================================================
