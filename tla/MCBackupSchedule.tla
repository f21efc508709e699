-------------------------- MODULE MCBackupSchedule --------------------------
(* Schedules walked across the year ends of two years, one of them a leap  *)
(* year.                                                                   *)
EXTENDS BackupSchedule

Daily(at, days) == [kind |-> "daily", every |-> 24, at |-> at, days |-> days]
Interval(every, at) == [kind |-> "interval", every |-> every, at |-> at, days |-> {}]

MCSchedules ==
    {Daily(2, {}), Daily(22, {1, 2, 3, 4, 5}), Daily(2, {0}), Daily(23, {6}),
     Interval(6, 2), Interval(24, 22), Interval(8, 0)}

\* 20:00 on December 27th.
MCStarts == {24 * (YearStart(y) - 5) + 20 : y \in {2019, 2020}}
=============================================================================
