--------------------------- MODULE BackupSchedule ---------------------------
(***************************************************************************)
(* When a backup runs next (addons/backup-manager/lib/schedule.ts), and    *)
(* the nextRunAt that Backup Manager keeps from it.                         *)
(*                                                                         *)
(* Time is counted in hours from 1970-01-01: atMinute is taken in whole    *)
(* hours, and every day has 24 of them (no daylight-saving change).        *)
(***************************************************************************)
EXTENDS Calendar, FiniteSetsExt

CONSTANTS
    Schedules,   \* the schedules a job may be given
    Starts,      \* hours at which a job may be created
    Span,        \* hours that a behaviour covers
    Lag          \* how late, in hours, a due job may be picked up

\* As saveJobAction stores them; the moments are those of whole hours.
ASSUME SchedulesOK ==
    /\ Schedules \subseteq [kind : {"daily", "interval"}, every : 1..720, at : 0..23, days : SUBSET (0..6)]
    /\ Starts \subseteq Nat
    /\ Lag \subseteq Nat

VARIABLES
    schedule,   \* kind, every, at and days of the job
    begin,      \* when it was created
    now,        \* when nextRunAt was last written
    due         \* nextRunAt
vars == <<schedule, begin, now, due>>

StartOfDay(t) == t - (t % 24)
WeekdayAt(t) == DayOfWeek(t \div 24)

-----------------------------------------------------------------------------
(* nextRun (schedule.ts:97).                                               *)

Clamp(at) == Min({23, Max({0, at})})
OnDay(s, t) == s.days = {} \/ WeekdayAt(t) \in s.days

\* Mutant: today is never considered.
NextDailyFromTomorrow(s, from) ==
    Min({t \in {StartOfDay(from) + 24 * i + Clamp(s.at) : i \in 1..14} : OnDay(s, t)})

\* The first of the next fifteen days' candidates that is still to come and
\* on one of the days; tomorrow if there is none.
NextDaily(s, from) ==
    LET candidates == {StartOfDay(from) + 24 * i + Clamp(s.at) : i \in 0..14}
        fitting == {t \in candidates : t > from /\ OnDay(s, t)}
    IN IF fitting = {} THEN StartOfDay(from) + 24 + Clamp(s.at) ELSE Min(fitting)

StepOf(s) == IF s.every >= 1 THEN s.every ELSE 1

\* Stepped by `every` from the given time TODAY, past `from`.
NextInterval(s, from) ==
    LET start == StartOfDay(from) + Clamp(s.at)
    IN IF start > from THEN start
       ELSE start + StepOf(s) * ((from - start) \div StepOf(s) + 1)

NextRun(s, from) ==
    IF s.kind = "daily" THEN NextDaily(s, from) ELSE NextInterval(s, from)

-----------------------------------------------------------------------------
\* saveJobAction.
Init ==
    /\ schedule \in Schedules
    /\ begin \in Starts
    /\ now = begin
    /\ due = NextRun(schedule, now)

\* The tick finds the job due, sooner or later, and re-stamps it (markRun).
TickMarks(late) ==
    /\ due + late <= begin + Span
    /\ now' = due + late
    /\ due' = NextRun(schedule, now')
    /\ UNCHANGED <<schedule, begin>>

\* The job is edited before it is due: nextRunAt is computed again.
EditSchedule(s, t) ==
    /\ t <= begin + Span
    /\ schedule' = s
    /\ now' = t
    /\ due' = NextRun(s, t)
    /\ UNCHANGED begin

Next ==
    \/ \E late \in Lag : TickMarks(late)
    \/ \E s \in Schedules, t \in now..due : EditSchedule(s, t)

Spec == Init /\ [][Next]_vars

-----------------------------------------------------------------------------
(* Properties.                                                             *)

\* A job is due at the very next of its moments, never at the moment that is
\* now ("or the job re-fires on every tick forever", schedule.ts:92), with none
\* passed over, across week, month and year ends and however late it was picked
\* up.  An interval's moments are anchored, so that it does not drift
\* (schedule.ts:11); here, where it divides the day and the anchor lies in the
\* day's first interval.
IsMomentOf(s, t) ==
    IF s.kind = "daily" THEN t % 24 = s.at /\ (s.days = {} \/ (t \div 24 + 4) % 7 \in s.days)
                        ELSE t % s.every = s.at
Fits(s) == s.kind = "interval" => 24 % s.every = 0 /\ s.at < s.every
DueAtNextMoment ==
    Fits(schedule) =>
        /\ due > now
        /\ IsMomentOf(schedule, due)
        /\ \A t \in (now + 1)..(due - 1) : ~IsMomentOf(schedule, t)
=============================================================================
