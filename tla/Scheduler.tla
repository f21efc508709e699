----------------------------- MODULE Scheduler -----------------------------
(***************************************************************************)
(* The scheduler helper (helpers/scheduler/run.ts): it gives every         *)
(* schedule of an enabled module a timer, and runs it when that fires.     *)
(*                                                                         *)
(* Time is a count of units that the timers, the watcher and the persisted *)
(* lastRunAt are measured in.  A job is a module's one schedule.  The read *)
(* of a module's enabled flag, which each tick awaits, is taken to return  *)
(* before the next unit of time (ReadsAreQuick); the reads that a pass     *)
(* over the jobs awaits may take any time.  Any read may also throw: what  *)
(* is promised about time is promised from the last such fault on.         *)
(***************************************************************************)
EXTENDS Naturals, FiniteSets

CONSTANTS
    Job,             \* schedules, one per module
    Pass,            \* passes over the jobs that may overlap
    BootPass,        \* the one that startScheduler makes
    SkipOnBoot,      \* jobs that do not catch up
    Every,           \* interval of a job
    Watch,           \* interval of the watcher (RECONCILE_MS)
    Stagger,         \* longest delay of a first run
    ReadsAreQuick    \* isEnabled answers within a unit of time

ASSUME ConstantsOK ==
    /\ BootPass \in Pass
    /\ SkipOnBoot \subseteq Job
    /\ Every \in Nat \ {0} /\ Watch \in Nat \ {0}
    /\ Stagger \in 1..Every
    /\ ReadsAreQuick \in BOOLEAN

VARIABLES
    up,          \* the server is running
    enabled,     \* modules switched on (core's table)
    age,         \* time since lastRunAt, per job (the helper's table), capped
    registered,  \* jobs that have, or are getting, a timer
    todo,        \* what each pass has still to look at
    asking,      \* scheduleJob calls waiting for lastRunAt
    left,        \* time left on each timer: <<pass that made it, job>> -> 0..Every
    watch,       \* time left to the watcher's next pass
    checking,    \* ticks of a job that wait for isEnabled
    running,     \* the set that keeps a job from overlapping itself
    active,      \* how many runs of a job are really going
    \* history
    idle,        \* time a job has been enabled, up and spared faults, and not run
    owed,        \* jobs that fell due while the server was down
    uptime       \* time since the server started, capped

dbVars    == <<enabled, age>>
passVars  == <<registered, todo, asking>>
timerVars == <<left, watch>>
runVars   == <<checking, running, active>>
history   == <<idle, owed, uptime>>
vars == <<up, dbVars, passVars, timerVars, runVars, history>>

\* Times are counted only as far as they are told apart: age up to the
\* interval, idle time and uptime to just beyond what is promised.
MaxAge == Every
MaxIdle == Watch + Every + 1
MaxUptime == Stagger + 1
Timer == Pass \X Job
Armed == DOMAIN left
Overdue(j) == age[j] >= Every
AtMost(n, m) == IF n < m THEN n ELSE m

-----------------------------------------------------------------------------
Init ==
    /\ up = FALSE
    /\ enabled \in SUBSET Job
    /\ age = [j \in Job |-> MaxAge]
    /\ registered = {}
    /\ todo = [p \in Pass |-> {}]
    /\ asking = {}
    /\ left = [t \in {} |-> 0]
    /\ watch = Watch
    /\ checking = [j \in Job |-> 0]
    /\ running = {}
    /\ active = [j \in Job |-> 0]
    /\ idle = [j \in Job |-> 0]
    /\ owed = {}
    /\ uptime = 0

\* startScheduler: look at every enabled module's job, and start the watcher.
Boot ==
    /\ ~up
    /\ up' = TRUE
    /\ todo' = [todo EXCEPT ![BootPass] = enabled]
    /\ watch' = Watch
    /\ owed' = {j \in enabled \ SkipOnBoot : Overdue(j)}
    /\ uptime' = 0
    /\ UNCHANGED <<dbVars, registered, asking, left, runVars, idle>>

\* After a fault, nothing is promised of these jobs until it has worn off.
Excuse(J) ==
    /\ idle' = [j \in Job |-> IF j \in J THEN 0 ELSE idle[j]]
    /\ owed' = owed \ J
    /\ UNCHANGED uptime

\* The watcher fires: another pass, whether or not an earlier one is through.
\* If the enabled modules cannot be read, this pass is dropped.
WatcherFires ==
    /\ up /\ watch = 0
    /\ watch' = Watch
    /\ \/ /\ \E p \in Pass \ {BootPass} :
             /\ todo[p] = {} /\ \A j \in Job : <<p, j>> \notin asking
             /\ todo' = [todo EXCEPT ![p] = enabled]
          /\ UNCHANGED history
       \/ Excuse(Job) /\ UNCHANGED todo
    /\ UNCHANGED <<up, dbVars, registered, asking, left, runVars>>

\* Mutant: registered only once lastRunAt is known.
LookAtJobLate(p, j) ==
    /\ j \in todo[p] /\ \A k \in Job : <<p, k>> \notin asking
    /\ todo' = [todo EXCEPT ![p] = @ \ {j}]
    /\ asking' = IF j \in registered THEN asking ELSE asking \cup {<<p, j>>}
    /\ UNCHANGED <<up, dbVars, registered, timerVars, runVars, history>>

\* scheduleJob up to its await: one pass only goes on with a job.
LookAtJob(p, j) ==
    /\ j \in todo[p] /\ \A k \in Job : <<p, k>> \notin asking
    /\ todo' = [todo EXCEPT ![p] = @ \ {j}]
    /\ asking' = IF j \in registered THEN asking ELSE asking \cup {<<p, j>>}
    /\ registered' = registered \cup {j}
    /\ UNCHANGED <<up, dbVars, timerVars, runVars, history>>

\* Mutant: never catch up.
FirstDelayFull(j) == {Every}

\* A job that fell due while the server was down, or never ran, or whose last
\* run cannot be read, goes first.
FirstDelay(j) ==
    (IF j \in SkipOnBoot \/ ~Overdue(j) THEN {Every} ELSE {})
    \cup (IF j \in SkipOnBoot THEN {} ELSE 1..Stagger)

\* The timer is set, for a job that is registered by now.
ArmTimer(p, j) ==
    /\ <<p, j>> \in asking
    /\ asking' = asking \ {<<p, j>>}
    /\ registered' = registered \cup {j}
    /\ \E d \in FirstDelay(j) :
        left' = [t \in Armed \cup {<<p, j>>} |-> IF t = <<p, j>> THEN d ELSE left[t]]
    /\ UNCHANGED <<up, dbVars, todo, watch, runVars, history>>

-----------------------------------------------------------------------------
\* Mutant: the running set is not looked at.
TimerFiresAnyway(t) ==
    /\ t \in Armed /\ left[t] = 0
    /\ left' = [left EXCEPT ![t] = Every]
    /\ checking' = [checking EXCEPT ![t[2]] = @ + 1]
    /\ UNCHANGED <<up, dbVars, passVars, watch, running, active, history>>

\* runJob up to its await: a tick is skipped while the job is running.
TimerFires(t) ==
    /\ t \in Armed /\ left[t] = 0
    /\ left' = [left EXCEPT ![t] = Every]
    /\ checking' = [checking EXCEPT ![t[2]] = IF t[2] \in running THEN @ ELSE @ + 1]
    /\ UNCHANGED <<up, dbVars, passVars, watch, running, active, history>>

\* isEnabled says yes: the job is marked running and run.
CheckPasses(j) ==
    /\ checking[j] > 0 /\ j \in enabled
    /\ checking' = [checking EXCEPT ![j] = @ - 1]
    /\ running' = running \cup {j}
    /\ active' = [active EXCEPT ![j] = @ + 1]
    /\ idle' = [idle EXCEPT ![j] = 0]
    /\ owed' = owed \ {j}
    /\ UNCHANGED <<up, dbVars, passVars, timerVars, uptime>>

\* isEnabled says no, or cannot tell: the tick is skipped, and the timer stays.
CheckFails(j) ==
    /\ checking[j] > 0
    /\ checking' = [checking EXCEPT ![j] = @ - 1]
    /\ Excuse({j})
    /\ UNCHANGED <<up, dbVars, passVars, timerVars, running, active>>

\* Mutant: a run that throws stays marked as running.
JobEndsMarked(j) ==
    /\ active[j] > 0
    /\ active' = [active EXCEPT ![j] = @ - 1]
    /\ age' = [age EXCEPT ![j] = 0]
    /\ UNCHANGED <<up, enabled, passVars, timerVars, checking, running, history>>

\* The run returns or throws, and is recorded if the database lets it.
JobEnds(j) ==
    /\ active[j] > 0
    /\ active' = [active EXCEPT ![j] = @ - 1]
    /\ running' = running \ {j}
    /\ \/ age' = [age EXCEPT ![j] = 0]
       \/ UNCHANGED age
    /\ UNCHANGED <<up, enabled, passVars, timerVars, checking, history>>

-----------------------------------------------------------------------------
\* core's switch on the modules page; nothing is restarted.
Switch(j) ==
    /\ up
    /\ enabled' = IF j \in enabled THEN enabled \ {j} ELSE enabled \cup {j}
    /\ idle' = [idle EXCEPT ![j] = 0]
    /\ owed' = owed \ {j}
    /\ UNCHANGED <<up, age, passVars, timerVars, runVars, uptime>>

\* The process ends; what it had in memory is gone.
Stop ==
    /\ up
    /\ up' = FALSE
    /\ registered' = {} /\ asking' = {}
    /\ todo' = [p \in Pass |-> {}]
    /\ left' = [t \in {} |-> 0]
    /\ checking' = [j \in Job |-> 0]
    /\ running' = {}
    /\ active' = [j \in Job |-> 0]
    /\ idle' = [j \in Job |-> 0]
    /\ owed' = {}
    /\ uptime' = 0
    /\ UNCHANGED <<dbVars, watch>>

\* A job waits for a pass that has seen it, is being run, or is switched off.
Busy(j) ==
    \/ ~up \/ j \notin enabled \/ active[j] > 0
    \/ \E p \in Pass : j \in todo[p] \/ <<p, j>> \in asking

\* A unit of time: no timer is overtaken.
TimePasses ==
    /\ \A t \in Armed : left[t] > 0
    /\ up => watch > 0
    /\ ReadsAreQuick => \A j \in Job : checking[j] = 0
    /\ left' = [t \in Armed |-> left[t] - 1]
    /\ watch' = IF up THEN watch - 1 ELSE watch
    /\ age' = [j \in Job |-> AtMost(age[j] + 1, MaxAge)]
    /\ idle' = [j \in Job |-> IF Busy(j) THEN 0 ELSE AtMost(idle[j] + 1, MaxIdle)]
    /\ uptime' = IF up /\ \A p \in Pass : todo[p] = {} /\ asking = {}
                 THEN AtMost(uptime + 1, MaxUptime) ELSE uptime
    /\ UNCHANGED <<up, enabled, passVars, runVars, owed>>

Next ==
    \/ Boot \/ WatcherFires \/ Stop \/ TimePasses
    \/ \E p \in Pass, j \in Job : LookAtJob(p, j) \/ ArmTimer(p, j)
    \/ \E t \in Timer : TimerFires(t)
    \/ \E j \in Job : CheckPasses(j) \/ CheckFails(j) \/ JobEnds(j) \/ Switch(j)

Spec == Init /\ [][Next]_vars

-----------------------------------------------------------------------------
(* Properties.                                                             *)

TypeOK ==
    /\ up \in BOOLEAN
    /\ enabled \subseteq Job
    /\ age \in [Job -> 0..MaxAge]
    /\ registered \subseteq Job
    /\ todo \in [Pass -> SUBSET Job]
    /\ asking \subseteq Timer
    /\ Armed \subseteq Timer
    /\ left \in [Armed -> 0..Every]
    /\ watch \in 0..Watch
    /\ checking \in [Job -> Nat]
    /\ running \subseteq Job
    /\ active \in [Job -> Nat]
    /\ idle \in [Job -> 0..MaxIdle]
    /\ owed \subseteq Job
    /\ uptime \in 0..MaxUptime

\* However passes overlap, a job never gets a second timer (run.ts:32).
OneTimerPerJob == \A t, u \in Armed : t[2] = u[2] => t = u

\* "A long run must not overlap itself" (run.ts:77), although the tick awaits
\* between looking at the running set and adding to it.
NoOverlap == \A j \in Job : active[j] <= 1

\* A module that stays switched on has its job started at least once in every
\* interval, or once more than that a pass of the watcher after it was switched
\* on: never "dead until the next restart" (run.ts:20).
EnabledJobsRun == \A j \in Job : idle[j] <= Watch + Every

\* "If a job fell due while the server was down it runs shortly after boot
\* rather than waiting a full interval" (HELPER.md).
CatchesUp == uptime > Stagger => owed = {}
=============================================================================
