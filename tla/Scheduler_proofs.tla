-------------------------- MODULE Scheduler_proofs --------------------------
(***************************************************************************)
(* Theorems about Scheduler, for any jobs, passes, intervals and delays.   *)
(* A job is registered when it has a timer or is getting one, and then one *)
(* only (Timers).  If reads are quick, a tick is never at its await when   *)
(* the job's timer fires again (Checks); from that follow NoOverlap and    *)
(* how long a job can wait: a pass of the watcher until it has a timer,    *)
(* and then what is left on that (Punctual); what is owed from before the  *)
(* start has a first delay of Stagger at most (Owes).                      *)
(***************************************************************************)
EXTENDS Scheduler, TLAPS

Has(p, j) == <<p, j>> \in asking \cup Armed

Timers ==
    /\ \A p, q \in Pass, j \in Job : Has(p, j) /\ Has(q, j) => p = q
    /\ \A p \in Pass, j \in Job : Has(p, j) => j \in registered
    /\ \A j \in registered : \E p \in Pass : Has(p, j)

\* A server that is down has nothing going on.
Down ==
    ~up => /\ registered = {} /\ asking = {} /\ Armed = {} /\ owed = {}
           /\ \A p \in Pass : todo[p] = {}
           /\ \A j \in Job : checking[j] = 0 /\ active[j] = 0 /\ idle[j] = 0

\* At most one tick of a job is at its await or past it, and no timer of the
\* job has run out meanwhile.
Checks ==
    \A j \in Job :
        /\ checking[j] + active[j] <= 1
        /\ active[j] > 0 <=> j \in running
        /\ checking[j] > 0 => \A p \in Pass : <<p, j>> \in Armed => left[<<p, j>>] > 0

\* Until a job has a timer, it waits for the watcher; then for the timer.
PunctualIs(j) ==
    /\ j \notin enabled \/ active[j] > 0 => idle[j] = 0
    /\ j \notin registered =>
          /\ idle[j] <= Watch
          /\ (\A p \in Pass : j \notin todo[p]) => idle[j] + watch <= Watch
    /\ \A p \in Pass : <<p, j>> \in asking => idle[j] <= Watch
    /\ \A p \in Pass : <<p, j>> \in Armed =>
          /\ idle[j] <= Watch + Every
          /\ checking[j] > 0 \/ idle[j] + left[<<p, j>>] <= Watch + Every

Punctual == \A j \in Job : PunctualIs(j)

\* What is owed is in the hands of the first pass until the clock starts, and
\* has a timer of Stagger at most from then on.
OwesIs(j) ==
    /\ j \notin SkipOnBoot /\ Overdue(j) /\ active[j] = 0
    /\ j \notin registered => uptime = 0 /\ \E p \in Pass : j \in todo[p]
    /\ \A p \in Pass : <<p, j>> \in asking => uptime = 0
    /\ \A p \in Pass : <<p, j>> \in Armed =>
          /\ uptime <= Stagger
          /\ checking[j] > 0 \/ left[<<p, j>>] + uptime <= Stagger

Owes == \A j \in owed : OwesIs(j)

-----------------------------------------------------------------------------
LEMMA InitTypeOK == Init => TypeOK
<1> SUFFICES ASSUME Init PROVE TypeOK
  OBVIOUS
<1> USE ConstantsOK DEF Init, Armed, MaxAge, MaxIdle, MaxUptime, Timer
<1>1. Armed = {} /\ left \in [Armed -> 0..Every]
  OBVIOUS
<1>2. age \in [Job -> 0..MaxAge] /\ idle \in [Job -> 0..MaxIdle]
  OBVIOUS
<1>3. checking \in [Job -> Nat] /\ active \in [Job -> Nat] /\ todo \in [Pass -> SUBSET Job]
  OBVIOUS
<1>4. watch \in 0..Watch /\ uptime \in 0..MaxUptime
  OBVIOUS
<1>5. up \in BOOLEAN /\ enabled \subseteq Job /\ registered \subseteq Job /\ owed \subseteq Job
      /\ running \subseteq Job /\ asking \subseteq Timer
  OBVIOUS
<1> QED
  BY <1>1, <1>2, <1>3, <1>4, <1>5 DEF TypeOK

LEMMA NextTypeOK == TypeOK /\ [Next]_vars => TypeOK'
<1> SUFFICES ASSUME TypeOK, [Next]_vars PROVE TypeOK'
  OBVIOUS
<1> USE ConstantsOK DEF TypeOK, Armed, MaxAge, MaxIdle, MaxUptime, Timer
<1>1. CASE Boot
  <2>1. todo' \in [Pass -> SUBSET Job]
    BY <1>1 DEF Boot
  <2>2. owed' \subseteq Job /\ uptime' \in 0..MaxUptime /\ watch' \in 0..Watch /\ up' \in BOOLEAN
    BY <1>1 DEF Boot
  <2> QED
    BY <1>1, <2>1, <2>2 DEF Boot, dbVars, runVars
<1>2. CASE WatcherFires
  <2>1. todo' \in [Pass -> SUBSET Job]
    BY <1>2 DEF WatcherFires
  <2>2. idle' \in [Job -> 0..MaxIdle] /\ owed' \subseteq Job /\ uptime' \in 0..MaxUptime
    BY <1>2 DEF WatcherFires, Excuse, history
  <2>3. watch' \in 0..Watch
    BY <1>2 DEF WatcherFires
  <2> QED
    BY <1>2, <2>1, <2>2, <2>3 DEF WatcherFires, dbVars, runVars
<1>3. CASE Stop
  <2>1. Armed' = {} /\ left' \in [Armed' -> 0..Every]
    BY <1>3 DEF Stop
  <2>2. todo' \in [Pass -> SUBSET Job] /\ idle' \in [Job -> 0..MaxIdle]
    BY <1>3 DEF Stop
  <2>3. checking' \in [Job -> Nat] /\ active' \in [Job -> Nat]
    BY <1>3 DEF Stop
  <2>4. owed' = {} /\ registered' = {} /\ asking' = {} /\ running' = {} /\ uptime' = 0 /\ up' = FALSE
    BY <1>3 DEF Stop
  <2>5. UNCHANGED <<enabled, age, watch>>
    BY <1>3 DEF Stop, dbVars
  <2>6. uptime' \in 0..MaxUptime
    BY <2>4
  <2> QED
    BY <2>1, <2>2, <2>3, <2>4, <2>5, <2>6
<1>4. CASE TimePasses
  <2>1. left' \in [Armed' -> 0..Every]
    BY <1>4 DEF TimePasses
  <2>2. age' \in [Job -> 0..MaxAge] /\ idle' \in [Job -> 0..MaxIdle] /\ uptime' \in 0..MaxUptime
    BY <1>4 DEF TimePasses, AtMost
  <2>3. watch' \in 0..Watch
    BY <1>4 DEF TimePasses
  <2>4. Armed' = Armed
    BY <1>4 DEF TimePasses
  <2> QED
    BY <1>4, <2>1, <2>2, <2>3, <2>4 DEF TimePasses, passVars, runVars
<1>5. ASSUME NEW p \in Pass, NEW j \in Job, LookAtJob(p, j) PROVE TypeOK'
  BY <1>5 DEF LookAtJob, dbVars, timerVars, runVars, history
<1>6. ASSUME NEW p \in Pass, NEW j \in Job, ArmTimer(p, j) PROVE TypeOK'
  <2>1. PICK d \in FirstDelay(j) :
           left' = [t \in Armed \cup {<<p, j>>} |-> IF t = <<p, j>> THEN d ELSE left[t]]
    BY <1>6 DEF ArmTimer
  <2>2. d \in 0..Every
    BY DEF FirstDelay
  <2>3. Armed' \subseteq Timer /\ left' \in [Armed' -> 0..Every]
    BY <2>1, <2>2
  <2> QED
    BY <1>6, <2>3 DEF ArmTimer, dbVars, runVars, history
<1>7. ASSUME NEW t \in Timer, TimerFires(t) PROVE TypeOK'
  <2>1. left' \in [Armed' -> 0..Every] /\ Armed' = Armed
    BY <1>7 DEF TimerFires
  <2>2. checking' \in [Job -> Nat]
    BY <1>7 DEF TimerFires
  <2> QED
    BY <1>7, <2>1, <2>2 DEF TimerFires, dbVars, passVars, history
<1>8. ASSUME NEW j \in Job, CheckPasses(j) PROVE TypeOK'
  BY <1>8 DEF CheckPasses, dbVars, passVars, timerVars
<1>9. ASSUME NEW j \in Job, CheckFails(j) PROVE TypeOK'
  BY <1>9 DEF CheckFails, Excuse, dbVars, passVars, timerVars
<1>10. ASSUME NEW j \in Job, JobEnds(j) PROVE TypeOK'
  BY <1>10 DEF JobEnds, passVars, timerVars, history
<1>11. ASSUME NEW j \in Job, Switch(j) PROVE TypeOK'
  BY <1>11 DEF Switch, passVars, timerVars, runVars
<1>12. CASE UNCHANGED vars
  BY <1>12 DEF vars, dbVars, passVars, timerVars, runVars, history
<1> QED
  BY <1>1, <1>2, <1>3, <1>4, <1>5, <1>6, <1>7, <1>8, <1>9, <1>10, <1>11, <1>12 DEF Next

-----------------------------------------------------------------------------
(* One timer for each job.                                                 *)

LEMMA TimersGiveOne == TypeOK /\ Timers => OneTimerPerJob
<1> SUFFICES ASSUME TypeOK, Timers, NEW t \in Armed, NEW u \in Armed, t[2] = u[2] PROVE t = u
  BY DEF OneTimerPerJob
<1>1. PICK p \in Pass, j \in Job : t = <<p, j>>
  BY DEF TypeOK, Timer
<1>2. PICK q \in Pass, k \in Job : u = <<q, k>>
  BY DEF TypeOK, Timer
<1>3. j = k
  BY <1>1, <1>2
<1>4. p = q
  BY <1>1, <1>2, <1>3 DEF Timers, Has
<1> QED
  BY <1>1, <1>2, <1>3, <1>4

LEMMA NextTimers == TypeOK /\ Timers /\ Down /\ [Next]_vars => Timers' /\ Down'
<1> SUFFICES ASSUME TypeOK, Timers, Down, [Next]_vars PROVE Timers' /\ Down'
  OBVIOUS
<1>1. ASSUME UNCHANGED <<registered, asking>>, Armed' = Armed PROVE Timers'
  BY <1>1 DEF Timers, Has
<1>2. CASE Boot
  BY <1>1, <1>2 DEF Boot, Down, Armed
<1>3. CASE WatcherFires
  BY <1>1, <1>3 DEF WatcherFires, Down, Armed
<1>4. CASE Stop
  <2>1. Armed' = {} /\ asking' = {} /\ registered' = {}
    BY <1>4 DEF Stop, Armed
  <2>2. Timers'
    BY <2>1 DEF Timers, Has
  <2> QED
    BY <1>4, <2>1, <2>2 DEF Stop, Down
<1>5. CASE TimePasses
  <2>1. Armed' = Armed /\ UNCHANGED <<up, registered, asking, todo, checking, active, owed>>
    BY <1>5 DEF TimePasses, Armed, passVars, runVars
  <2>2. ~up => \A j \in Job : idle'[j] = 0
    BY <1>5 DEF TimePasses, Busy
  <2> QED
    BY <1>1, <2>1, <2>2 DEF Down
<1>6. ASSUME NEW p \in Pass, NEW j \in Job, LookAtJob(p, j) PROVE Timers' /\ Down'
  <2>1. up
    BY <1>6 DEF LookAtJob, Down
  <2>2. Armed' = Armed /\ registered' = registered \cup {j} /\ up' = up
        /\ asking' = IF j \in registered THEN asking ELSE asking \cup {<<p, j>>}
    BY <1>6 DEF LookAtJob, timerVars, Armed
  <2>3. CASE j \in registered
    BY <1>1, <2>1, <2>2, <2>3 DEF Down
  <2>4. CASE j \notin registered
    <3>1. \A q \in Pass : ~Has(q, j)
      BY <2>4 DEF Timers
    <3>2. \A q \in Pass, k \in Job : Has(q, k)' <=> Has(q, k) \/ (q = p /\ k = j)
      BY <2>2, <2>4 DEF Has
    <3>3. Timers'
      BY <2>2, <3>1, <3>2 DEF Timers, TypeOK
    <3> QED
      BY <2>1, <2>2, <3>3 DEF Down
  <2> QED
    BY <2>3, <2>4
<1>7. ASSUME NEW p \in Pass, NEW j \in Job, ArmTimer(p, j) PROVE Timers' /\ Down'
  <2>1. up /\ up' = up
    BY <1>7 DEF ArmTimer, Down
  <2>2. Armed' = Armed \cup {<<p, j>>} /\ asking' = asking \ {<<p, j>>} /\ <<p, j>> \in asking
    BY <1>7 DEF ArmTimer, Armed
  <2>3. registered' = registered
    BY <1>7, <2>2 DEF ArmTimer, Timers, Has
  <2>4. \A q \in Pass, k \in Job : Has(q, k)' <=> Has(q, k)
    BY <2>2 DEF Has
  <2> QED
    BY <2>1, <2>3, <2>4 DEF Timers, Down, TypeOK
<1>8. ASSUME NEW t \in Timer, TimerFires(t) PROVE Timers' /\ Down'
  <2>1. Armed' = Armed
    BY <1>8 DEF TimerFires, TypeOK, Armed
  <2>2. up /\ up' = up
    BY <1>8 DEF TimerFires, Down
  <2> QED
    BY <1>1, <1>8, <2>1, <2>2 DEF TimerFires, passVars, Down
<1>9. ASSUME NEW j \in Job, CheckPasses(j) \/ CheckFails(j) PROVE Timers' /\ Down'
  BY <1>1, <1>9 DEF CheckPasses, CheckFails, Down, passVars, timerVars, Armed
<1>10. ASSUME NEW j \in Job, JobEnds(j) PROVE Timers' /\ Down'
  BY <1>1, <1>10 DEF JobEnds, Down, passVars, timerVars, Armed
<1>11. ASSUME NEW j \in Job, Switch(j) PROVE Timers' /\ Down'
  BY <1>1, <1>11 DEF Switch, Down, passVars, timerVars, Armed
<1>12. CASE UNCHANGED vars
  BY <1>1, <1>12 DEF vars, passVars, timerVars, runVars, history, Armed, Down
<1> QED
  BY <1>2, <1>3, <1>4, <1>5, <1>6, <1>7, <1>8, <1>9, <1>10, <1>11, <1>12 DEF Next

-----------------------------------------------------------------------------
(* What a step does to the timers, for the lemmas below.                   *)

LEMMA ArmStep ==
    ASSUME TypeOK, Timers, NEW p \in Pass, NEW j \in Job, ArmTimer(p, j)
    PROVE  /\ Armed' = Armed \cup {<<p, j>>} /\ asking' = asking \ {<<p, j>>}
           /\ <<p, j>> \in asking /\ registered' = registered
           /\ left'[<<p, j>>] \in FirstDelay(j)
           /\ \A u \in Armed : u # <<p, j>> => left'[u] = left[u]
BY DEF ArmTimer, Armed, Timers, Has

LEMMA FireStep ==
    ASSUME TypeOK, NEW t \in Timer, TimerFires(t)
    PROVE  /\ Armed' = Armed /\ t \in Armed /\ left[t] = 0 /\ left'[t] = Every
           /\ \A u \in Armed : u # t => left'[u] = left[u]
           /\ \E q \in Pass, k \in Job : t = <<q, k>>
           /\ checking'[t[2]] = IF t[2] \in running THEN checking[t[2]] ELSE checking[t[2]] + 1
           /\ \A j \in Job : j # t[2] => checking'[j] = checking[j]
BY DEF TimerFires, TypeOK, Armed, Timer

LEMMA TimeStep ==
    ASSUME TypeOK, ReadsAreQuick, TimePasses
    PROVE  /\ Armed' = Armed /\ \A u \in Armed : left[u] > 0 /\ left'[u] = left[u] - 1
           /\ \A j \in Job : checking[j] = 0
           /\ UNCHANGED <<up, enabled, registered, todo, asking, checking, running, active, owed>>
BY DEF TimePasses, Armed, passVars, runVars

-----------------------------------------------------------------------------
(* Ticks that check and runs that go on.                                   *)

LEMMA NextChecks ==
    TypeOK /\ Timers /\ Checks /\ ReadsAreQuick /\ [Next]_vars => Checks'
<1> SUFFICES ASSUME TypeOK, Timers, Checks, ReadsAreQuick, [Next]_vars PROVE Checks'
  OBVIOUS
<1>1. ASSUME UNCHANGED <<left, runVars>> PROVE Checks'
  BY <1>1 DEF Checks, runVars, Armed
<1>2. CASE Boot \/ WatcherFires
  BY <1>1, <1>2 DEF Boot, WatcherFires
<1>3. CASE Stop
  BY <1>3 DEF Stop, Checks, Armed
<1>4. CASE TimePasses
  BY <1>4, TimeStep DEF Checks, TypeOK
<1>5. ASSUME NEW p \in Pass, NEW j \in Job, LookAtJob(p, j) PROVE Checks'
  BY <1>1, <1>5 DEF LookAtJob, timerVars
<1>6. ASSUME NEW p \in Pass, NEW j \in Job, ArmTimer(p, j) PROVE Checks'
  <2>1. left'[<<p, j>>] > 0
    BY <1>6, ArmStep, ConstantsOK DEF FirstDelay
  <2>2. UNCHANGED <<checking, running, active>>
    BY <1>6 DEF ArmTimer, runVars
  <2>3. ASSUME NEW k \in Job, checking[k] > 0, NEW q \in Pass, <<q, k>> \in Armed'
        PROVE  left'[<<q, k>>] > 0
    <3>1. CASE <<q, k>> = <<p, j>>
      BY <2>1, <3>1
    <3>2. CASE <<q, k>> # <<p, j>>
      BY <1>6, <2>3, <3>2, ArmStep DEF Checks
    <3> QED
      BY <3>1, <3>2
  <2> QED
    BY <2>2, <2>3 DEF Checks
<1>7. ASSUME NEW t \in Timer, TimerFires(t) PROVE Checks'
  <2>1. PICK q \in Pass, k \in Job : t = <<q, k>>
    BY <1>7, FireStep
  <2>2. checking[k] = 0
    BY <1>7, <2>1, FireStep DEF Checks, TypeOK
  <2>3. Armed' = Armed /\ left'[t] > 0 /\ \A u \in Armed : u # t => left'[u] = left[u]
    BY <1>7, FireStep, ConstantsOK
  <2>4. \A p \in Pass : <<p, k>> \in Armed => p = q
    BY <1>7, <2>1, FireStep DEF Timers, Has
  <2>5. running' = running /\ active' = active
    BY <1>7 DEF TimerFires
  <2>6. checking'[k] = IF k \in running THEN 0 ELSE 1
    BY <1>7, <2>1, <2>2, FireStep
  <2>7. \A j \in Job : j # k => checking'[j] = checking[j]
    BY <1>7, <2>1, FireStep
  <2>8. ASSUME NEW j \in Job
        PROVE  /\ checking'[j] + active'[j] <= 1
               /\ active'[j] > 0 <=> j \in running'
               /\ checking'[j] > 0 => \A p \in Pass : <<p, j>> \in Armed' => left'[<<p, j>>] > 0
    <3>1. CASE j = k
      <4>1. checking'[j] + active'[j] <= 1 /\ (active'[j] > 0 <=> j \in running')
        BY <2>2, <2>5, <2>6, <3>1 DEF Checks, TypeOK
      <4> QED
        BY <2>1, <2>3, <2>4, <3>1, <4>1
    <3>2. CASE j # k
      BY <2>1, <2>3, <2>5, <2>7, <3>2 DEF Checks
    <3> QED
      BY <3>1, <3>2
  <2> QED
    BY <2>8 DEF Checks
<1>8. ASSUME NEW j \in Job, CheckPasses(j) PROVE Checks'
  BY <1>8 DEF CheckPasses, timerVars, Checks, TypeOK, Armed
<1>9. ASSUME NEW j \in Job, CheckFails(j) PROVE Checks'
  BY <1>9 DEF CheckFails, timerVars, Checks, TypeOK, Armed
<1>10. ASSUME NEW j \in Job, JobEnds(j) PROVE Checks'
  BY <1>10 DEF JobEnds, timerVars, Checks, TypeOK, Armed
<1>11. ASSUME NEW j \in Job, Switch(j) PROVE Checks'
  BY <1>1, <1>11 DEF Switch, timerVars
<1>12. CASE UNCHANGED vars
  BY <1>1, <1>12 DEF vars, timerVars
<1> QED
  BY <1>2, <1>3, <1>4, <1>5, <1>6, <1>7, <1>8, <1>9, <1>10, <1>11, <1>12 DEF Next

-----------------------------------------------------------------------------
(* How long a job can wait.                                                *)

LEMMA NextPunctual ==
    /\ TypeOK /\ TypeOK' /\ Timers /\ Down /\ Checks /\ Punctual
    /\ ReadsAreQuick /\ [Next]_vars
    => Punctual'
<1> SUFFICES ASSUME TypeOK, TypeOK', Timers, Down, Checks, Punctual, ReadsAreQuick, [Next]_vars,
                    NEW k \in Job
             PROVE  PunctualIs(k)'
  BY DEF Punctual
<1>k. PunctualIs(k) /\ idle[k] \in Nat /\ watch \in 0..Watch /\ \A u \in Armed : left[u] \in 0..Every
  BY DEF Punctual, TypeOK, MaxIdle
<1>n. /\ idle'[k] \in Nat /\ watch' \in 0..Watch /\ checking[k] \in Nat /\ active[k] \in Nat
      /\ \A u \in Armed' : left'[u] \in 0..Every
  BY DEF TypeOK, MaxIdle
<1> USE ConstantsOK
<1>z. ASSUME idle'[k] = 0 PROVE PunctualIs(k)'
  BY <1>n, <1>z DEF PunctualIs
<1>1. CASE Boot \/ Stop
  BY <1>1, <1>z DEF Boot, Stop, Down
<1>2. CASE WatcherFires
  <2>1. CASE idle' = [j \in Job |-> IF j \in Job THEN 0 ELSE idle[j]]
    BY <1>z, <2>1
  <2>2. ASSUME NEW p \in Pass, todo' = [todo EXCEPT ![p] = enabled], UNCHANGED history
        PROVE  PunctualIs(k)'
    <3>1. CASE k \notin enabled
      BY <1>k, <1>z, <2>2, <3>1 DEF PunctualIs, history
    <3>2. CASE k \in enabled
      <4>1. k \in todo'[p]
        BY <2>2, <3>2 DEF TypeOK
      <4>2. UNCHANGED <<enabled, registered, asking, left, checking, active, idle>>
        BY <1>2, <2>2 DEF WatcherFires, dbVars, runVars, history
      <4> QED
        BY <1>k, <4>1, <4>2 DEF PunctualIs, Armed
    <3> QED
      BY <3>1, <3>2
  <2> QED
    BY <1>2, <2>1, <2>2 DEF WatcherFires, Excuse
<1>3. CASE TimePasses
  <2>1. CASE Busy(k)
    BY <1>3, <1>z, <2>1 DEF TimePasses
  <2>2. CASE ~Busy(k)
    <3>1. idle'[k] <= idle[k] + 1
      BY <1>3, <1>k, <2>2 DEF TimePasses, AtMost, MaxIdle
    <3>2. watch > 0 /\ watch' = watch - 1
      BY <1>3, <2>2 DEF TimePasses, Busy
    <3>3. k \in enabled /\ active[k] <= 0 /\ \A p \in Pass : k \notin todo[p] /\ <<p, k>> \notin asking
      BY <1>n, <2>2 DEF Busy
    <3>4. k \notin registered => idle'[k] + watch' <= Watch
      <4>1. k \notin registered => idle[k] + watch <= Watch
        BY <1>k, <3>3 DEF PunctualIs
      <4> QED
        BY <1>k, <1>n, <3>1, <3>2, <4>1
    <3>5. ASSUME NEW p \in Pass, <<p, k>> \in Armed
          PROVE  idle'[k] + left'[<<p, k>>] <= Watch + Every
      BY <1>3, <1>k, <1>n, <3>1, <3>5, TimeStep DEF PunctualIs
    <3> QED
      BY <1>3, <1>n, <3>3, <3>4, <3>5, TimeStep DEF PunctualIs
  <2> QED
    BY <2>1, <2>2
<1>4. ASSUME NEW p \in Pass, NEW j \in Job, LookAtJob(p, j) PROVE PunctualIs(k)'
  <2>1. \A q \in Pass : k # j => (k \in todo'[q] <=> k \in todo[q])
    BY <1>4 DEF LookAtJob, TypeOK
  <2>2. Armed' = Armed /\ left' = left /\ registered' = registered \cup {j}
        /\ UNCHANGED <<enabled, watch, checking, active, idle>>
        /\ asking' = IF j \in registered THEN asking ELSE asking \cup {<<p, j>>}
    BY <1>4 DEF LookAtJob, dbVars, timerVars, runVars, history, Armed
  <2> QED
    BY <1>k, <2>1, <2>2 DEF PunctualIs
<1>5. ASSUME NEW p \in Pass, NEW j \in Job, ArmTimer(p, j) PROVE PunctualIs(k)'
  <2>1. UNCHANGED <<enabled, todo, watch, checking, active, idle>>
    BY <1>5 DEF ArmTimer, dbVars, runVars, history
  <2>2. left'[<<p, j>>] \in 0..Every
    BY <1>5, <1>n, ArmStep
  <2>3. ASSUME NEW q \in Pass, <<q, k>> \in Armed'
        PROVE  idle'[k] <= Watch + Every
               /\ (checking'[k] > 0 \/ idle'[k] + left'[<<q, k>>] <= Watch + Every)
    <3>1. CASE q = p /\ k = j
      BY <1>5, <1>k, <2>1, <2>2, <3>1, ArmStep DEF PunctualIs
    <3>2. CASE ~(q = p /\ k = j)
      <4>1. <<q, k>> \in Armed /\ left'[<<q, k>>] = left[<<q, k>>]
        BY ZenonT(40), <1>5, <2>3, <3>2, ArmStep
      <4> QED
        BY <1>k, <2>1, <4>1 DEF PunctualIs
    <3> QED
      BY <3>1, <3>2
  <2> QED
    BY <1>5, <1>k, <2>1, <2>3, ArmStep DEF PunctualIs
<1>6. ASSUME NEW t \in Timer, TimerFires(t) PROVE PunctualIs(k)'
  <2>1. UNCHANGED <<enabled, registered, todo, asking, watch, active, idle>>
    BY <1>6 DEF TimerFires, dbVars, passVars, history
  <2>2. PICK q \in Pass, j \in Job : t = <<q, j>>
    BY <1>6, FireStep
  <2>3. CASE k = j /\ k \in running
    BY <1>z, <1>k, <2>1, <2>3 DEF Checks, PunctualIs
  <2>4. CASE k = j /\ k \notin running
    <3>1. checking'[k] > 0
      BY <1>6, <1>n, <2>2, <2>4, FireStep
    <3> QED
      BY <1>6, <1>k, <2>1, <3>1, FireStep DEF PunctualIs
  <2>5. CASE k # j
    <3>1. checking'[k] = checking[k] /\ \A p \in Pass : <<p, k>> \in Armed => left'[<<p, k>>] = left[<<p, k>>]
      BY <1>6, <2>2, <2>5, FireStep
    <3> QED
      BY <1>6, <1>k, <2>1, <3>1, FireStep DEF PunctualIs
  <2> QED
    BY <2>3, <2>4, <2>5
<1>7. ASSUME NEW j \in Job, CheckPasses(j) \/ CheckFails(j) PROVE PunctualIs(k)'
  <2>1. CASE k = j
    BY <1>7, <1>z, <2>1 DEF CheckPasses, CheckFails, Excuse, TypeOK
  <2>2. CASE k # j
    <3>1. UNCHANGED <<enabled, registered, todo, asking, left, watch>>
          /\ idle'[k] = idle[k] /\ checking'[k] = checking[k] /\ active'[k] = active[k]
      BY <1>7, <2>2 DEF CheckPasses, CheckFails, Excuse, dbVars, passVars, timerVars, TypeOK
    <3> QED
      BY <1>k, <3>1 DEF PunctualIs, Armed
  <2> QED
    BY <2>1, <2>2
<1>8. ASSUME NEW j \in Job, JobEnds(j) PROVE PunctualIs(k)'
  <2>1. UNCHANGED <<enabled, registered, todo, asking, left, watch, checking, idle>>
        /\ (active'[k] > 0 => active[k] > 0)
    BY <1>8 DEF JobEnds, passVars, timerVars, history, TypeOK
  <2> QED
    BY <1>k, <1>n, <2>1 DEF PunctualIs, Armed
<1>9. ASSUME NEW j \in Job, Switch(j) PROVE PunctualIs(k)'
  <2>1. CASE k = j
    BY <1>9, <1>z, <2>1 DEF Switch, TypeOK
  <2>2. CASE k # j
    <3>1. UNCHANGED <<registered, todo, asking, left, watch, checking, active>>
          /\ idle'[k] = idle[k] /\ (k \in enabled' <=> k \in enabled)
      BY <1>9, <2>2 DEF Switch, passVars, timerVars, runVars, TypeOK
    <3> QED
      BY <1>k, <3>1 DEF PunctualIs, Armed
  <2> QED
    BY <2>1, <2>2
<1>10. CASE UNCHANGED vars
  BY <1>10, <1>k DEF vars, dbVars, passVars, timerVars, runVars, history, PunctualIs, Armed
<1> QED
  BY <1>1, <1>2, <1>3, <1>4, <1>5, <1>6, <1>7, <1>8, <1>9, <1>10 DEF Next

-----------------------------------------------------------------------------
(* What fell due while the server was down.                                *)

LEMMA NextOwes ==
    /\ TypeOK /\ TypeOK' /\ Timers /\ Down /\ Checks /\ Owes
    /\ ReadsAreQuick /\ [Next]_vars
    => Owes'
<1> SUFFICES ASSUME TypeOK, TypeOK', Timers, Down, Checks, Owes, ReadsAreQuick, [Next]_vars,
                    NEW k \in Job, k \in owed'
             PROVE  OwesIs(k)'
  BY DEF Owes, TypeOK
<1>n. /\ uptime \in Nat /\ uptime' \in Nat /\ checking[k] \in Nat /\ active[k] \in Nat /\ age[k] \in Nat
      /\ \A u \in Armed : left[u] \in 0..Every
      /\ \A u \in Armed' : left'[u] \in 0..Every
  BY DEF TypeOK, MaxUptime, MaxAge
<1> USE ConstantsOK DEF Overdue
<1>1. CASE Boot
  <2>1. k \in todo'[BootPass] /\ uptime' = 0 /\ k \notin SkipOnBoot /\ Overdue(k)' /\ ~up
    BY <1>1 DEF Boot, TypeOK, dbVars
  <2>2. asking' = {} /\ Armed' = {} /\ active'[k] = 0
    BY <1>1, <2>1 DEF Boot, Down, runVars, Armed
  <2> QED
    BY <2>1, <2>2 DEF OwesIs
<1>2. CASE Stop
  BY <1>2 DEF Stop
<1>3. CASE WatcherFires
  <2>1. PICK p \in Pass : todo[p] = {} /\ todo' = [todo EXCEPT ![p] = enabled] /\ UNCHANGED history
    BY <1>3 DEF WatcherFires, Excuse, TypeOK
  <2>2. OwesIs(k) /\ uptime' = uptime
    BY <2>1 DEF Owes, history
  <2>3. \A q \in Pass : k \in todo[q] => k \in todo'[q]
    BY <2>1 DEF TypeOK
  <2> QED
    BY <1>3, <2>2, <2>3 DEF OwesIs, WatcherFires, dbVars, runVars, Armed
<1>4. CASE TimePasses
  <2>1. OwesIs(k)
    BY <1>4 DEF TimePasses, Owes
  <2>2. age'[k] >= Every
    BY <1>4, <1>n, <2>1 DEF TimePasses, AtMost, MaxAge, OwesIs
  <2>3. uptime' <= uptime + 1
    BY <1>4, <1>n DEF TimePasses, AtMost, MaxUptime
  <2>4. (\E p \in Pass : k \in todo[p] \/ <<p, k>> \in asking) => uptime' = uptime
    BY <1>4 DEF TimePasses
  <2>5. ASSUME NEW p \in Pass, <<p, k>> \in Armed
        PROVE  uptime' <= Stagger /\ left'[<<p, k>>] + uptime' <= Stagger
    BY <1>4, <1>n, <2>1, <2>3, <2>5, TimeStep DEF OwesIs
  <2> QED
    BY <1>4, <2>1, <2>2, <2>4, <2>5, TimeStep DEF OwesIs
<1>5. ASSUME NEW p \in Pass, NEW j \in Job, LookAtJob(p, j) PROVE OwesIs(k)'
  <2>1. \A q \in Pass : k # j => (k \in todo'[q] <=> k \in todo[q])
    BY <1>5 DEF LookAtJob, TypeOK
  <2>2. Armed' = Armed /\ registered' = registered \cup {j}
        /\ UNCHANGED <<age, left, checking, active, owed, uptime>>
        /\ asking' = IF j \in registered THEN asking ELSE asking \cup {<<p, j>>}
    BY <1>5 DEF LookAtJob, dbVars, timerVars, runVars, history, Armed
  <2>3. OwesIs(k)
    BY <2>2 DEF Owes
  <2> QED
    BY <2>1, <2>2, <2>3 DEF OwesIs
<1>6. ASSUME NEW p \in Pass, NEW j \in Job, ArmTimer(p, j) PROVE OwesIs(k)'
  <2>1. UNCHANGED <<age, todo, checking, active, owed, uptime>>
    BY <1>6 DEF ArmTimer, dbVars, runVars, history
  <2>2. OwesIs(k)
    BY <2>1 DEF Owes
  <2>3. ASSUME NEW q \in Pass, <<q, k>> \in Armed'
        PROVE  uptime' <= Stagger /\ (checking'[k] > 0 \/ left'[<<q, k>>] + uptime' <= Stagger)
    <3>1. CASE q = p /\ k = j
      <4>1. left'[<<p, j>>] \in 1..Stagger
        BY <1>6, <2>2, <3>1, ArmStep DEF FirstDelay, OwesIs
      <4>2. uptime = 0
        BY <1>6, <2>2, <3>1, ArmStep DEF OwesIs
      <4> QED
        BY <2>1, <3>1, <4>1, <4>2
    <3>2. CASE ~(q = p /\ k = j)
      <4>1. <<q, k>> \in Armed /\ left'[<<q, k>>] = left[<<q, k>>]
        BY ZenonT(40), <1>6, <2>3, <3>2, ArmStep
      <4> QED
        BY <2>1, <2>2, <4>1 DEF OwesIs
    <3> QED
      BY <3>1, <3>2
  <2> QED
    BY <1>6, <2>1, <2>2, <2>3, ArmStep DEF OwesIs
<1>7. ASSUME NEW t \in Timer, TimerFires(t) PROVE OwesIs(k)'
  <2>1. UNCHANGED <<age, registered, todo, asking, active, owed, uptime>>
    BY <1>7 DEF TimerFires, dbVars, passVars, history
  <2>2. OwesIs(k)
    BY <2>1 DEF Owes
  <2>3. PICK q \in Pass, j \in Job : t = <<q, j>>
    BY <1>7, FireStep
  <2>4. k \notin running
    BY <2>2 DEF Checks, OwesIs
  <2>5. CASE k = j
    <3>1. checking'[k] > 0
      BY <1>7, <1>n, <2>3, <2>4, <2>5, FireStep
    <3> QED
      BY <1>7, <2>1, <2>2, <3>1, FireStep DEF OwesIs
  <2>6. CASE k # j
    <3>1. checking'[k] = checking[k] /\ \A p \in Pass : <<p, k>> \in Armed => left'[<<p, k>>] = left[<<p, k>>]
      BY <1>7, <2>3, <2>6, FireStep
    <3> QED
      BY <1>7, <2>1, <2>2, <3>1, FireStep DEF OwesIs
  <2> QED
    BY <2>5, <2>6
<1>8. ASSUME NEW j \in Job, CheckPasses(j) \/ CheckFails(j) PROVE OwesIs(k)'
  <2>1. k # j /\ k \in owed
    BY <1>8 DEF CheckPasses, CheckFails, Excuse
  <2>2. UNCHANGED <<age, registered, todo, asking, left, uptime>>
        /\ checking'[k] = checking[k] /\ active'[k] = active[k]
    BY <1>8, <2>1 DEF CheckPasses, CheckFails, Excuse, dbVars, passVars, timerVars, TypeOK
  <2> QED
    BY <2>1, <2>2 DEF Owes, OwesIs, Armed
<1>9. ASSUME NEW j \in Job, JobEnds(j) PROVE OwesIs(k)'
  <2>1. UNCHANGED <<registered, todo, asking, left, checking, owed, uptime>>
    BY <1>9 DEF JobEnds, passVars, timerVars, history
  <2>2. OwesIs(k)
    BY <2>1 DEF Owes
  <2>3. k # j
    BY <1>9, <2>2 DEF JobEnds, OwesIs
  <2>4. age'[k] = age[k] /\ active'[k] = active[k]
    BY <1>9, <2>3 DEF JobEnds, TypeOK
  <2> QED
    BY <2>1, <2>2, <2>4 DEF OwesIs, Armed
<1>10. ASSUME NEW j \in Job, Switch(j) PROVE OwesIs(k)'
  <2>1. k \in owed /\ UNCHANGED <<age, registered, todo, asking, left, checking, active, uptime>>
    BY <1>10 DEF Switch, passVars, timerVars, runVars
  <2> QED
    BY <2>1 DEF Owes, OwesIs, Armed
<1>11. CASE UNCHANGED vars
  BY <1>11 DEF vars, dbVars, passVars, timerVars, runVars, history, Owes, OwesIs, Armed
<1> QED
  BY <1>1, <1>2, <1>3, <1>4, <1>5, <1>6, <1>7, <1>8, <1>9, <1>10, <1>11 DEF Next

-----------------------------------------------------------------------------
LEMMA InitAll == Init => Timers /\ Down /\ Checks /\ Punctual /\ Owes
<1> SUFFICES ASSUME Init PROVE Timers /\ Down /\ Checks /\ Punctual /\ Owes
  OBVIOUS
<1>1. Armed = {}
  BY DEF Init, Armed
<1>2. Timers /\ Down
  BY <1>1 DEF Init, Timers, Down, Has
<1>3. Checks /\ Owes
  BY <1>1 DEF Init, Checks, Owes
<1>4. Punctual
  BY <1>1, ConstantsOK DEF Init, Punctual, PunctualIs
<1> QED
  BY <1>2, <1>3, <1>4

\* Every variable keeps its type, whatever the reads do.
THEOREM TypeInvariant == Spec => []TypeOK
BY InitTypeOK, NextTypeOK, PTL DEF Spec

LEMMA TimersInvariant == Spec => [](TypeOK /\ Timers /\ Down)
<1>1. Init => TypeOK /\ Timers /\ Down
  BY InitTypeOK, InitAll
<1>2. TypeOK /\ Timers /\ Down /\ [Next]_vars => (TypeOK /\ Timers /\ Down)'
  BY NextTypeOK, NextTimers
<1> QED
  BY <1>1, <1>2, PTL DEF Spec

\* However many passes look at the jobs at once, and however long their reads
\* take, no job gets a second timer (the map of timers in run.ts).
THEOREM OneTimerPerJobAlways == Spec => []OneTimerPerJob
<1>1. TypeOK /\ Timers => OneTimerPerJob
  BY TimersGiveOne
<1> QED
  BY <1>1, TimersInvariant, PTL

\* What the promises about time rest on.
Kept == TypeOK /\ Timers /\ Down /\ Checks /\ Punctual /\ Owes

LEMMA KeptInvariant == ASSUME ReadsAreQuick PROVE Spec => []Kept
<1>1. Init => Kept
  BY InitTypeOK, InitAll DEF Kept
<1>2. Kept /\ [Next]_vars => Kept'
  BY NextTypeOK, NextTimers, NextChecks, NextPunctual, NextOwes DEF Kept
<1> QED
  BY <1>1, <1>2, PTL DEF Spec

\* As long as isEnabled answers before the job's timer fires again, a job never
\* overlaps itself, although the tick awaits between looking at the running set
\* and adding to it.
THEOREM NoOverlapAlways == ASSUME ReadsAreQuick PROVE Spec => []NoOverlap
<1>1. Kept => NoOverlap
  BY DEF Kept, Checks, NoOverlap, TypeOK
<1> QED
  BY <1>1, KeptInvariant, PTL

\* A job that stays enabled, and whose reads succeed, is started within the
\* watcher's interval and its own.
THEOREM EnabledJobsRunAlways == ASSUME ReadsAreQuick PROVE Spec => []EnabledJobsRun
<1>1. ASSUME Kept, NEW j \in Job PROVE idle[j] <= Watch + Every
  <2>1. PunctualIs(j) /\ idle[j] \in Nat
    BY <1>1 DEF Kept, Punctual, TypeOK, MaxIdle
  <2>2. j \in registered => \E p \in Pass : <<p, j>> \in asking \/ <<p, j>> \in Armed
    BY <1>1 DEF Kept, Timers, Has
  <2>3. idle[j] <= Watch \/ idle[j] <= Watch + Every
    BY <2>1, <2>2 DEF PunctualIs
  <2> QED
    BY <2>1, <2>3, ConstantsOK
<1>2. Kept => EnabledJobsRun
  BY <1>1 DEF EnabledJobsRun
<1> QED
  BY <1>2, KeptInvariant, PTL

\* Once the first pass is through, a job that fell due while the server was
\* down is started within the stagger.
THEOREM CatchesUpAlways == ASSUME ReadsAreQuick PROVE Spec => []CatchesUp
<1>1. ASSUME Kept, NEW j \in owed PROVE uptime <= Stagger
  <2>1. OwesIs(j) /\ j \in Job /\ uptime \in Nat
    BY <1>1 DEF Kept, Owes, TypeOK, MaxUptime
  <2>2. j \in registered => \E p \in Pass : <<p, j>> \in asking \/ <<p, j>> \in Armed
    BY <1>1, <2>1 DEF Kept, Timers, Has
  <2>3. uptime = 0 \/ uptime <= Stagger
    BY <2>1, <2>2 DEF OwesIs
  <2> QED
    BY <2>1, <2>3, ConstantsOK
<1>2. Kept => CatchesUp
  <2> SUFFICES ASSUME Kept, uptime > Stagger PROVE owed = {}
    BY DEF CatchesUp
  <2>1. uptime \in Nat
    BY DEF Kept, TypeOK, MaxUptime
  <2> QED
    BY <1>1, <2>1, ConstantsOK
<1> QED
  BY <1>2, KeptInvariant, PTL
=============================================================================
