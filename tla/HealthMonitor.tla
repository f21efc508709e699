--------------------------- MODULE HealthMonitor ---------------------------
(***************************************************************************)
(* The check engine of Health Monitor (lib/engine.ts, with lib/scheduler.ts*)
(* and the tables of lib/store.ts): monitors are checked by the poll, one  *)
(* batch of those due at a time, and by admins who press "check now".  A   *)
(* check reads the monitor's row, waits for the network, and then writes   *)
(* the result, the row and the incident in statements of their own.        *)
(*                                                                         *)
(* A check step is one statement, and every await may let another step in. *)
(* What decides whether an alert is held back besides the parent and the   *)
(* hourly limit (alerts off, just restarted, a maintenance window), and    *)
(* whether a repeat is due, is left open: either may be so at any time.    *)
(***************************************************************************)
EXTENDS Naturals, SequencesExt

CONSTANTS
    Monitor,         \* monitors
    NoMonitor,
    Parent,          \* parentId of each monitor, or NoMonitor
    Clicker,         \* admins pressing "check now"
    Confirm,         \* failures in a row that make an outage (retries)
    MaxConcurrent,   \* size of a batch
    Ceiling,         \* maxAlertsPerHour
    Channels,        \* channels a monitor is routed to
    Repeats,         \* renotifyMin > 0
    Incident,        \* ids of incidents; an id is used again once closed
    Events           \* which of "click", "abandon", "pause" happen

ASSUME ConstantsOK ==
    /\ NoMonitor \notin Monitor
    /\ Parent \in [Monitor -> Monitor \cup {NoMonitor}]
    /\ Monitor \cap Clicker = {}
    /\ IsFiniteSet(Monitor) /\ IsFiniteSet(Clicker)
    /\ {Confirm, MaxConcurrent, Ceiling, Channels} \subseteq Nat \ {0}
    /\ Repeats \in BOOLEAN
    /\ Incident # {}
    /\ Events \subseteq {"click", "abandon", "pause"}

VARIABLES
    row,         \* monitors table: status and failStreak (up to Confirm)
    enabled,     \* monitors table: monitors not paused
    due,         \* monitors whose nextCheckAt has come, the oldest first
    open,        \* incidents table: open incidents, the newest last
    logged,      \* notifications of the last hour
    check,       \* each caller's check: where it is, and its locals
    \* history
    disturbed,   \* monitors that had two checks at once, or a check cut short
    failRun      \* of the others: failing results in a row, the latest ones

tables == <<row, enabled, due, open, logged>>
vars == <<tables, check, failRun, disturbed>>

State == {"unknown", "up", "degraded", "down"}
Observed == State \ {"unknown"}
Checker == Monitor \cup Clicker      \* the poll's check of m is called m

\* Where a check is, and the locals it still needs
NoCheck == [at |-> "idle"]
Check ==
    UNION {[at : {"observe"}, of : Monitor, was : State, fails : 0..Confirm],
           [at : {"save"}, of : Monitor, was : State, now : State, fails : 0..Confirm],
           [at : {"judge"}, of : Monitor, was : State, now : State],
           [at : {"open", "opened", "recovered"}, of : Monitor, blocked : BOOLEAN],
           [at : {"close"}, of : Monitor, blocked : BOOLEAN, incident : Incident],
           [at : {"repeat"}, of : Monitor],
           [at : {"send"}, of : Monitor, left : 1..Channels]}

AtMost(n, m) == IF n < m THEN n ELSE m
Without(s, e) ==
    IF e \in ToSet(s) THEN RemoveAt(s, CHOOSE n \in DOMAIN s : s[n] = e) ELSE s
Running(c) == check[c] # NoCheck
ChecksOf(m) == {c \in Checker : Running(c) /\ check[c].of = m}

Reading(m) ==
    [at |-> "observe", of |-> m, was |-> row[m].status, fails |-> row[m].fails]

Sending(m) == [at |-> "send", of |-> m, left |-> Channels]

Init ==
    /\ row = [m \in Monitor |-> [status |-> "unknown", fails |-> 0]]
    /\ enabled \in SUBSET Monitor
    /\ due \in SetToSeqs(Monitor)
    /\ open = [m \in Monitor |-> <<>>]
    /\ logged = 0
    /\ check = [c \in Checker |-> NoCheck]
    /\ failRun = [m \in Monitor |-> 0]
    /\ disturbed = {}

-----------------------------------------------------------------------------
(* Where checks begin.  dueMonitors gives the poll a batch; the next one is*)
(* read when all of it has settled, be it in this pass or a later one, and *)
(* the flag `running` keeps a second pass out.                             *)

Ready == enabled \cap ToSet(due)
Before(m, n) == \E i, j \in DOMAIN due : i < j /\ due[i] = m /\ due[j] = n

\* Mutant: the batch is taken from the wrong end.
DueMonitorsNewestFirst(batch) ==
    /\ batch \subseteq Ready
    /\ Cardinality(batch) = AtMost(Cardinality(Ready), MaxConcurrent)
    /\ \A m \in batch, n \in Ready \ batch : Before(n, m)

DueMonitors(batch) ==
    /\ batch \subseteq Ready
    /\ Cardinality(batch) = AtMost(Cardinality(Ready), MaxConcurrent)
    /\ \A m \in batch, n \in Ready \ batch : Before(m, n)

Begin(batch, checks) ==
    /\ check' = checks
    /\ disturbed' = disturbed \cup {m \in batch : ChecksOf(m) # {}}
    /\ UNCHANGED <<tables, failRun>>

Tick ==
    \E batch \in SUBSET Monitor :
        /\ \A m \in Monitor : ~Running(m)
        /\ batch # {}
        /\ DueMonitors(batch)
        /\ Begin(batch, [c \in Checker |-> IF c \in batch THEN Reading(c) ELSE check[c]])

\* The admin's check asks nobody whether another is going on, nor whether
\* the monitor is paused.
CheckNow(c, m) ==
    /\ "click" \in Events
    /\ ~Running(c)
    /\ Begin({m}, [check EXCEPT ![c] = Reading(m)])

-----------------------------------------------------------------------------
(* The steps of checkMonitor. *)

At(c, place) == check[c].at = place
Continue(c, k) == check' = [check EXCEPT ![c] = k]
Return(c) == Continue(c, NoCheck)

\* Mutant: success does not end a streak of failures.
ObserveKeepsStreak(c) ==
    /\ At(c, "observe")
    /\ \E seen \in Observed :
         LET k       == check[c]
             failing == seen = "down"
             fails   == IF failing THEN AtMost(k.fails + 1, Confirm) ELSE k.fails
             now     == IF ~failing THEN seen
                        ELSE IF fails >= Confirm THEN "down" ELSE k.was
         IN  /\ Continue(c, [at |-> "save", of |-> k.of, was |-> k.was,
                             now |-> now, fails |-> fails])
             /\ failRun' = [failRun EXCEPT ![k.of] =
                              IF failing /\ k.of \notin disturbed
                              THEN AtMost(@ + 1, Confirm) ELSE 0]
    /\ UNCHANGED <<tables, disturbed>>

\* The network's answer arrives and recordResult stores it.  A failure has
\* to be confirmed, anything else is believed at once.  The streak is the
\* one that was read when the check began.
Observe(c) ==
    /\ At(c, "observe")
    /\ \E seen \in Observed :
         LET k       == check[c]
             failing == seen = "down"
             fails   == IF failing THEN AtMost(k.fails + 1, Confirm) ELSE 0
             now     == IF ~failing THEN seen
                        ELSE IF fails >= Confirm THEN "down" ELSE k.was
         IN  /\ Continue(c, [at |-> "save", of |-> k.of, was |-> k.was,
                             now |-> now, fails |-> fails])
             /\ failRun' = [failRun EXCEPT ![k.of] =
                              IF failing /\ k.of \notin disturbed
                              THEN AtMost(@ + 1, Confirm) ELSE 0]
    /\ UNCHANGED <<tables, disturbed>>

\* saveCheckState, which also sets nextCheckAt
Save(c) ==
    /\ At(c, "save")
    /\ LET k == check[c]
       IN  /\ row' = [row EXCEPT ![k.of] = [status |-> k.now, fails |-> k.fails]]
           /\ due' = Without(due, k.of)
           /\ Continue(c, [at |-> "judge", of |-> k.of, was |-> k.was, now |-> k.now])
    /\ UNCHANGED <<enabled, open, logged, failRun, disturbed>>

\* Mutant: the limit is only reached when it is exceeded.
LimitReachedLate == logged > Ceiling
LimitReached == logged >= Ceiling

ParentDown(m) == Parent[m] \in Monitor /\ row[Parent[m]].status = "down"
GoesDown(k) == k.now = "down" /\ k.was # "down"

\* Mutant: slow is not yet back.
ComesBackWhenUp(k) == k.now = "up" /\ k.was = "down"
ComesBack(k) == k.now # "down" /\ k.was = "down"

StaysDown(k) == k.now = "down" /\ k.was = "down"
NewlyDegraded(k) == k.now = "degraded" /\ k.was = "up"

\* suppressed() says whether to be quiet (hush: alerts are off, the process
\* has just started, or a maintenance window), and what the check does next
\* depends on what the monitor was when it began.
Judge(c) ==
    /\ At(c, "judge")
    /\ \E hush \in BOOLEAN :
         LET k       == check[c]
             blocked == hush \/ ParentDown(k.of) \/ LimitReached
         IN  Continue(c,
               CASE GoesDown(k)  -> [at |-> "open", of |-> k.of, blocked |-> blocked]
                 [] ComesBack(k) -> [at |-> "recovered", of |-> k.of, blocked |-> blocked]
                 [] StaysDown(k) /\ Repeats /\ ~blocked -> [at |-> "repeat", of |-> k.of]
                 [] NewlyDegraded(k) /\ ~blocked -> Sending(k.of)
                 [] OTHER -> NoCheck)
    /\ UNCHANGED <<tables, failRun, disturbed>>

\* openIncident: the INSERT, whatever incidents are open already (with all
\* ids in use, which is a bound, one more is not told apart from them) ...
HeldBy(c) == IF At(c, "close") THEN {check[c].incident} ELSE {}
Unused(m) == (Incident \ ToSet(open[m])) \ UNION {HeldBy(c) : c \in ChecksOf(m)}

Open(c) ==
    /\ At(c, "open")
    /\ LET m == check[c].of
       IN  open' = IF Unused(m) = {} THEN open
                   ELSE [open EXCEPT ![m] = Append(@, CHOOSE i \in Unused(m) : TRUE)]
    /\ Continue(c, [check[c] EXCEPT !.at = "opened"])
    /\ UNCHANGED <<row, enabled, due, logged, failRun, disturbed>>

\* ... and the SELECT of the newest open one, for which the alert is sent.
SendUnless(blocked, c) == Continue(c, IF blocked THEN NoCheck ELSE Sending(check[c].of))

Opened(c) ==
    /\ At(c, "opened")
    /\ SendUnless(check[c].blocked \/ open[check[c].of] = <<>>, c)
    /\ UNCHANGED <<tables, failRun, disturbed>>

\* Mutant: whoever is not told of a recovery does not close either.
RecoveredOnlyToAlert(c) ==
    /\ At(c, "recovered")
    /\ LET k == check[c]
       IN  IF open[k.of] = <<>> \/ k.blocked THEN SendUnless(k.blocked, c)
           ELSE Continue(c, [at |-> "close", of |-> k.of, blocked |-> k.blocked,
                             incident |-> Last(open[k.of])])
    /\ UNCHANGED <<tables, failRun, disturbed>>

\* currentIncident: the newest open one, if any
Recovered(c) ==
    /\ At(c, "recovered")
    /\ LET k == check[c]
       IN  IF open[k.of] = <<>> THEN SendUnless(k.blocked, c)
           ELSE Continue(c, [at |-> "close", of |-> k.of, blocked |-> k.blocked,
                             incident |-> Last(open[k.of])])
    /\ UNCHANGED <<tables, failRun, disturbed>>

Close(c) ==
    /\ At(c, "close")
    /\ open' = [open EXCEPT ![check[c].of] = Without(@, check[c].incident)]
    /\ SendUnless(check[c].blocked, c)
    /\ UNCHANGED <<row, enabled, due, logged, failRun, disturbed>>

\* A repeated alert needs an incident, and the last one to be long enough ago.
Repeat(c) ==
    /\ At(c, "repeat")
    /\ \E tooSoon \in BOOLEAN : SendUnless(tooSoon \/ open[check[c].of] = <<>>, c)
    /\ UNCHANGED <<tables, failRun, disturbed>>

\* dispatch: one alert per channel; to send it and to log it is one step
Send(c) ==
    /\ At(c, "send")
    /\ logged' = logged + 1
    /\ Continue(c, IF check[c].left = 1 THEN NoCheck ELSE [check[c] EXCEPT !.left = @ - 1])
    /\ UNCHANGED <<row, enabled, due, open, failRun, disturbed>>

Step(c) ==
    \/ Observe(c) \/ Save(c) \/ Judge(c) \/ Open(c) \/ Opened(c)
    \/ Recovered(c) \/ Close(c) \/ Repeat(c) \/ Send(c)

-----------------------------------------------------------------------------
(* What happens around the checks. *)

\* A statement of the check throws (the poll goes on, Promise.allSettled), or
\* the process stops; a stop cuts every check short, one after the other here.
Abandon(c) ==
    /\ "abandon" \in Events
    /\ Running(c)
    /\ Return(c)
    /\ disturbed' = disturbed \cup {check[c].of}
    /\ UNCHANGED <<tables, failRun>>

\* saveMonitor changes neither status nor streak; its catchUp is a Tick.
Pause(m) ==
    /\ "pause" \in Events
    /\ enabled' = (enabled \ {m}) \cup ({m} \ enabled)
    /\ UNCHANGED <<row, due, open, logged, check, failRun, disturbed>>

FallDue(m) ==
    /\ m \notin ToSet(due)
    /\ due' = Append(due, m)
    /\ UNCHANGED <<row, enabled, open, logged, check, failRun, disturbed>>

\* The oldest notification of the last hour grows older than that.
HourPasses ==
    /\ logged > 0
    /\ logged' = logged - 1
    /\ UNCHANGED <<row, enabled, due, open, check, failRun, disturbed>>

Work ==
    \/ Tick
    \/ \E c \in Checker : Step(c)
    \/ \E m \in Monitor : FallDue(m)
    \/ HourPasses

Intervene ==
    \/ \E c \in Clicker, m \in Monitor : CheckNow(c, m)
    \/ \E c \in Checker : Abandon(c)
    \/ \E m \in Monitor : Pause(m)

Next == Work \/ Intervene

\* The scheduler keeps ticking, time passes, and every await returns.
Fairness ==
    /\ WF_vars(Tick)
    /\ \A m \in Monitor : WF_vars(FallDue(m))
    /\ \A c \in Checker : WF_vars(Step(c))

Spec == Init /\ [][Next]_vars /\ Fairness

-----------------------------------------------------------------------------
TypeOK ==
    /\ row \in [Monitor -> [status : State, fails : 0..Confirm]]
    /\ enabled \subseteq Monitor
    /\ due \in Seq(Monitor) /\ IsInjective(due)
    /\ open \in [Monitor -> Seq(Incident)]
    /\ \A m \in Monitor : IsInjective(open[m])
    /\ logged \in Nat
    /\ check \in [Checker -> Check \cup {NoCheck}]
    /\ \A m \in Monitor : Running(m) => check[m].of = m
    /\ failRun \in [Monitor -> 0..Confirm]
    /\ disturbed \subseteq Monitor

\* Unless two checks of a monitor have met, or one was cut short, a monitor
\* has one open incident while it is down and none otherwise; only a check
\* that has saved the row and not yet written the incident stands between.
IncidentsFollowStatus ==
    \A m \in Monitor \ disturbed :
      LET behind == {c \in ChecksOf(m) :
                       \/ check[c].at \in {"open", "recovered", "close"}
                       \/ At(c, "judge") /\ (GoesDown(check[c]) \/ ComesBack(check[c]))}
          isOpen == IF behind = {} THEN row[m].status = "down"
                    ELSE row[m].status # "down"
      IN  Len(open[m]) = IF isOpen THEN 1 ELSE 0

\* A monitor is only called down after Confirm failures in a row, as its
\* history of results shows them.
ConfirmedDown ==
    [][\A m \in Monitor \ disturbed' :
         row[m].status # "down" /\ row'[m].status = "down" => failRun[m] >= Confirm]_vars

\* The hourly limit is read once, before a check alerts every channel, and
\* others may be about to send.  This is by how much it can be exceeded.
AlertsAreBounded ==
    logged < Ceiling + Channels * (MaxConcurrent + Cardinality(Clicker))

\* An outage that lasts is recorded: the monitor is called down and has an
\* open incident, as long as it is not paused, ...
OutageIsRecorded ==
    \A m \in Monitor :
      <>[](failRun[m] > 0 /\ m \in enabled) /\ [](m \notin disturbed)
        => <>[](row[m].status = "down" /\ open[m] # <<>>)

\* ... and a lasting recovery is: nothing is left open.
RecoveryIsRecorded ==
    \A m \in Monitor :
      <>[](failRun[m] = 0 /\ m \in enabled) /\ [](m \notin disturbed)
        => <>[](row[m].status # "down" /\ open[m] = <<>>)
=============================================================================
