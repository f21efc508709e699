---------------------------- MODULE BackupRuns ----------------------------
(***************************************************************************)
(* The life of a backup run: Backup Manager's jobs and runs tables         *)
(* (addons/backup-manager) and the filesystem helper that does the copying *)
(* (helpers/filesystem/api.ts).                                            *)
(*                                                                         *)
(* Every `await` in the code is a point where another handler can run, so  *)
(* the scheduled tick and each press of "Run now" is an actor with a       *)
(* program counter, and one step of an actor is one database statement or  *)
(* one helper call.  Two consecutive awaits are one step where no other    *)
(* handler's step between them could change the outcome.                   *)
(*                                                                         *)
(* Time is abstract.  A job's nextRunAt is "slot" (its next scheduled      *)
(* slot, in the future), "retry" (an earlier retry, in the future) or      *)
(* "due" (reached), and `older` is the order of nextRunAt among due jobs.  *)
(***************************************************************************)
EXTENDS Naturals, FiniteSets

CONSTANTS
    Job,         \* job ids
    Attempt,     \* ids of attempts: a runs row and the helper run behind it
    Clicker,     \* "Run now" requests in flight (runNowAction)
    Tick,        \* the module's one scheduled tick, run by the scheduler
    NoJob, NoAttempt,
    MaxRetries,  \* a job's maxRetries
    Limits,      \* the values the concurrency setting takes
    Events       \* which outside events happen, see EventKind

EventKind ==
    {"crash",     \* the server stops and starts again
     "fault",     \* a database statement throws
     "reenable",  \* the module is switched off and on again
     "edit",      \* jobs are saved, paused and resumed
     "delete",    \* jobs are deleted
     "cancel",    \* runs are cancelled
     "click",     \* "Run now" is pressed
     "lost"}      \* the helper's tables are gone after a restart

ASSUME ConstantsOK ==
    /\ IsFiniteSet(Attempt)
    /\ NoJob \notin Job
    /\ NoAttempt \notin Attempt
    /\ Tick \notin Clicker
    /\ MaxRetries \in Nat
    /\ Limits \subseteq Nat \ {0}
    /\ Limits # {}
    /\ Events \subseteq EventKind

Actor == Clicker \cup {Tick}

VARIABLES
    \* the jobs table (mod_backup_manager_jobs) and the concurrency setting
    exists, enabled, next, older, failures, limit,
    \* the runs table (mod_backup_manager_runs): state, and helperRunId set
    row, linked,
    \* the helper's runs table (hlp_filesystem_runs) and its `live` map
    copy, live, aborted,
    \* the job an attempt belongs to
    jobOf,
    \* what each actor is doing, for which job and which attempt
    pc, job, run,
    \* locals of the tick: runsAwaitingReconcile, dueJobs and its order, limit,
    \* inFlight
    todo, batch, order, tickLimit, inFlight, stage

jobVars    == <<exists, enabled, next, older, failures>>
rowVars    == <<row, linked>>
helperVars == <<copy, live, aborted>>
actorVars  == <<pc, job, run>>
tickVars   == <<todo, batch, order, tickLimit, inFlight, stage>>
vars == <<jobVars, limit, rowVars, helperVars, jobOf, actorVars, tickVars>>

NextRun   == {"slot", "retry", "due"}
RunState  == {"none", "running", "done", "failed", "cancelled", "interrupted"}
Ended     == {"done", "failed", "cancelled", "interrupted"}
\* recordOutcome counts without bound; nextRetry only compares with maxRetries.
FailureCap == MaxRetries + 1

\* Program counters.  The first line is the tick's loop, the second runJob,
\* the third failRun, and the last what reconcileRuns does with a result;
\* "outcome" and "retry" are scheduleRetry, which both failRun and
\* reconcileRuns call.
Step == {"idle", "reconcile", "start",
         "guard", "preflight", "record",
         "failStart", "failFinish",
         "outcome", "retry", "credit", "retain"}

-----------------------------------------------------------------------------
Init ==
    /\ exists \in SUBSET Job
    /\ enabled = exists
    /\ next = [j \in Job |-> "slot"]
    /\ older = {}
    /\ failures = [j \in Job |-> 0]
    /\ limit \in Limits
    /\ row = [a \in Attempt |-> "none"]
    /\ linked = {}
    /\ copy = [a \in Attempt |-> "none"]
    /\ live = {}
    /\ aborted = {}
    /\ jobOf = [a \in Attempt |-> NoJob]
    /\ pc = [p \in Actor |-> "idle"]
    /\ job = [p \in Actor |-> NoJob]
    /\ run = [p \in Actor |-> NoAttempt]
    /\ todo = {}
    /\ batch = {}
    /\ order = {}
    /\ tickLimit = 0
    /\ inFlight = 0
    /\ stage = "none"

-----------------------------------------------------------------------------
(* Helpers.                                                                *)

Running(j) == {a \in Attempt : row[a] = "running" /\ jobOf[a] = j}
RunningRuns == {a \in Attempt : row[a] = "running"}

\* An id no table, copy or actor refers to any more: randomUUID never
\* repeats, so an id is taken again only once its old run is history.
Fresh(a) ==
    /\ row[a] # "running"
    /\ copy[a] # "running"
    /\ a \notin live
    /\ a \notin todo
    /\ \A p \in Actor : run[p] # a

\* UPDATE jobs SET nextRunAt = a time in the future.
Restamp(j, when) ==
    /\ next' = [next EXCEPT ![j] = when]
    /\ older' = {o \in older : o[1] # j /\ o[2] # j}

\* Where an actor goes when runJob or the handling of a result returns.
Return(p) == IF p = Tick THEN stage ELSE "idle"

Leave(p) ==
    /\ pc' = [pc EXCEPT ![p] = Return(p)]
    /\ job' = [job EXCEPT ![p] = NoJob]
    /\ run' = [run EXCEPT ![p] = NoAttempt]

Goto(p, step) == pc' = [pc EXCEPT ![p] = step]

-----------------------------------------------------------------------------
(* runJob (module.ts:156), shared by the tick and "Run now".               *)

\* Mutant: the running run is not looked for.
RunJobGuardStacks(p) ==
    /\ pc[p] = "guard" /\ job[p] \in exists
    /\ Goto(p, "preflight")
    /\ UNCHANGED <<jobVars, limit, rowVars, helperVars, jobOf, job, run, tickVars>>

\* No second copy while a run of this job is going; no run for a job that is
\* gone.  (The two reads are one step: no step between them matters.)
RunJobGuard(p) ==
    /\ pc[p] = "guard"
    /\ \/ /\ Running(job[p]) # {} \/ job[p] \notin exists
          /\ Leave(p)
       \/ /\ Running(job[p]) = {} /\ job[p] \in exists
          /\ Goto(p, "preflight")
          /\ UNCHANGED <<job, run>>
    /\ UNCHANGED <<jobVars, limit, rowVars, helperVars, jobOf, tickVars>>

\* The destination answers and the helper starts copying: its row is
\* inserted and the copy runs on, not awaited.
HelperStarts(p) ==
    /\ pc[p] = "preflight"
    /\ \E a \in Attempt :
        /\ Fresh(a)
        /\ copy' = [copy EXCEPT ![a] = "running"]
        /\ row' = [row EXCEPT ![a] = "none"]
        /\ linked' = linked \ {a}
        /\ live' = live \cup {a}
        /\ aborted' = aborted \ {a}
        /\ jobOf' = [jobOf EXCEPT ![a] = job[p]]
        /\ run' = [run EXCEPT ![p] = a]
    /\ Goto(p, "record")
    /\ UNCHANGED <<jobVars, limit, job, tickVars>>

\* The destination is not usable, or the helper refuses the run.
HelperRefuses(p) ==
    /\ pc[p] = "preflight"
    /\ Goto(p, "failStart")
    /\ UNCHANGED <<jobVars, limit, rowVars, helperVars, jobOf, job, run, tickVars>>

\* Mutant: the helper's run id is not stored.
RecordStartUnlinked(p) ==
    /\ pc[p] = "record"
    /\ row' = [row EXCEPT ![run[p]] = "running"]
    /\ inFlight' = IF p = Tick THEN inFlight + 1 ELSE inFlight
    /\ Leave(p)
    /\ UNCHANGED <<jobVars, limit, linked, helperVars, jobOf, todo, batch, order, tickLimit, stage>>

\* Mutant: the tick does not count what it starts.
RecordStartUncounted(p) ==
    /\ pc[p] = "record"
    /\ row' = [row EXCEPT ![run[p]] = "running"]
    /\ linked' = linked \cup {run[p]}
    /\ Leave(p)
    /\ UNCHANGED <<jobVars, limit, helperVars, jobOf, todo, batch, order, tickLimit, inFlight, stage>>

\* startRun with the helper's run id; the tick counts it as in flight.
RecordStart(p) ==
    /\ pc[p] = "record"
    /\ row' = [row EXCEPT ![run[p]] = "running"]
    /\ linked' = linked \cup {run[p]}
    /\ inFlight' = IF p = Tick THEN inFlight + 1 ELSE inFlight
    /\ Leave(p)
    /\ UNCHANGED <<jobVars, limit, helperVars, jobOf, todo, batch, order, tickLimit, stage>>

-----------------------------------------------------------------------------
(* failRun (module.ts:210) and scheduleRetry (module.ts:227).              *)

\* startRun with no helper run: a row that is `running` for one step.
FailStart(p) ==
    /\ pc[p] = "failStart"
    /\ \E a \in Attempt :
        /\ Fresh(a)
        /\ row' = [row EXCEPT ![a] = "running"]
        /\ copy' = [copy EXCEPT ![a] = "none"]
        /\ linked' = linked \ {a}
        /\ aborted' = aborted \ {a}
        /\ jobOf' = [jobOf EXCEPT ![a] = job[p]]
        /\ run' = [run EXCEPT ![p] = a]
    /\ Goto(p, "failFinish")
    /\ UNCHANGED <<jobVars, limit, live, job, tickVars>>

\* Mutant: however it ended, a run is closed as done.
FinishRunAsDone(a, state) ==
    row' = [row EXCEPT ![a] = IF row[a] = "none" THEN "none" ELSE "done"]

FinishRun(a, state) ==
    row' = [row EXCEPT ![a] = IF row[a] = "none" THEN "none" ELSE state]

FailFinish(p) ==
    /\ pc[p] = "failFinish"
    /\ FinishRun(run[p], "failed")
    /\ Goto(p, "outcome")
    /\ UNCHANGED <<jobVars, limit, linked, helperVars, jobOf, job, run, tickVars>>

\* recordOutcome(false): one more failure in a row.
RecordFailure(p) ==
    /\ pc[p] = "outcome"
    /\ failures' = IF job[p] \in exists /\ failures[job[p]] < FailureCap
                   THEN [failures EXCEPT ![job[p]] = @ + 1]
                   ELSE failures
    /\ Goto(p, "retry")
    /\ UNCHANGED <<exists, enabled, next, older, limit, rowVars, helperVars,
                   jobOf, job, run, tickVars>>

RetryLeft(j) == MaxRetries > 0 /\ failures[j] <= MaxRetries

\* nextRetry and markRun: the next attempt is brought forward while retries
\* are left and the backoff ends before the next scheduled slot.
ScheduleRetry(p) ==
    /\ pc[p] = "retry"
    /\ \/ /\ job[p] \in exists /\ RetryLeft(job[p])
          /\ Restamp(job[p], "retry")
       \/ UNCHANGED <<next, older>>
    /\ Leave(p)
    /\ UNCHANGED <<exists, enabled, failures, limit, rowVars, helperVars, jobOf, tickVars>>

-----------------------------------------------------------------------------
(* The tick (module.ts:105): reconcileRuns, then whatever is due.          *)

\* The scheduler fires; runsAwaitingReconcile is read once, up front.
TickFires ==
    /\ pc[Tick] = "idle"
    /\ Goto(Tick, "reconcile")
    /\ stage' = "reconcile"
    /\ todo' = RunningRuns \cap linked
    /\ UNCHANGED <<jobVars, limit, rowVars, helperVars, jobOf, job, run,
                   batch, order, tickLimit, inFlight>>

\* The helper's row of this run is still running: leave it.
StillRunning(a) ==
    /\ pc[Tick] = "reconcile" /\ a \in todo
    /\ copy[a] = "running"
    /\ todo' = todo \ {a}
    /\ UNCHANGED <<jobVars, limit, rowVars, helperVars, jobOf, actorVars,
                   batch, order, tickLimit, inFlight, stage>>

\* Mutant: a run whose helper row is still running is given up as well.
HelperForgotTooSoon(a) ==
    /\ pc[Tick] = "reconcile" /\ a \in todo
    /\ copy[a] \in {"none", "running"}
    /\ FinishRun(a, "failed")
    /\ todo' = todo \ {a}
    /\ UNCHANGED <<jobVars, limit, linked, helperVars, jobOf, actorVars,
                   batch, order, tickLimit, inFlight, stage>>

\* Mutant: no record is taken for nothing wrong.
HelperForgotIsDone(a) ==
    /\ pc[Tick] = "reconcile" /\ a \in todo
    /\ copy[a] = "none"
    /\ FinishRun(a, "done")
    /\ todo' = todo \ {a}
    /\ UNCHANGED <<jobVars, limit, linked, helperVars, jobOf, actorVars,
                   batch, order, tickLimit, inFlight, stage>>

\* The helper has no record of the run: failed, with an alert and no retry.
HelperForgot(a) ==
    /\ pc[Tick] = "reconcile" /\ a \in todo
    /\ copy[a] = "none"
    /\ FinishRun(a, "failed")
    /\ todo' = todo \ {a}
    /\ UNCHANGED <<jobVars, limit, linked, helperVars, jobOf, actorVars,
                   batch, order, tickLimit, inFlight, stage>>

\* Mutants: whatever is not cancelled succeeded; cancelling is a failure.
AfterFinishCredits(a) ==
    IF jobOf[a] \notin exists \/ copy[a] = "cancelled" THEN "reconcile" ELSE "credit"
AfterFinishBlames(a) ==
    IF jobOf[a] \notin exists THEN "reconcile"
    ELSE IF copy[a] = "done" THEN "credit" ELSE "outcome"

\* What follows an ended run: nothing if its job is gone or it was
\* cancelled, the success path if it is done, scheduleRetry otherwise.
AfterFinish(a) ==
    IF jobOf[a] \notin exists \/ copy[a] = "cancelled" THEN "reconcile"
    ELSE IF copy[a] = "done" THEN "credit" ELSE "outcome"

\* The helper's row has ended: finishRun with its state, then what follows.
SettleRun(a) ==
    /\ pc[Tick] = "reconcile" /\ a \in todo
    /\ copy[a] \in Ended
    /\ FinishRun(a, copy[a])
    /\ todo' = todo \ {a}
    /\ Goto(Tick, AfterFinish(a))
    /\ job' = [job EXCEPT ![Tick] = IF AfterFinish(a) = "reconcile" THEN NoJob ELSE jobOf[a]]
    /\ run' = [run EXCEPT ![Tick] = IF AfterFinish(a) = "reconcile" THEN NoAttempt ELSE a]
    /\ UNCHANGED <<jobVars, limit, linked, helperVars, jobOf,
                   batch, order, tickLimit, inFlight, stage>>

\* recordOutcome(true).
CreditSuccess ==
    /\ pc[Tick] = "credit"
    /\ failures' = [failures EXCEPT ![job[Tick]] = 0]
    /\ Goto(Tick, "retain")
    /\ UNCHANGED <<exists, enabled, next, older, limit, rowVars, helperVars,
                   jobOf, job, run, tickVars>>

\* applyRetention; what it removes is the subject of module Retention.
ApplyRetention ==
    /\ pc[Tick] = "retain"
    /\ Leave(Tick)
    /\ UNCHANGED <<jobVars, limit, rowVars, helperVars, jobOf, tickVars>>

DueJobs == {j \in exists \cap enabled : next[j] = "due"}

\* Nothing left to reconcile: getConcurrency, runningRuns and dueJobs are
\* read, once each, before the first job is started.
ReadDue ==
    /\ pc[Tick] = "reconcile" /\ todo = {}
    /\ tickLimit' = limit
    /\ inFlight' = Cardinality(RunningRuns)
    /\ batch' = DueJobs
    /\ order' = older \cap (DueJobs \X DueJobs)
    /\ Goto(Tick, "start")
    /\ stage' = "start"
    /\ UNCHANGED <<jobVars, limit, rowVars, helperVars, jobOf, job, run, todo>>

\* Mutant: dueJobs without ORDER BY.
AnyOfBatch(j) == j \in batch

\* The batch is walked in the order of nextRunAt.
FirstOfBatch(j) ==
    /\ j \in batch
    /\ \A k \in batch : <<k, j>> \notin order

\* markRun to the next slot BEFORE runJob, so a failing job waits for it.
StartNext(j) ==
    /\ pc[Tick] = "start" /\ inFlight < tickLimit
    /\ FirstOfBatch(j)
    /\ batch' = batch \ {j}
    /\ order' = {o \in order : o[1] # j}
    /\ \/ j \in exists /\ Restamp(j, "slot")
       \/ j \notin exists /\ UNCHANGED <<next, older>>
    /\ Goto(Tick, "guard")
    /\ job' = [job EXCEPT ![Tick] = j]
    /\ UNCHANGED <<exists, enabled, failures, limit, rowVars, helperVars, jobOf,
                   run, todo, tickLimit, inFlight, stage>>

\* The batch is finished, or the limit is reached and the rest stay due.
TickDone ==
    /\ pc[Tick] = "start" /\ (batch = {} \/ inFlight >= tickLimit)
    /\ Goto(Tick, "idle")
    /\ batch' = {}
    /\ order' = {}
    /\ stage' = "none"
    /\ tickLimit' = 0
    /\ inFlight' = 0
    /\ UNCHANGED <<jobVars, limit, rowVars, helperVars, jobOf, job, run, todo>>

-----------------------------------------------------------------------------
(* The helper's copy, in the background (api.ts:581).                      *)

\* Mutant: the outcome is not written.
CopyEndsSilently(a) ==
    /\ a \in live
    /\ live' = live \ {a}
    /\ aborted' = aborted \ {a}
    /\ UNCHANGED <<jobVars, limit, rowVars, copy, jobOf, actorVars, tickVars>>

\* runCopy returns, its outcome is written and `live` forgets it.  The abort
\* flag is read between files: an aborted copy may still end as done.
CopyEnds(a) ==
    /\ a \in live
    /\ \E s \in {"done", "failed"} \cup (IF a \in aborted THEN {"cancelled"} ELSE {}) :
        copy' = [copy EXCEPT ![a] = s]
    /\ live' = live \ {a}
    /\ aborted' = aborted \ {a}
    /\ UNCHANGED <<jobVars, limit, rowVars, jobOf, actorVars, tickVars>>

\* Neither the outcome nor the failure could be written: the helper's row
\* stays `running` until the next boot.
CopyUnrecorded(a) ==
    /\ "fault" \in Events
    /\ a \in live
    /\ live' = live \ {a}
    /\ aborted' = aborted \ {a}
    /\ UNCHANGED <<jobVars, limit, rowVars, copy, jobOf, actorVars, tickVars>>

-----------------------------------------------------------------------------
(* Time, the admin's actions and what goes wrong.                          *)

\* nextRunAt passes; the job falls due after every job that is due already.
FallDue(j) ==
    /\ j \in exists /\ next[j] # "due"
    /\ next' = [next EXCEPT ![j] = "due"]
    /\ older' = older \cup {<<k, j>> : k \in {i \in Job : next[i] = "due"}}
    /\ UNCHANGED <<exists, enabled, failures, limit, rowVars, helperVars,
                   jobOf, actorVars, tickVars>>

\* runNowAction: runJob for any job, at any time.
RunNow(p, j) ==
    /\ "click" \in Events
    /\ p \in Clicker /\ pc[p] = "idle"
    /\ Goto(p, "guard")
    /\ job' = [job EXCEPT ![p] = j]
    /\ UNCHANGED <<jobVars, limit, rowVars, helperVars, jobOf, run, tickVars>>

\* saveJobAction and cloneJobAction: create or edit; always a fresh slot.
SaveJob(j, on) ==
    /\ "edit" \in Events
    /\ exists' = exists \cup {j}
    /\ enabled' = IF on THEN enabled \cup {j} ELSE enabled \ {j}
    /\ Restamp(j, "slot")
    /\ UNCHANGED <<failures, limit, rowVars, helperVars, jobOf, actorVars, tickVars>>

\* setAllEnabledAction.
SetAllEnabled(on) ==
    /\ "edit" \in Events
    /\ enabled' = IF on THEN exists ELSE {}
    /\ UNCHANGED <<exists, next, older, failures, limit, rowVars, helperVars,
                   jobOf, actorVars, tickVars>>

\* setConcurrencyAction.
SetConcurrency(n) ==
    /\ "edit" \in Events
    /\ limit' = n
    /\ UNCHANGED <<jobVars, rowVars, helperVars, jobOf, actorVars, tickVars>>

\* deleteJobAction: the job and its runs rows; a copy in flight goes on.
DeleteJob(j) ==
    /\ "delete" \in Events
    /\ j \in exists
    /\ exists' = exists \ {j}
    /\ enabled' = enabled \ {j}
    /\ Restamp(j, "slot")
    /\ failures' = [failures EXCEPT ![j] = 0]
    /\ row' = [a \in Attempt |-> IF jobOf[a] = j THEN "none" ELSE row[a]]
    /\ linked' = {a \in linked : jobOf[a] # j}
    /\ UNCHANGED <<limit, helperVars, jobOf, actorVars, tickVars>>

\* cancelRunAction: sets the abort flag of a copy that is still live.
CancelRun(a) ==
    /\ "cancel" \in Events
    /\ row[a] # "none" /\ a \in linked
    /\ a \in live
    /\ aborted' = aborted \cup {a}
    /\ UNCHANGED <<jobVars, limit, rowVars, copy, live, jobOf, actorVars, tickVars>>

\* onEnable: every running row is taken to be interrupted.
ReEnable ==
    /\ "reenable" \in Events
    /\ row' = [a \in Attempt |-> IF row[a] = "running" THEN "failed" ELSE row[a]]
    /\ UNCHANGED <<jobVars, limit, linked, helperVars, jobOf, actorVars, tickVars>>

\* A statement throws: the action ends, the scheduler records the tick as
\* failed, and the next tick starts from the top.
Throw(p) ==
    /\ "fault" \in Events
    /\ pc[p] # "idle"
    /\ pc' = [pc EXCEPT ![p] = "idle"]
    /\ job' = [job EXCEPT ![p] = NoJob]
    /\ run' = [run EXCEPT ![p] = NoAttempt]
    /\ \/ /\ p = Tick
          /\ todo' = {} /\ batch' = {} /\ order' = {} /\ tickLimit' = 0 /\ inFlight' = 0 /\ stage' = "none"
       \/ p # Tick /\ UNCHANGED tickVars
    /\ UNCHANGED <<jobVars, limit, rowVars, helperVars, jobOf>>

\* The process stops and boots: every actor and copy is gone, and the
\* helper's onBoot turns its running rows into interrupted ones.
Reboot(lost) ==
    /\ copy' = [a \in Attempt |->
                    IF a \in lost THEN "none"
                    ELSE IF copy[a] = "running" THEN "interrupted" ELSE copy[a]]
    /\ live' = {}
    /\ aborted' = {}
    /\ pc' = [p \in Actor |-> "idle"]
    /\ job' = [p \in Actor |-> NoJob]
    /\ run' = [p \in Actor |-> NoAttempt]
    /\ todo' = {} /\ batch' = {} /\ order' = {} /\ tickLimit' = 0 /\ inFlight' = 0 /\ stage' = "none"
    /\ UNCHANGED <<jobVars, limit, rowVars, jobOf>>

Restart == "crash" \in Events /\ Reboot({})

\* As Restart, with the helper's tables created anew.  Its rows of settled
\* runs are never read again, so only the others are dropped.
RestartWithoutHelperRows ==
    /\ "lost" \in Events
    /\ Reboot({a \in Attempt : row[a] \in {"none", "running"}})

-----------------------------------------------------------------------------
RunJobStep(p) ==
    \/ RunJobGuard(p) \/ HelperStarts(p) \/ HelperRefuses(p) \/ RecordStart(p)
    \/ FailStart(p) \/ FailFinish(p) \/ RecordFailure(p) \/ ScheduleRetry(p)

TickStep ==
    \/ TickFires \/ ReadDue \/ TickDone
    \/ CreditSuccess \/ ApplyRetention
    \/ \E a \in Attempt : StillRunning(a) \/ HelperForgot(a) \/ SettleRun(a)
    \/ \E j \in Job : StartNext(j)

Outside ==
    \/ \E j \in Job : FallDue(j) \/ DeleteJob(j)
    \/ \E j \in Job, on \in BOOLEAN : SaveJob(j, on)
    \/ \E on \in BOOLEAN : SetAllEnabled(on)
    \/ \E n \in Limits : SetConcurrency(n)
    \/ \E a \in Attempt : CancelRun(a) \/ CopyUnrecorded(a)
    \/ \E p \in Actor, j \in Job : RunNow(p, j)
    \/ \E p \in Actor : Throw(p)
    \/ ReEnable \/ Restart \/ RestartWithoutHelperRows

Next ==
    \/ \E p \in Actor : RunJobStep(p)
    \/ TickStep
    \/ \E a \in Attempt : CopyEnds(a)
    \/ Outside

Spec == Init /\ [][Next]_vars

\* The scheduler keeps firing and the process keeps running what it awaits;
\* every copy ends.  Nothing outside is fair: time, clicks, edits and
\* failures happen or not.
Fairness ==
    /\ WF_vars(TickStep)
    /\ \A p \in Actor : WF_vars(RunJobStep(p))
    /\ \A a \in Attempt : WF_vars(CopyEnds(a))

FairSpec == Spec /\ Fairness

-----------------------------------------------------------------------------
(* Properties.                                                             *)

TypeOK ==
    /\ exists \subseteq Job
    /\ enabled \subseteq exists
    /\ next \in [Job -> NextRun]
    /\ older \subseteq Job \X Job
    /\ failures \in [Job -> 0..FailureCap]
    /\ limit \in Limits
    /\ row \in [Attempt -> RunState]
    /\ linked \subseteq Attempt
    /\ copy \in [Attempt -> RunState]
    /\ live \subseteq Attempt
    /\ aborted \subseteq live
    /\ jobOf \in [Attempt -> Job \cup {NoJob}]
    /\ pc \in [Actor -> Step]
    /\ job \in [Actor -> Job \cup {NoJob}]
    /\ run \in [Actor -> Attempt \cup {NoAttempt}]
    /\ todo \subseteq Attempt
    /\ batch \subseteq Job
    /\ order \subseteq Job \X Job
    /\ tickLimit \in {0} \cup Limits
    /\ inFlight \in Nat
    /\ stage \in {"none", "reconcile", "start"}

\* A run is on record as a good backup only if the helper's copy of that very
\* run ended as done (module.ts:141, store.ts:469: an interrupted run "must
\* never be reported as a good backup"), through restarts, lost helper rows,
\* deleted jobs and ticks that throw half way.
GoodMeansCopied == \A a \in Attempt : row[a] = "done" => a \in linked /\ copy[a] = "done"

\* Retention is only ever reached for a run whose copy ended as done and is
\* on record as such (module.ts:299).
RetentionFollowsCopy ==
    pc[Tick] = "retain" =>
        /\ copy[run[Tick]] = "done"
        /\ row[run[Tick]] \in {"done", "none"}

\* Never two copies of one job at the same time (module.ts:159, store.ts:197).
SingleCopy == \A a, b \in live : jobOf[a] = jobOf[b] => a = b

\* A copy that is going is known to the runs table, or its actor is about to
\* say so: otherwise it would end unseen and its slot would count as free.
CopiesAreTracked ==
    \A a \in live :
        \/ row[a] = "running" /\ a \in linked
        \/ \E p \in Actor : pc[p] = "record" /\ run[p] = a

\* Every running row has a helper run behind it for reconcileRuns to ask
\* about, or belongs to a failRun in progress (module.ts:240: "Bring every
\* run this module thinks is going into line with the helper's record").
RunningRowsAreAnswerable ==
    \A a \in RunningRuns \ linked :
        \E p \in Actor : pc[p] = "failFinish" /\ run[p] = a

\* The tick starts a copy only while fewer than the limit it read are going
\* (module.ts:113: "How many may copy at once").
StartsWithinLimit ==
    [][pc[Tick] = "preflight" /\ live' # live /\ run'[Tick] \in live'
          => Cardinality(live') <= tickLimit]_vars

\* A failure is counted for a run that failed, was interrupted or never
\* started: "cancelling is a choice ... it must not burn a retry"
\* (module.ts:287).
OnlyFailuresCount ==
    [][\A j \in Job : failures'[j] > failures[j] =>
          \E p \in Actor : /\ job[p] = j
                           /\ run[p] # NoAttempt
                           /\ copy[run[p]] \in {"none", "failed", "interrupted"}]_vars

\* A run is closed only when its copy is no longer going, so what the history
\* calls failed is not still writing to the destination (module.ts:140).
RunsCloseAfterTheirCopy ==
    [][\A a \in Attempt : row[a] = "running" /\ row'[a] \in Ended => a \notin live]_vars

\* A run that is going is settled sooner or later: it does not stay running
\* in the history, and does not block its job or a place under the limit.
RunsAreSettled == \A a \in Attempt : row[a] = "running" ~> row[a] # "running"

\* A due job gets its turn, also under a limit of one with others due: its
\* time is re-stamped by a tick, or it is paused or deleted.
DueJobsGetATurn ==
    \A j \in Job : (j \in enabled /\ next[j] = "due")
                      ~> ~(j \in enabled /\ next[j] = "due")

\* The runs table keeps the promises of BackupLedger, as long as the module is
\* not switched off and on under a tick.
Ledger == INSTANCE BackupLedger
            WITH ledger <- row,
                 whole <- [a \in Attempt |-> a \in linked /\ copy[a] = "done"]
LedgerSpec == Ledger!Spec
=============================================================================
