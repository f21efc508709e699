-------------------------- MODULE BackupRuns_proofs --------------------------
(***************************************************************************)
(* Theorems about BackupRuns, for every set of jobs, attempts, clickers    *)
(* and outside events.                                                     *)
(***************************************************************************)
EXTENDS BackupRuns, FiniteSetTheorems, TLAPS

(* The inductive invariant.                                                *)

\* While the tick is at work it knows which of its two loops to return to.
StageKnown == pc[Tick] # "idle" => stage \in {"reconcile", "start"}

\* A copy the `live` map holds is running in the helper's table.
LiveIsRunning == \A a \in live : copy[a] = "running"

\* A run the tick will ask about has a helper run, unless it was deleted.
TodoIsLinked == \A a \in todo : row[a] # "none" => a \in linked

\* Which attempt an actor holds, by where it is, and that nobody else does.
HoldsNothing ==
    {"idle", "reconcile", "start", "guard", "preflight", "failStart"}
Holding ==
    \A p \in Actor :
        /\ pc[p] \in HoldsNothing => run[p] = NoAttempt
        /\ pc[p] \notin HoldsNothing => run[p] \in Attempt
        /\ run[p] \notin todo
        /\ \A q \in Actor : run[p] = run[q] => p = q \/ run[p] = NoAttempt

\* What is on record about the attempt an actor holds.
NotWhole == {"none", "failed", "interrupted"}
HeldRow ==
    \A p \in Actor :
        /\ pc[p] = "record" => row[run[p]] = "none"
        /\ pc[p] = "failFinish" => copy[run[p]] = "none" /\ run[p] \notin linked
        /\ pc[p] \in {"outcome", "retry"} =>
              copy[run[p]] \in NotWhole /\ row[run[p]] # "running"
        /\ pc[p] \in {"credit", "retain"} =>
              copy[run[p]] = "done" /\ row[run[p]] \in {"done", "none"}

IInv ==
    /\ TypeOK
    /\ StageKnown
    /\ LiveIsRunning
    /\ TodoIsLinked
    /\ Holding
    /\ HeldRow
    /\ GoodMeansCopied

USE ConstantsOK

-----------------------------------------------------------------------------
(* Every step keeps the types.                                             *)

\* What the tick takes as in flight is a number: there are finitely many runs.
LEMMA RunningRunsAreCounted == Cardinality(RunningRuns) \in Nat
  BY FS_Subset, FS_CardinalityType DEF RunningRuns

\* The types hold of a fresh install.
LEMMA InitTypeOK == Init => TypeOK
  BY DEF Init, TypeOK, NextRun, RunState, FailureCap, Step, Actor

\* Every step keeps them, given what the tick and the actors hold.
LEMMA NextTypeOK ==
  ASSUME TypeOK, StageKnown, Holding, [Next]_vars
  PROVE  TypeOK'
<1> USE DEF TypeOK, NextRun, RunState, Step, Actor, vars, jobVars, rowVars,
            helperVars, actorVars, tickVars
<1>1. ASSUME NEW p \in Actor, RunJobGuard(p) PROVE TypeOK'
  BY <1>1 DEF RunJobGuard, Leave, Return, Goto, StageKnown
<1>2. ASSUME NEW p \in Actor, HelperStarts(p) PROVE TypeOK'
  BY <1>2 DEF HelperStarts, Goto
<1>3. ASSUME NEW p \in Actor, HelperRefuses(p) PROVE TypeOK'
  BY <1>3 DEF HelperRefuses, Goto
<1>4. ASSUME NEW p \in Actor, RecordStart(p) PROVE TypeOK'
  BY <1>4 DEF RecordStart, Leave, Return, StageKnown, Holding, HoldsNothing
<1>5. ASSUME NEW p \in Actor, FailStart(p) PROVE TypeOK'
  BY <1>5 DEF FailStart, Goto
<1>6. ASSUME NEW p \in Actor, FailFinish(p) PROVE TypeOK'
  BY <1>6 DEF FailFinish, FinishRun, Goto
<1>7. ASSUME NEW p \in Actor, RecordFailure(p) PROVE TypeOK'
  BY <1>7 DEF RecordFailure, Goto, FailureCap
<1>8. ASSUME NEW p \in Actor, ScheduleRetry(p) PROVE TypeOK'
  BY <1>8 DEF ScheduleRetry, Restamp, Leave, Return, StageKnown
<1>9. ASSUME TickFires PROVE TypeOK'
  BY <1>9 DEF TickFires, Goto, RunningRuns
<1>10. ASSUME ReadDue PROVE TypeOK'
  BY <1>10, RunningRunsAreCounted DEF ReadDue, Goto, DueJobs
<1>11. ASSUME TickDone PROVE TypeOK'
  BY <1>11 DEF TickDone, Goto
<1>12. ASSUME CreditSuccess PROVE TypeOK'
  <2>1. 0 \in 0..FailureCap
    BY DEF FailureCap
  <2>2. failures' \in [Job -> 0..FailureCap]
    BY <1>12, <2>1 DEF CreditSuccess
  <2> QED
    BY <1>12, <2>2 DEF CreditSuccess, Goto
<1>13. ASSUME ApplyRetention PROVE TypeOK'
  BY <1>13 DEF ApplyRetention, Leave, Return, StageKnown
<1>14. ASSUME NEW a \in Attempt, StillRunning(a) PROVE TypeOK'
  BY <1>14 DEF StillRunning
<1>15. ASSUME NEW a \in Attempt, HelperForgot(a) PROVE TypeOK'
  BY <1>15 DEF HelperForgot, FinishRun
<1>16. ASSUME NEW a \in Attempt, SettleRun(a) PROVE TypeOK'
  BY <1>16 DEF SettleRun, FinishRun, AfterFinish, Goto, Ended
<1>17. ASSUME NEW a \in Attempt, CopyEnds(a) PROVE TypeOK'
  BY <1>17 DEF CopyEnds
<1>18. ASSUME NEW a \in Attempt, CancelRun(a) PROVE TypeOK'
  BY <1>18 DEF CancelRun
<1>19. ASSUME NEW a \in Attempt, CopyUnrecorded(a) PROVE TypeOK'
  BY <1>19 DEF CopyUnrecorded
<1>20. ASSUME NEW j \in Job, StartNext(j) PROVE TypeOK'
  BY <1>20 DEF StartNext, Goto, Restamp
<1>21. ASSUME NEW j \in Job, FallDue(j) PROVE TypeOK'
  BY <1>21 DEF FallDue
<1>22. ASSUME NEW j \in Job, DeleteJob(j) PROVE TypeOK'
  BY <1>22 DEF DeleteJob, Restamp, FailureCap
<1>23. ASSUME NEW j \in Job, NEW on \in BOOLEAN, SaveJob(j, on) PROVE TypeOK'
  BY <1>23 DEF SaveJob, Restamp
<1>24. ASSUME NEW on \in BOOLEAN, SetAllEnabled(on) PROVE TypeOK'
  BY <1>24 DEF SetAllEnabled
<1>25. ASSUME NEW n \in Limits, SetConcurrency(n) PROVE TypeOK'
  BY <1>25 DEF SetConcurrency
<1>26. ASSUME NEW p \in Actor, NEW j \in Job, RunNow(p, j) PROVE TypeOK'
  BY <1>26 DEF RunNow, Goto
<1>27. ASSUME NEW p \in Actor, Throw(p) PROVE TypeOK'
  BY <1>27 DEF Throw
<1>28. ASSUME ReEnable PROVE TypeOK'
  BY <1>28 DEF ReEnable
<1>29. ASSUME Restart PROVE TypeOK'
  BY <1>29 DEF Restart, Reboot
<1>30. ASSUME RestartWithoutHelperRows PROVE TypeOK'
  BY <1>30 DEF RestartWithoutHelperRows, Reboot
<1>31. ASSUME UNCHANGED vars PROVE TypeOK'
  BY <1>31
<1> QED
  BY SMTT(20), <1>1, <1>2, <1>3, <1>4, <1>5, <1>6, <1>7, <1>8, <1>9, <1>10, <1>11,
      <1>12, <1>13, <1>14, <1>15, <1>16, <1>17, <1>18, <1>19, <1>20, <1>21,
      <1>22, <1>23, <1>24, <1>25, <1>26, <1>27, <1>28, <1>29, <1>30, <1>31
  DEF Next, RunJobStep, TickStep, Outside

\* The tick sets its stage with its program counter.
LEMMA NextStageKnown ==
  ASSUME TypeOK, StageKnown, [Next]_vars
  PROVE  StageKnown'
<1> USE DEF StageKnown, TypeOK, RunState, Step, Actor, vars, jobVars, rowVars,
            helperVars, actorVars, tickVars
<1>1. ASSUME NEW p \in Actor, RunJobGuard(p) PROVE StageKnown'
  BY <1>1 DEF RunJobGuard, Leave, Return, Goto
<1>2. ASSUME NEW p \in Actor, HelperStarts(p) PROVE StageKnown'
  BY <1>2 DEF HelperStarts, Goto, Fresh
<1>3. ASSUME NEW p \in Actor, HelperRefuses(p) PROVE StageKnown'
  BY <1>3 DEF HelperRefuses, Goto
<1>4. ASSUME NEW p \in Actor, RecordStart(p) PROVE StageKnown'
  BY <1>4 DEF RecordStart, Leave, Return
<1>5. ASSUME NEW p \in Actor, FailStart(p) PROVE StageKnown'
  BY <1>5 DEF FailStart, Goto, Fresh
<1>6. ASSUME NEW p \in Actor, FailFinish(p) PROVE StageKnown'
  BY <1>6 DEF FailFinish, FinishRun, Goto
<1>7. ASSUME NEW p \in Actor, RecordFailure(p) PROVE StageKnown'
  BY <1>7 DEF RecordFailure, Goto
<1>8. ASSUME NEW p \in Actor, ScheduleRetry(p) PROVE StageKnown'
  BY <1>8 DEF ScheduleRetry, Restamp, Leave, Return
<1>9. ASSUME TickFires PROVE StageKnown'
  BY <1>9 DEF TickFires, Goto, RunningRuns
<1>10. ASSUME ReadDue PROVE StageKnown'
  BY <1>10 DEF ReadDue, Goto
<1>11. ASSUME TickDone PROVE StageKnown'
  BY <1>11 DEF TickDone, Goto
<1>12. ASSUME CreditSuccess PROVE StageKnown'
  BY <1>12 DEF CreditSuccess, Goto
<1>13. ASSUME ApplyRetention PROVE StageKnown'
  BY <1>13 DEF ApplyRetention, Leave, Return
<1>14. ASSUME NEW a \in Attempt, SettleRun(a) PROVE StageKnown'
  BY <1>14 DEF SettleRun, FinishRun, AfterFinish, Goto, Ended
<1>15. ASSUME NEW j \in Job, StartNext(j) PROVE StageKnown'
  BY <1>15 DEF StartNext, Goto, Restamp
<1>16. ASSUME NEW p \in Actor, NEW j \in Job, RunNow(p, j) PROVE StageKnown'
  BY <1>16 DEF RunNow, Goto
<1>17. ASSUME NEW p \in Actor, Throw(p) PROVE StageKnown'
  BY <1>17 DEF Throw
<1>18. ASSUME Restart PROVE StageKnown'
  BY <1>18 DEF Restart, Reboot
<1>19. ASSUME RestartWithoutHelperRows PROVE StageKnown'
  BY <1>19 DEF RestartWithoutHelperRows, Reboot
<1>20. CASE UNCHANGED <<pc, stage>>
  BY <1>20
<1> QED
  BY <1>1, <1>2, <1>3, <1>4, <1>5, <1>6, <1>7, <1>8, <1>9, <1>10, <1>11,
      <1>12, <1>13, <1>14, <1>15, <1>16, <1>17, <1>18, <1>19, <1>20
  DEF Next, RunJobStep, TickStep, Outside, StillRunning, HelperForgot,
      CopyEnds, CancelRun, CopyUnrecorded, FallDue, DeleteJob, SaveJob,
      SetAllEnabled, SetConcurrency, ReEnable

\* A copy's row is written as the copy leaves `live`, and an id of a copy that
\* is going is never taken again.
LEMMA NextLiveIsRunning ==
  ASSUME TypeOK, LiveIsRunning, [Next]_vars
  PROVE  LiveIsRunning'
<1> USE DEF LiveIsRunning, TypeOK, RunState, Step, Actor, vars, jobVars,
            rowVars, helperVars, actorVars, tickVars
<1>1. ASSUME NEW p \in Actor, HelperStarts(p) PROVE LiveIsRunning'
  BY <1>1 DEF HelperStarts, Goto, Fresh
<1>2. ASSUME NEW p \in Actor, FailStart(p) PROVE LiveIsRunning'
  BY <1>2 DEF FailStart, Goto, Fresh
<1>3. ASSUME NEW a \in Attempt, CopyEnds(a) PROVE LiveIsRunning'
  BY <1>3 DEF CopyEnds
<1>4. ASSUME NEW a \in Attempt, CopyUnrecorded(a) PROVE LiveIsRunning'
  BY <1>4 DEF CopyUnrecorded
<1>5. ASSUME Restart PROVE LiveIsRunning'
  BY <1>5 DEF Restart, Reboot
<1>6. ASSUME RestartWithoutHelperRows PROVE LiveIsRunning'
  BY <1>6 DEF RestartWithoutHelperRows, Reboot
<1>7. CASE UNCHANGED <<live, copy>>
  BY <1>7
<1> QED
  BY <1>1, <1>2, <1>3, <1>4, <1>5, <1>6, <1>7
  DEF Next, RunJobStep, TickStep, Outside, RunJobGuard, HelperRefuses,
      RecordStart, FailFinish, RecordFailure, ScheduleRetry, TickFires,
      ReadDue, TickDone, CreditSuccess, ApplyRetention, StillRunning,
      HelperForgot, SettleRun, CancelRun, StartNext, FallDue, DeleteJob,
      SaveJob, SetAllEnabled, SetConcurrency, RunNow, Throw, ReEnable

\* What the tick is to ask about stays linked, or is deleted with its job.
LEMMA NextTodoIsLinked ==
  ASSUME TypeOK, TodoIsLinked, [Next]_vars
  PROVE  TodoIsLinked'
<1> USE DEF TodoIsLinked, TypeOK, RunState, Step, Actor, vars, jobVars,
            rowVars, helperVars, actorVars, tickVars
<1>1. ASSUME NEW p \in Actor, HelperStarts(p) PROVE TodoIsLinked'
  BY <1>1 DEF HelperStarts, Goto, Fresh
<1>2. ASSUME NEW p \in Actor, RecordStart(p) PROVE TodoIsLinked'
  BY <1>2 DEF RecordStart, Leave, Return
<1>3. ASSUME NEW p \in Actor, FailStart(p) PROVE TodoIsLinked'
  BY <1>3 DEF FailStart, Goto, Fresh
<1>4. ASSUME NEW p \in Actor, FailFinish(p) PROVE TodoIsLinked'
  BY <1>4 DEF FailFinish, FinishRun, Goto
<1>5. ASSUME TickFires PROVE TodoIsLinked'
  BY <1>5 DEF TickFires, Goto, RunningRuns
<1>6. ASSUME NEW a \in Attempt, StillRunning(a) PROVE TodoIsLinked'
  BY <1>6 DEF StillRunning
<1>7. ASSUME NEW a \in Attempt, HelperForgot(a) PROVE TodoIsLinked'
  BY <1>7 DEF HelperForgot, FinishRun
<1>8. ASSUME NEW a \in Attempt, SettleRun(a) PROVE TodoIsLinked'
  BY <1>8 DEF SettleRun, FinishRun, AfterFinish, Goto, Ended
<1>9. ASSUME NEW j \in Job, DeleteJob(j) PROVE TodoIsLinked'
  BY <1>9 DEF DeleteJob, Restamp
<1>10. ASSUME NEW p \in Actor, Throw(p) PROVE TodoIsLinked'
  BY <1>10 DEF Throw
<1>11. ASSUME ReEnable PROVE TodoIsLinked'
  BY <1>11 DEF ReEnable
<1>12. ASSUME Restart PROVE TodoIsLinked'
  BY <1>12 DEF Restart, Reboot
<1>13. ASSUME RestartWithoutHelperRows PROVE TodoIsLinked'
  BY <1>13 DEF RestartWithoutHelperRows, Reboot
<1>14. CASE UNCHANGED <<todo, row, linked>>
  BY <1>14
<1> QED
  BY <1>1, <1>2, <1>3, <1>4, <1>5, <1>6, <1>7, <1>8, <1>9, <1>10, <1>11,
      <1>12, <1>13, <1>14
  DEF Next, RunJobStep, TickStep, Outside, RunJobGuard, HelperRefuses,
      RecordFailure, ScheduleRetry, ReadDue, TickDone, CreditSuccess,
      ApplyRetention, CopyEnds, CancelRun, CopyUnrecorded, StartNext, FallDue,
      SaveJob, SetAllEnabled, SetConcurrency, RunNow

\* An actor takes a fresh attempt, which is neither in the tick's list nor with
\* another actor.
LEMMA NextHolding ==
  ASSUME TypeOK, StageKnown, Holding, HeldRow, [Next]_vars
  PROVE  Holding'
<1> USE DEF Holding, HeldRow, HoldsNothing, StageKnown, TypeOK, RunState,
            Step, Actor, vars, jobVars, rowVars, helperVars, actorVars, tickVars
<1>1. ASSUME NEW p \in Actor, RunJobGuard(p) PROVE Holding'
  BY <1>1 DEF RunJobGuard, Leave, Return, Goto
<1>2. ASSUME NEW p \in Actor, HelperStarts(p) PROVE Holding'
  BY <1>2 DEF HelperStarts, Goto, Fresh
<1>3. ASSUME NEW p \in Actor, HelperRefuses(p) PROVE Holding'
  BY <1>3 DEF HelperRefuses, Goto
<1>4. ASSUME NEW p \in Actor, RecordStart(p) PROVE Holding'
  BY <1>4 DEF RecordStart, Leave, Return
<1>5. ASSUME NEW p \in Actor, FailStart(p) PROVE Holding'
  BY <1>5 DEF FailStart, Goto, Fresh
<1>6. ASSUME NEW p \in Actor, FailFinish(p) PROVE Holding'
  BY <1>6 DEF FailFinish, FinishRun, Goto
<1>7. ASSUME NEW p \in Actor, RecordFailure(p) PROVE Holding'
  BY <1>7 DEF RecordFailure, Goto
<1>8. ASSUME NEW p \in Actor, ScheduleRetry(p) PROVE Holding'
  BY <1>8 DEF ScheduleRetry, Restamp, Leave, Return
<1>9. ASSUME TickFires PROVE Holding'
  BY <1>9 DEF TickFires, Goto, RunningRuns
<1>10. ASSUME ReadDue PROVE Holding'
  BY <1>10 DEF ReadDue, Goto
<1>11. ASSUME TickDone PROVE Holding'
  BY <1>11 DEF TickDone, Goto
<1>12. ASSUME CreditSuccess PROVE Holding'
  BY <1>12 DEF CreditSuccess, Goto
<1>13. ASSUME ApplyRetention PROVE Holding'
  BY <1>13 DEF ApplyRetention, Leave, Return
<1>14. ASSUME NEW a \in Attempt, StillRunning(a) PROVE Holding'
  BY <1>14 DEF StillRunning
<1>15. ASSUME NEW a \in Attempt, HelperForgot(a) PROVE Holding'
  BY <1>15 DEF HelperForgot, FinishRun
<1>16. ASSUME NEW a \in Attempt, SettleRun(a) PROVE Holding'
  BY <1>16 DEF SettleRun, FinishRun, AfterFinish, Goto, Ended
<1>17. ASSUME NEW j \in Job, StartNext(j) PROVE Holding'
  BY <1>17 DEF StartNext, Goto, Restamp
<1>18. ASSUME NEW p \in Actor, NEW j \in Job, RunNow(p, j) PROVE Holding'
  BY <1>18 DEF RunNow, Goto
<1>19. ASSUME NEW p \in Actor, Throw(p) PROVE Holding'
  BY <1>19 DEF Throw
<1>20. ASSUME Restart PROVE Holding'
  BY <1>20 DEF Restart, Reboot
<1>21. ASSUME RestartWithoutHelperRows PROVE Holding'
  BY <1>21 DEF RestartWithoutHelperRows, Reboot
<1>22. CASE UNCHANGED <<pc, run, todo>>
  BY <1>22
<1> QED
  BY <1>1, <1>2, <1>3, <1>4, <1>5, <1>6, <1>7, <1>8, <1>9, <1>10, <1>11,
      <1>12, <1>13, <1>14, <1>15, <1>16, <1>17, <1>18, <1>19, <1>20, <1>21,
      <1>22
  DEF Next, RunJobStep, TickStep, Outside, CopyEnds, CancelRun,
      CopyUnrecorded, FallDue, DeleteJob, SaveJob, SetAllEnabled,
      SetConcurrency, ReEnable

\* Nobody else writes the record of an attempt an actor holds, except to delete
\* it with its job or to take it for interrupted.
LEMMA NextHeldRow ==
  ASSUME TypeOK, StageKnown, Holding, HeldRow, LiveIsRunning, GoodMeansCopied,
         [Next]_vars
  PROVE  HeldRow'
<1> USE DEF HeldRow, NotWhole, Holding, HoldsNothing, LiveIsRunning,
            StageKnown, GoodMeansCopied, TypeOK, RunState, Step, Actor, vars,
            jobVars, rowVars, helperVars, actorVars, tickVars
<1>1. ASSUME NEW p \in Actor, RunJobGuard(p) PROVE HeldRow'
  BY <1>1 DEF RunJobGuard, Leave, Return, Goto
<1>2. ASSUME NEW p \in Actor, HelperStarts(p) PROVE HeldRow'
  BY <1>2 DEF HelperStarts, Goto, Fresh
<1>3. ASSUME NEW p \in Actor, HelperRefuses(p) PROVE HeldRow'
  BY <1>3 DEF HelperRefuses, Goto
<1>4. ASSUME NEW p \in Actor, RecordStart(p) PROVE HeldRow'
  BY <1>4 DEF RecordStart, Leave, Return
<1>5. ASSUME NEW p \in Actor, FailStart(p) PROVE HeldRow'
  BY <1>5 DEF FailStart, Goto, Fresh
<1>6. ASSUME NEW p \in Actor, FailFinish(p) PROVE HeldRow'
  BY <1>6 DEF FailFinish, FinishRun, Goto
<1>7. ASSUME NEW p \in Actor, RecordFailure(p) PROVE HeldRow'
  BY <1>7 DEF RecordFailure, Goto
<1>8. ASSUME NEW p \in Actor, ScheduleRetry(p) PROVE HeldRow'
  BY <1>8 DEF ScheduleRetry, Restamp, Leave, Return
<1>9. ASSUME TickFires PROVE HeldRow'
  BY <1>9 DEF TickFires, Goto, RunningRuns
<1>10. ASSUME ReadDue PROVE HeldRow'
  BY <1>10 DEF ReadDue, Goto
<1>11. ASSUME TickDone PROVE HeldRow'
  BY <1>11 DEF TickDone, Goto
<1>12. ASSUME CreditSuccess PROVE HeldRow'
  BY <1>12 DEF CreditSuccess, Goto
<1>13. ASSUME ApplyRetention PROVE HeldRow'
  BY <1>13 DEF ApplyRetention, Leave, Return
<1>14. ASSUME NEW a \in Attempt, HelperForgot(a) PROVE HeldRow'
  BY <1>14 DEF HelperForgot, FinishRun
<1>15. ASSUME NEW a \in Attempt, SettleRun(a) PROVE HeldRow'
  BY <1>15 DEF SettleRun, FinishRun, AfterFinish, Goto, Ended
<1>16. ASSUME NEW a \in Attempt, CopyEnds(a) PROVE HeldRow'
  BY <1>16 DEF CopyEnds
<1>17. ASSUME NEW j \in Job, StartNext(j) PROVE HeldRow'
  BY <1>17 DEF StartNext, Goto, Restamp
<1>18. ASSUME NEW j \in Job, DeleteJob(j) PROVE HeldRow'
  BY <1>18 DEF DeleteJob, Restamp
<1>19. ASSUME NEW p \in Actor, NEW j \in Job, RunNow(p, j) PROVE HeldRow'
  BY <1>19 DEF RunNow, Goto
<1>20. ASSUME NEW p \in Actor, Throw(p) PROVE HeldRow'
  BY <1>20 DEF Throw
<1>21. ASSUME ReEnable PROVE HeldRow'
  BY <1>21 DEF ReEnable
<1>22. ASSUME Restart PROVE HeldRow'
  BY <1>22 DEF Restart, Reboot
<1>23. ASSUME RestartWithoutHelperRows PROVE HeldRow'
  BY <1>23 DEF RestartWithoutHelperRows, Reboot
<1>24. CASE UNCHANGED <<pc, run, row, copy, linked>>
  BY <1>24
<1> QED
  BY <1>1, <1>2, <1>3, <1>4, <1>5, <1>6, <1>7, <1>8, <1>9, <1>10, <1>11,
      <1>12, <1>13, <1>14, <1>15, <1>16, <1>17, <1>18, <1>19, <1>20, <1>21,
      <1>22, <1>23, <1>24
  DEF Next, RunJobStep, TickStep, Outside, StillRunning, CancelRun,
      CopyUnrecorded, FallDue, SaveJob, SetAllEnabled, SetConcurrency

\* `done` is written by SettleRun alone, with what the helper says.
LEMMA NextGoodMeansCopied ==
  ASSUME TypeOK, LiveIsRunning, TodoIsLinked, GoodMeansCopied, [Next]_vars
  PROVE  GoodMeansCopied'
<1> USE DEF GoodMeansCopied, LiveIsRunning, TodoIsLinked, TypeOK, RunState,
            Step, Actor, vars, jobVars, rowVars, helperVars, actorVars, tickVars
<1>1. ASSUME NEW p \in Actor, HelperStarts(p) PROVE GoodMeansCopied'
  BY <1>1 DEF HelperStarts, Goto, Fresh
<1>2. ASSUME NEW p \in Actor, RecordStart(p) PROVE GoodMeansCopied'
  BY <1>2 DEF RecordStart, Leave, Return
<1>3. ASSUME NEW p \in Actor, FailStart(p) PROVE GoodMeansCopied'
  BY <1>3 DEF FailStart, Goto, Fresh
<1>4. ASSUME NEW p \in Actor, FailFinish(p) PROVE GoodMeansCopied'
  BY <1>4 DEF FailFinish, FinishRun, Goto
<1>5. ASSUME NEW a \in Attempt, HelperForgot(a) PROVE GoodMeansCopied'
  BY <1>5 DEF HelperForgot, FinishRun
<1>6. ASSUME NEW a \in Attempt, SettleRun(a) PROVE GoodMeansCopied'
  BY <1>6 DEF SettleRun, FinishRun, AfterFinish, Goto, Ended
<1>7. ASSUME NEW a \in Attempt, CopyEnds(a) PROVE GoodMeansCopied'
  BY <1>7 DEF CopyEnds
<1>8. ASSUME NEW j \in Job, DeleteJob(j) PROVE GoodMeansCopied'
  BY <1>8 DEF DeleteJob, Restamp
<1>9. ASSUME ReEnable PROVE GoodMeansCopied'
  BY <1>9 DEF ReEnable
<1>10. ASSUME Restart PROVE GoodMeansCopied'
  BY <1>10 DEF Restart, Reboot
<1>11. ASSUME RestartWithoutHelperRows PROVE GoodMeansCopied'
  BY <1>11 DEF RestartWithoutHelperRows, Reboot
<1>12. CASE UNCHANGED <<row, copy, linked>>
  BY <1>12
<1> QED
  BY <1>1, <1>2, <1>3, <1>4, <1>5, <1>6, <1>7, <1>8, <1>9, <1>10, <1>11, <1>12
  DEF Next, RunJobStep, TickStep, Outside, RunJobGuard, HelperRefuses,
      RecordFailure, ScheduleRetry, TickFires, ReadDue, TickDone,
      CreditSuccess, ApplyRetention, StillRunning, CancelRun, CopyUnrecorded,
      StartNext, FallDue, SaveJob, SetAllEnabled, SetConcurrency, RunNow,
      Throw

-----------------------------------------------------------------------------
(* The invariant and what follows from it.                                 *)

\* The invariant holds of a fresh install: nothing runs and nothing is held.
LEMMA InitIInv == Init => IInv
<1> SUFFICES ASSUME Init PROVE IInv
  OBVIOUS
<1>1. TypeOK
  BY InitTypeOK
<1>2. StageKnown /\ LiveIsRunning /\ TodoIsLinked /\ GoodMeansCopied
  BY DEF Init, StageKnown, LiveIsRunning, TodoIsLinked, GoodMeansCopied, Actor
<1>3. Holding /\ HeldRow
  BY DEF Init, Holding, HoldsNothing, HeldRow
<1> QED
  BY <1>1, <1>2, <1>3 DEF IInv

\* The invariant is inductive.
LEMMA NextIInv == IInv /\ [Next]_vars => IInv'
  BY NextTypeOK, NextStageKnown, NextLiveIsRunning, NextTodoIsLinked,
      NextHolding, NextHeldRow, NextGoodMeansCopied
  DEF IInv

\* IInv holds throughout: the inductive invariant the theorems below rest on.
THEOREM IInvAlways == Spec => []IInv
  BY InitIInv, NextIInv, PTL DEF Spec

\* Every variable keeps its type, for any number of jobs, attempts and clickers.
THEOREM TypeInvariant == Spec => []TypeOK
<1>1. IInv => TypeOK
  BY DEF IInv
<1> QED
  BY <1>1, IInvAlways, PTL

\* No run is ever on record as a good backup unless the helper's copy of it ended
\* as done: no crash, lost helper table, thrown statement, cancellation, deletion
\* or race of "Run now" with the tick makes an interrupted run look like one.
THEOREM GoodMeansCopiedAlways == Spec => []GoodMeansCopied
<1>1. IInv => GoodMeansCopied
  BY DEF IInv
<1> QED
  BY <1>1, IInvAlways, PTL

\* Retention is applied only for a run whose copy ended as done, whatever happens
\* between the read of the helper's row and the prune.
THEOREM RetentionFollowsCopyAlways == Spec => []RetentionFollowsCopy
<1>1. IInv => RetentionFollowsCopy
  BY DEF IInv, HeldRow, RetentionFollowsCopy, Actor
<1> QED
  BY <1>1, IInvAlways, PTL

\* A failure is counted, and a retry used up, only for a run that failed, was
\* interrupted or never started: never for one that was cancelled or is going.
THEOREM OnlyFailuresCountAlways == Spec => OnlyFailuresCount
<1> DEFINE Counted ==
        \A j \in Job : failures'[j] > failures[j] =>
            \E p \in Actor : /\ job[p] = j
                             /\ run[p] # NoAttempt
                             /\ copy[run[p]] \in {"none", "failed", "interrupted"}
<1>1. IInv /\ [Next]_vars => [Counted]_vars
  <2> SUFFICES ASSUME IInv, [Next]_vars, NEW j \in Job, failures'[j] > failures[j]
               PROVE  \E p \in Actor :
                          /\ job[p] = j
                          /\ run[p] # NoAttempt
                          /\ copy[run[p]] \in {"none", "failed", "interrupted"}
    OBVIOUS
  <2>1. failures \in [Job -> 0..FailureCap] /\ FailureCap \in Nat
    BY DEF IInv, TypeOK, FailureCap
  <2>2. PICK p \in Actor : RecordFailure(p)
    <3>1. CASE CreditSuccess
      BY <3>1, <2>1 DEF CreditSuccess
    <3>2. CASE \E i \in Job : DeleteJob(i)
      BY <3>2, <2>1 DEF DeleteJob
    <3>3. CASE UNCHANGED failures
      BY <3>3, <2>1
    <3> QED
      BY <3>1, <3>2, <3>3
      DEF Next, RunJobStep, TickStep, Outside, vars, jobVars, RunJobGuard,
          HelperStarts, HelperRefuses, RecordStart, FailStart, FailFinish,
          ScheduleRetry, TickFires, ReadDue, TickDone, ApplyRetention,
          StillRunning, HelperForgot, SettleRun, CopyEnds, CancelRun,
          CopyUnrecorded, StartNext, FallDue, SaveJob, SetAllEnabled,
          SetConcurrency, RunNow, Throw, ReEnable, Restart,
          RestartWithoutHelperRows, Reboot
  <2>3. pc[p] = "outcome" /\ job[p] = j
    BY <2>1, <2>2 DEF RecordFailure
  <2>4. run[p] \in Attempt /\ copy[run[p]] \in {"none", "failed", "interrupted"}
    BY <2>3 DEF IInv, Holding, HoldsNothing, HeldRow, NotWhole
  <2> QED
    BY <2>3, <2>4
<1> QED
  BY <1>1, IInvAlways, PTL DEF Spec, OnlyFailuresCount

-----------------------------------------------------------------------------
(* Where the module is not switched off and on under a tick.               *)

\* A row the tick or a failRun is about to close is still open, or deleted.
OpenRows ==
    /\ \A a \in todo : row[a] \in {"running", "none"}
    /\ \A p \in Actor : pc[p] = "failFinish" => row[run[p]] \in {"running", "none"}

\* Only ReEnable closes a row that is not its own.
LEMMA NextOpenRows ==
  ASSUME "reenable" \notin Events, IInv, OpenRows, [Next]_vars
  PROVE  OpenRows'
<1> USE DEF IInv, OpenRows, HeldRow, NotWhole, Holding, HoldsNothing, StageKnown,
            TypeOK, RunState, Step, Actor, vars, jobVars, rowVars, helperVars,
            actorVars, tickVars
<1>1. ASSUME NEW p \in Actor, RunJobGuard(p) PROVE OpenRows'
  BY <1>1 DEF RunJobGuard, Leave, Return, Goto
<1>2. ASSUME NEW p \in Actor, HelperStarts(p) PROVE OpenRows'
  BY <1>2 DEF HelperStarts, Goto, Fresh
<1>3. ASSUME NEW p \in Actor, HelperRefuses(p) PROVE OpenRows'
  BY <1>3 DEF HelperRefuses, Goto
<1>4. ASSUME NEW p \in Actor, RecordStart(p) PROVE OpenRows'
  BY <1>4 DEF RecordStart, Leave, Return
<1>5. ASSUME NEW p \in Actor, FailStart(p) PROVE OpenRows'
  BY <1>5 DEF FailStart, Goto, Fresh
<1>6. ASSUME NEW p \in Actor, FailFinish(p) PROVE OpenRows'
  BY <1>6 DEF FailFinish, FinishRun, Goto
<1>7. ASSUME NEW p \in Actor, RecordFailure(p) PROVE OpenRows'
  BY <1>7 DEF RecordFailure, Goto
<1>8. ASSUME NEW p \in Actor, ScheduleRetry(p) PROVE OpenRows'
  BY <1>8 DEF ScheduleRetry, Restamp, Leave, Return
<1>9. ASSUME TickFires PROVE OpenRows'
  BY <1>9 DEF TickFires, Goto, RunningRuns
<1>10. ASSUME ReadDue PROVE OpenRows'
  BY <1>10 DEF ReadDue, Goto
<1>11. ASSUME TickDone PROVE OpenRows'
  BY <1>11 DEF TickDone, Goto
<1>12. ASSUME CreditSuccess PROVE OpenRows'
  BY <1>12 DEF CreditSuccess, Goto
<1>13. ASSUME ApplyRetention PROVE OpenRows'
  BY <1>13 DEF ApplyRetention, Leave, Return
<1>14. ASSUME NEW a \in Attempt, StillRunning(a) PROVE OpenRows'
  BY <1>14 DEF StillRunning
<1>15. ASSUME NEW a \in Attempt, HelperForgot(a) PROVE OpenRows'
  BY <1>15 DEF HelperForgot, FinishRun
<1>16. ASSUME NEW a \in Attempt, SettleRun(a) PROVE OpenRows'
  BY <1>16 DEF SettleRun, FinishRun, AfterFinish, Goto, Ended
<1>17. ASSUME NEW j \in Job, StartNext(j) PROVE OpenRows'
  BY <1>17 DEF StartNext, Goto, Restamp
<1>18. ASSUME NEW j \in Job, DeleteJob(j) PROVE OpenRows'
  BY <1>18 DEF DeleteJob, Restamp
<1>19. ASSUME NEW p \in Actor, NEW j \in Job, RunNow(p, j) PROVE OpenRows'
  BY <1>19 DEF RunNow, Goto
<1>20. ASSUME NEW p \in Actor, Throw(p) PROVE OpenRows'
  BY <1>20 DEF Throw
<1>21. ASSUME Restart PROVE OpenRows'
  BY <1>21 DEF Restart, Reboot
<1>22. ASSUME RestartWithoutHelperRows PROVE OpenRows'
  BY <1>22 DEF RestartWithoutHelperRows, Reboot
<1>23. CASE UNCHANGED <<pc, run, row, todo>>
  BY <1>23
<1> QED
  BY <1>1, <1>2, <1>3, <1>4, <1>5, <1>6, <1>7, <1>8, <1>9, <1>10, <1>11, <1>12,
     <1>13, <1>14, <1>15, <1>16, <1>17, <1>18, <1>19, <1>20, <1>21, <1>22, <1>23
  DEF Next, RunJobStep, TickStep, Outside, CopyEnds, CancelRun, CopyUnrecorded,
      FallDue, SaveJob, SetAllEnabled, SetConcurrency, ReEnable

\* A run that the history closes has stopped writing to its destination.
THEOREM RunsCloseAfterTheirCopyAlways ==
  ASSUME "reenable" \notin Events
  PROVE  Spec => RunsCloseAfterTheirCopy
<1> DEFINE Closing ==
        \A a \in Attempt : row[a] = "running" /\ row'[a] \in Ended => a \notin live
<1>1. IInv /\ [Next]_vars => [Closing]_vars
  <2> SUFFICES ASSUME IInv, [Next]_vars, NEW a \in Attempt,
                      row[a] = "running", row'[a] \in Ended
               PROVE  copy[a] # "running"
    BY DEF IInv, LiveIsRunning
  <2> USE DEF IInv, TypeOK, RunState, Ended
  <2>1. CASE \E p \in Actor : FailFinish(p)
    BY <2>1 DEF FailFinish, FinishRun, HeldRow
  <2>2. CASE \E b \in Attempt : HelperForgot(b) \/ SettleRun(b)
    BY <2>2 DEF HelperForgot, SettleRun, FinishRun
  <2>3. CASE \/ UNCHANGED row
             \/ \E p \in Actor : HelperStarts(p) \/ RecordStart(p) \/ FailStart(p)
             \/ \E j \in Job : DeleteJob(j)
    BY <2>3 DEF HelperStarts, RecordStart, FailStart, DeleteJob
  <2> QED
    BY <2>1, <2>2, <2>3
    DEF Next, RunJobStep, TickStep, Outside, vars, rowVars, RunJobGuard,
        HelperRefuses, RecordFailure, ScheduleRetry, TickFires, ReadDue,
        TickDone, CreditSuccess, ApplyRetention, StillRunning, CopyEnds,
        CancelRun, CopyUnrecorded, StartNext, FallDue, SaveJob, SetAllEnabled,
        SetConcurrency, RunNow, Throw, ReEnable, Restart,
        RestartWithoutHelperRows, Reboot
<1> QED
  BY <1>1, IInvAlways, PTL DEF Spec, RunsCloseAfterTheirCopy

\* The runs table implements the ledger: a row is opened once, closed once and
\* not rewritten, and is closed as done only over a whole copy, through crashes,
\* lost helper rows, faults, deletions, cancellations and racing clicks.
THEOREM LedgerRefined ==
  ASSUME "reenable" \notin Events
  PROVE  Spec => LedgerSpec
<1> DEFINE Whole == [a \in Attempt |-> a \in linked /\ copy[a] = "done"]
<1>1. Init => Ledger!Init
  BY DEF Init, Ledger!Init
<1>2. Init => OpenRows
  BY DEF Init, OpenRows
<1>3. IInv /\ OpenRows /\ [Next]_vars => OpenRows'
  BY NextOpenRows
<1>4. IInv /\ IInv' /\ OpenRows /\ [Next]_vars => [Ledger!Next]_<<row, Whole>>
  <2> SUFFICES ASSUME IInv, IInv', OpenRows, [Next]_vars
               PROVE  Ledger!Next \/ UNCHANGED <<row, Whole>>
    OBVIOUS
  <2>1. row' \in [Attempt -> Ledger!Closed \cup {"none", "running"}]
    BY DEF IInv, TypeOK, RunState, Ledger!Closed
  <2>2. Whole' \in [Attempt -> BOOLEAN]
    OBVIOUS
  <2>3. ASSUME NEW a \in Attempt
        PROVE  /\ \/ Ledger!Open(a) \/ Ledger!Close(a) \/ Ledger!Forget(a)
                  \/ row'[a] = row[a]
               /\ row'[a] = "done" => Whole'[a]
    <3> USE DEF IInv, OpenRows, HeldRow, Holding, HoldsNothing, TypeOK, RunState,
                Step, Actor, FinishRun, Ended, Ledger!Open, Ledger!Close,
                Ledger!Forget, Ledger!Closed
    <3>1. row'[a] = "done" => Whole'[a]
      BY DEF GoodMeansCopied
    <3>2. CASE \E p \in Actor : HelperStarts(p) \/ RecordStart(p) \/ FailStart(p)
      BY <3>1, <3>2 DEF HelperStarts, RecordStart, FailStart, Fresh
    <3>3. CASE \E p \in Actor : FailFinish(p)
      BY <3>1, <3>3 DEF FailFinish
    <3>4. CASE \E b \in Attempt : HelperForgot(b) \/ SettleRun(b)
      BY <3>1, <3>4 DEF HelperForgot, SettleRun
    <3>5. CASE \E j \in Job : DeleteJob(j)
      BY <3>1, <3>5 DEF DeleteJob
    <3>6. CASE UNCHANGED row
      BY <3>1, <3>6
    <3> QED
      BY <3>2, <3>3, <3>4, <3>5, <3>6
      DEF Next, RunJobStep, TickStep, Outside, vars, rowVars, RunJobGuard,
          HelperRefuses, RecordFailure, ScheduleRetry, TickFires, ReadDue,
          TickDone, CreditSuccess, ApplyRetention, StillRunning, CopyEnds,
          CancelRun, CopyUnrecorded, StartNext, FallDue, SaveJob,
          SetAllEnabled, SetConcurrency, RunNow, Throw, ReEnable, Restart,
          RestartWithoutHelperRows, Reboot
  <2> QED
    BY <2>1, <2>2, <2>3 DEF Ledger!Next
<1> QED
  BY <1>1, <1>2, <1>3, <1>4, IInvAlways, PTL DEF Spec, LedgerSpec, Ledger!Spec

-----------------------------------------------------------------------------
(***************************************************************************)
(* Which copies are going at once, and that each is on record, for any     *)
(* jobs, attempts, retries and limits. The theorems leave out the events   *)
(* that really break them: deleted jobs, statements that throw and re-     *)
(* enabling lose track of a copy (Orderly), and a click starts a second    *)
(* one beside the tick (Alone).                                            *)
(***************************************************************************)

Orderly == {"delete", "fault", "reenable"} \cap Events = {}
Alone == Orderly /\ "click" \notin Events

Tracked(a) ==
    \/ row[a] = "running" /\ a \in linked
    \/ \E p \in Actor : pc[p] = "record" /\ run[p] = a

\* Without clicks, only the tick does anything.
OnlyTick == \A p \in Clicker : pc[p] = "idle"

\* From the check for a running run to the start of its copy, a job has none.
JobIsFree ==
    pc[Tick] \in {"preflight", "failStart"} => \A a \in live : jobOf[a] # job[Tick]

\* While it starts jobs, the tick has counted every copy that is going, but
\* for the one it is about to record.
Starting == {"start", "guard", "preflight", "record", "failStart", "failFinish"}
CopiesAreCounted ==
    /\ pc[Tick] \in Starting => stage = "start"
    /\ stage = "start" =>
          Cardinality(live) <= inFlight + (IF pc[Tick] = "record" THEN 1 ELSE 0)
    /\ pc[Tick] \in {"guard", "preflight"} => inFlight < tickLimit

AloneInv ==
    /\ IInv
    /\ CopiesAreTracked
    /\ OnlyTick
    /\ SingleCopy
    /\ JobIsFree
    /\ CopiesAreCounted

-----------------------------------------------------------------------------
(* Every copy is on record.                                                *)

LEMMA NextCopiesAreTracked ==
  ASSUME Orderly, IInv, CopiesAreTracked, [Next]_vars
  PROVE  CopiesAreTracked'
<1> SUFFICES ASSUME NEW a \in live' PROVE Tracked(a)'
  BY DEF CopiesAreTracked, Tracked
<1>t. /\ a \in live => Tracked(a) /\ copy[a] = "running" /\ a \in Attempt
      /\ row \in [Attempt -> RunState] /\ pc \in [Actor -> Step]
      /\ run \in [Actor -> Attempt \cup {NoAttempt}] /\ Tick \in Actor
  BY DEF CopiesAreTracked, Tracked, IInv, LiveIsRunning, TypeOK, Actor
\* Nobody stops recording, and no row is touched.
<1>p. ASSUME NEW p \in Actor, pc[p] # "record", UNCHANGED <<row, linked>>, a \in live,
             \A q \in Actor : q # p => pc'[q] = pc[q] /\ run'[q] = run[q]
      PROVE  Tracked(a)'
  BY <1>p, <1>t DEF Tracked
<1>r. ASSUME UNCHANGED <<linked, pc, run>>, a \in live, row'[a] = row[a]
      PROVE  Tracked(a)'
  BY <1>r, <1>t DEF Tracked
<1> USE DEF jobVars, rowVars, helperVars, actorVars, tickVars
<1>1. ASSUME NEW p \in Actor, RunJobGuard(p) \/ HelperRefuses(p) \/ RecordFailure(p) \/ ScheduleRetry(p)
      PROVE  Tracked(a)'
  <2>1. pc[p] # "record" /\ UNCHANGED <<row, linked, live>>
    BY <1>1 DEF RunJobGuard, HelperRefuses, RecordFailure, ScheduleRetry
  <2>2. \A q \in Actor : q # p => pc'[q] = pc[q] /\ run'[q] = run[q]
    BY <1>1, <1>t DEF RunJobGuard, HelperRefuses, RecordFailure, ScheduleRetry, Leave, Goto
  <2> QED
    BY <1>p, <2>1, <2>2
<1>2. ASSUME NEW p \in Actor, HelperStarts(p) PROVE Tracked(a)'
  <2>1. PICK b \in Attempt : /\ Fresh(b) /\ row' = [row EXCEPT ![b] = "none"]
                             /\ linked' = linked \ {b} /\ live' = live \cup {b}
                             /\ run' = [run EXCEPT ![p] = b]
    BY <1>2 DEF HelperStarts
  <2>2. pc[p] = "preflight" /\ pc' = [pc EXCEPT ![p] = "record"]
    BY <1>2 DEF HelperStarts, Goto
  <2>3. CASE a = b
    BY <1>t, <2>1, <2>2, <2>3 DEF Tracked
  <2>4. CASE a # b
    BY <1>t, <2>1, <2>2, <2>4 DEF Tracked
  <2> QED
    BY <2>3, <2>4
<1>3. ASSUME NEW p \in Actor, RecordStart(p) PROVE Tracked(a)'
  <2>1. row' = [row EXCEPT ![run[p]] = "running"] /\ linked' = linked \cup {run[p]} /\ live' = live
    BY <1>3 DEF RecordStart
  <2>2. \A q \in Actor : q # p => pc'[q] = pc[q] /\ run'[q] = run[q]
    BY <1>3, <1>t DEF RecordStart, Leave
  <2> QED
    BY <1>t, <2>1, <2>2 DEF Tracked
<1>4. ASSUME NEW p \in Actor, FailStart(p) PROVE Tracked(a)'
  <2>1. PICK b \in Attempt : /\ Fresh(b) /\ row' = [row EXCEPT ![b] = "running"]
                             /\ linked' = linked \ {b} /\ run' = [run EXCEPT ![p] = b]
    BY <1>4 DEF FailStart
  <2>2. pc[p] = "failStart" /\ pc' = [pc EXCEPT ![p] = "failFinish"] /\ live' = live
    BY <1>4 DEF FailStart, Goto
  <2> QED
    BY <1>t, <2>1, <2>2 DEF Tracked, Fresh
<1>5. ASSUME NEW p \in Actor, FailFinish(p) PROVE Tracked(a)'
  <2>1. pc[p] = "failFinish" /\ UNCHANGED <<linked, live, run>> /\ pc' = [pc EXCEPT ![p] = "outcome"]
    BY <1>5 DEF FailFinish, Goto
  <2>2. a # run[p]
    BY <1>t, <2>1 DEF IInv, HeldRow
  <2>3. row'[a] = row[a]
    BY <1>5, <1>t, <2>1, <2>2 DEF FailFinish, FinishRun
  <2> QED
    BY <1>t, <2>1, <2>3 DEF Tracked
<1>6. ASSUME TickFires \/ ReadDue \/ TickDone \/ CreditSuccess \/ ApplyRetention
             \/ \E j \in Job : StartNext(j)
      PROVE  Tracked(a)'
  <2>1. pc[Tick] # "record" /\ UNCHANGED <<row, linked, live>>
    BY <1>6 DEF TickFires, ReadDue, TickDone, CreditSuccess, ApplyRetention, StartNext
  <2>2. \A q \in Actor : q # Tick => pc'[q] = pc[q] /\ run'[q] = run[q]
    BY <1>6, <1>t DEF TickFires, ReadDue, TickDone, CreditSuccess, ApplyRetention, StartNext, Goto, Leave
  <2> QED
    BY <1>p, <1>t, <2>1, <2>2
<1>7. ASSUME NEW b \in Attempt, HelperForgot(b) \/ SettleRun(b) PROVE Tracked(a)'
  <2>1. pc[Tick] = "reconcile" /\ UNCHANGED <<linked, live>> /\ copy[b] # "running"
    BY <1>7 DEF HelperForgot, SettleRun, Ended
  <2>2. row'[a] = row[a]
    BY <1>7, <1>t, <2>1 DEF HelperForgot, SettleRun, FinishRun
  <2>3. \A q \in Actor : q # Tick => pc'[q] = pc[q] /\ run'[q] = run[q]
    BY <1>7, <1>t DEF HelperForgot, SettleRun, Goto
  <2> QED
    BY <1>t, <2>1, <2>2, <2>3 DEF Tracked
<1>8. ASSUME NEW b \in Attempt, StillRunning(b) \/ CopyEnds(b) \/ CancelRun(b) PROVE Tracked(a)'
  BY <1>8, <1>r DEF StillRunning, CopyEnds, CancelRun
<1>9. ASSUME NEW j \in Job, FallDue(j) \/ \E on \in BOOLEAN : SaveJob(j, on) PROVE Tracked(a)'
  BY <1>9, <1>r DEF FallDue, SaveJob
<1>10. ASSUME \/ \E on \in BOOLEAN : SetAllEnabled(on)
              \/ \E n \in Limits : SetConcurrency(n)
       PROVE  Tracked(a)'
  BY <1>10, <1>r DEF SetAllEnabled, SetConcurrency
<1>11. ASSUME NEW p \in Actor, NEW j \in Job, RunNow(p, j) PROVE Tracked(a)'
  <2>1. pc[p] # "record" /\ UNCHANGED <<row, linked, live, run>>
    BY <1>11 DEF RunNow
  <2>2. \A q \in Actor : q # p => pc'[q] = pc[q]
    BY <1>11, <1>t DEF RunNow, Goto
  <2> QED
    BY <1>p, <2>1, <2>2
<1>12. ~(Restart \/ RestartWithoutHelperRows)
  BY DEF Restart, RestartWithoutHelperRows, Reboot
<1>13. /\ \A b \in Attempt : ~CopyUnrecorded(b)
       /\ \A j \in Job : ~DeleteJob(j)
       /\ \A p \in Actor : ~Throw(p)
       /\ ~ReEnable
  BY DEF Orderly, CopyUnrecorded, DeleteJob, Throw, ReEnable
<1>14. ASSUME UNCHANGED vars PROVE Tracked(a)'
  BY <1>14, <1>r DEF vars
<1> QED
  BY <1>1, <1>2, <1>3, <1>4, <1>5, <1>6, <1>7, <1>8, <1>9, <1>10, <1>11, <1>12, <1>13, <1>14
     DEF Next, RunJobStep, TickStep, Outside

\* Every copy that is going is known to the runs table, or its actor is about
\* to say so, through crashes, lost helper tables, cancellations and clicks.
THEOREM CopiesAreTrackedAlways == ASSUME Orderly PROVE Spec => []CopiesAreTracked
<1>1. Init => IInv /\ CopiesAreTracked
  BY InitIInv DEF Init, CopiesAreTracked
<1>2. IInv /\ CopiesAreTracked /\ [Next]_vars => (IInv /\ CopiesAreTracked)'
  BY NextIInv, NextCopiesAreTracked
<1> QED
  BY <1>1, <1>2, PTL DEF Spec

-----------------------------------------------------------------------------
(* Without clicks.                                                         *)

\* The steps that matter to the copies and to the tick.
Matters ==
    \/ RunJobStep(Tick) \/ TickStep
    \/ \E a \in Attempt : CopyEnds(a)
    \/ Restart \/ RestartWithoutHelperRows

LEMMA AloneSteps ==
  ASSUME Alone, IInv, OnlyTick, [Next]_vars
  PROVE  Matters \/ UNCHANGED <<live, jobOf, actorVars, tickVars>>
<1> USE DEF jobVars, rowVars, helperVars, actorVars, tickVars
<1>1. ASSUME NEW p \in Actor, RunJobStep(p) PROVE p = Tick
  <2>1. pc[p] # "idle"
    BY <1>1 DEF RunJobStep, RunJobGuard, HelperStarts, HelperRefuses, RecordStart, FailStart,
                FailFinish, RecordFailure, ScheduleRetry
  <2> QED
    BY <2>1 DEF OnlyTick, Actor
<1>2. /\ \A a \in Attempt : ~CopyUnrecorded(a)
      /\ \A j \in Job : ~DeleteJob(j)
      /\ \A p \in Actor : ~Throw(p) /\ \A j \in Job : ~RunNow(p, j)
      /\ ~ReEnable
  BY DEF Alone, Orderly, CopyUnrecorded, DeleteJob, Throw, RunNow, ReEnable
<1>3. ASSUME \/ \E a \in Attempt : CancelRun(a)
             \/ \E j \in Job : FallDue(j) \/ \E on \in BOOLEAN : SaveJob(j, on)
             \/ \E on \in BOOLEAN : SetAllEnabled(on)
             \/ \E n \in Limits : SetConcurrency(n)
             \/ UNCHANGED vars
      PROVE  UNCHANGED <<live, jobOf, actorVars, tickVars>>
  BY <1>3 DEF CancelRun, FallDue, SaveJob, SetAllEnabled, SetConcurrency, vars
<1> QED
  BY <1>1, <1>2, <1>3 DEF Next, Outside, Matters

LEMMA NextOnlyTick ==
  ASSUME Alone, IInv, OnlyTick, [Next]_vars
  PROVE  OnlyTick'
<1> SUFFICES ASSUME NEW p \in Clicker PROVE pc'[p] = "idle"
  BY DEF OnlyTick
<1>1. pc[p] = "idle" /\ p # Tick /\ p \in Actor /\ pc \in [Actor -> Step]
  BY ConstantsOK DEF OnlyTick, Actor, IInv, TypeOK
<1> USE DEF actorVars, tickVars, Goto, Leave
<1>2. CASE RunJobStep(Tick)
  BY <1>1, <1>2 DEF RunJobStep, RunJobGuard, HelperStarts, HelperRefuses, RecordStart, FailStart,
                    FailFinish, RecordFailure, ScheduleRetry
<1>3. CASE TickStep
  BY <1>1, <1>3 DEF TickStep, TickFires, ReadDue, TickDone, CreditSuccess, ApplyRetention,
                    StillRunning, HelperForgot, SettleRun, StartNext
<1>4. CASE \E a \in Attempt : CopyEnds(a)
  BY <1>1, <1>4 DEF CopyEnds
<1>5. CASE Restart \/ RestartWithoutHelperRows
  BY <1>1, <1>5 DEF Restart, RestartWithoutHelperRows, Reboot
<1> QED
  BY <1>1, <1>2, <1>3, <1>4, <1>5, AloneSteps DEF Matters

LEMMA NextSingleCopy ==
  ASSUME Alone, AloneInv, [Next]_vars
  PROVE  SingleCopy' /\ JobIsFree'
<1>t. /\ pc \in [Actor -> Step] /\ Tick \in Actor /\ live \subseteq Attempt
      /\ jobOf \in [Attempt -> Job \cup {NoJob}]
  BY DEF AloneInv, IInv, TypeOK, Actor
\* Copies end, and the tick is not on the way to another one, or as it was.
<1>s. ASSUME live' \subseteq live, jobOf' = jobOf,
             \/ pc'[Tick] \notin {"preflight", "failStart"}
             \/ pc'[Tick] = pc[Tick] /\ job' = job
      PROVE  SingleCopy' /\ JobIsFree'
  BY <1>s DEF AloneInv, SingleCopy, JobIsFree
<1> USE DEF actorVars, tickVars, helperVars
<1>1. CASE RunJobGuard(Tick)
  <2>1. pc[Tick] = "guard" /\ UNCHANGED <<live, jobOf>>
    BY <1>1 DEF RunJobGuard
  <2>2. CASE Running(job[Tick]) = {} /\ pc' = [pc EXCEPT ![Tick] = "preflight"] /\ job' = job
    <3>1. \A a \in live : row[a] = "running"
      BY <2>1, ConstantsOK DEF AloneInv, CopiesAreTracked, OnlyTick, Actor
    <3>2. \A a \in live : jobOf[a] # job[Tick]
      BY <1>t, <2>2, <3>1 DEF Running
    <3> QED
      BY <2>1, <2>2, <3>2 DEF AloneInv, SingleCopy, JobIsFree
  <2>3. CASE Leave(Tick)
    <3>1. pc'[Tick] = stage /\ stage \in {"reconcile", "start"}
      BY <1>t, <2>1, <2>3 DEF Leave, Return, AloneInv, IInv, StageKnown
    <3> QED
      BY <1>s, <2>1, <3>1
  <2> QED
    BY <1>1, <2>2, <2>3 DEF RunJobGuard, Goto
<1>2. CASE HelperStarts(Tick)
  <2>1. PICK b \in Attempt : /\ live' = live \cup {b} /\ b \notin live
                             /\ jobOf' = [jobOf EXCEPT ![b] = job[Tick]]
    BY <1>2 DEF HelperStarts, Fresh
  <2>2. pc[Tick] = "preflight" /\ pc'[Tick] = "record"
    BY <1>2, <1>t DEF HelperStarts, Goto
  <2>3. \A a \in live : jobOf'[a] = jobOf[a] /\ jobOf'[a] # jobOf'[b]
    BY <1>t, <2>1, <2>2 DEF AloneInv, JobIsFree
  <2> QED
    BY <2>1, <2>2, <2>3 DEF AloneInv, SingleCopy, JobIsFree
<1>3. CASE HelperRefuses(Tick)
  <2>1. pc[Tick] = "preflight" /\ UNCHANGED <<live, jobOf, job>>
    BY <1>3 DEF HelperRefuses
  <2> QED
    BY <2>1 DEF AloneInv, SingleCopy, JobIsFree
<1>4. CASE FailStart(Tick)
  <2>1. PICK b \in Attempt : b \notin live /\ jobOf' = [jobOf EXCEPT ![b] = job[Tick]]
    BY <1>4 DEF FailStart, Fresh
  <2>2. live' = live /\ pc'[Tick] = "failFinish"
    BY <1>4, <1>t DEF FailStart, Goto
  <2>3. \A a \in live : jobOf'[a] = jobOf[a]
    BY <1>t, <2>1
  <2> QED
    BY <2>2, <2>3 DEF AloneInv, SingleCopy, JobIsFree
<1>5. CASE RecordStart(Tick) \/ FailFinish(Tick) \/ RecordFailure(Tick) \/ ScheduleRetry(Tick)
  <2>1. UNCHANGED <<live, jobOf>> /\ pc[Tick] # "idle"
    BY <1>5 DEF RecordStart, FailFinish, RecordFailure, ScheduleRetry
  <2>2. pc'[Tick] \in {"outcome", "retry", stage}
    BY <1>5, <1>t DEF RecordStart, FailFinish, RecordFailure, ScheduleRetry, Goto, Leave, Return
  <2> QED
    BY <1>s, <2>1, <2>2 DEF AloneInv, IInv, StageKnown
<1>6. CASE TickStep
  <2>1. UNCHANGED <<live, jobOf>>
    BY <1>6 DEF TickStep, TickFires, ReadDue, TickDone, CreditSuccess, ApplyRetention,
                StillRunning, HelperForgot, SettleRun, StartNext
  <2>2. pc'[Tick] \notin {"preflight", "failStart"} \/ (pc' = pc /\ job' = job)
    BY <1>6, <1>t DEF TickStep, TickFires, ReadDue, TickDone, CreditSuccess, ApplyRetention,
                      StillRunning, HelperForgot, SettleRun, StartNext, AfterFinish, Goto, Leave,
                      Return, AloneInv, IInv, StageKnown
  <2> QED
    BY <1>s, <2>1, <2>2
<1>7. CASE \E a \in Attempt : CopyEnds(a)
  BY <1>s, <1>7 DEF CopyEnds
<1>8. CASE Restart \/ RestartWithoutHelperRows
  BY <1>s, <1>8, <1>t DEF Restart, RestartWithoutHelperRows, Reboot
<1>9. CASE UNCHANGED <<live, jobOf, actorVars, tickVars>>
  BY <1>s, <1>9
<1> QED
  BY <1>1, <1>2, <1>3, <1>4, <1>5, <1>6, <1>7, <1>8, <1>9, AloneSteps DEF AloneInv, Matters, RunJobStep

LEMMA CardOfLive ==
  ASSUME TypeOK, TypeOK'
  PROVE  /\ Cardinality(live) \in Nat /\ Cardinality(live') \in Nat
         /\ live' \subseteq live => Cardinality(live') <= Cardinality(live)
         /\ \A a \in Attempt : live' = live \cup {a} => Cardinality(live') <= Cardinality(live) + 1
<1>1. IsFiniteSet(live) /\ IsFiniteSet(live')
  BY ConstantsOK, FS_Subset DEF TypeOK
<1>2. Cardinality(live) \in Nat /\ Cardinality(live') \in Nat
  BY <1>1, FS_CardinalityType
<1>3. live' \subseteq live => Cardinality(live') <= Cardinality(live)
  BY <1>1, FS_Subset
<1>4. ASSUME NEW a \in Attempt, live' = live \cup {a} PROVE Cardinality(live') <= Cardinality(live) + 1
  <2>1. Cardinality(live \cup {a}) = IF a \in live THEN Cardinality(live) ELSE Cardinality(live) + 1
    BY <1>1, FS_AddElement
  <2> QED
    BY <1>2, <1>4, <2>1
<1> QED
  BY <1>2, <1>3, <1>4

LEMMA NextCopiesAreCounted ==
  ASSUME Alone, AloneInv, TypeOK', [Next]_vars
  PROVE  CopiesAreCounted'
<1>t. /\ pc \in [Actor -> Step] /\ Tick \in Actor /\ inFlight \in Nat /\ inFlight' \in Nat
      /\ tickLimit \in Nat
      /\ Cardinality(live) \in Nat /\ Cardinality(live') \in Nat
      /\ live' \subseteq live => Cardinality(live') <= Cardinality(live)
  BY CardOfLive, ConstantsOK DEF AloneInv, IInv, TypeOK, Actor
<1>k. CopiesAreCounted /\ (pc[Tick] # "idle" => stage \in {"reconcile", "start"})
  BY DEF AloneInv, IInv, StageKnown
<1> USE DEF Starting, actorVars, tickVars, helperVars
\* The tick goes on, elsewhere than where the limit counts.
<1>s. ASSUME live' \subseteq live, UNCHANGED <<inFlight, tickLimit, stage>>,
             pc[Tick] = "record" => pc'[Tick] = "record",
             pc'[Tick] \in Starting => stage = "start",
             pc'[Tick] \in {"guard", "preflight"} => inFlight < tickLimit
      PROVE  CopiesAreCounted'
  BY <1>s, <1>t, <1>k DEF CopiesAreCounted
<1>1. CASE RunJobGuard(Tick) \/ HelperRefuses(Tick) \/ FailFinish(Tick) \/ RecordFailure(Tick) \/ ScheduleRetry(Tick)
  <2>1. /\ UNCHANGED <<live, inFlight, tickLimit, stage>>
        /\ pc[Tick] \in {"guard", "preflight", "failFinish", "outcome", "retry"}
    BY <1>1 DEF RunJobGuard, HelperRefuses, FailFinish, RecordFailure, ScheduleRetry
  <2>2. \/ pc[Tick] = "guard" /\ pc'[Tick] = "preflight"
        \/ pc[Tick] = "preflight" /\ pc'[Tick] = "failStart"
        \/ pc'[Tick] \in {"outcome", "retry", stage}
    BY <1>1, <1>t DEF RunJobGuard, HelperRefuses, FailFinish, RecordFailure, ScheduleRetry, Goto, Leave, Return
  <2> QED
    BY <1>k, <1>s, <2>1, <2>2 DEF CopiesAreCounted
<1>2. CASE HelperStarts(Tick)
  <2>1. Cardinality(live') <= Cardinality(live) + 1
    BY <1>2, CardOfLive DEF HelperStarts, AloneInv, IInv
  <2>2. pc[Tick] = "preflight" /\ pc'[Tick] = "record" /\ UNCHANGED <<inFlight, tickLimit, stage>>
    BY <1>2, <1>t DEF HelperStarts, Goto
  <2> QED
    BY <1>k, <1>t, <2>1, <2>2 DEF CopiesAreCounted
<1>3. CASE RecordStart(Tick)
  <2>1. pc[Tick] = "record" /\ inFlight' = inFlight + 1 /\ UNCHANGED <<live, tickLimit, stage>>
    BY <1>3 DEF RecordStart
  <2>2. pc'[Tick] = stage
    BY <1>3, <1>t DEF RecordStart, Leave, Return
  <2> QED
    BY <1>k, <1>t, <2>1, <2>2 DEF CopiesAreCounted
<1>4. CASE FailStart(Tick)
  <2>1. pc[Tick] = "failStart" /\ pc'[Tick] = "failFinish" /\ UNCHANGED <<live, inFlight, tickLimit, stage>>
    BY <1>4, <1>t DEF FailStart, Goto
  <2> QED
    BY <1>k, <1>s, <2>1 DEF CopiesAreCounted
<1>5. CASE TickFires
  <2>1. pc'[Tick] = "reconcile" /\ stage' = "reconcile"
    BY <1>5, <1>t DEF TickFires, Goto
  <2> QED
    BY <2>1 DEF CopiesAreCounted
<1>6. CASE ReadDue
  <2>1. pc[Tick] = "reconcile" /\ pc'[Tick] = "start" /\ live' = live /\ stage' = "start"
        /\ inFlight' = Cardinality(RunningRuns)
    BY <1>6, <1>t DEF ReadDue, Goto
  <2>2. live \subseteq RunningRuns
    BY <2>1, ConstantsOK DEF AloneInv, IInv, TypeOK, CopiesAreTracked, OnlyTick, Actor, RunningRuns
  <2>3. Cardinality(live) <= Cardinality(RunningRuns)
    BY <2>2, ConstantsOK, FS_Subset DEF RunningRuns
  <2> QED
    BY <1>t, <2>1, <2>3 DEF CopiesAreCounted
<1>7. CASE TickDone
  <2>1. pc'[Tick] = "idle" /\ stage' = "none"
    BY <1>7, <1>t DEF TickDone, Goto
  <2> QED
    BY <2>1 DEF CopiesAreCounted
<1>8. CASE \E j \in Job : StartNext(j)
  <2>1. /\ pc[Tick] = "start" /\ pc'[Tick] = "guard" /\ inFlight < tickLimit
        /\ UNCHANGED <<live, inFlight, tickLimit, stage>>
    BY <1>8, <1>t DEF StartNext, Goto
  <2> QED
    BY <1>k, <1>s, <2>1 DEF CopiesAreCounted
<1>9. CASE CreditSuccess \/ ApplyRetention \/ \E a \in Attempt : HelperForgot(a) \/ SettleRun(a) \/ StillRunning(a)
  <2>1. /\ UNCHANGED <<live, inFlight, tickLimit, stage>> /\ pc[Tick] # "idle"
        /\ pc[Tick] \in {"credit", "retain", "reconcile"}
    BY <1>9 DEF CreditSuccess, ApplyRetention, HelperForgot, SettleRun, StillRunning
  <2>2. pc'[Tick] \in {"retain", "reconcile", "credit", "outcome", stage}
    BY <1>9, <1>t, <2>1 DEF CreditSuccess, ApplyRetention, HelperForgot, SettleRun, StillRunning,
                            AfterFinish, Goto, Leave, Return
  <2> QED
    BY <1>k, <1>s, <2>1, <2>2
<1>10. CASE \E a \in Attempt : CopyEnds(a)
  <2>1. live' \subseteq live /\ UNCHANGED <<pc, inFlight, tickLimit, stage>>
    BY <1>10 DEF CopyEnds
  <2> QED
    BY <1>k, <1>s, <2>1 DEF CopiesAreCounted
<1>11. CASE Restart \/ RestartWithoutHelperRows
  <2>1. pc'[Tick] = "idle" /\ stage' = "none"
    BY <1>11, <1>t DEF Restart, RestartWithoutHelperRows, Reboot
  <2> QED
    BY <2>1 DEF CopiesAreCounted
<1>12. CASE UNCHANGED <<live, jobOf, actorVars, tickVars>>
  BY <1>12, <1>k DEF CopiesAreCounted
<1> QED
  BY <1>1, <1>2, <1>3, <1>4, <1>5, <1>6, <1>7, <1>8, <1>9, <1>10, <1>11, <1>12, AloneSteps
     DEF AloneInv, Matters, RunJobStep, TickStep

-----------------------------------------------------------------------------
LEMMA AloneInvAlways == ASSUME Alone PROVE Spec => []AloneInv
<1>1. Init => AloneInv
  <2> SUFFICES ASSUME Init PROVE AloneInv
    OBVIOUS
  <2>1. IInv
    BY InitIInv
  <2>2. CopiesAreTracked /\ OnlyTick /\ SingleCopy /\ JobIsFree /\ CopiesAreCounted
    BY DEF Init, CopiesAreTracked, OnlyTick, SingleCopy, JobIsFree, CopiesAreCounted, Starting, Actor
  <2> QED
    BY <2>1, <2>2 DEF AloneInv
<1>2. AloneInv /\ [Next]_vars => AloneInv'
  <2> SUFFICES ASSUME AloneInv, [Next]_vars PROVE AloneInv'
    OBVIOUS
  <2>1. IInv' /\ TypeOK'
    BY NextIInv DEF AloneInv, IInv
  <2>2. CopiesAreTracked'
    BY NextCopiesAreTracked DEF Alone, AloneInv
  <2>3. OnlyTick'
    BY NextOnlyTick DEF AloneInv
  <2>4. SingleCopy' /\ JobIsFree'
    BY NextSingleCopy
  <2>5. CopiesAreCounted'
    BY <2>1, NextCopiesAreCounted
  <2> QED
    BY <2>1, <2>2, <2>3, <2>4, <2>5 DEF AloneInv
<1> QED
  BY <1>1, <1>2, PTL DEF Spec

\* Without clicks, a job is never copied twice at the same time: the check for
\* a running run and the start of the copy are apart, and still no other copy
\* of the job comes between.
THEOREM SingleCopyAlways == ASSUME Alone PROVE Spec => []SingleCopy
<1>1. AloneInv => SingleCopy
  BY DEF AloneInv
<1> QED
  BY <1>1, AloneInvAlways, PTL

\* Without clicks, the tick starts a copy only while fewer than the limit it
\* read are going, however long its batch takes and whatever ends meanwhile.
THEOREM StartsWithinLimitAlways == ASSUME Alone PROVE Spec => StartsWithinLimit
<1> DEFINE Within == pc[Tick] = "preflight" /\ live' # live /\ run'[Tick] \in live'
                        => Cardinality(live') <= tickLimit
<1>1. AloneInv /\ [Next]_vars => [Within]_vars
  <2> SUFFICES ASSUME AloneInv, [Next]_vars, pc[Tick] = "preflight", live' # live, run'[Tick] \in live'
               PROVE  Cardinality(live') <= tickLimit
    OBVIOUS
  <2>1. TypeOK /\ TypeOK' /\ Tick \in Actor
    BY NextIInv DEF AloneInv, IInv, Actor
  <2>2. tickLimit \in Nat /\ inFlight \in Nat /\ Cardinality(live) \in Nat /\ Cardinality(live') \in Nat
    BY <2>1, CardOfLive, ConstantsOK DEF TypeOK
  <2>3. run[Tick] \notin live
    BY <2>1, ConstantsOK DEF AloneInv, IInv, Holding, HoldsNothing, TypeOK
  <2>4. HelperStarts(Tick) \/ live' = live \/ live' = {} \/ (run' = run /\ live' \subseteq live)
    BY <2>1, AloneSteps
       DEF AloneInv, Matters, RunJobStep, TickStep, RunJobGuard, HelperRefuses, RecordStart, FailStart,
           FailFinish, RecordFailure, ScheduleRetry, TickFires, ReadDue, TickDone, CreditSuccess,
           ApplyRetention, StillRunning, HelperForgot, SettleRun, StartNext, CopyEnds, Restart,
           RestartWithoutHelperRows, Reboot, helperVars, actorVars
  <2>5. HelperStarts(Tick)
    BY <2>3, <2>4
  <2>6. Cardinality(live') <= Cardinality(live) + 1
    BY <2>1, <2>5, CardOfLive DEF HelperStarts
  <2>7. CopiesAreCounted /\ inFlight < tickLimit
    BY DEF AloneInv, CopiesAreCounted
  <2>8. Cardinality(live) <= inFlight
    BY <2>2, <2>7 DEF CopiesAreCounted, Starting
  <2> QED
    BY <2>2, <2>6, <2>7, <2>8
<1> QED
  BY <1>1, AloneInvAlways, PTL DEF Spec, StartsWithinLimit

-----------------------------------------------------------------------------
(***************************************************************************)
(* The cause of rows that are never settled: the two statements of failRun *)
(* come apart.                                                             *)
(***************************************************************************)

\* failRun is not cut between its two statements.
FailRunGoesOn(p) == pc[p] = "failFinish" => pc'[p] \in {"failFinish", "outcome"}
FailRunsAreWhole == [][\A p \in Actor : FailRunGoesOn(p)]_vars

\* The row is answerable, or about to be closed.
Answerable(a) ==
    row[a] = "running" => a \in linked \/ \E p \in Actor : pc[p] = "failFinish" /\ run[p] = a

\* No other step leaves a running row without a helper run.
LEMMA NextRowsAreAnswerable ==
  ASSUME IInv, RunningRowsAreAnswerable, [Next]_vars, \A p \in Actor : FailRunGoesOn(p)
  PROVE  RunningRowsAreAnswerable'
<1> SUFFICES ASSUME NEW a \in Attempt PROVE Answerable(a)'
  BY DEF RunningRowsAreAnswerable, RunningRuns, Answerable
<1>t. /\ Answerable(a)
      /\ row \in [Attempt -> RunState] /\ pc \in [Actor -> Step]
      /\ run \in [Actor -> Attempt \cup {NoAttempt}] /\ Tick \in Actor
  BY DEF RunningRowsAreAnswerable, RunningRuns, Answerable, IInv, TypeOK, Actor
\* Whoever is between the two statements stays there.
<1>k. ASSUME row'[a] = "running" => row[a] = "running" /\ (a \in linked => a \in linked'),
             \A p \in Actor : pc[p] = "failFinish" => pc'[p] = "failFinish" /\ run'[p] = run[p]
      PROVE  Answerable(a)'
  BY <1>k, <1>t DEF Answerable
<1> USE DEF jobVars, rowVars, helperVars, actorVars, tickVars
<1>1. ASSUME NEW p \in Actor, RunJobGuard(p) \/ HelperRefuses(p) \/ RecordFailure(p) \/ ScheduleRetry(p)
      PROVE  Answerable(a)'
  <2>1. pc[p] # "failFinish" /\ UNCHANGED <<row, linked>>
    BY <1>1 DEF RunJobGuard, HelperRefuses, RecordFailure, ScheduleRetry
  <2>2. \A q \in Actor : q # p => pc'[q] = pc[q] /\ run'[q] = run[q]
    BY <1>1, <1>t DEF RunJobGuard, HelperRefuses, RecordFailure, ScheduleRetry, Leave, Goto
  <2> QED
    BY <1>k, <2>1, <2>2
<1>2. ASSUME NEW p \in Actor, HelperStarts(p) PROVE Answerable(a)'
  <2>1. PICK b \in Attempt : /\ row' = [row EXCEPT ![b] = "none"]
                             /\ linked' = linked \ {b}
                             /\ run' = [run EXCEPT ![p] = b]
    BY <1>2 DEF HelperStarts
  <2>2. pc[p] = "preflight" /\ pc' = [pc EXCEPT ![p] = "record"]
    BY <1>2 DEF HelperStarts, Goto
  <2> QED
    BY <1>k, <1>t, <2>1, <2>2
<1>3. ASSUME NEW p \in Actor, RecordStart(p) PROVE Answerable(a)'
  <2>1. /\ row' = [row EXCEPT ![run[p]] = "running"] /\ linked' = linked \cup {run[p]}
        /\ pc[p] = "record"
    BY <1>3 DEF RecordStart
  <2>2. \A q \in Actor : q # p => pc'[q] = pc[q] /\ run'[q] = run[q]
    BY <1>3, <1>t DEF RecordStart, Leave
  <2>3. CASE a = run[p]
    BY <2>1, <2>3 DEF Answerable
  <2>4. CASE a # run[p]
    BY <1>k, <1>t, <2>1, <2>2, <2>4
  <2> QED
    BY <2>3, <2>4
<1>4. ASSUME NEW p \in Actor, FailStart(p) PROVE Answerable(a)'
  <2>1. PICK b \in Attempt : /\ row' = [row EXCEPT ![b] = "running"]
                             /\ linked' = linked \ {b} /\ run' = [run EXCEPT ![p] = b]
    BY <1>4 DEF FailStart
  <2>2. pc[p] = "failStart" /\ pc' = [pc EXCEPT ![p] = "failFinish"]
    BY <1>4 DEF FailStart, Goto
  <2>3. CASE a = b
    BY <1>t, <2>1, <2>2, <2>3 DEF Answerable
  <2>4. CASE a # b
    BY <1>k, <1>t, <2>1, <2>2, <2>4
  <2> QED
    BY <2>3, <2>4
<1>5. ASSUME NEW p \in Actor, FailFinish(p) PROVE Answerable(a)'
  <2>1. /\ pc[p] = "failFinish" /\ UNCHANGED <<linked, run>> /\ pc' = [pc EXCEPT ![p] = "outcome"]
        /\ row' = [row EXCEPT ![run[p]] = IF row[run[p]] = "none" THEN "none" ELSE "failed"]
    BY <1>5 DEF FailFinish, FinishRun, Goto
  <2>2. CASE a = run[p]
    BY <1>t, <2>1, <2>2 DEF Answerable
  <2>3. CASE a # run[p]
    BY <1>t, <2>1, <2>3 DEF Answerable
  <2> QED
    BY <2>2, <2>3
<1>6. ASSUME TickFires \/ ReadDue \/ TickDone \/ CreditSuccess \/ ApplyRetention
             \/ \E j \in Job : StartNext(j)
      PROVE  Answerable(a)'
  <2>1. pc[Tick] # "failFinish" /\ UNCHANGED <<row, linked>>
    BY <1>6 DEF TickFires, ReadDue, TickDone, CreditSuccess, ApplyRetention, StartNext
  <2>2. \A q \in Actor : q # Tick => pc'[q] = pc[q] /\ run'[q] = run[q]
    BY <1>6, <1>t DEF TickFires, ReadDue, TickDone, CreditSuccess, ApplyRetention, StartNext, Goto, Leave
  <2> QED
    BY <1>k, <1>t, <2>1, <2>2
<1>7. ASSUME NEW b \in Attempt, HelperForgot(b) \/ SettleRun(b) PROVE Answerable(a)'
  <2>1. pc[Tick] = "reconcile" /\ UNCHANGED linked
    BY <1>7 DEF HelperForgot, SettleRun
  <2>2. row'[a] = "running" => row[a] = "running"
    BY <1>7, <1>t DEF HelperForgot, SettleRun, FinishRun, Ended
  <2>3. \A q \in Actor : q # Tick => pc'[q] = pc[q] /\ run'[q] = run[q]
    BY <1>7, <1>t DEF HelperForgot, SettleRun, Goto
  <2> QED
    BY <1>k, <1>t, <2>1, <2>2, <2>3
<1>8. ASSUME \/ \E b \in Attempt : StillRunning(b) \/ CopyEnds(b) \/ CancelRun(b) \/ CopyUnrecorded(b)
             \/ \E j \in Job : FallDue(j) \/ \E on \in BOOLEAN : SaveJob(j, on)
             \/ \E on \in BOOLEAN : SetAllEnabled(on)
             \/ \E n \in Limits : SetConcurrency(n)
             \/ UNCHANGED vars
      PROVE  Answerable(a)'
  BY <1>8, <1>t DEF Answerable, StillRunning, CopyEnds, CancelRun, CopyUnrecorded, FallDue, SaveJob,
                    SetAllEnabled, SetConcurrency, vars
<1>9. ASSUME NEW p \in Actor, NEW j \in Job, RunNow(p, j) PROVE Answerable(a)'
  <2>1. pc[p] # "failFinish" /\ UNCHANGED <<row, linked, run>>
    BY <1>9 DEF RunNow
  <2>2. \A q \in Actor : q # p => pc'[q] = pc[q]
    BY <1>9, <1>t DEF RunNow, Goto
  <2> QED
    BY <1>k, <1>t, <2>1, <2>2
<1>10. ASSUME ReEnable \/ \E j \in Job : DeleteJob(j) PROVE Answerable(a)'
  <2>1. UNCHANGED <<pc, run>>
    BY <1>10 DEF ReEnable, DeleteJob
  <2>2. row'[a] = "running" => row[a] = "running" /\ (a \in linked => a \in linked')
    BY <1>10, <1>t DEF ReEnable, DeleteJob
  <2> QED
    BY <1>k, <2>1, <2>2
<1>11. ASSUME NEW p \in Actor, Throw(p) PROVE Answerable(a)'
  <2>1. pc'[p] = "idle" /\ UNCHANGED <<row, linked>>
    BY <1>11, <1>t DEF Throw
  <2>2. pc[p] # "failFinish"
    BY <2>1 DEF FailRunGoesOn
  <2>3. \A q \in Actor : q # p => pc'[q] = pc[q] /\ run'[q] = run[q]
    BY <1>11, <1>t DEF Throw
  <2> QED
    BY <1>k, <1>t, <2>1, <2>2, <2>3
<1>12. ASSUME Restart \/ RestartWithoutHelperRows PROVE Answerable(a)'
  <2>1. (\A p \in Actor : pc'[p] = "idle") /\ UNCHANGED <<row, linked>>
    BY <1>12 DEF Restart, RestartWithoutHelperRows, Reboot
  <2>2. \A p \in Actor : pc[p] # "failFinish"
    BY <2>1 DEF FailRunGoesOn
  <2> QED
    BY <1>k, <1>t, <2>1, <2>2
<1> QED
  BY <1>1, <1>2, <1>3, <1>4, <1>5, <1>6, <1>7, <1>8, <1>9, <1>10, <1>11, <1>12
     DEF Next, RunJobStep, TickStep, Outside

(***************************************************************************)
(* Finding 2 has one cause. As long as nothing stops an actor between the  *)
(* two statements of failRun (module.ts:213-214), a row that says running  *)
(* names a helper run that reconciliation can ask for, whatever is         *)
(* deleted, re-enabled or restarted elsewhere.                             *)
(***************************************************************************)
THEOREM RowsAreAnswerableWhenWhole == Spec /\ FailRunsAreWhole => []RunningRowsAreAnswerable
<1>1. Init => IInv /\ RunningRowsAreAnswerable
  BY InitIInv DEF Init, RunningRowsAreAnswerable, RunningRuns
<1>2. ASSUME IInv, RunningRowsAreAnswerable, [Next]_vars, [\A p \in Actor : FailRunGoesOn(p)]_vars
      PROVE  IInv' /\ RunningRowsAreAnswerable'
  <2>1. UNCHANGED vars => \A p \in Actor : FailRunGoesOn(p)
    BY DEF vars, actorVars, FailRunGoesOn
  <2> QED
    BY <1>2, <2>1, NextIInv, NextRowsAreAnswerable
<1> QED
  BY <1>1, <1>2, PTL DEF Spec, FailRunsAreWhole

-----------------------------------------------------------------------------
(***************************************************************************)
(* The cause of stacked copies: two actors on the way to the same job's    *)
(* row.                                                                    *)
(***************************************************************************)

\* No two actors are past the check for a running run of the same job.
OnTheWay == {"preflight", "record"}
StartsApart ==
    \A p, q \in Actor : pc[p] \in OnTheWay /\ pc[q] \in OnTheWay /\ job[p] = job[q] => p = q

\* The attempt an actor is about to record is one of its job.
HeldForJob == \A p \in Actor : pc[p] = "record" => jobOf[run[p]] = job[p]

\* Past the check, the job has no copy.
FreeWhenChecked ==
    \A p \in Actor : pc[p] = "preflight" => \A a \in live : jobOf[a] # job[p]

ApartInv == IInv /\ CopiesAreTracked /\ HeldForJob /\ FreeWhenChecked /\ SingleCopy

\* An attempt is chosen for the actor's own job, and by one actor only.
LEMMA NextHeldForJob ==
  ASSUME Orderly, IInv, HeldForJob, [Next]_vars
  PROVE  HeldForJob'
<1> SUFFICES ASSUME NEW p \in Actor, pc'[p] = "record" PROVE jobOf'[run'[p]] = job'[p]
  BY DEF HeldForJob
<1>t. /\ pc \in [Actor -> Step] /\ jobOf \in [Attempt -> Job \cup {NoJob}]
      /\ run \in [Actor -> Attempt \cup {NoAttempt}] /\ job \in [Actor -> Job \cup {NoJob}]
      /\ Tick \in Actor
      /\ pc[p] = "record" => jobOf[run[p]] = job[p] /\ run[p] \in Attempt
  BY DEF IInv, TypeOK, Actor, HeldForJob, Holding, HoldsNothing
<1>s. stage \in {"none", "reconcile", "start"}
  BY DEF IInv, TypeOK
<1> USE DEF jobVars, rowVars, helperVars, actorVars, tickVars
<1>1. ASSUME NEW q \in Actor, HelperStarts(q) PROVE jobOf'[run'[p]] = job'[p]
  <2>1. PICK b \in Attempt : /\ Fresh(b)
                             /\ jobOf' = [jobOf EXCEPT ![b] = job[q]]
                             /\ run' = [run EXCEPT ![q] = b]
    BY <1>1 DEF HelperStarts
  <2>2. job' = job /\ pc' = [pc EXCEPT ![q] = "record"]
    BY <1>1 DEF HelperStarts, Goto
  <2>3. CASE p = q
    BY <1>t, <2>1, <2>2, <2>3
  <2>4. CASE p # q
    <3>1. run[p] # b
      BY <2>1 DEF Fresh
    <3> QED
      BY <1>t, <2>1, <2>2, <2>4, <3>1
  <2> QED
    BY <2>3, <2>4
<1>2. ASSUME NEW q \in Actor, FailStart(q) PROVE jobOf'[run'[p]] = job'[p]
  <2>1. PICK b \in Attempt : /\ Fresh(b)
                             /\ jobOf' = [jobOf EXCEPT ![b] = job[q]]
                             /\ run' = [run EXCEPT ![q] = b]
    BY <1>2 DEF FailStart
  <2>2. job' = job /\ pc' = [pc EXCEPT ![q] = "failFinish"]
    BY <1>2 DEF FailStart, Goto
  <2>3. p # q /\ run[p] # b
    BY <1>t, <2>1, <2>2 DEF Fresh
  <2> QED
    BY <1>t, <2>1, <2>2, <2>3
<1>3. ASSUME NEW q \in Actor, RunJobGuard(q) \/ HelperRefuses(q) \/ RecordStart(q) \/ FailFinish(q)
                              \/ RecordFailure(q) \/ ScheduleRetry(q)
      PROVE  jobOf'[run'[p]] = job'[p]
  <2>1. jobOf' = jobOf /\ pc'[q] # "record"
    BY <1>3, <1>t, <1>s DEF RunJobGuard, HelperRefuses, RecordStart, FailFinish, RecordFailure,
       ScheduleRetry, Goto, Leave, Return
  <2>2. p # q /\ pc'[p] = pc[p] /\ run'[p] = run[p] /\ job'[p] = job[p]
    BY <1>3, <1>t, <2>1 DEF RunJobGuard, HelperRefuses, RecordStart, FailFinish, RecordFailure,
       ScheduleRetry, Goto, Leave
  <2> QED
    BY <1>t, <2>1, <2>2
<1>4. ASSUME TickStep PROVE jobOf'[run'[p]] = job'[p]
  <2>1. jobOf' = jobOf /\ pc[Tick] # "record"
    BY <1>4 DEF TickStep, TickFires, ReadDue, TickDone, CreditSuccess, ApplyRetention,
                StillRunning, HelperForgot, SettleRun, StartNext
  <2>2. pc'[Tick] # "record"
    BY <1>4, <1>t, <1>s, <2>1
       DEF TickStep, TickFires, ReadDue, TickDone, CreditSuccess, ApplyRetention,
           StillRunning, HelperForgot, SettleRun, StartNext, AfterFinish, Goto, Leave, Return
  <2>3. p # Tick /\ pc'[p] = pc[p] /\ run'[p] = run[p] /\ job'[p] = job[p]
    BY <1>4, <1>t, <2>2
       DEF TickStep, TickFires, ReadDue, TickDone, CreditSuccess, ApplyRetention,
           StillRunning, HelperForgot, SettleRun, StartNext, Goto, Leave
  <2> QED
    BY <1>t, <2>1, <2>3
<1>5. ASSUME NEW q \in Actor, NEW j \in Job, RunNow(q, j) PROVE jobOf'[run'[p]] = job'[p]
  <2>1. p # q /\ pc'[p] = pc[p] /\ run' = run /\ job'[p] = job[p] /\ jobOf' = jobOf
    BY <1>5, <1>t DEF RunNow, Goto
  <2> QED
    BY <1>t, <2>1
<1>6. ASSUME \/ \E b \in Attempt : CopyEnds(b) \/ CancelRun(b)
             \/ \E j \in Job : FallDue(j) \/ \E on \in BOOLEAN : SaveJob(j, on)
             \/ \E on \in BOOLEAN : SetAllEnabled(on)
             \/ \E n \in Limits : SetConcurrency(n)
             \/ UNCHANGED vars
      PROVE  jobOf'[run'[p]] = job'[p]
  BY <1>6, <1>t DEF CopyEnds, CancelRun, FallDue, SaveJob, SetAllEnabled, SetConcurrency, vars
<1>7. ~(Restart \/ RestartWithoutHelperRows)
  BY DEF Restart, RestartWithoutHelperRows, Reboot
<1>8. /\ \A b \in Attempt : ~CopyUnrecorded(b)
      /\ \A j \in Job : ~DeleteJob(j)
      /\ \A q \in Actor : ~Throw(q)
      /\ ~ReEnable
  BY DEF Orderly, CopyUnrecorded, DeleteJob, Throw, ReEnable
<1> QED
  BY <1>1, <1>2, <1>3, <1>4, <1>5, <1>6, <1>7, <1>8 DEF Next, RunJobStep, Outside

\* A job that is checked while nobody else is on the way has no copy, for a copy would have a running row.
LEMMA NextApart ==
  ASSUME Orderly, ApartInv, StartsApart, StartsApart', [Next]_vars
  PROVE  FreeWhenChecked' /\ SingleCopy'
<1>t. /\ pc \in [Actor -> Step] /\ jobOf \in [Attempt -> Job \cup {NoJob}] /\ live \subseteq Attempt
      /\ run \in [Actor -> Attempt \cup {NoAttempt}] /\ job \in [Actor -> Job \cup {NoJob}]
      /\ Tick \in Actor
  BY DEF ApartInv, IInv, TypeOK, Actor
<1>s. stage \in {"none", "reconcile", "start"}
  BY DEF ApartInv, IInv, TypeOK
\* Copies end, and nobody gets past the check.
<1>k. ASSUME live' \subseteq live, \A a \in live : jobOf'[a] = jobOf[a],
             \A p \in Actor : pc'[p] = "preflight" => pc[p] = "preflight" /\ job'[p] = job[p]
      PROVE  FreeWhenChecked' /\ SingleCopy'
  BY <1>k DEF ApartInv, FreeWhenChecked, SingleCopy
<1> USE DEF jobVars, rowVars, helperVars, actorVars, tickVars
<1>1. ASSUME NEW p \in Actor, RunJobGuard(p) PROVE FreeWhenChecked' /\ SingleCopy'
  <2>1. pc[p] = "guard" /\ UNCHANGED <<live, jobOf>>
    BY <1>1 DEF RunJobGuard
  <2>2. CASE Running(job[p]) = {} /\ pc' = [pc EXCEPT ![p] = "preflight"] /\ UNCHANGED <<job, run>>
    <3>1. ASSUME NEW a \in live PROVE jobOf[a] # job[p]
      <4>1. a \in Attempt /\ (row[a] = "running" => jobOf[a] # job[p])
        BY <1>t, <2>2 DEF Running
      <4>2. ASSUME NEW q \in Actor, pc[q] = "record", run[q] = a PROVE jobOf[a] # job[p]
        <5>1. jobOf[a] = job[q] /\ p # q
          BY <2>1, <4>2 DEF ApartInv, HeldForJob
        <5>2. pc'[q] = "record" /\ pc'[p] = "preflight" /\ job' = job
          BY <1>t, <2>2, <4>2, <5>1
        <5>3. job'[p] # job'[q]
          BY <5>1, <5>2 DEF StartsApart, OnTheWay
        <5> QED
          BY <5>1, <5>2, <5>3
      <4> QED
        BY <4>1, <4>2 DEF ApartInv, CopiesAreTracked
    <3>2. \A q \in Actor : q # p => pc'[q] = pc[q]
      BY <1>t, <2>2
    <3>3. FreeWhenChecked'
      BY <2>1, <2>2, <3>1, <3>2 DEF ApartInv, FreeWhenChecked
    <3> QED
      BY <2>1, <3>3 DEF ApartInv, SingleCopy
  <2>3. CASE Leave(p)
    <3>1. pc'[p] # "preflight" /\ \A q \in Actor : q # p => pc'[q] = pc[q] /\ job'[q] = job[q]
      BY <1>t, <1>s, <2>3 DEF Leave, Return
    <3> QED
      BY <1>k, <2>1, <3>1
  <2> QED
    BY <1>1, <2>2, <2>3 DEF RunJobGuard, Goto
<1>2. ASSUME NEW p \in Actor, HelperStarts(p) PROVE FreeWhenChecked' /\ SingleCopy'
  <2>1. PICK b \in Attempt : /\ live' = live \cup {b} /\ b \notin live
                             /\ jobOf' = [jobOf EXCEPT ![b] = job[p]]
    BY <1>2 DEF HelperStarts, Fresh
  <2>2. pc[p] = "preflight" /\ pc' = [pc EXCEPT ![p] = "record"] /\ job' = job
    BY <1>2 DEF HelperStarts, Goto
  <2>3. \A a \in live : jobOf'[a] = jobOf[a] /\ jobOf'[a] # job[p]
    BY <1>t, <2>1, <2>2 DEF ApartInv, FreeWhenChecked
  <2>4. jobOf'[b] = job[p]
    BY <1>t, <2>1
  <2>5. \A q \in Actor : pc'[q] = "preflight" => pc[q] = "preflight" /\ job[q] # job[p]
    BY <1>t, <2>2 DEF StartsApart, OnTheWay
  <2>6. FreeWhenChecked'
    BY <2>1, <2>2, <2>3, <2>4, <2>5 DEF ApartInv, FreeWhenChecked
  <2>7. SingleCopy'
    BY <2>1, <2>3, <2>4 DEF ApartInv, SingleCopy
  <2> QED
    BY <2>6, <2>7
<1>3. ASSUME NEW p \in Actor, FailStart(p) PROVE FreeWhenChecked' /\ SingleCopy'
  <2>1. PICK b \in Attempt : b \notin live /\ jobOf' = [jobOf EXCEPT ![b] = job[p]]
    BY <1>3 DEF FailStart, Fresh
  <2>2. live' = live /\ job' = job /\ pc' = [pc EXCEPT ![p] = "failFinish"]
    BY <1>3 DEF FailStart, Goto
  <2> QED
    BY <1>k, <1>t, <2>1, <2>2
<1>4. ASSUME NEW p \in Actor, HelperRefuses(p) \/ RecordStart(p) \/ FailFinish(p)
                              \/ RecordFailure(p) \/ ScheduleRetry(p)
      PROVE  FreeWhenChecked' /\ SingleCopy'
  <2>1. UNCHANGED <<live, jobOf>> /\ pc'[p] # "preflight"
    BY <1>4, <1>t, <1>s DEF HelperRefuses, RecordStart, FailFinish, RecordFailure, ScheduleRetry,
       Goto, Leave, Return
  <2>2. \A q \in Actor : q # p => pc'[q] = pc[q] /\ job'[q] = job[q]
    BY <1>4, <1>t DEF HelperRefuses, RecordStart, FailFinish, RecordFailure, ScheduleRetry, Goto, Leave
  <2> QED
    BY <1>k, <2>1, <2>2
<1>5. ASSUME TickStep PROVE FreeWhenChecked' /\ SingleCopy'
  <2>1. UNCHANGED <<live, jobOf>>
    BY <1>5 DEF TickStep, TickFires, ReadDue, TickDone, CreditSuccess, ApplyRetention,
                StillRunning, HelperForgot, SettleRun, StartNext
  <2>2. pc'[Tick] # "preflight"
    BY <1>5, <1>t, <1>s
       DEF TickStep, TickFires, ReadDue, TickDone, CreditSuccess, ApplyRetention,
           StillRunning, HelperForgot, SettleRun, StartNext, AfterFinish, Goto, Leave, Return
  <2>3. \A q \in Actor : q # Tick => pc'[q] = pc[q] /\ job'[q] = job[q]
    BY <1>5, <1>t
       DEF TickStep, TickFires, ReadDue, TickDone, CreditSuccess, ApplyRetention,
           StillRunning, HelperForgot, SettleRun, StartNext, Goto, Leave
  <2> QED
    BY <1>k, <2>1, <2>2, <2>3
<1>6. ASSUME NEW q \in Actor, NEW j \in Job, RunNow(q, j) PROVE FreeWhenChecked' /\ SingleCopy'
  <2>1. UNCHANGED <<live, jobOf>> /\ pc'[q] # "preflight"
    BY <1>6, <1>t DEF RunNow, Goto
  <2>2. \A p \in Actor : p # q => pc'[p] = pc[p] /\ job'[p] = job[p]
    BY <1>6, <1>t DEF RunNow, Goto
  <2> QED
    BY <1>k, <2>1, <2>2
<1>7. ASSUME \/ \E b \in Attempt : CopyEnds(b) \/ CancelRun(b)
             \/ \E j \in Job : FallDue(j) \/ \E on \in BOOLEAN : SaveJob(j, on)
             \/ \E on \in BOOLEAN : SetAllEnabled(on)
             \/ \E n \in Limits : SetConcurrency(n)
             \/ UNCHANGED vars
      PROVE  FreeWhenChecked' /\ SingleCopy'
  <2>1. live' \subseteq live /\ UNCHANGED <<jobOf, pc, job>>
    BY <1>7 DEF CopyEnds, CancelRun, FallDue, SaveJob, SetAllEnabled, SetConcurrency, vars
  <2> QED
    BY <1>k, <2>1
<1>8. ASSUME Restart \/ RestartWithoutHelperRows PROVE FreeWhenChecked' /\ SingleCopy'
  BY <1>8 DEF Restart, RestartWithoutHelperRows, Reboot, FreeWhenChecked, SingleCopy
<1>9. /\ \A b \in Attempt : ~CopyUnrecorded(b)
      /\ \A j \in Job : ~DeleteJob(j)
      /\ \A q \in Actor : ~Throw(q)
      /\ ~ReEnable
  BY DEF Orderly, CopyUnrecorded, DeleteJob, Throw, ReEnable
<1> QED
  BY <1>1, <1>2, <1>3, <1>4, <1>5, <1>6, <1>7, <1>8, <1>9 DEF Next, RunJobStep, Outside

(***************************************************************************)
(* Finding 1 has one cause. Clicks allowed, a job has one copy at most as  *)
(* long as no two actors are at once between runJob's check for a running  *)
(* run and the row it inserts (module.ts:159-198) for the same job.        *)
(***************************************************************************)
THEOREM SingleCopyWhenApart ==
  ASSUME Orderly
  PROVE  Spec /\ []StartsApart => []SingleCopy
<1>1. Init => ApartInv
  BY InitIInv DEF Init, ApartInv, CopiesAreTracked, HeldForJob, FreeWhenChecked, SingleCopy
<1>2. ApartInv /\ StartsApart /\ StartsApart' /\ [Next]_vars => ApartInv'
  BY NextIInv, NextCopiesAreTracked, NextHeldForJob, NextApart DEF ApartInv
<1>3. ApartInv => SingleCopy
  BY DEF ApartInv
<1> QED
  BY <1>1, <1>2, <1>3, PTL DEF Spec
==============================================================================
