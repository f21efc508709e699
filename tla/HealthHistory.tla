--------------------------- MODULE HealthHistory ----------------------------
(***************************************************************************)
(* What the health monitor remembers (lib/store.ts): a row for each check, *)
(* folded into one summary an hour when it is old, and the figures read    *)
(* from both.  Recording, folding and deleting a monitor are several       *)
(* statements each, and no transaction holds them together.                *)
(* A tick is a part of an hour.                                            *)
(***************************************************************************)
EXTENDS Naturals, FiniteSets

CONSTANTS
    Watched,      \* monitor ids
    HourTicks,    \* ticks in an hour
    FoldAfter,    \* rollupAfterDays, in ticks
    KeepFor,      \* retentionDays, in ticks
    LastTick      \* bound: the clock stops here

ASSUME HistoryConstantsOK ==
    /\ {HourTicks, FoldAfter, KeepFor} \subseteq Nat \ {0}
    /\ LastTick \in Nat

VARIABLES
    tick,        \* the clock
    known,       \* monitors table
    results,     \* results table
    rollups,     \* rollups table
    checking,    \* the check each monitor has in flight
    fold,        \* the maintenance pass
    removal,     \* the deletion under way
    \* history
    happened,    \* every check recorded for the monitors there are
    kept,        \* summaries before this were dropped
    split,       \* hours a fold cut in two
    halfway,     \* a fold was cut short, and none has ended since
    mixed        \* monitors deleted beside a check or a fold

historyVars == <<tick, known, results, rollups, checking, fold, removal,
                 happened, kept, split, halfway, mixed>>

Ticks == 0..LastTick
Hour(t) == t \div HourTicks
Hours == {Hour(t) : t \in Ticks}
Result == [of : Watched, ts : Ticks, failed : BOOLEAN]
Summary == [of : Watched, hour : Hours, checks : 0..HourTicks, failures : 0..HourTicks]
Quiet == [at |-> "idle"]
Ago(n) == IF tick > n THEN tick - n ELSE 0

HistoryTypeOK ==
    /\ tick \in Ticks
    /\ known \subseteq Watched
    /\ results \subseteq Result
    /\ rollups \subseteq Summary
    /\ \A r, s \in rollups : r.of = s.of /\ r.hour = s.hour => r = s
    /\ checking \in [Watched -> {Quiet} \cup [at : {"run"}, ts : Ticks]]
    /\ \/ fold = Quiet
       \/ fold.at \in {"upsert", "drop"} /\ fold.cutoff \in Ticks /\ fold.todo \subseteq Summary
    /\ removal \in {Quiet} \cup [at : {"rollups", "monitor"}, of : Watched]
    /\ happened \subseteq Result
    /\ kept \in Ticks
    /\ split \subseteq Hours
    /\ halfway \in BOOLEAN
    /\ mixed \subseteq Watched

HistoryInit ==
    /\ tick = 0
    /\ known = Watched
    /\ results = {} /\ rollups = {} /\ happened = {} /\ split = {} /\ mixed = {}
    /\ checking = [m \in Watched |-> Quiet]
    /\ fold = Quiet /\ removal = Quiet
    /\ kept = 0
    /\ halfway = FALSE

\* The rows of a table for one monitor and hour
In(rows, m, h) == {r \in rows : r.of = m /\ Hour(r.ts) = h}
Failed(rows) == {r \in rows : r.failed}
SummaryFrom(rows, m, h) ==
    [of |-> m, hour |-> h, checks |-> Cardinality(In(rows, m, h)), failures |-> Cardinality(Failed(In(rows, m, h)))]
SummaryOf(m, h) == {s \in rollups : s.of = m /\ s.hour = h}

\* Nothing is being folded or deleted, and no fold was left halfway
AtRest == fold = Quiet /\ removal = Quiet /\ ~halfway

\* Hours whose summaries have not been dropped
KeptHours == {h \in Hours : h * HourTicks >= kept}

-----------------------------------------------------------------------------
(* Checks. *)

BeginCheck(m) ==
    /\ m \in known
    /\ checking[m] = Quiet
    /\ \A r \in results \cup happened : r.of = m => r.ts < tick    \* bound
    /\ checking' = [checking EXCEPT ![m] = [at |-> "run", ts |-> tick]]
    /\ UNCHANGED <<tick, known, results, rollups, fold, removal, happened, kept, split, halfway, mixed>>

\* The row carries the moment the check began, and nobody asks whether its
\* monitor is still there.
RecordResult(m, failed) ==
    /\ checking[m].at = "run"
    /\ results' = results \cup {[of |-> m, ts |-> checking[m].ts, failed |-> failed]}
    /\ happened' = happened \cup (results' \ results)
    /\ checking' = [checking EXCEPT ![m] = Quiet]
    /\ mixed' = IF removal = Quiet THEN mixed ELSE mixed \cup ({m} \cap {removal.of})
    /\ UNCHANGED <<tick, known, rollups, fold, removal, kept, split, halfway>>

\* Bound: a check does not outlast a tick; its time limit is minutes, and the
\* shortest FoldAfter a day.
PassTime ==
    /\ tick < LastTick
    /\ \A m \in Watched : checking[m].at = "run" => checking[m].ts = tick
    /\ tick' = tick + 1
    /\ UNCHANGED <<known, results, rollups, checking, fold, removal, happened, kept, split, halfway, mixed>>

-----------------------------------------------------------------------------
(* The maintenance pass. *)

\* One bucket for each monitor and hour with rows before the cutoff
Buckets(cutoff) ==
    LET rows == {r \in results : r.ts < cutoff}
    IN  {SummaryFrom(rows, r.of, Hour(r.ts)) : r \in rows}

BeginFold ==
    /\ fold = Quiet
    /\ fold' = [at |-> "upsert", cutoff |-> Ago(FoldAfter), todo |-> Buckets(Ago(FoldAfter))]
    /\ split' = split \cup {h \in Hours : Ago(FoldAfter) \in (h * HourTicks + 1)..((h + 1) * HourTicks - 1)}
    /\ mixed' = mixed \cup (IF removal = Quiet THEN {} ELSE {removal.of})
    /\ UNCHANGED <<tick, known, results, rollups, checking, removal, happened, kept, halfway>>

\* Mutant: the counts are added to the summary there is.
ReplacementAdded(b) ==
    {[b EXCEPT !.checks = IF @ + s.checks > HourTicks THEN HourTicks ELSE @ + s.checks,
               !.failures = IF @ + s.failures > HourTicks THEN HourTicks ELSE @ + s.failures] :
        s \in SummaryOf(b.of, b.hour)}
    \cup (IF SummaryOf(b.of, b.hour) = {} THEN {b} ELSE {})

\* ON CONFLICT: the new counts take the place of the summary there is.
Replacement(b) == {b}

FoldBucket(b) ==
    /\ fold.at = "upsert"
    /\ b \in fold.todo
    /\ rollups' = (rollups \ SummaryOf(b.of, b.hour)) \cup Replacement(b)
    /\ fold' = [fold EXCEPT !.todo = @ \ {b}]
    /\ UNCHANGED <<tick, known, results, checking, removal, happened, kept, split, halfway, mixed>>

DeleteFolded ==
    /\ fold.at = "upsert"
    /\ fold.todo = {}
    /\ results' = {r \in results : r.ts >= fold.cutoff}
    /\ fold' = [fold EXCEPT !.at = "drop"]
    /\ UNCHANGED <<tick, known, rollups, checking, removal, happened, kept, split, halfway, mixed>>

DropOld ==
    /\ fold.at = "drop"
    /\ rollups' = {s \in rollups : s.hour * HourTicks >= Ago(KeepFor)}
    /\ kept' = Ago(KeepFor)
    /\ fold' = Quiet
    /\ halfway' = FALSE
    /\ UNCHANGED <<tick, known, results, checking, removal, happened, split, mixed>>

-----------------------------------------------------------------------------
(* Deleting and adding. *)

DeleteResults(m) ==
    /\ removal = Quiet
    /\ m \in known
    /\ results' = {r \in results : r.of # m}
    /\ removal' = [at |-> "rollups", of |-> m]
    /\ mixed' = IF checking[m] # Quiet \/ fold # Quiet THEN mixed \cup {m} ELSE mixed
    /\ UNCHANGED <<tick, known, rollups, checking, fold, happened, kept, split, halfway>>

DeleteRollups ==
    /\ removal.at = "rollups"
    /\ rollups' = {s \in rollups : s.of # removal.of}
    /\ removal' = [removal EXCEPT !.at = "monitor"]
    /\ mixed' = IF checking[removal.of] # Quiet \/ fold # Quiet THEN mixed \cup {removal.of} ELSE mixed
    /\ UNCHANGED <<tick, known, results, checking, fold, happened, kept, split, halfway>>

DeleteMonitorRow ==
    /\ removal.at = "monitor"
    /\ known' = known \ {removal.of}
    /\ happened' = {r \in happened : r.of # removal.of}
    /\ mixed' = IF checking[removal.of] # Quiet THEN mixed \cup {removal.of} ELSE mixed
    /\ removal' = Quiet
    /\ UNCHANGED <<tick, results, rollups, checking, fold, kept, split, halfway>>

\* An id is made from a name, so a monitor named like a deleted one gets its id.
AddMonitor(m) ==
    /\ m \notin known
    /\ known' = known \cup {m}
    /\ UNCHANGED <<tick, results, rollups, checking, fold, removal, happened, kept, split, halfway, mixed>>

\* The server stops; whatever was under way stays as far as it got.
StopServer ==
    /\ fold # Quiet \/ removal # Quiet \/ \E m \in Watched : checking[m] # Quiet
    /\ fold' = Quiet /\ removal' = Quiet
    /\ checking' = [m \in Watched |-> Quiet]
    /\ halfway' = (halfway \/ fold # Quiet)
    /\ mixed' = IF removal = Quiet THEN mixed ELSE mixed \cup {removal.of}
    /\ UNCHANGED <<tick, known, results, rollups, happened, kept, split>>

HistoryNext ==
    \/ PassTime
    \/ \E m \in Watched : BeginCheck(m) \/ DeleteResults(m) \/ AddMonitor(m)
    \/ \E m \in Watched, failed \in BOOLEAN : RecordResult(m, failed)
    \/ BeginFold
    \/ \E b \in Summary : FoldBucket(b)
    \/ DeleteFolded \/ DropOld
    \/ DeleteRollups \/ DeleteMonitorRow
    \/ StopServer

HistorySpec == HistoryInit /\ [][HistoryNext]_historyVars

-----------------------------------------------------------------------------
\* uptimeSince and hourlyBuckets: the rows of an hour and its summary
Counted(m, h) == [
    checks |-> Cardinality(In(results, m, h)) + Cardinality(UNION {{s} \X (1..s.checks) : s \in SummaryOf(m, h)}),
    failures |-> Cardinality(Failed(In(results, m, h))) + Cardinality(UNION {{s} \X (1..s.failures) : s \in SummaryOf(m, h)})]

Truth(m, h) == [checks |-> Cardinality(In(happened, m, h)),
                failures |-> Cardinality(Failed(In(happened, m, h)))]

(***************************************************************************)
(* Every check is counted once, as a row or in a summary, and so is every  *)
(* failure: also when a fold was cut short and done again, when a check    *)
(* came in beside a fold, and when a deleted monitor's id is used again.   *)
(* It is said of hours no fold cut in two, and of monitors that were not   *)
(* deleted beside a check or a fold.                                       *)
(***************************************************************************)
WholeHoursAreKept ==
    AtRest => \A m \in known \ mixed, h \in KeptHours \ split : Counted(m, h) = Truth(m, h)

(***************************************************************************)
(* The same for every hour, as the comment on uptimeWindow says: the       *)
(* figures stay correct after a rollup.  The code breaks it in every hour  *)
(* that a fold cuts in two, where the second part's summary takes the      *)
(* place of the first's.                                                   *)
(***************************************************************************)
UptimeCountsOnce ==
    AtRest => \A m \in known \ mixed, h \in KeptHours : Counted(m, h) = Truth(m, h)
=============================================================================
