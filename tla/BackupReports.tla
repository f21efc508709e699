--------------------------- MODULE BackupReports ----------------------------
(***************************************************************************)
(* What the backup manager's pages say of the rows of its tables: the tile *)
(* (ui/widget.tsx), the page (page.tsx), a job's own page (ui/job-detail,  *)
(* ui/activity) and the weekly summary (digest of lib/notify.ts).  Pure    *)
(* functions of a table of jobs and of the runs, newest first.             *)
(***************************************************************************)
EXTENDS Naturals, FiniteSets, SequencesExt

\* A run: its job, how it stands, files that failed, and bytes copied.
\* state: "running", "done", "failed", "cancelled" or "interrupted"
IsOf(j, runs) == SelectSeq(runs, LAMBDA r : r.of = j)
NewestOf(j, runs) == IsOf(j, runs)[1]
HasRun(j, runs) == IsOf(j, runs) # <<>>
RunningNow(runs) == SelectSeq(runs, LAMBDA r : r.state = "running")
FirstOf(s, n) == SubSeq(s, 1, IF n < Len(s) THEN n ELSE Len(s))

\* Ended, and not done: what the job's page and the summary count as failures
CountsAsFailure(r) == r.state \notin {"done", "running"}

-----------------------------------------------------------------------------
(* One run in a word or a colour. *)

\* The page
DescribeState(r) ==
    CASE r.state = "running" -> "plain"
      [] r.state = "done" -> IF r.errors > 0 THEN "warning" ELSE "plain"
      [] r.state = "cancelled" -> "muted"
      [] OTHER -> "danger"

\* A job's own page, its table and its bars
StateTone(r) ==
    CASE r.state = "running" -> "running"
      [] r.state = "done" -> IF r.errors > 0 THEN "warn" ELSE "ok"
      [] r.state = "cancelled" -> "idle"
      [] OTHER -> "bad"

StateWord(r) ==
    CASE r.state = "cancelled" -> "stopped by you"
      [] r.state \in {"running", "interrupted", "done"} -> r.state
      [] OTHER -> "failed"

-----------------------------------------------------------------------------
(* The tile. *)

HealthOf(enabled, j, runs) ==
    LET r == NewestOf(j, runs)
    IN  CASE ~enabled -> "idle"
          [] enabled /\ ~HasRun(j, runs) -> "warn"
          [] enabled /\ HasRun(j, runs) ->
                CASE r.state = "running" -> "running"
                  [] r.state = "done" -> IF r.errors > 0 THEN "warn" ELSE "ok"
                  [] OTHER -> "bad"

WorstFirst == <<"bad", "warn", "running", "ok", "idle">>
TileRank(h) == CHOOSE i \in 1..5 : WorstFirst[i] = h

\* The jobs are the domain of enabled.
OfHealth(h, enabled, runs) == {j \in DOMAIN enabled : HealthOf(enabled[j], j, runs) = h}

TileRows(enabled, runs) ==
    SetToSortSeq({<<HealthOf(enabled[j], j, runs), j>> : j \in DOMAIN enabled},
                 LAMBDA a, b : TileRank(a[1]) < TileRank(b[1]))

TileVerdict(enabled, runs) ==
    CASE OfHealth("bad", enabled, runs) # {} -> "failing"
      [] OfHealth("bad", enabled, runs) = {} /\ RunningNow(runs) # <<>> -> "running"
      [] OTHER -> IF OfHealth("warn", enabled, runs) # {} THEN "look" ELSE "healthy"

-----------------------------------------------------------------------------
(* A job's own page. *)

StatsFor(j, runs) ==
    [total |-> Len(IsOf(j, runs)),
     failures |-> Len(SelectSeq(IsOf(j, runs), CountsAsFailure)),
     succeeded |-> \E i \in 1..Len(runs) : runs[i].of = j /\ runs[i].state = "done"]

\* suspiciouslySmall: of the last 20 runs, the newest that is done against the
\* (upper) median of those before it that copied anything, from three on
PreviousSizes(done) ==
    SortSeq(SelectSeq([i \in 1..(Len(done) - 1) |-> done[i + 1].bytes], LAMBDA b : b > 0), <)

SuspiciouslySmall(runs) ==
    LET done == SelectSeq(FirstOf(runs, 20), LAMBDA r : r.state = "done")
    IN  /\ Len(done) >= 4
        /\ done[1].bytes # 0
        /\ LET sizes == PreviousSizes(done)
           IN  /\ Len(sizes) >= 3
               /\ done[1].bytes * 10 < sizes[(Len(sizes) \div 2) + 1]

\* A bar for each of the last 20 runs, oldest first, of up to 60 pixels: no run is too small to be seen.
BarHeight(bytes, peak) == LET h == (2 * bytes * 60 + peak) \div (2 * peak) IN IF h < 2 THEN 2 ELSE h
ActivityBars(runs) ==
    LET recent == FirstOf(runs, 20)
        peak == Max({1} \cup {recent[i].bytes : i \in 1..Len(recent)})
    IN  Reverse([i \in 1..Len(recent) |-> [height |-> BarHeight(recent[i].bytes, peak), tone |-> StateTone(recent[i])]])

\* The page of a job: what it counts, the dated copies, and what can be done; live is the run that can be stopped.
JobPage(j, snapshots, runs, copies) ==
    LET mine == FirstOf(IsOf(j, runs), 50)
        live == RunningNow(mine)
    IN  [stats |-> StatsFor(j, runs), live |-> live, offersRun |-> live = <<>>,
         copies |-> IF snapshots THEN FirstOf(copies, 30) ELSE <<>>,
         history |-> [i \in 1..Len(mine) |-> StateWord(mine[i])]]

\* Its card on the page of all jobs
JobCard(j, enabled, runs) ==
    [says |-> IF ~enabled THEN "paused" ELSE IF HasRun(j, runs) THEN DescribeState(NewestOf(j, runs)) ELSE "never run",
     live |-> RunningNow(IsOf(j, runs))]

-----------------------------------------------------------------------------
(* The weekly summary, of the runs that started in the week. *)

DigestLineOf(j, enabled, runs) ==
    [runs |-> Len(IsOf(j, runs)), failures |-> StatsFor(j, runs).failures, paused |-> ~enabled[j]]

DigestAllWell(enabled, runs) ==
    \A j \in DOMAIN enabled : DigestLineOf(j, enabled, runs).failures = 0

NotRunAtAll(enabled, runs) ==
    {j \in DOMAIN enabled : LET l == DigestLineOf(j, enabled, runs) IN ~l.paused /\ l.runs = 0}

-----------------------------------------------------------------------------
(* "The verdict is deliberately pessimistic": whatever the tables hold, a  *)
(* tile that says healthy has no enabled job whose newest run is not a     *)
(* clean one, and no row stands above one that is worse.                   *)
TileIsPessimistic(enabled, runs) ==
    /\ TileVerdict(enabled, runs) = "healthy" =>
          \A j \in DOMAIN enabled : enabled[j] =>
             HasRun(j, runs) /\ NewestOf(j, runs).state = "done" /\ NewestOf(j, runs).errors = 0
    /\ LET rows == TileRows(enabled, runs)
       IN  /\ Len(rows) = Cardinality(DOMAIN enabled)
           /\ \A i, k \in 1..Len(rows) : i < k => TileRank(rows[i][1]) <= TileRank(rows[k][1])

(* The tile, the page and the job's own page agree on a job's newest run,  *)
(* but for one that was cancelled.                                         *)
ViewsAgree(enabled, runs) ==
    \A j \in DOMAIN enabled : (enabled[j] /\ HasRun(j, runs) /\ NewestOf(j, runs).state # "cancelled") =>
        LET r == NewestOf(j, runs)
            h == HealthOf(TRUE, j, runs)
        IN  /\ h = StateTone(r)
            /\ (h = "bad") = (DescribeState(r) = "danger")
            /\ (h = "warn") = (DescribeState(r) = "warning")
            /\ (h = "bad") = (StateWord(r) \in {"failed", "interrupted"})

(* A summary says all well only when a job's own page would count no       *)
(* failure in the week; a run that is still going counts as neither.       *)
SummaryCountsFailures(enabled, runs) ==
    DigestAllWell(enabled, runs) =>
        \A i \in 1..Len(runs) : runs[i].of \in DOMAIN enabled => runs[i].state \in {"done", "running"}

(* A warning of a backup that shrank is never given unless half of the     *)
(* earlier ones that copied anything were over ten times its size.         *)
WarnsWithReason(runs) ==
    LET done == SelectSeq(FirstOf(runs, 20), LAMBDA r : r.state = "done")
        larger == {i \in 2..Len(done) : done[i].bytes > 10 * done[1].bytes}
        some   == {i \in 2..Len(done) : done[i].bytes > 0}
    IN  SuspiciouslySmall(runs) => 2 * Cardinality(larger) >= Cardinality(some)

(* What can be stopped is the same on both pages, whatever ran before; and *)
(* a job's own page offers to start a copy only when it shows none that is *)
(* going.                                                                  *)
StopIsOffered(enabled, runs) ==
    \A j \in DOMAIN enabled :
        LET page == JobPage(j, TRUE, runs, <<>>)
        IN  /\ page.live = JobCard(j, enabled[j], runs).live
            /\ page.offersRun = (page.live = <<>>)
            /\ Len(page.history) = page.stats.total

(* "it ran and copied nothing and it didn't run must not look the same"    *)
(* (activity.tsx:63): every run has a bar that is seen and fits, and one   *)
(* that copied more is never lower.                                        *)
BarsAreSeen(runs) ==
    LET bars == Reverse(ActivityBars(runs))
    IN  /\ Len(bars) = Len(runs)
        /\ \A i \in 1..Len(bars) : bars[i].height \in 2..60
        /\ \A i, k \in 1..Len(bars) : runs[i].bytes <= runs[k].bytes => bars[i].height <= bars[k].height
=============================================================================
