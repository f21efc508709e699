--------------------------- MODULE HealthFigures ----------------------------
(***************************************************************************)
(* The figures the health monitor shows of its history: lib/store.ts reads *)
(* uptime, hourly bars and response times from the results and from the    *)
(* hourly summaries that replaced older ones; ui/parts.tsx draws them; the *)
(* tile and the page sum them up (lib/format.ts); and a quiet window is    *)
(* open or not.  Pure functions.                                           *)
(***************************************************************************)
EXTENDS Integers, FiniteSets, SequencesExt

\* A result: its hour and minute, its state, and readings that may be missing
Missing == -1
ResultOf(hour, min, state, ms, down) == [hour |-> hour, min |-> min, state |-> state, ms |-> ms, down |-> down]

Taken(s) == SelectSeq(s, LAMBDA v : v # Missing)
Field(rows, x) == [i \in 1..Len(rows) |-> rows[i][x]]
Total(s) == FoldLeft(LAMBDA a, b : a + b, 0, s)
Count(rows, state) == Len(SelectSeq(rows, LAMBDA r : r.state = state))

\* Math.round(a / b)
RoundDiv(a, b) == (2 * a + b) \div (2 * b)
MeanOf(s) == IF s = <<>> THEN Missing ELSE RoundDiv(Total(s), Len(s))
SmallerOf(a, b) == IF a < b THEN a ELSE b

\* latencyBuckets, "Nearest-rank"; and uptimeSince, which takes the one above
NearestRank(sorted) ==
    IF sorted = <<>> THEN Missing ELSE sorted[SmallerOf(Len(sorted), (Len(sorted) * 95 + 99) \div 100)]
RankAbove(sorted) ==
    IF sorted = <<>> THEN Missing ELSE sorted[SmallerOf(Len(sorted), (Len(sorted) * 95) \div 100 + 1)]

-----------------------------------------------------------------------------
(* Windows of whole hours back from now, a pair of hour and minute.        *)

Since(r, now, hours) == r.hour > now[1] - hours \/ (r.hour = now[1] - hours /\ r.min >= now[2])
ResultsIn(results, now, hours) == SelectSeq(results, LAMBDA r : Since(r, now, hours))
\* A summary counts from the start of its hour.
SummariesIn(rolled, now, hours) == {s \in rolled : Since([hour |-> s.hour, min |-> 0], now, hours)}

InHour(results, h) == SelectSeq(results, LAMBDA r : r.hour = h)
Sorted(s) == SortSeq(s, <)

\* One row of the rollups table, for a whole hour of results: its p95 stays null.
SummaryRow(h, rows) ==
    [hour |-> h, checks |-> Len(rows), failures |-> Count(rows, "down"), degraded |-> Count(rows, "degraded"),
     avg |-> MeanOf(Taken(Field(rows, "ms")))]

RolledBefore(results, h) == {SummaryRow(k, InHour(results, k)) : k \in {r.hour : r \in Range(results)} \cap 0..(h - 1)}
LeftFrom(results, h) == SelectSeq(results, LAMBDA r : r.hour >= h)

\* hourlyBuckets: the results and the summary of an hour are added up.
BarOf(h, results, rolled) ==
    LET of == {s \in rolled : s.hour = h}
        rows == InHour(results, h)
        with(n, x) == n + FoldSet(LAMBDA s, t : s[x] + t, 0, of)
    IN  [checks |-> with(Len(rows), "checks"), failures |-> with(Count(rows, "down"), "failures"),
         degraded |-> with(Count(rows, "degraded"), "degraded")]

HourlyBars(results, rolled, now, hours) ==
    [i \in 1..hours |-> BarOf(now[1] - hours + i, ResultsIn(results, now, hours), SummariesIn(rolled, now, hours))]

\* latencyBuckets: the results win.
PointOf(h, results, rolled) ==
    LET rows == InHour(results, h)
        of == {s \in rolled : s.hour = h}
    IN  CASE rows # <<>> ->
               [avg |-> MeanOf(Taken(Field(rows, "ms"))), p95 |-> NearestRank(Sorted(Taken(Field(rows, "ms")))),
                down |-> MeanOf(Taken(Field(rows, "down"))), checks |-> Len(rows), failures |-> Count(rows, "down")]
          [] rows = <<>> /\ of # {} ->
               LET s == CHOOSE x \in of : TRUE
               IN  [avg |-> s.avg, p95 |-> Missing, down |-> Missing, checks |-> s.checks, failures |-> s.failures]
          [] OTHER -> [avg |-> Missing, p95 |-> Missing, down |-> Missing, checks |-> 0, failures |-> 0]

LatencyPoints(results, rolled, now, hours) ==
    [i \in 1..hours |-> PointOf(now[1] - hours + i, ResultsIn(results, now, hours), SummariesIn(rolled, now, hours))]

\* uptimeSince: the mean of the two means, whatever they are means of
Uptime(results, rolled, now, hours) ==
    LET rows == ResultsIn(results, now, hours)
        sums == SummariesIn(rolled, now, hours)
        with(n, x) == n + FoldSet(LAMBDA s, t : s[x] + t, 0, sums)
        ms   == Taken(Field(rows, "ms"))
        avgs == {s \in sums : s.avg # Missing}
        avgTotal == FoldSet(LAMBDA s, t : s.avg + t, 0, avgs)
        checks == with(Len(rows), "checks")
        failures == with(Count(rows, "down"), "failures")
    IN  [checks |-> checks, failures |-> failures,
         tenths |-> IF checks = 0 THEN 0 ELSE RoundDiv(1000 * (checks - failures), checks),
         avg |-> CASE ms = <<>> /\ avgs = {} -> Missing
                   [] ms # <<>> /\ avgs = {} -> MeanOf(ms)
                   [] ms = <<>> /\ avgs # {} -> RoundDiv(avgTotal, Cardinality(avgs))
                   [] OTHER -> RoundDiv(Total(ms) * Cardinality(avgs) + avgTotal * Len(ms), 2 * Len(ms) * Cardinality(avgs)),
         p95 |-> RankAbove(Sorted(ms))]

-----------------------------------------------------------------------------
(* Charts. *)

BarState(b) ==
    CASE b.checks = 0 -> "unknown"
      [] b.checks > 0 /\ 2 * b.failures > b.checks -> "down"
      [] OTHER -> IF b.failures > 0 \/ b.degraded > 0 THEN "degraded" ELSE "up"

\* The line is drawn in pieces, from one gap to the next.
Segments(points) ==
    {s \in (1..Len(points)) \X (1..Len(points)) :
        /\ s[1] <= s[2] /\ \A j \in s[1]..s[2] : points[j].avg # Missing
        /\ s[1] = 1 \/ points[s[1] - 1].avg = Missing
        /\ s[2] = Len(points) \/ points[s[2] + 1].avg = Missing}

TopOf(p) == IF p.p95 # Missing THEN p.p95 ELSE p.avg
Drawn(points, x) == SelectSeq(points, LAMBDA p : p[x] # Missing)

NiceMax(v) ==
    LET half == CHOOSE m \in {5 * 10^k : k \in 0..6} : v < m * 20 /\ v >= m * 2
    IN  CASE v <= 0 -> 1
          [] v \in 1..9 -> v
          [] OTHER -> ((v + half - 1) \div half) * half

\* Missing: too little to draw
LatencyAxis(points) ==
    IF Len(Drawn(points, "avg")) < 2 THEN Missing
    ELSE NiceMax(Max({TopOf(points[i]) : i \in {k \in 1..Len(points) : points[k].avg # Missing}}))
SpeedAxis(points) ==
    IF Len(Drawn(points, "down")) < 2 THEN Missing ELSE NiceMax(Max(Range(Field(points, "down"))))

-----------------------------------------------------------------------------
(* In a sentence: status and enabled are functions of the monitors.        *)

WorstState(states) ==
    IF "down" \in states THEN "down" ELSE IF "degraded" \in states THEN "degraded"
    ELSE IF "up" \in states THEN "up" ELSE "unknown"

Active(enabled) == {m \in DOMAIN enabled : enabled[m]}
Problems(enabled, status) == {m \in Active(enabled) : status[m] \in {"down", "degraded"}}
Pending(enabled, status) == {m \in Active(enabled) : status[m] = "unknown"}

\* What the tile and the page say, with the number that goes with it
Sentence(enabled, status) ==
    LET problems == Cardinality(Problems(enabled, status))
        pending == Cardinality(Pending(enabled, status))
        active == Cardinality(Active(enabled))
    IN  CASE DOMAIN enabled = {} -> <<"nothing yet", 0>>
          [] DOMAIN enabled # {} /\ problems > 0 -> <<"need attention", problems>>
          [] OTHER -> IF pending > 0 THEN <<"still checking", active - pending>> ELSE <<"all up", active>>

\* The rows of the tile, those with a problem first, up to a limit; the monitors are a sequence.
TileList(order, enabled, status, cap) ==
    LET first == SelectSeq(order, LAMBDA m : m \in Problems(enabled, status))
        all == first \o SelectSeq(order, LAMBDA m : m \notin Problems(enabled, status))
    IN  SubSeq(all, 1, SmallerOf(cap, Len(all)))

\* formatDuration, in seconds; 0 is a dash.
SaidDuration(s) ==
    CASE s < 60 -> s
      [] s \in 60..3599 -> RoundDiv(s, 60) * 60
      [] s \in 3600..86399 -> (s \div 3600) * 3600 + RoundDiv(s % 3600, 60) * 60
      [] OTHER -> RoundDiv(s, 86400) * 86400

-----------------------------------------------------------------------------
(* inMaintenance, for one window: at is a day, a minute of it and an instant. *)

QuietNow(w, at) ==
    CASE w.kind = "once" -> w.from # Missing /\ w.to # Missing /\ w.from <= at.instant /\ at.instant <= w.to
      [] w.kind = "weekly" ->
            /\ w.days # {} /\ w.start # Missing /\ w.length # Missing
            /\ at.day \in w.days
            /\ w.start <= at.minute /\ at.minute < w.start + w.length
      [] OTHER -> FALSE

\* What its owner asked for: from that minute of that day, for so long
QuietAsAsked(w, at) ==
    \E d \in w.days : (at.day * 1440 + at.minute - (d * 1440 + w.start)) % 10080 < w.length

-----------------------------------------------------------------------------
(* Nearest rank: of the samples, the smallest with 95 in 100 of them at or *)
(* below it.                                                               *)
RankIsARank(sorted) ==
    LET below(v) == Cardinality({i \in 1..Len(sorted) : sorted[i] <= v})
    IN  NearestRank(sorted) = Min({v \in Range(sorted) : 100 * below(v) >= 95 * Len(sorted)})

(* "The shape survives old results being summarised" (store.ts:356): after *)
(* the hours before h are folded, every bar, and every point of the line   *)
(* but for the slowest 5% and the speeds, is what it was, of every hour    *)
(* the window holds whole.                                                 *)
ShapeSurvives(results, h, now, hours) ==
    LET rolled == RolledBefore(results, h)
        left == LeftFrom(results, h)
        after == LatencyPoints(left, rolled, now, hours)
        before == LatencyPoints(results, {}, now, hours)
    IN  /\ HourlyBars(left, rolled, now, hours) = HourlyBars(results, {}, now, hours)
        /\ Segments(after) = Segments(before)
        /\ \A i \in 1..hours : \A x \in {"avg", "checks", "failures"} : after[i][x] = before[i][x]

(* An hour without checks is a gap in the line and no colour in the strip, *)
(* and nothing else is: no line runs through it.                           *)
GapsAreGaps(results, now, hours) ==
    LET points == LatencyPoints(results, {}, now, hours)
        bars == HourlyBars(results, {}, now, hours)
    IN  \A i \in 1..hours :
            LET none == InHour(results, now[1] - hours + i) = <<>>
            IN  /\ none = (BarState(bars[i]) = "unknown")
                /\ none => \A s \in Segments(points) : i \notin s[1]..s[2]

(* "All up has to mean it" (widget.tsx:64): it is said only when every     *)
(* monitor that is switched on is up; and the tile leaves out a monitor    *)
(* with a problem only when all it lists have one.                         *)
AllUpMeansIt(order, enabled, status, cap) ==
    /\ Sentence(enabled, status)[1] = "all up" => \A m \in Active(enabled) : status[m] = "up"
    /\ LET shown == Range(TileList(order, enabled, status, cap))
       IN  Problems(enabled, status) \subseteq shown \/ shown \subseteq Problems(enabled, status)

(* A weekly window is open when its owner asked for it, unless it runs     *)
(* past midnight, from where it is closed.                                 *)
QuietUntilMidnight(w, at) ==
    QuietNow(w, at) = (QuietAsAsked(w, at) /\ at.day \in w.days /\ at.minute >= w.start)

(* A duration is told to the unit it is told in, and never off by more     *)
(* than half of it.                                                        *)
DurationsAreClose(s) ==
    LET off == IF SaidDuration(s) > s THEN SaidDuration(s) - s ELSE s - SaidDuration(s)
    IN  IF s < 60 THEN off = 0 ELSE IF s < 86400 THEN off <= 30 ELSE off <= 43200

(* Every point fits under the top of its axis, and fills half of it.       *)
AxisHolds(v) == v > 0 => NiceMax(v) >= v /\ NiceMax(v) < 2 * v
=============================================================================
