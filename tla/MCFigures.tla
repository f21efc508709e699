------------------------------ MODULE MCFigures ------------------------------
(***************************************************************************)
(* What the pages compute, over small tables: assumptions that TLC checks  *)
(* before it starts on the parts.                                          *)
(***************************************************************************)
EXTENDS BackupReports, HealthFigures, MonitorForms, MetricFigures

-----------------------------------------------------------------------------
(* BackupReports: two jobs, and up to three runs of theirs. *)
LOCAL SomeRun == [of : {"a", "b"}, state : {"running", "done", "failed", "cancelled", "interrupted"}, errors : 0..1]
LOCAL SomeRuns == UNION {[1..n -> SomeRun] : n \in 0..3}
LOCAL SomeJobs == [{"a", "b"} -> BOOLEAN]
\* Copies of more or less, one that was cancelled in between
LOCAL SomeSizes == [1..5 -> [of : {"a"}, state : {"done"}, bytes : {0, 1, 11, 30}]
                            \cup [of : {"a"}, state : {"cancelled"}, bytes : {30}]]

ASSUME TilesArePessimistic == \A runs \in SomeRuns : \A on \in SomeJobs : TileIsPessimistic(on, runs)
ASSUME PagesAgree == \A runs \in SomeRuns : \A on \in SomeJobs : ViewsAgree(on, runs)
ASSUME SummariesCount == \A runs \in SomeRuns : \A on \in SomeJobs : SummaryCountsFailures(on, runs)
ASSUME StopsAreOffered == \A runs \in SomeRuns : StopIsOffered([j \in {"a", "b"} |-> TRUE], runs)
ASSUME BarsSeen == \A s \in [1..4 -> {0, 1, 11, 30, 900}] : BarsAreSeen([i \in 1..4 |-> [of |-> "a", state |-> "done", errors |-> 0, bytes |-> s[i]]])
ASSUME WarningsHaveReason == \A runs \in SomeSizes : WarnsWithReason(runs)

-----------------------------------------------------------------------------
(* HealthFigures. *)
LOCAL SomeResult ==
    {ResultOf(h, m, x[1], x[2], x[3]) : h \in {1, 3}, m \in {5, 40},
        x \in {<<"up", 10, Missing>>, <<"degraded", 31, 7>>, <<"down", Missing, Missing>>}}
LOCAL SomeResults == UNION {[1..n -> SomeResult] : n \in 0..3}

ASSUME RanksAreRanks ==
    /\ \A n \in 1..61 : RankIsARank([i \in 1..n |-> i])
    /\ \A n \in 1..61, k \in 0..3 : RankIsARank([i \in 1..n |-> IF i > n - k THEN 9 ELSE 1])
ASSUME ShapesSurvive == \A r \in SomeResults : \A h \in {2, 3, 4} : ShapeSurvives(r, h, <<3, 50>>, 3)
ASSUME GapsShow == \A r \in SomeResults : GapsAreGaps(r, <<3, 50>>, 3)
ASSUME AllUpIsTrue ==
    \A on \in [1..3 -> BOOLEAN] : \A status \in [1..3 -> {"up", "degraded", "down", "unknown"}] : \A cap \in 1..3 :
        AllUpMeansIt(<<1, 2, 3>>, on, status, cap)
ASSUME QuietTimes ==
    \A days \in SUBSET {0, 3, 6} : \A start \in {0, 600, 1430} : \A length \in {1, 60, 1440} :
        \A day \in 0..6 : \A minute \in {0, 30, 600, 659, 660, 1430, 1439} :
            QuietUntilMidnight([kind |-> "weekly", days |-> days, start |-> start, length |-> length],
                               [day |-> day, minute |-> minute, instant |-> 0])
ASSUME DurationsHold == \A s \in (0..8000) \cup (86000..90000) \cup (129000..131000) : DurationsAreClose(s)
ASSUME AxesHold == \A v \in 0..3000 : AxisHolds(v)

-----------------------------------------------------------------------------
(* MonitorForms. *)
LOCAL SomeForm ==
    {EmptyForm @@ NothingIn} \cup
    {[name |-> "n", kind |-> k, target |-> t, port |-> p, intervalSec |-> i, timeoutMs |-> Blank, retries |-> r,
      degradedMs |-> Blank, parentId |-> "router", enabled |-> TRUE, routes |-> {"mail"},
      expectStatus |-> s, insecureTls |-> b, skipUpload |-> u, minMbps |-> m, payloadMb |-> y] :
        k \in Kinds, t \in {"", "url", "host"}, p \in {Blank, 0, 22}, i \in {9, 60, 21600}, r \in {Blank, 0, 1},
        s \in {"", "2xx"}, b \in BOOLEAN, u \in BOOLEAN, m \in {Blank, 0, 50}, y \in {Blank, 10}}
LOCAL FromPages == {f \in SomeForm : FromPage(f) /\ Accepts(f) /\ f.intervalSec = 60}
LOCAL SomeChannel ==
    [kind : ChannelKinds, url : {"", "url", "host"}, secret : {"", "s"}, topic : {"", "t"},
     recipients : {"", "addresses", "words"}]

ASSUME UnchangedStays == \A f \in SomeForm : UnchangedIsUnchanged(f, {"router"}, {"mail"})
ASSUME LastFormsWin == \A e, f \in FromPages : LastFormWins(e, f, {"router"}, {"mail"})
ASSUME FormsFitImport == \A f \in SomeForm : FormFitsImport(f)
ASSUME ChannelsUsable == \A f \in SomeChannel : \A fallback \in {{}, {"admin"}} : ChannelsAreUsable(f, fallback)
ASSUME NoBusyLoops ==
    \A f \in {g \in SomeForm : g.port = Blank /\ g.minMbps = Blank} :
        \A stored \in {NotANumber, 0, 9, 604801} : NoBusyLoop(f, stored)

-----------------------------------------------------------------------------
(* MetricFigures: hosts that differ in one thing at a time, or in what the *)
(* verdict looks at.                                                       *)
LOCAL Core(i, t) == [idle |-> i, total |-> t]
LOCAL AHost ==
    [platform |-> "linux", before |-> <<Core(1, 4)>>, after |-> <<Core(2, 8)>>, load |-> 1, memTotal |-> 100, memFree |-> 60,
     swapTotal |-> 10, swapFree |-> 9, mounts |-> <<[at |-> "/", pseudo |-> FALSE]>>, zones |-> <<[milli |-> 40000]>>,
     volumes |-> [m \in {"/", "C:"} |-> [blocks |-> 10, free |-> 5, available |-> 4]],
     fanInputs |-> <<[rpm |-> 900]>>, supplies |-> <<[type |-> "Mains", capacity |-> Unsaid, status |-> ""]>>,
     interfaces |-> <<[name |-> "lo", addresses |-> {"internal"}], [name |-> "eth0", addresses |-> {"internal", "a"}]>>]
LOCAL SomeCores == UNION {[1..n -> {Core(i, t) : i \in {0, 3}, t \in {2, 4}}] : n \in 0..2}
LOCAL SomeMount == [at : {"/", "/data"}, pseudo : BOOLEAN]
LOCAL SomeVolume == [blocks : {0, 20}, free : {0, 1, 3, 8}, available : {0, 1, 3}]
LOCAL SomeHost ==
    {[AHost EXCEPT !.before = b, !.after = a] : b \in SomeCores, a \in SomeCores} \cup
    {[AHost EXCEPT !.mounts = m, !.platform = p] : m \in UNION {[1..n -> SomeMount] : n \in 0..3}, p \in {"linux", "win32", "darwin"}} \cup
    {[AHost EXCEPT !.zones = <<[milli |-> z]>>, !.fanInputs = <<[rpm |-> r]>>] : z \in {Unsaid, 30}, r \in {Unsaid, 0, 5}} \cup
    {[AHost EXCEPT !.volumes = ("/" :> v) @@ ("/data" :> w), !.memFree = f, !.swapFree = s, !.swapTotal = t, !.mounts = <<SetToSeq(SomeMount)[1], [at |-> "/", pseudo |-> FALSE], [at |-> "/data", pseudo |-> FALSE]>>,
                    !.supplies = Append(@, [type |-> "Battery", capacity |-> c, status |-> "discharging"])] :
        v \in SomeVolume, w \in {x \in SomeVolume : x.available = 1}, f \in {4, 10, 25, 60}, s \in {1, 9}, t \in {0, 10}, c \in {Unsaid, 15, 80}}
LOCAL SomeSwitches == [DOMAIN ToggleDefaults -> {"on", "off", "unset"}]

ASSUME ReadingsSane == \A h \in SomeHost : ReadingsAreSane(AllGroups, h)
ASSUME VerdictWorst == \A h \in SomeHost : \A g \in {AllGroups, {"memory", "disks"}} : VerdictIsTheWorst(g, h)
ASSUME OffNotGathered ==
    \A s \in SomeSwitches : \A h \in {AHost, [AHost EXCEPT !.supplies = <<[type |-> "Battery", capacity |-> 9, status |-> ""]>>]} :
        OffIsNotGathered(s, h)
=============================================================================
