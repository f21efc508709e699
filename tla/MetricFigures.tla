--------------------------- MODULE MetricFigures ----------------------------
(***************************************************************************)
(* What a snapshot of the host holds besides its rates (helpers/           *)
(* system-metrics/lib/collect.ts), and what the Host vitals add-on makes   *)
(* of it (addons/host-vitals).  A host is what its files and its operating *)
(* system say; -1 is what they do not say, or do not say as a number.      *)
(* Percentages are in tenths.  Pure functions.                             *)
(***************************************************************************)
EXTENDS Integers, FiniteSets, SequencesExt

Unsaid == -1
Shares == 0..1000
Bounded(n) == IF n < 0 THEN 0 ELSE IF n > 1000 THEN 1000 ELSE n

\* pct
ShareOf(used, total) == IF total > 0 THEN Bounded((1000 * used) \div total) ELSE 0

-----------------------------------------------------------------------------
(* Processors: a reading is a sequence of cores with their idle ticks and  *)
(* all their ticks.                                                        *)

AllCores(cores) == [idle |-> FoldLeft(LAMBDA n, c : n + c.idle, 0, cores), total |-> FoldLeft(LAMBDA n, c : n + c.total, 0, cores)]

BusyShare(a, b) ==
    IF b.total - a.total <= 0 THEN 0
    ELSE Bounded(1000 - (1000 * (b.idle - a.idle)) \div (b.total - a.total))

\* A core that was not there before is compared with itself.
PerCore(before, after) ==
    [i \in 1..Len(after) |-> BusyShare(IF i <= Len(before) THEN before[i] ELSE after[i], after[i])]

-----------------------------------------------------------------------------
(* Memory, disks, sensors.  A file that cannot be read is an empty one.    *)

NoSwap == [total |-> 0]
SwapOf(host) ==
    IF host.platform # "linux" \/ Unsaid \in {host.swapTotal, host.swapFree} \/ host.swapTotal <= 0 THEN NoSwap
    ELSE [total |-> host.swapTotal, used |-> host.swapTotal - host.swapFree,
          share |-> ShareOf(host.swapTotal - host.swapFree, host.swapTotal)]

\* linuxMounts: a mount is [at, pseudo]; each place once, and the root when there is none
Mounts(lines) ==
    LET real == SelectSeq(lines, LAMBDA l : ~l.pseudo)
        places == [i \in 1..Len(real) |-> real[i].at]
        once == FoldLeft(LAMBDA seen, p : IF p \in Range(seen) THEN seen ELSE Append(seen, p), <<>>, places)
    IN  IF once = <<>> THEN <<"/">> ELSE once

\* statfsUsage: a volume says how much it has, how much is free, and how much of that is for everyone.
NoDisk == [mount |-> ""]
DiskOf(at, volumes) ==
    IF at \notin DOMAIN volumes \/ volumes[at].blocks <= 0 THEN NoDisk
    ELSE LET used == volumes[at].blocks - volumes[at].free
         IN  [mount |-> at, total |-> volumes[at].blocks, used |-> used, free |-> volumes[at].available,
              share |-> ShareOf(used, used + volumes[at].available)]

DisksOf(host) ==
    LET places == CASE host.platform = "linux" -> Mounts(host.mounts)
                    [] host.platform = "win32" -> <<"C:", "D:">>
                    [] OTHER -> <<"/">>
    IN  SelectSeq([i \in 1..Len(places) |-> DiskOf(places[i], host.volumes)], LAMBDA d : d # NoDisk)

OnLinux(host, what) == IF host.platform = "linux" THEN what ELSE <<>>

TempsOf(host) == OnLinux(host, SelectSeq(host.zones, LAMBDA z : z.milli # Unsaid))
\* A fan that stands still is left out.
FansOf(host) == OnLinux(host, SelectSeq(host.fanInputs, LAMBDA f : f.rpm > 0))

NoBattery == [status |-> ""]
BatteryOf(host) ==
    LET batteries == OnLinux(host, SelectSeq(host.supplies, LAMBDA s : s.type = "Battery"))
    IN  IF batteries = <<>> THEN NoBattery
        ELSE [percent |-> batteries[1].capacity, status |-> IF batteries[1].status = "" THEN "unknown" ELSE batteries[1].status]

\* collectNetwork: interfaces with an address that leads outside
NetworkOf(host) ==
    SelectSeq([i \in 1..Len(host.interfaces) |-> [name |-> host.interfaces[i].name, addresses |-> host.interfaces[i].addresses \ {"internal"}]],
              LAMBDA n : n.addresses # {})

-----------------------------------------------------------------------------
(* snapshot, but for the rates. *)

AllGroups == {"cpu", "cpuCores", "memory", "swap", "disks", "diskIo", "network", "networkIo", "temps", "fans", "battery"}
Sampled == {"cpu", "cpuCores", "diskIo", "networkIo"}
SampleMs(asked) == IF asked < 50 THEN 50 ELSE IF asked > 1000 THEN 1000 ELSE asked
WaitOf(groups, asked) == IF groups \cap Sampled = {} THEN 0 ELSE SampleMs(asked)

\* What is in a snapshot whether it was asked for or not
Always(groups, host) ==
    [cpu |-> BusyShare(AllCores(host.before), AllCores(host.after)),
     load |-> IF host.platform = "win32" THEN Unsaid ELSE host.load,
     memory |-> ShareOf(host.memTotal - host.memFree, host.memTotal),
     disks |-> IF "disks" \in groups THEN DisksOf(host) ELSE <<>>,
     temps |-> IF "temps" \in groups THEN TempsOf(host) ELSE <<>>]

Asked(groups, host) ==
    [g \in groups \cap {"cpuCores", "swap", "network", "fans", "battery"} |->
        CASE g = "cpuCores" -> PerCore(host.before, host.after)
          [] g = "swap" -> SwapOf(host)
          [] g = "network" -> NetworkOf(host)
          [] g = "fans" -> FansOf(host)
          [] g = "battery" -> BatteryOf(host)]

-----------------------------------------------------------------------------
(* Host vitals: what it asks for, by the switches of its settings.  A      *)
(* switch that was never set is Unsaid.                                    *)

ToggleDefaults ==
    [swap |-> TRUE, cpuCores |-> FALSE, network |-> TRUE, networkIo |-> TRUE,
     diskIo |-> FALSE, temps |-> TRUE, fans |-> FALSE, battery |-> FALSE]
CollectFor(switches) ==
    {"cpu", "memory", "disks"} \cup
    {g \in DOMAIN ToggleDefaults : IF switches[g] = "unset" THEN ToggleDefaults[g] ELSE switches[g] = "on"}

LevelFor(share) == IF share >= 900 THEN "bad" ELSE IF share >= 750 THEN "warn" ELSE "ok"

Fullest(disks) == Max({0} \cup {disks[i].share : i \in 1..Len(disks)})

\* verdict, with what it is about; always is Always of a snapshot, asked the rest
VitalsVerdict(always, asked) ==
    LET fullest == Fullest(always.disks)
        swapping == "swap" \in DOMAIN asked /\ asked.swap # NoSwap /\ asked.swap.share >= 500
        draining == "battery" \in DOMAIN asked /\ asked.battery # NoBattery
                    /\ asked.battery.status = "discharging" /\ asked.battery.percent \in 0..20
    IN  CASE always.memory >= 900 /\ always.memory >= fullest -> <<"bad", "memory">>
          [] fullest >= 900 /\ fullest > always.memory -> <<"bad", "disk">>
          [] OTHER -> IF swapping THEN <<"warn", "swap">>
                      ELSE IF draining THEN <<"warn", "battery">>
                      ELSE IF fullest >= 750 \/ always.memory >= 750 THEN <<"warn", "busy">> ELSE <<"ok", "">>

\* The rows of the tile: the fullest disk first
VitalsRows(always, asked, rates) ==
    <<"cpu", "memory">>
    \o LET sorted == SortSeq(always.disks, LAMBDA a, b : a.share > b.share) IN [i \in 1..Len(sorted) |-> sorted[i].mount]
    \o (IF "swap" \in DOMAIN asked /\ asked.swap # NoSwap THEN <<"swap">> ELSE <<>>)
    \o (IF rates # <<>> THEN <<"network">> ELSE <<>>)
    \o (IF "battery" \in DOMAIN asked /\ asked.battery # NoBattery THEN <<"battery">> ELSE <<>>)
    \o <<"uptime">>

\* The page: a section for what was asked for, and in it what there is, or a line that says there is none.
VitalsSections(groups, always, asked) ==
    [s \in {"server", "processor", "memory", "disks", "temperatures"}
           \cup (groups \cap {"cpuCores", "swap", "diskIo", "battery"})
           \cup (IF groups \cap {"network", "networkIo"} # {} THEN {"network"} ELSE {}) |->
        CASE s = "swap" -> asked.swap # NoSwap
          [] s = "battery" -> asked.battery # NoBattery
          [] s = "temperatures" -> always.temps # <<>>
          [] s = "disks" -> always.disks # <<>>
          [] OTHER -> TRUE]

-----------------------------------------------------------------------------
(* Whatever the host says, also when counters go back, cores and disks     *)
(* come and go or a file makes no sense: every share is between nothing    *)
(* and all, no disk is listed twice, and there is no reading of a fan      *)
(* that stands still or a sensor that cannot be read.                      *)
ReadingsAreSane(groups, host) ==
    LET always == Always(groups, host)
        asked == Asked(groups, host)
        disks == always.disks
    IN  /\ {always.cpu, always.memory} \cup {disks[i].share : i \in 1..Len(disks)} \subseteq Shares
        /\ \A i, k \in 1..Len(disks) : disks[i].mount = disks[k].mount => i = k
        /\ "cpuCores" \in groups => Range(asked.cpuCores) \subseteq Shares /\ Len(asked.cpuCores) = Len(host.after)
        /\ "swap" \in groups => asked.swap = NoSwap \/ asked.swap.share \in Shares
        /\ "fans" \in groups => \A i \in 1..Len(asked.fans) : asked.fans[i].rpm > 0

(* "A metric you switch off is not gathered, not merely hidden"            *)
(* (groups.ts:11): the page has a section, and the tile a row, only for    *)
(* what was asked for, and there is no wait for rates nobody asked for.    *)
OffIsNotGathered(switches, host) ==
    LET groups == CollectFor(switches)
        always == Always(groups, host)
        asked == Asked(groups, host)
        off == {g \in DOMAIN ToggleDefaults : switches[g] = "off"}
    IN  /\ groups \subseteq AllGroups /\ groups \cap off = {}
        /\ DOMAIN asked \cap off = {}
        /\ Range(VitalsRows(always, asked, <<>>)) \cap off = {}
        /\ "temps" \in off => always.temps = <<>>
        /\ {"cpuCores", "swap", "diskIo", "battery"} \cap off \cap DOMAIN VitalsSections(groups, always, asked) = {}

(* "The worst thing currently true about the host": the verdict is bad     *)
(* exactly when a meter of the tile is, it is then about the fullest of    *)
(* them, and it is healthy only when every meter is.                       *)
VerdictIsTheWorst(groups, host) ==
    LET always == Always(groups, host)
        v == VitalsVerdict(always, Asked(groups, host))
        meters == {always.memory} \cup {always.disks[i].share : i \in 1..Len(always.disks)}
    IN  /\ (v[1] = "bad") = (\E s \in meters : LevelFor(s) = "bad")
        /\ v[1] = "bad" => Max(meters) = IF v[2] = "memory" THEN always.memory ELSE Fullest(always.disks)
        /\ v[1] = "ok" => \A s \in meters : LevelFor(s) = "ok"
=============================================================================
