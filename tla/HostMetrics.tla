----------------------------- MODULE HostMetrics ----------------------------
(***************************************************************************)
(* A snapshot of the host (helpers/system-metrics/lib/collect.ts): the     *)
(* counters of disks and network interfaces are read twice around one      *)
(* wait, and the difference is shown as a rate.  Devices come and go, and  *)
(* counters start again, at any moment in between.                         *)
(***************************************************************************)
EXTENDS Naturals

CONSTANTS
    Device,       \* disks that count (isInterestingDisk), interfaces but the loopback
    SourceOf,     \* the group each is read with
    CounterEnd    \* bound on what a device moves

Source == {"diskIo", "networkIo"}

ASSUME MetricsConstantsOK ==
    /\ SourceOf \in [Device -> Source]
    /\ CounterEnd \in Nat

VARIABLES
    counter,      \* the machine: what each device moved since it appeared
    sample,       \* the snapshot under way
    rates,        \* what the last one showed, in what moved in a window
    moved         \* history: what each device moved since its first reading

metricsVars == <<counter, sample, rates, moved>>

NoSample == [at |-> "none"]
Reading == UNION {[D -> 0..CounterEnd] : D \in SUBSET Device}

\* The readings of both, the first before the second
Together(f, g) == [d \in DOMAIN f \cup DOMAIN g |-> IF d \in DOMAIN f THEN f[d] ELSE g[d]]

MetricsTypeOK ==
    /\ counter \in Reading
    /\ rates \in Reading
    /\ moved \in [Device -> 0..CounterEnd]
    /\ sample.at \in {"none", "before", "wait", "after"}
    /\ sample # NoSample =>
          /\ sample.groups \subseteq Source /\ sample.left \subseteq Source
          /\ {sample.before, sample.after} \subseteq Reading

MetricsInit ==
    /\ counter \in Reading
    /\ sample = NoSample
    /\ rates = << >>
    /\ moved = [d \in Device |-> 0]

-----------------------------------------------------------------------------
(* The machine. *)

Move(d) ==
    /\ d \in DOMAIN counter
    /\ counter[d] < CounterEnd /\ moved[d] < CounterEnd
    /\ counter' = [counter EXCEPT ![d] = @ + 1]
    /\ moved' = [moved EXCEPT ![d] = @ + 1]
    /\ UNCHANGED <<sample, rates>>

Appear(d) ==
    /\ d \notin DOMAIN counter
    /\ counter' = Together([e \in {d} |-> 0], counter)
    /\ UNCHANGED <<sample, rates, moved>>

Vanish(d) ==
    /\ d \in DOMAIN counter
    /\ counter' = [e \in DOMAIN counter \ {d} |-> counter[e]]
    /\ UNCHANGED <<sample, rates, moved>>

-----------------------------------------------------------------------------
(* snapshot. *)

\* Only the groups that were asked for are read; without one there is no wait.
BeginSnapshot(groups) ==
    /\ sample = NoSample
    /\ sample' = [at |-> IF groups = {} THEN "after" ELSE "before",
                  groups |-> groups, left |-> groups, before |-> << >>, after |-> << >>]
    /\ UNCHANGED <<counter, rates, moved>>

\* diskCounters or netCounters; a file that cannot be read yields no device.
Readings(s) == {[d \in {e \in DOMAIN counter : SourceOf[e] = s} |-> counter[d]], << >>}

Reads(s, field) ==
    /\ s \in sample.left
    /\ \E reading \in Readings(s) :
          sample' = [sample EXCEPT ![field] = Together(reading, @), !.left = @ \ {s},
                                   !.at = IF field = "before" /\ sample.left = {s} THEN "wait" ELSE @]

ReadBefore(s) ==
    /\ sample.at = "before"
    /\ Reads(s, "before")
    /\ moved' = [d \in Device |-> IF SourceOf[d] = s THEN 0 ELSE moved[d]]
    /\ UNCHANGED <<counter, rates>>

\* The wait is as long as it was asked to be, or longer.
WaitEnds ==
    /\ sample.at = "wait"
    /\ sample' = [sample EXCEPT !.at = "after", !.left = sample.groups]
    /\ UNCHANGED <<counter, rates, moved>>

ReadAfter(s) ==
    /\ sample.at = "after"
    /\ Reads(s, "after")
    /\ UNCHANGED <<counter, rates, moved>>

\* Mutant: a counter that went back has wrapped.
DifferenceWrapped(a, b) == (CounterEnd + 1 + b - a) % (CounterEnd + 1)

Difference(a, b) == IF b > a THEN b - a ELSE 0

\* diffDiskIo and diffNetIo: only what was there at both readings.
ShowRates ==
    /\ sample.at = "after"
    /\ sample.left = {}
    /\ rates' = [d \in DOMAIN sample.before \cap DOMAIN sample.after |->
                    Difference(sample.before[d], sample.after[d])]
    /\ sample' = NoSample
    /\ UNCHANGED <<counter, moved>>

MetricsNext ==
    \/ \E d \in Device : Move(d) \/ Appear(d) \/ Vanish(d)
    \/ \E groups \in SUBSET Source : BeginSnapshot(groups)
    \/ \E s \in Source : ReadBefore(s) \/ ReadAfter(s)
    \/ WaitEnds \/ ShowRates

MetricsSpec == MetricsInit /\ [][MetricsNext]_metricsVars

-----------------------------------------------------------------------------
(***************************************************************************)
(* No "invented" number: what a snapshot shows for a device is no more     *)
(* than the device moved since its first reading, whether it was unplugged *)
(* and came back, was replaced, or its counter started anew, and however   *)
(* long the wait took.                                                     *)
(***************************************************************************)
RatesAreHonest ==
    sample = NoSample => \A d \in DOMAIN rates : rates[d] <= moved[d]
=============================================================================
