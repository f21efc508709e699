----------------------------- MODULE Retention -----------------------------
(***************************************************************************)
(* One destination of snapshot backups: the dated folders that copies make *)
(* there (helpers/filesystem/lib/copy.ts) and the grandfather-father-son   *)
(* retention that removes them again (lib/snapshots.ts, lib/prune.ts,      *)
(* applyRetention in addons/backup-manager/module.ts).                     *)
(*                                                                         *)
(* A snapshot is its time stamp.  Retention knows nothing else about it,   *)
(* so whether a folder is complete (`good`) is a variable the code never   *)
(* reads.  Folders are removed one by one, while copies go on: of the same *)
(* job started by hand, or of another job with the same destination.       *)
(***************************************************************************)
EXTENDS Naturals, FiniteSets

CONSTANTS
    Stamp,      \* the times at which a copy may start
    Tier,       \* daily, weekly, monthly, yearly
    Key,        \* Key[t][s]: the period of tier t that stamp s falls in
    Policies,   \* the retention policies of the jobs that share the folder
    MaxCopies   \* runs going or not settled yet at the same time

ASSUME StampOK == Stamp \subseteq Nat /\ IsFiniteSet(Stamp)
ASSUME PolicyOK == Policies \subseteq [Tier -> Nat] /\ Policies # {}

VARIABLES
    clock,     \* the stamp of the latest copy
    writing,   \* copies that are going
    torn,      \* of those, the ones that will not be complete
    folder,    \* snapshot folders at the destination
    good,      \* of those, the complete ones
    taken,     \* every snapshot folder there ever was
    pending,   \* done runs whose retention has not been applied yet
    plan,      \* what the prune that is going has left to remove
    used       \* every policy a prune was planned with

vars == <<clock, writing, torn, folder, good, taken, pending, plan, used>>

-----------------------------------------------------------------------------
(* selectForRetention (snapshots.ts:136).                                  *)

\* Mutant: sorted the wrong way round.
Oldest(S) == {s \in S : \A r \in S : r >= s}

Newest(S) == {s \in S : \A r \in S : r <= s}

\* Mutant: the first backup of a period instead of its last.
FirstOfPeriod(S, t) == {s \in S : \A r \in S : r < s => Key[t][r] # Key[t][s]}

\* The most recent snapshot of each period.
Leaders(S, t) == {s \in S : \A r \in S : r > s => Key[t][r] # Key[t][s]}

\* The periods seen when the walk from the newest snapshot reaches s.
SeenPeriods(S, t, s) == {Key[t][r] : r \in {q \in S : q >= s}}

\* Mutant: snapshots counted instead of periods.
TierKeepsByCount(S, t, n) == {s \in Leaders(S, t) : Cardinality({q \in S : q >= s}) <= n}

TierKeeps(S, t, n) == {s \in Leaders(S, t) : Cardinality(SeenPeriods(S, t, s)) <= n}

Keep(S, p) == Newest(S) \cup UNION {TierKeeps(S, t, p[t]) : t \in Tier}

Remove(S, p) == S \ Keep(S, p)

-----------------------------------------------------------------------------
Init ==
    /\ clock = 0
    /\ writing = {} /\ torn = {}
    /\ folder = {} /\ good = {} /\ taken = {}
    /\ pending = {} /\ plan = {} /\ used = {}

\* A copy starts; its stamp is the time (resolveDestination).
StartCopy(s) ==
    /\ Cardinality(writing \cup pending) < MaxCopies
    /\ s > clock
    /\ clock' = s
    /\ writing' = writing \cup {s}
    /\ UNCHANGED <<torn, folder, good, taken, pending, plan, used>>

\* A file is written; its folder is made if it is not there (mkdir recursive).
WriteFile(s) ==
    /\ s \in writing
    /\ folder' = folder \cup {s}
    /\ taken' = taken \cup {s}
    /\ UNCHANGED <<clock, writing, torn, good, pending, plan, used>>

\* A file could not be copied: counted, and the copy goes on.
FileFails(s) ==
    /\ s \in writing
    /\ torn' = torn \cup {s}
    /\ UNCHANGED <<clock, writing, folder, good, taken, pending, plan, used>>

\* runCopy returns "done", whatever failed on the way.
CopyDone(s) ==
    /\ s \in writing
    /\ writing' = writing \ {s}
    /\ torn' = torn \ {s}
    /\ good' = IF s \in folder /\ s \notin torn THEN good \cup {s} ELSE good
    /\ pending' = pending \cup {s}
    /\ UNCHANGED <<clock, folder, taken, plan, used>>

\* The copy failed, was cancelled or interrupted: what it wrote stays.
CopyStops(s) ==
    /\ s \in writing
    /\ writing' = writing \ {s}
    /\ torn' = torn \ {s}
    /\ UNCHANGED <<clock, folder, good, taken, pending, plan, used>>

\* applyRetention of a done run, in the tick: the plan is made from what is
\* there now, and refused if it would remove everything.
PlanPrune(s, p) ==
    /\ s \in pending /\ plan = {}
    /\ pending' = pending \ {s}
    /\ plan' = IF Remove(folder, p) = folder THEN {} ELSE Remove(folder, p)
    /\ used' = used \cup {p}
    /\ UNCHANGED <<clock, writing, torn, folder, good, taken>>

\* Retention is off, or the delete switch of the location is.
NoRetention(s) ==
    /\ s \in pending /\ plan = {}
    /\ pending' = pending \ {s}
    /\ UNCHANGED <<clock, writing, torn, folder, good, taken, plan, used>>

\* One folder is removed, under a copy that is still writing to it if so be.
RemoveFolder(s) ==
    /\ s \in plan
    /\ plan' = plan \ {s}
    /\ folder' = folder \ {s}
    /\ good' = good \ {s}
    /\ torn' = torn \cup ({s} \cap writing)
    /\ UNCHANGED <<clock, writing, taken, pending, used>>

\* A folder cannot be removed, or not all of it: noted, and the rest are still
\* removed.
RemoveFails(s) ==
    /\ s \in plan
    /\ plan' = plan \ {s}
    /\ \/ UNCHANGED <<torn, good>>
       \/ /\ good' = good \ {s}
          /\ torn' = torn \cup ({s} \cap writing)
    /\ UNCHANGED <<clock, writing, folder, taken, pending, used>>

\* The server stops: copies and prune are gone, a folder may be left half
\* removed, and no retention follows for the copies it interrupted.
Restart ==
    /\ writing' = {} /\ torn' = {} /\ plan' = {}
    /\ \/ UNCHANGED good
       \/ \E s \in plan : good' = good \ {s}
    /\ UNCHANGED <<clock, folder, taken, pending, used>>

Next ==
    \/ \E s \in Stamp :
        \/ StartCopy(s) \/ WriteFile(s) \/ FileFails(s)
        \/ CopyDone(s) \/ CopyStops(s)
        \/ NoRetention(s) \/ RemoveFolder(s) \/ RemoveFails(s)
        \/ \E p \in Policies : PlanPrune(s, p)
    \/ Restart

Spec == Init /\ [][Next]_vars

-----------------------------------------------------------------------------
(* Properties.                                                             *)

TypeOK ==
    /\ clock \in Stamp \cup {0}
    /\ writing \subseteq Stamp
    /\ torn \subseteq writing
    /\ folder \subseteq taken
    /\ good \subseteq folder
    /\ taken \subseteq Stamp
    /\ pending \subseteq Stamp
    /\ plan \subseteq folder
    /\ used \subseteq Policies

\* The last snapshot of T in its period, with fewer than n periods of that
\* kind begun since.
OneOfLast(T, s, t, n) ==
    LET since == {r \in T : r > s}
    IN /\ \A r \in since : Key[t][r] # Key[t][s]
       /\ Cardinality({Key[t][r] : r \in since}) < n

\* However the prunes were spread over time, interleaved with copies, stopped
\* half way or run with another job's policy: the newest snapshot is there, and
\* so is every one that each policy used asks for, counted over all snapshots
\* ever taken and not only over those that earlier prunes left.
HistoryKept ==
    \A s \in taken \ folder :
        /\ \E r \in taken : r > s
        /\ \E p \in used : \A t \in Tier : ~OneOfLast(taken, s, t, p[t])

\* The newest folder is never about to be removed, also when folders appeared
\* since the plan was made (HELPER.md:132).
PlanSparesNewest == \A s \in plan : \E r \in folder \ plan : r > s

\* Once there is a complete backup, retention leaves one: "a retention setting
\* of all zeros must still leave you with a backup" (snapshots.ts:130).
GoodBackupSurvives == [][good # {} => good' # {}]_vars
=============================================================================
