-------------------------- MODULE Retention_proofs --------------------------
(***************************************************************************)
(* Theorems about Retention, for every set of stamps, every way of cutting *)
(* time into periods and every set of policies: no property of a calendar  *)
(* is used.                                                                *)
(***************************************************************************)
EXTENDS Retention, FiniteSetTheorems, WellFoundedInduction, TLAPS

-----------------------------------------------------------------------------
(* Facts about finite sets of stamps and the periods they fall in.         *)

\* The periods of a finite set of stamps are finitely many.
LEMMA PeriodsAreFinite ==
  ASSUME NEW S, IsFiniteSet(S), NEW t
  PROVE  LET P == {Key[t][r] : r \in S}
         IN  IsFiniteSet(P) /\ Cardinality(P) \in Nat
<1> DEFINE P == {Key[t][r] : r \in S}
           f == [r \in S |-> Key[t][r]]
<1>1. f \in Surjection(S, P)
  BY DEF Surjection
<1>2. IsFiniteSet(P)
  BY <1>1, FS_Surjection
<1> QED
  BY <1>2, FS_CardinalityType

\* A larger set of stamps has no fewer periods.
LEMMA PeriodsGrow ==
  ASSUME NEW T, IsFiniteSet(T), NEW S \in SUBSET T, NEW t
  PROVE  Cardinality({Key[t][r] : r \in S}) <=
            Cardinality({Key[t][r] : r \in T})
<1>1. IsFiniteSet({Key[t][r] : r \in T})
  BY PeriodsAreFinite
<1>2. {Key[t][r] : r \in S} \in SUBSET {Key[t][r] : r \in T}
  OBVIOUS
<1> QED
  BY <1>1, <1>2, FS_Subset

\* A set of snapshots that is not empty has a newest one: the one with the
\* fewest others after it.
LEMMA NewestExists ==
  ASSUME NEW S \in SUBSET Nat, IsFiniteSet(S), S # {}
  PROVE  \E s \in S : s \in Newest(S)
<1> DEFINE After(x) == {y \in S : y > x}
           M == {Cardinality(After(x)) : x \in S}
<1>1. \A x \in S : IsFiniteSet(After(x)) /\ Cardinality(After(x)) \in Nat
  <2> TAKE x \in S
  <2>1. After(x) \in SUBSET S
    OBVIOUS
  <2> QED
    BY <2>1, FS_Subset, FS_CardinalityType
<1>2. M \subseteq Nat /\ M # {}
  BY <1>1
<1>3. PICK m \in M : \A k \in M : ~ (<<k, m>> \in OpToRel(<, Nat))
  <2> HIDE DEF M
  <2> QED
    BY <1>2, NatLessThanWellFounded, WFMin
<1>4. \A k \in M : ~ (k < m)
  BY <1>2, <1>3 DEF OpToRel
<1>5. PICK s \in S : m = Cardinality(After(s))
  OBVIOUS
<1>6. ASSUME NEW r \in S, r > s PROVE FALSE
  <2>1. After(r) \in SUBSET After(s) /\ r \in After(s) /\ r \notin After(r)
    <3>1. \A y \in S : y \in Nat
      OBVIOUS
    <3>2. \A y \in S : y > r => y > s
      BY <1>6, <3>1
    <3>3. ~ (r > r)
      BY <3>1
    <3> QED
      BY <1>6, <3>2, <3>3
  <2>2. Cardinality(After(r)) <= Cardinality(After(s))
    BY <1>1, <2>1, FS_Subset
  <2>3. Cardinality(After(r)) # Cardinality(After(s))
    BY <1>1, <2>1, FS_Subset
  <2>4. Cardinality(After(r)) \in Nat /\ Cardinality(After(s)) \in Nat
    BY <1>1
  <2>5. Cardinality(After(r)) \in M
    OBVIOUS
  <2> HIDE DEF M, After
  <2> QED
    BY <1>4, <1>5, <2>2, <2>3, <2>4, <2>5
<1> QED
  BY <1>6 DEF Newest

-----------------------------------------------------------------------------
(* What one selection keeps.                                               *)

\* The newest snapshot is kept by every policy, one of all zeros among them.
LEMMA NewestIsKept ==
  ASSUME NEW S, NEW p
  PROVE  Newest(S) \subseteq Keep(S, p)
  BY DEF Keep

\* What is one of the last n of a set is kept in every part of it that it lies
\* in: earlier removals do not change what a tier keeps.
LEMMA KeptInEveryPart ==
  ASSUME NEW T \in SUBSET Stamp, NEW S \in SUBSET T, NEW s \in S,
         NEW t \in Tier, NEW n \in Nat, OneOfLast(T, s, t, n)
  PROVE  s \in TierKeeps(S, t, n)
<1> DEFINE Later(U) == {r \in U : r > s}
           Periods(U) == {Key[t][r] : r \in U}
<1>1. S \subseteq Nat /\ T \subseteq Nat /\ s \in Nat
  BY StampOK
<1>2. IsFiniteSet(T) /\ IsFiniteSet(S)
  BY StampOK, FS_Subset
<1>3. Later(S) \in SUBSET Later(T) /\ Later(T) \in SUBSET T
  BY <1>1
<1>4. IsFiniteSet(Later(T)) /\ IsFiniteSet(Later(S))
  BY <1>2, <1>3, FS_Subset
<1>5. Cardinality(Periods(Later(S))) <= Cardinality(Periods(Later(T)))
  BY <1>3, <1>4, PeriodsGrow
<1>6. /\ IsFiniteSet(Periods(Later(S)))
      /\ Cardinality(Periods(Later(S))) \in Nat
      /\ Cardinality(Periods(Later(T))) \in Nat
  BY <1>4, PeriodsAreFinite
<1>7. SeenPeriods(S, t, s) = Periods(Later(S)) \cup {Key[t][s]}
  <2>1. \A q \in S : q >= s <=> q > s \/ q = s
    BY <1>1
  <2>2. {q \in S : q >= s} = Later(S) \cup {s}
    BY <1>1, <2>1
  <2> QED
    BY <2>2 DEF SeenPeriods
<1>8. Cardinality(SeenPeriods(S, t, s)) <= Cardinality(Periods(Later(S))) + 1
  <2> DEFINE P == Periods(Later(S))
  <2>1. IsFiniteSet(P) /\ Cardinality(P) \in Nat
    BY <1>6
  <2> HIDE DEF P
  <2>2. Cardinality(P \cup {Key[t][s]}) =
           IF Key[t][s] \in P THEN Cardinality(P) ELSE Cardinality(P) + 1
    BY <2>1, FS_AddElement
  <2>3. Cardinality(P \cup {Key[t][s]}) <= Cardinality(P) + 1
    BY <2>1, <2>2
  <2> QED
    BY <1>7, <2>3 DEF P
<1>9. Cardinality(SeenPeriods(S, t, s)) \in Nat
  BY <1>6, <1>7, FS_AddElement, FS_CardinalityType
<1>10. Cardinality(Periods(Later(T))) < n
  BY DEF OneOfLast
<1>11. Cardinality(SeenPeriods(S, t, s)) <= n
  <2> HIDE DEF Periods, Later
  <2> QED
    BY <1>5, <1>6, <1>8, <1>9, <1>10
<1>12. s \in Leaders(S, t)
  BY <1>1, <1>3 DEF OneOfLast, Leaders
<1> QED
  BY <1>11, <1>12 DEF TierKeeps

\* A snapshot that is one of the last n of a set is so in every part of it.
LEMMA OneOfLastInPart ==
  ASSUME NEW T \in SUBSET Stamp, NEW S \in SUBSET T, NEW s \in Stamp,
         NEW t \in Tier, NEW n \in Nat, OneOfLast(T, s, t, n)
  PROVE  OneOfLast(S, s, t, n)
<1> DEFINE Later(U) == {r \in U : r > s}
           Periods(U) == {Key[t][r] : r \in U}
<1>1. Later(S) \in SUBSET Later(T) /\ Later(T) \in SUBSET Stamp
  BY StampOK
<1>2. IsFiniteSet(Later(T)) /\ IsFiniteSet(Later(S))
  BY <1>1, StampOK, FS_Subset
<1>3. Cardinality(Periods(Later(S))) <= Cardinality(Periods(Later(T)))
  BY <1>1, <1>2, PeriodsGrow
<1>4. /\ Cardinality(Periods(Later(S))) \in Nat
      /\ Cardinality(Periods(Later(T))) \in Nat
  BY <1>2, PeriodsAreFinite
<1>5. Cardinality(Periods(Later(T))) < n
  BY DEF OneOfLast
<1>6. Cardinality(Periods(Later(S))) < n
  <2> HIDE DEF Periods, Later
  <2> QED
    BY <1>3, <1>4, <1>5
<1> QED
  BY <1>1, <1>6 DEF OneOfLast

-----------------------------------------------------------------------------
(* The inductive invariant.                                                *)

\* What a removed snapshot has in common with one about to be removed: a newer
\* one was taken, and a policy in use asks for it under no tier.
Expendable(s) ==
    /\ \E r \in taken : r > s
    /\ \E p \in used : \A t \in Tier : ~OneOfLast(taken, s, t, p[t])

GoneIsExpendable == \A s \in plan \cup (taken \ folder) : Expendable(s)

IInv == TypeOK /\ GoneIsExpendable /\ PlanSparesNewest

\* The types hold of an empty destination.
LEMMA InitTypeOK == Init => TypeOK
  BY DEF Init, TypeOK

\* Every step keeps the types.
LEMMA NextTypeOK ==
  ASSUME TypeOK, [Next]_vars
  PROVE  TypeOK'
<1> USE DEF TypeOK
<1>1. ASSUME NEW s \in Stamp, StartCopy(s) PROVE TypeOK'
  BY <1>1 DEF StartCopy
<1>2. ASSUME NEW s \in Stamp, WriteFile(s) PROVE TypeOK'
  BY <1>2 DEF WriteFile
<1>3. ASSUME NEW s \in Stamp, FileFails(s) PROVE TypeOK'
  BY <1>3 DEF FileFails
<1>4. ASSUME NEW s \in Stamp, CopyDone(s) PROVE TypeOK'
  BY <1>4 DEF CopyDone
<1>5. ASSUME NEW s \in Stamp, CopyStops(s) PROVE TypeOK'
  BY <1>5 DEF CopyStops
<1>6. ASSUME NEW s \in Stamp, NEW p \in Policies, PlanPrune(s, p)
      PROVE  TypeOK'
  BY <1>6 DEF PlanPrune, Remove
<1>7. ASSUME NEW s \in Stamp, NoRetention(s) PROVE TypeOK'
  BY <1>7 DEF NoRetention
<1>8. ASSUME NEW s \in Stamp, RemoveFolder(s) PROVE TypeOK'
  BY <1>8 DEF RemoveFolder
<1>9. ASSUME NEW s \in Stamp, RemoveFails(s) PROVE TypeOK'
  BY <1>9 DEF RemoveFails
<1>10. CASE Restart
  BY <1>10 DEF Restart
<1>11. CASE UNCHANGED vars
  BY <1>11 DEF vars
<1> QED
  BY <1>1, <1>2, <1>3, <1>4, <1>5, <1>6, <1>7, <1>8, <1>9, <1>10,
     <1>11 DEF Next

\* Once expendable, always expendable: snapshots and policies only come on top.
LEMMA ExpendableStays ==
  ASSUME TypeOK, TypeOK', taken \subseteq taken', used \subseteq used',
         NEW s \in Stamp, Expendable(s)
  PROVE  Expendable(s)'
<1>1. \E r \in taken' : r > s
  BY DEF Expendable
<1>2. PICK p \in used : \A t \in Tier : ~OneOfLast(taken, s, t, p[t])
  BY DEF Expendable
<1>3. p \in [Tier -> Nat]
  BY PolicyOK DEF TypeOK
<1>4. \A t \in Tier : ~OneOfLast(taken', s, t, p[t])
  BY <1>2, <1>3, OneOfLastInPart DEF TypeOK
<1> QED
  BY <1>1, <1>2, <1>4 DEF Expendable

\* What a policy removes from the folders that are left is expendable also in
\* the light of everything that was ever taken.
LEMMA PlannedIsExpendable ==
  ASSUME TypeOK, NEW p \in Policies, NEW s \in Remove(folder, p)
  PROVE  /\ \E r \in taken : r > s
         /\ \A t \in Tier : ~OneOfLast(taken, s, t, p[t])
<1> USE DEF TypeOK
<1>1. p \in [Tier -> Nat]
  BY PolicyOK
<1>2. /\ s \in folder /\ s \notin Newest(folder)
      /\ \A t \in Tier : s \notin TierKeeps(folder, t, p[t])
  BY DEF Remove, Keep
<1>3. PICK r \in folder : ~(r <= s)
  BY <1>2 DEF Newest
<1>4. r \in Nat /\ s \in Nat
  BY <1>2, StampOK
<1>5. r \in taken /\ r > s
  BY <1>3, <1>4
<1>6. \A t \in Tier : ~OneOfLast(taken, s, t, p[t])
  BY <1>1, <1>2, KeptInEveryPart
<1> QED
  BY <1>5, <1>6

\* A plan leaves the newest folder there is.
LEMMA PlanLeavesNewest ==
  ASSUME TypeOK, NEW p \in Policies, NEW s \in Remove(folder, p)
  PROVE  \E r \in folder \ Remove(folder, p) : r > s
<1>1. folder \in SUBSET Stamp /\ s \in folder
  BY DEF TypeOK, Remove
<1>2. folder \in SUBSET Nat /\ IsFiniteSet(folder) /\ folder # {}
  BY <1>1, StampOK, FS_Subset
<1>3. PICK r \in folder : r \in Newest(folder)
  BY <1>2, NewestExists
<1>4. r \notin Remove(folder, p)
  BY <1>3, NewestIsKept DEF Remove
<1>5. r >= s /\ r # s /\ r \in Nat /\ s \in Nat
  BY <1>1, <1>2, <1>3, <1>4 DEF Newest
<1> QED
  BY <1>3, <1>4, <1>5

\* The invariant holds of an empty destination.
LEMMA InitIInv == Init => IInv
  BY InitTypeOK DEF Init, IInv, GoneIsExpendable, PlanSparesNewest

\* The invariant is inductive: only expendable snapshots are ever planned, and
\* removals carry out nothing but the plan.
LEMMA NextIInv ==
  ASSUME IInv, [Next]_vars
  PROVE  IInv'
<1> USE DEF IInv
<1>1. TypeOK'
  BY NextTypeOK
<1>2. plan \subseteq folder /\ folder \subseteq taken /\ taken \subseteq Stamp
  BY DEF TypeOK
<1>3. ASSUME taken \subseteq taken', used \subseteq used',
             plan' \subseteq plan,
             taken' \ folder' \subseteq (taken \ folder) \cup plan
      PROVE  GoneIsExpendable'
  BY <1>1, <1>2, <1>3, ExpendableStays DEF GoneIsExpendable
<1>4. ASSUME plan' \subseteq plan, folder \ plan \subseteq folder' \ plan'
      PROVE  PlanSparesNewest'
  BY <1>4 DEF PlanSparesNewest
<1>5. ASSUME NEW s \in Stamp, NEW p \in Policies, PlanPrune(s, p)
      PROVE  GoneIsExpendable' /\ PlanSparesNewest'
  <2>1. /\ plan' \subseteq Remove(folder, p) /\ used' = used \cup {p}
        /\ taken' = taken /\ folder' = folder
    BY <1>5 DEF PlanPrune
  <2>2. ASSUME NEW r \in plan' PROVE Expendable(r)'
    BY <2>1, <2>2, PlannedIsExpendable DEF Expendable
  <2>3. ASSUME NEW r \in taken \ folder PROVE Expendable(r)'
    BY <1>1, <1>2, <2>1, <2>3, ExpendableStays DEF GoneIsExpendable
  <2>4. PlanSparesNewest'
    BY <2>1, PlanLeavesNewest DEF PlanSparesNewest
  <2> QED
    BY <2>1, <2>2, <2>3, <2>4 DEF GoneIsExpendable
<1>6. ASSUME NEW s \in Stamp, WriteFile(s)
      PROVE  GoneIsExpendable' /\ PlanSparesNewest'
  BY <1>2, <1>3, <1>4, <1>6 DEF WriteFile
<1>7. ASSUME NEW s \in Stamp, RemoveFolder(s)
      PROVE  GoneIsExpendable' /\ PlanSparesNewest'
  BY <1>2, <1>3, <1>4, <1>7 DEF RemoveFolder
<1>8. ASSUME NEW s \in Stamp, RemoveFails(s)
      PROVE  GoneIsExpendable' /\ PlanSparesNewest'
  BY <1>2, <1>3, <1>4, <1>8 DEF RemoveFails
<1>9. ASSUME Restart PROVE GoneIsExpendable' /\ PlanSparesNewest'
  BY <1>2, <1>3, <1>4, <1>9 DEF Restart
<1>10. ASSUME UNCHANGED <<taken, folder, plan, used>>
       PROVE  GoneIsExpendable' /\ PlanSparesNewest'
  BY <1>2, <1>3, <1>4, <1>10
<1> QED
  BY <1>1, <1>5, <1>6, <1>7, <1>8, <1>9, <1>10
  DEF Next, StartCopy, FileFails, CopyDone, CopyStops, NoRetention, vars

-----------------------------------------------------------------------------
\* Every variable keeps its type, for any stamps, tiers and policies.
THEOREM TypeInvariant == Spec => []TypeOK
  BY InitTypeOK, NextTypeOK, PTL DEF Spec

\* A snapshot that is gone had a newer one taken after it, and some policy in
\* use asked for it under no tier, counted over every snapshot ever taken:
\* pruning again and again, interleaved with copies and stopped half way, never
\* removes what a single prune of the whole history would have kept.
THEOREM HistoryKeptAlways == Spec => []HistoryKept
<1>1. IInv => HistoryKept
  BY DEF IInv, GoneIsExpendable, Expendable, HistoryKept
<1> QED
  BY <1>1, InitIInv, NextIInv, PTL DEF Spec

\* Whatever is removed while copies go on, a newer snapshot than any planned for
\* removal is there and not planned for removal itself.
THEOREM PlanSparesNewestAlways == Spec => []PlanSparesNewest
<1>1. IInv => PlanSparesNewest
  BY DEF IInv
<1> QED
  BY <1>1, InitIInv, NextIInv, PTL DEF Spec

-----------------------------------------------------------------------------
(***************************************************************************)
(* What endangers the last complete backup: a prune keeps the newest       *)
(* folder, complete or not. If it is complete whenever a prune is planned, *)
(* one complete folder at least is outside every plan (PruneSparesGood).   *)
(***************************************************************************)

\* Every prune is planned while the newest folder there is a complete one.
PlannedOnComplete ==
    [][plan = {} /\ plan' # {} => \E g \in good : g \in Newest(folder)]_vars

\* A complete folder outlives the prune that is going.
PruneSparesGood == plan # {} => \E g \in good : g \notin plan

\* No step but planning one prune more can endanger the complete folders.
LEMMA NextPruneSparesGood ==
  ASSUME TypeOK, PruneSparesGood, [Next]_vars,
         [plan = {} /\ plan' # {} => \E g \in good : g \in Newest(folder)]_vars
  PROVE  PruneSparesGood' /\ (good # {} => good' # {})
<1> USE DEF PruneSparesGood
\* Folders go only as planned.
<1>1. ASSUME plan' \subseteq plan, good \ good' \subseteq plan
      PROVE  PruneSparesGood' /\ (good # {} => good' # {})
  <2>1. CASE plan = {}
    BY <1>1, <2>1
  <2>2. CASE plan # {}
    BY <1>1, <2>2
  <2> QED
    BY <2>1, <2>2
<1>2. ASSUME NEW s \in Stamp, NEW p \in Policies, PlanPrune(s, p)
      PROVE  PruneSparesGood' /\ (good # {} => good' # {})
  <2>1. plan = {} /\ plan' \subseteq Remove(folder, p) /\ good' = good
    BY <1>2 DEF PlanPrune
  <2>2. CASE plan' # {}
    <3>1. PICK g \in good : g \in Newest(folder)
      BY <2>1, <2>2 DEF vars
    <3>2. g \notin plan'
      BY <2>1, <3>1 DEF Remove, Keep
    <3> QED
      BY <2>1, <3>1, <3>2
  <2> QED
    BY <2>1, <2>2
<1>3. ASSUME NEW s \in Stamp, RemoveFolder(s) \/ RemoveFails(s) \/ CopyDone(s)
      PROVE  PruneSparesGood' /\ (good # {} => good' # {})
  BY <1>1, <1>3 DEF RemoveFolder, RemoveFails, CopyDone
<1>4. ASSUME Restart PROVE PruneSparesGood' /\ (good # {} => good' # {})
  <2>1. CASE plan = {}
    BY <1>4, <2>1 DEF Restart
  <2>2. CASE plan # {}
    BY <1>4, <2>2 DEF Restart
  <2> QED
    BY <2>1, <2>2
<1>5. ASSUME UNCHANGED <<plan, good>> PROVE PruneSparesGood' /\ (good # {} => good' # {})
  BY <1>1, <1>5
<1> QED
  BY <1>2, <1>3, <1>4, <1>5
  DEF Next, StartCopy, WriteFile, FileFails, CopyStops, NoRetention, vars

(***************************************************************************)
(* Finding 3 has one cause. As long as no prune is planned while the       *)
(* newest folder is incomplete (runs after a run that is done with failed  *)
(* files, module.ts:297-301), no step takes the last complete backup away, *)
(* whatever is copied beside it and wherever a prune stops.                *)
(***************************************************************************)
THEOREM GoodBackupSurvivesOnComplete == Spec /\ PlannedOnComplete => GoodBackupSurvives
<1>1. Init => TypeOK /\ PruneSparesGood
  BY InitTypeOK DEF Init, PruneSparesGood
<1>2. ASSUME TypeOK, PruneSparesGood, [Next]_vars,
             [plan = {} /\ plan' # {} => \E g \in good : g \in Newest(folder)]_vars
      PROVE  (TypeOK /\ PruneSparesGood)' /\ [good # {} => good' # {}]_vars
  BY <1>2, NextTypeOK, NextPruneSparesGood
<1> QED
  BY <1>1, <1>2, PTL DEF Spec, PlannedOnComplete, GoodBackupSurvives
==============================================================================
