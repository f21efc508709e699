------------------------ MODULE HealthMonitor_proofs ------------------------
(***************************************************************************)
(* Health Monitor, for any monitors, admins, channels, routes and limits:  *)
(* what its engine does to the tables, whom a configuration sends alerts   *)
(* to, and what the history counts.  The engine comes first: its tables    *)
(* keep their types, incidents follow the status, nothing is called down   *)
(* unconfirmed, and the hourly limit is exceeded by no more than the       *)
(* checks in flight.                                                       *)
(*                                                                         *)
(* Both invariants are about a check between two of its statements.  A     *)
(* monitor that two checks never met has one check at most, so what that   *)
(* check read is still what the tables say (Sound).  And an alert that a   *)
(* check may still send is counted from the moment the limit let it pass   *)
(* (Promised).                                                             *)
(***************************************************************************)
EXTENDS HealthMonitor, HealthConfig, HealthHistory, HealthFigures, SequenceTheorems, FiniteSetTheorems, TLAPS

(***************************************************************************)
(* How far the tables and the history may be behind a check of m that is   *)
(* at k, or behind none of them.                                           *)
(***************************************************************************)
Open1(m) == Len(open[m]) = 1
Open0(m) == open[m] = <<>>
IsDown(m) == row[m].status = "down"
OpenIf(m, p) == IF p THEN Open1(m) ELSE Open0(m)

OnTrack(m, k) ==
    /\ failRun[m] = IF k.at = "save" THEN k.fails ELSE row[m].fails
    /\ k.at = "observe" => k.fails = row[m].fails
    /\ k.at \in {"observe", "save"} => k.was = row[m].status
    /\ k.at = "save" /\ k.now = "down" /\ k.was # "down" => k.fails >= Confirm
    /\ k.at = "judge" => k.now = row[m].status /\ OpenIf(m, k.was = "down")
    /\ k.at = "open" => IsDown(m) /\ Open0(m)
    /\ k.at \in {"recovered", "close"} => ~IsDown(m) /\ Open1(m)
    /\ k.at = "close" => open[m][1] = k.incident
    /\ k.at \notin {"judge", "open", "recovered", "close"} => OpenIf(m, IsDown(m))

Sound(m) ==
    /\ \A c, d \in ChecksOf(m) : c = d
    /\ \A c \in ChecksOf(m) : OnTrack(m, check[c])
    /\ ChecksOf(m) = {} => OnTrack(m, NoCheck)

SoundUnlessDisturbed == \A m \in Monitor \ disturbed : Sound(m)

EngineIInv == TypeOK /\ SoundUnlessDisturbed

(***************************************************************************)
(* The alerts that checks under way may still send.                        *)
(***************************************************************************)
Owes(k, i) ==
    \/ k.at \in {"open", "opened", "recovered", "close"} /\ ~k.blocked
    \/ k.at = "repeat"
    \/ k.at = "send" /\ i <= k.left

Promised == {p \in Checker \X (1..Channels) : Owes(check[p[1]], p[2])}
Batch == {m \in Monitor : Running(m)}
InFlight == MaxConcurrent + Cardinality(Clicker)

AlertsIInv ==
    /\ Cardinality(Batch) <= MaxConcurrent
    /\ logged + Cardinality(Promised) < Ceiling + Channels * InFlight

-----------------------------------------------------------------------------
(***************************************************************************)
(* Sequences without repetitions stay so when an element is added that was *)
(* not in them and when one is taken out.                                  *)
(***************************************************************************)
LEMMA AppendKeeps ==
    ASSUME NEW S, NEW s \in Seq(S), IsInjective(s), NEW e \in S, e \notin ToSet(s)
    PROVE  Append(s, e) \in Seq(S) /\ IsInjective(Append(s, e))
<1>1. \A i \in DOMAIN s : s[i] # e
  BY DEF ToSet
<1>2. Append(s, e) \in Seq(S) /\ Len(Append(s, e)) = Len(s) + 1 /\ Len(s) \in Nat
  OBVIOUS
<1>3. DOMAIN Append(s, e) = 1..(Len(s) + 1) /\ DOMAIN s = 1..Len(s)
  BY <1>2
<1>4. \A i \in 1..Len(s) : Append(s, e)[i] = s[i]
  OBVIOUS
<1>5. Append(s, e)[Len(s) + 1] = e
  OBVIOUS
<1>6. \A a, b \in 1..(Len(s) + 1) : Append(s, e)[a] = Append(s, e)[b] => a = b
  <2>. SUFFICES ASSUME NEW a \in 1..(Len(s) + 1), NEW b \in 1..(Len(s) + 1), Append(s, e)[a] = Append(s, e)[b]
                PROVE  a = b
    OBVIOUS
  <2>1. CASE a \in 1..Len(s) /\ b \in 1..Len(s)
    BY <2>1, <1>3, <1>4 DEF IsInjective
  <2>2. CASE a = Len(s) + 1 \/ b = Len(s) + 1
    BY <2>2, <1>1, <1>2, <1>3, <1>4, <1>5
  <2>. QED BY <2>1, <2>2, <1>2
<1>. QED BY <1>2, <1>3, <1>6 DEF IsInjective

LEMMA WithoutKeeps ==
    ASSUME NEW S, NEW s \in Seq(S), IsInjective(s), NEW e
    PROVE  Without(s, e) \in Seq(S) /\ IsInjective(Without(s, e))
<1>1. CASE e \notin ToSet(s)
  BY <1>1 DEF Without
<1>2. CASE e \in ToSet(s)
  <2>1. PICK n : n = CHOOSE i \in DOMAIN s : s[i] = e
    OBVIOUS
  <2>2. n \in DOMAIN s /\ s[n] = e
    BY <2>1, <1>2 DEF ToSet
  <2>3. Without(s, e) = SubSeq(s, 1, n - 1) \o SubSeq(s, n + 1, Len(s))
    BY <2>1, <1>2 DEF Without, RemoveAt
  <2>4. Len(s) \in Nat /\ DOMAIN s = 1..Len(s) /\ n \in 1..Len(s)
    BY <2>2
  <2>5. PICK t : t = SubSeq(s, 1, n - 1)
    OBVIOUS
  <2>6. PICK u : u = SubSeq(s, n + 1, Len(s))
    OBVIOUS
  <2>7. t \in Seq(S) /\ Len(t) = n - 1 /\ \A i \in 1..(n - 1) : t[i] = s[i]
    <3>1. \A i \in 1..(n - 1) : s[i] \in S
      BY <2>4, ElementOfSeq
    <3>. QED BY <3>1, <2>4, <2>5, SubSeqProperties
  <2>8. u \in Seq(S) /\ Len(u) = Len(s) - n /\ \A i \in 1..(Len(s) - n) : u[i] = s[n + i]
    <3>1. \A i \in (n + 1)..Len(s) : s[i] \in S
      BY <2>4, ElementOfSeq
    <3>2. SubSeq(s, n + 1, Len(s)) \in Seq(S)
      BY <3>1, <2>4, SubSeqProperties
    <3>3. Len(u) = Len(s) - n
      <4>1. n + 1 \in Int /\ Len(s) \in Int
        BY <2>4
      <4>2. Len(u) = IF n + 1 <= Len(s) THEN Len(s) - (n + 1) + 1 ELSE 0
        BY <3>1, <4>1, <2>6, SubSeqProperties
      <4>3. \A l \in Nat : \A i \in 1..l : (IF i + 1 <= l THEN l - (i + 1) + 1 ELSE 0) = l - i
        OBVIOUS
      <4>4. (IF n + 1 <= Len(s) THEN Len(s) - (n + 1) + 1 ELSE 0) = Len(s) - n
        BY <2>4, <4>3
      <4>. QED BY <4>2, <4>4
    <3>4. \A i \in 1..(Len(s) - (n + 1) + 1) : SubSeq(s, n + 1, Len(s))[i] = s[(n + 1) + i - 1]
      BY <3>1, <2>4, SubSeqProperties
    <3>5. \A i \in 1..(Len(s) - n) : SubSeq(s, n + 1, Len(s))[i] = s[n + i]
      BY <3>4, <2>4
    <3>. QED BY <3>2, <3>3, <3>5, <2>6
  <2>9. t \o u \in Seq(S) /\ Len(t \o u) = Len(s) - 1
    <3>1. t \o u \in Seq(S) /\ Len(t \o u) = Len(t) + Len(u)
      BY <2>7, <2>8, ConcatProperties
    <3>. QED BY <3>1, <2>7, <2>8, <2>4
  <2>10. \A i \in 1..(Len(s) - 1) : (t \o u)[i] = IF i <= n - 1 THEN s[i] ELSE s[i + 1]
    <3>. SUFFICES ASSUME NEW i \in 1..(Len(s) - 1)
                  PROVE  (t \o u)[i] = IF i <= n - 1 THEN s[i] ELSE s[i + 1]
      OBVIOUS
    <3>1. (t \o u)[i] = IF i <= Len(t) THEN t[i] ELSE u[i - Len(t)]
      BY <2>7, <2>8, <2>4, ConcatProperties
    <3>2. CASE i <= n - 1
      BY <3>1, <3>2, <2>7, <2>4
    <3>3. CASE ~(i <= n - 1)
      <4>1. i - Len(t) \in 1..(Len(s) - n) /\ n + (i - Len(t)) = i + 1
        BY <3>3, <2>7, <2>4
      <4>. QED BY <4>1, <3>1, <3>3, <2>7, <2>8
    <3>. QED BY <3>2, <3>3
  <2>11. IsInjective(t \o u)
    <3>1. DOMAIN (t \o u) = 1..(Len(s) - 1)
      BY <2>9
    <3>. SUFFICES ASSUME NEW a \in 1..(Len(s) - 1), NEW b \in 1..(Len(s) - 1), (t \o u)[a] = (t \o u)[b]
                  PROVE  a = b
      BY <3>1 DEF IsInjective
    <3>2. \A i, j \in 1..Len(s) : s[i] = s[j] => i = j
      BY <2>4 DEF IsInjective
    <3>3. a \in 1..Len(s) /\ b \in 1..Len(s) /\ a + 1 \in 1..Len(s) /\ b + 1 \in 1..Len(s)
      BY <2>4
    <3>4. CASE a <= n - 1 /\ b <= n - 1
      BY <3>2, <3>3, <3>4, <2>10
    <3>5. CASE a <= n - 1 /\ ~(b <= n - 1)
      <4>1. a = b + 1
        BY <3>2, <3>3, <3>5, <2>10
      <4>. QED BY <4>1, <3>5, <2>4
    <3>6. CASE ~(a <= n - 1) /\ b <= n - 1
      <4>1. a + 1 = b
        BY <3>2, <3>3, <3>6, <2>10
      <4>. QED BY <4>1, <3>6, <2>4
    <3>7. CASE ~(a <= n - 1) /\ ~(b <= n - 1)
      <4>1. a + 1 = b + 1
        BY <3>2, <3>3, <3>7, <2>10
      <4>. QED BY <4>1
    <3>. QED BY <3>4, <3>5, <3>6, <3>7
  <2>. QED BY <2>3, <2>5, <2>6, <2>9, <2>11
<1>. QED BY <1>1, <1>2

\* An only element is taken out.
LEMMA WithoutOnly ==
    ASSUME NEW S, NEW s \in Seq(S), Len(s) = 1
    PROVE  Without(s, s[1]) = <<>>
<1>1. s[1] \in ToSet(s) /\ DOMAIN s = {1}
  BY DEF ToSet
<1>2. (CHOOSE n \in DOMAIN s : s[n] = s[1]) = 1
  BY <1>1
<1>3. Without(s, s[1]) = SubSeq(s, 1, 0) \o SubSeq(s, 2, 1)
  BY <1>1, <1>2 DEF Without, RemoveAt
<1>4. SubSeq(s, 1, 0) = <<>> /\ SubSeq(s, 2, 1) = <<>>
  BY SubSeqEmpty
<1>. QED BY <1>3, <1>4

-----------------------------------------------------------------------------
(* What the proofs need of the types. *)

LEMMA Constants ==
    /\ Monitor \subseteq Checker /\ Clicker \subseteq Checker
    /\ Confirm \in Nat /\ MaxConcurrent \in Nat /\ Ceiling \in Nat /\ Channels \in Nat
    /\ Confirm > 0 /\ MaxConcurrent > 0 /\ Ceiling > 0 /\ Channels > 0
BY ConstantsOK DEF Checker

LEMMA Kinds ==
    ASSUME NEW k \in Check \cup {NoCheck}
    PROVE  /\ k.at = "idle" => k = NoCheck
           /\ k.at \in {"idle", "observe", "save", "judge", "open", "opened", "recovered", "close", "repeat", "send"}
           /\ k.at = "observe" => k \in [at : {"observe"}, of : Monitor, was : State, fails : 0..Confirm]
           /\ k.at = "save" => k \in [at : {"save"}, of : Monitor, was : State, now : State, fails : 0..Confirm]
           /\ k.at = "judge" => k \in [at : {"judge"}, of : Monitor, was : State, now : State]
           /\ k.at \in {"open", "opened", "recovered"} => k \in [at : {"open", "opened", "recovered"}, of : Monitor, blocked : BOOLEAN]
           /\ k.at = "close" => k \in [at : {"close"}, of : Monitor, blocked : BOOLEAN, incident : Incident]
           /\ k.at = "repeat" => k \in [at : {"repeat"}, of : Monitor]
           /\ k.at = "send" => k \in [at : {"send"}, of : Monitor, left : 1..Channels]
           /\ k # NoCheck => k.of \in Monitor
BY DEF Check, NoCheck

LEMMA Idle == NoCheck.at = "idle" /\ NoCheck \notin Check
BY DEF NoCheck, Check

-----------------------------------------------------------------------------
(***************************************************************************)
(* The tables keep their types.                                            *)
(***************************************************************************)
LEMMA InitType == Init => TypeOK
<1>. SUFFICES ASSUME Init PROVE TypeOK
  OBVIOUS
<1>. USE DEF Init
<1>1. row \in [Monitor -> [status : State, fails : 0..Confirm]]
  BY Constants DEF State
<1>2. due \in Seq(Monitor) /\ IsInjective(due)
  <2>1. PICK n : n = Cardinality(Monitor)
    OBVIOUS
  <2>2. n \in Nat
    BY <2>1, ConstantsOK, FS_CardinalityType
  <2>3. due \in [1..n -> Monitor] /\ \A i, j \in 1..n : i # j => due[i] # due[j]
    BY <2>1 DEF SetToSeqs
  <2>. QED BY <2>2, <2>3 DEF IsInjective
<1>3. open \in [Monitor -> Seq(Incident)] /\ \A m \in Monitor : IsInjective(open[m])
  BY DEF IsInjective
<1>4. logged \in Nat /\ enabled \subseteq Monitor /\ disturbed \subseteq Monitor
  OBVIOUS
<1>5. check \in [Checker -> Check \cup {NoCheck}]
  OBVIOUS
<1>6. \A m \in Monitor : Running(m) => check[m].of = m
  BY Constants DEF Running
<1>7. failRun \in [Monitor -> 0..Confirm]
  BY Constants
<1>. QED BY <1>1, <1>2, <1>3, <1>4, <1>5, <1>6, <1>7 DEF TypeOK

\* One check goes on, to a place that fits its monitor, or ends.
LEMMA ContinueType ==
    ASSUME TypeOK, NEW c \in Checker, NEW k \in Check \cup {NoCheck},
           Running(c), k = NoCheck \/ k.of = check[c].of, Continue(c, k)
    PROVE  /\ check' \in [Checker -> Check \cup {NoCheck}]
           /\ \A m \in Monitor : Running(m)' => check'[m].of = m
<1>1. check \in [Checker -> Check \cup {NoCheck}]
  BY DEF TypeOK
<1>2. check' = [check EXCEPT ![c] = k]
  BY DEF Continue
<1>3. check' \in [Checker -> Check \cup {NoCheck}]
  BY <1>1, <1>2
<1>4. \A m \in Monitor : Running(m)' => check'[m].of = m
  BY <1>1, <1>2, Constants DEF Running, TypeOK
<1>. QED BY <1>3, <1>4

LEMMA AtRuns ==
    ASSUME TypeOK, NEW c \in Checker, check[c].at # "idle"
    PROVE  Running(c) /\ check[c].of \in Monitor
BY Idle, Kinds DEF TypeOK, Running

-----------------------------------------------------------------------------
(* What each step of a check does, as far as the invariants care.          *)

\* The check is c's, and of a monitor; it goes on to k.
Goes(c, k) ==
    /\ Running(c) /\ check[c].of \in Monitor
    /\ k \in Check \cup {NoCheck}
    /\ k = NoCheck \/ k.of = check[c].of
    /\ Continue(c, k)
    /\ UNCHANGED <<enabled, disturbed>>

OwesNoMore(k, c) == \A i \in 1..Channels : Owes(k, i) => Owes(check[c], i)

LEMMA ObserveStep ==
    ASSUME TypeOK, NEW c \in Checker, Observe(c)
    PROVE  \E k : \E r \in 0..Confirm :
             /\ Goes(c, k) /\ OwesNoMore(k, c)
             /\ At(c, "observe") /\ k.at = "save" /\ k.was = check[c].was
             /\ k.now = "down" /\ k.was # "down" => k.fails >= Confirm
             /\ failRun' = [failRun EXCEPT ![check[c].of] = r]
             /\ check[c].of \notin disturbed /\ failRun[check[c].of] = check[c].fails => r = k.fails
             /\ UNCHANGED <<row, due, open, logged>>
<1>1. check[c] \in [at : {"observe"}, of : Monitor, was : State, fails : 0..Confirm] /\ Running(c)
  BY AtRuns, Kinds DEF Observe, At, TypeOK
<1>2. PICK seen \in Observed :
         LET k       == check[c]
             failing == seen = "down"
             fails   == IF failing THEN AtMost(k.fails + 1, Confirm) ELSE 0
             now     == IF ~failing THEN seen
                        ELSE IF fails >= Confirm THEN "down" ELSE k.was
         IN  /\ Continue(c, [at |-> "save", of |-> k.of, was |-> k.was,
                             now |-> now, fails |-> fails])
             /\ failRun' = [failRun EXCEPT ![k.of] =
                              IF failing /\ k.of \notin disturbed
                              THEN AtMost(@ + 1, Confirm) ELSE 0]
  BY DEF Observe
<1>3. PICK f : f = IF seen = "down" THEN AtMost(check[c].fails + 1, Confirm) ELSE 0
  OBVIOUS
<1>4. PICK n : n = IF ~(seen = "down") THEN seen ELSE IF f >= Confirm THEN "down" ELSE check[c].was
  OBVIOUS
<1>5. PICK r : r = IF seen = "down" /\ check[c].of \notin disturbed THEN AtMost(failRun[check[c].of] + 1, Confirm) ELSE 0
  OBVIOUS
<1>6. PICK k : k = [at |-> "save", of |-> check[c].of, was |-> check[c].was, now |-> n, fails |-> f]
  OBVIOUS
<1>7. f \in 0..Confirm
  BY <1>3, <1>1, Constants DEF AtMost
<1>8. n \in State
  BY <1>4, <1>1 DEF State, Observed
<1>9. r \in 0..Confirm
  BY <1>5, <1>1, Constants DEF AtMost, TypeOK
<1>10. Continue(c, k)
  BY <1>2, <1>3, <1>4, <1>6, Zenon
<1>11. failRun' = [failRun EXCEPT ![check[c].of] = r]
  BY <1>2, <1>5, <1>1, Zenon DEF TypeOK
<1>12. k \in Check /\ k.of = check[c].of /\ k.at = "save" /\ k.was = check[c].was
  BY <1>1, <1>6, <1>7, <1>8 DEF Check
<1>13. k.now = "down" /\ k.was # "down" => k.fails >= Confirm
  BY <1>6, <1>4 DEF Observed
<1>14. check[c].of \notin disturbed /\ failRun[check[c].of] = check[c].fails => r = k.fails
  BY <1>3, <1>5, <1>6
<1>15. OwesNoMore(k, c)
  BY <1>12 DEF OwesNoMore, Owes
<1>16. At(c, "observe") /\ UNCHANGED <<row, due, open, logged, enabled, disturbed>>
  BY DEF Observe, tables
<1>17. Running(c) /\ check[c].of \in Monitor
  BY <1>1
<1>18. Goes(c, k)
  BY <1>10, <1>12, <1>16, <1>17 DEF Goes
<1>. QED BY <1>18, <1>9, <1>11, <1>12, <1>13, <1>14, <1>15, <1>16

LEMMA SaveStep ==
    ASSUME TypeOK, NEW c \in Checker, Save(c)
    PROVE  \E k :
             /\ Goes(c, k) /\ OwesNoMore(k, c)
             /\ At(c, "save") /\ k.at = "judge" /\ k.was = check[c].was /\ k.now = check[c].now
             /\ check[c].now \in State /\ check[c].fails \in 0..Confirm
             /\ row' = [row EXCEPT ![check[c].of] = [status |-> check[c].now, fails |-> check[c].fails]]
             /\ due' = Without(due, check[c].of)
             /\ UNCHANGED <<open, logged, failRun>>
<1>1. check[c] \in [at : {"save"}, of : Monitor, was : State, now : State, fails : 0..Confirm] /\ Running(c)
  BY AtRuns, Kinds DEF Save, At, TypeOK
<1>2. PICK k : k = [at |-> "judge", of |-> check[c].of, was |-> check[c].was, now |-> check[c].now]
  OBVIOUS
<1>3. k \in Check /\ k.of = check[c].of /\ k.at = "judge" /\ k.was = check[c].was /\ k.now = check[c].now
  BY <1>1, <1>2 DEF Check
<1>4. OwesNoMore(k, c)
  BY <1>3 DEF OwesNoMore, Owes
<1>5. /\ At(c, "save") /\ Continue(c, k)
      /\ row' = [row EXCEPT ![check[c].of] = [status |-> check[c].now, fails |-> check[c].fails]]
      /\ due' = Without(due, check[c].of)
      /\ UNCHANGED <<open, logged, failRun, enabled, disturbed>>
  BY <1>2 DEF Save
<1>. QED BY <1>1, <1>3, <1>4, <1>5 DEF Goes

LEMMA JudgeStep ==
    ASSUME TypeOK, NEW c \in Checker, Judge(c)
    PROVE  \E k :
             /\ Goes(c, k) /\ At(c, "judge")
             /\ GoesDown(check[c]) => k.at = "open"
             /\ ComesBack(check[c]) => k.at = "recovered"
             /\ ~GoesDown(check[c]) /\ ~ComesBack(check[c]) => k.at \in {"idle", "repeat", "send"}
             /\ LimitReached => \A i : ~Owes(k, i)
             /\ UNCHANGED <<tables, failRun>>
<1>1. check[c] \in [at : {"judge"}, of : Monitor, was : State, now : State] /\ Running(c)
  BY AtRuns, Kinds DEF Judge, At, TypeOK
<1>2. PICK hush \in BOOLEAN :
         LET k       == check[c]
             blocked == hush \/ ParentDown(k.of) \/ LimitReached
         IN  Continue(c,
               CASE GoesDown(k)  -> [at |-> "open", of |-> k.of, blocked |-> blocked]
                 [] ComesBack(k) -> [at |-> "recovered", of |-> k.of, blocked |-> blocked]
                 [] StaysDown(k) /\ Repeats /\ ~blocked -> [at |-> "repeat", of |-> k.of]
                 [] NewlyDegraded(k) /\ ~blocked -> Sending(k.of)
                 [] OTHER -> NoCheck)
  BY DEF Judge
<1>3. PICK b \in BOOLEAN : b = (hush \/ ParentDown(check[c].of) \/ LimitReached)
  OBVIOUS
<1>4. PICK k : k = CASE GoesDown(check[c])  -> [at |-> "open", of |-> check[c].of, blocked |-> b]
                 [] ComesBack(check[c]) -> [at |-> "recovered", of |-> check[c].of, blocked |-> b]
                 [] StaysDown(check[c]) /\ Repeats /\ ~b -> [at |-> "repeat", of |-> check[c].of]
                 [] NewlyDegraded(check[c]) /\ ~b -> Sending(check[c].of)
                 [] OTHER -> NoCheck
  OBVIOUS
<1>5. Continue(c, k)
  BY <1>2, <1>3, <1>4, Zenon
<1>6. LimitReached => b
  BY <1>3
<1>10. Running(c) /\ check[c].of \in Monitor
  BY <1>1
<1>11. At(c, "judge") /\ UNCHANGED <<tables, failRun>> /\ UNCHANGED <<enabled, disturbed>>
  BY DEF Judge, tables
<1>7. CASE GoesDown(check[c])
  <2>1. k = [at |-> "open", of |-> check[c].of, blocked |-> b]
    BY <1>4, <1>7 DEF GoesDown, ComesBack, StaysDown, NewlyDegraded
  <2>2. k \in Check /\ k.of = check[c].of /\ k.at = "open" /\ k.blocked = b
    BY <2>1, <1>10, <1>3 DEF Check
  <2>3. LimitReached => \A i : ~Owes(k, i)
    BY <2>2, <1>6 DEF Owes
  <2>4. Goes(c, k)
    BY <2>2, <1>5, <1>10, <1>11 DEF Goes, tables
  <2>5. GoesDown(check[c]) => ~ComesBack(check[c])
    BY DEF GoesDown, ComesBack
  <2>. QED BY <2>2, <2>3, <2>4, <2>5, <1>11, <1>7
<1>8. CASE ComesBack(check[c])
  <2>1. k = [at |-> "recovered", of |-> check[c].of, blocked |-> b]
    BY <1>4, <1>8 DEF GoesDown, ComesBack, StaysDown, NewlyDegraded
  <2>2. k \in Check /\ k.of = check[c].of /\ k.at = "recovered" /\ k.blocked = b
    BY <2>1, <1>10, <1>3 DEF Check
  <2>3. LimitReached => \A i : ~Owes(k, i)
    BY <2>2, <1>6 DEF Owes
  <2>4. Goes(c, k)
    BY <2>2, <1>5, <1>10, <1>11 DEF Goes, tables
  <2>5. GoesDown(check[c]) => ~ComesBack(check[c])
    BY DEF GoesDown, ComesBack
  <2>. QED BY <2>2, <2>3, <2>4, <2>5, <1>11, <1>8
<1>9. CASE ~GoesDown(check[c]) /\ ~ComesBack(check[c])
  <2>1. \/ ~b /\ k = [at |-> "repeat", of |-> check[c].of]
        \/ ~b /\ k = Sending(check[c].of)
        \/ k = NoCheck
    BY <1>4, <1>9
  <2>2. k \in Check \cup {NoCheck} /\ (k = NoCheck \/ k.of = check[c].of)
    BY <2>1, <1>1, Constants DEF Check, Sending
  <2>3. k.at \in {"idle", "repeat", "send"} /\ (LimitReached => k.at = "idle")
    BY <2>1, <1>6, Idle DEF Sending
  <2>4. LimitReached => \A i : ~Owes(k, i)
    BY <2>3 DEF Owes
  <2>5. Goes(c, k)
    BY <2>2, <1>5, <1>10, <1>11 DEF Goes, tables
  <2>. QED BY <2>3, <2>4, <2>5, <1>9, <1>11
<1>. QED BY <1>7, <1>8, <1>9

\* To send, unless something stands against it.
LEMMA SendUnlessStep ==
    ASSUME NEW c, NEW b \in BOOLEAN, check[c].of \in Monitor, SendUnless(b, c)
    PROVE  \E k : /\ k \in Check \cup {NoCheck} /\ (k = NoCheck \/ k.of = check[c].of)
                  /\ Continue(c, k) /\ k.at \in {"idle", "send"} /\ (b => k.at = "idle")
<1>1. PICK k : k = IF b THEN NoCheck ELSE Sending(check[c].of)
  OBVIOUS
<1>2. Continue(c, k)
  BY <1>1, Zenon DEF SendUnless
<1>3. k \in Check \cup {NoCheck} /\ (k = NoCheck \/ k.of = check[c].of)
  BY <1>1, Constants DEF Sending, Check
<1>4. k.at \in {"idle", "send"} /\ (b => k.at = "idle")
  BY <1>1, Idle DEF Sending
<1>. QED BY <1>2, <1>3, <1>4

LEMMA OpenStep ==
    ASSUME TypeOK, NEW c \in Checker, Open(c)
    PROVE  \E k :
             /\ Goes(c, k) /\ OwesNoMore(k, c)
             /\ At(c, "open") /\ k.at = "opened"
             /\ \/ open' = open /\ Unused(check[c].of) = {}
                \/ \E i \in Unused(check[c].of) :
                      open' = [open EXCEPT ![check[c].of] = Append(open[check[c].of], i)]
             /\ UNCHANGED <<row, due, logged, failRun>>
<1>1. check[c] \in [at : {"open", "opened", "recovered"}, of : Monitor, blocked : BOOLEAN] /\ Running(c)
  BY AtRuns, Kinds DEF Open, At, TypeOK
<1>2. PICK k : k = [check[c] EXCEPT !.at = "opened"]
  OBVIOUS
<1>3. k \in Check /\ k.of = check[c].of /\ k.at = "opened" /\ k.blocked = check[c].blocked
  BY <1>1, <1>2 DEF Check
<1>4. At(c, "open") /\ Continue(c, k) /\ UNCHANGED <<row, due, logged, failRun, enabled, disturbed>>
  BY <1>2 DEF Open
<1>5. OwesNoMore(k, c)
  BY <1>3, <1>4 DEF OwesNoMore, Owes, At
<1>6. Running(c) /\ check[c].of \in Monitor
  BY <1>1
<1>7. Goes(c, k)
  BY <1>3, <1>4, <1>6 DEF Goes
<1>8. \/ open' = open /\ Unused(check[c].of) = {}
      \/ \E i \in Unused(check[c].of) :
            open' = [open EXCEPT ![check[c].of] = Append(open[check[c].of], i)]
  <2>1. CASE Unused(check[c].of) = {}
    BY <2>1 DEF Open
  <2>2. CASE Unused(check[c].of) # {}
    <3>1. PICK i : i = CHOOSE j \in Unused(check[c].of) : TRUE
      OBVIOUS
    <3>2. i \in Unused(check[c].of)
      BY <3>1, <2>2
    <3>3. open' = [open EXCEPT ![check[c].of] = Append(open[check[c].of], i)]
      BY <3>1, <2>2, <1>6 DEF Open, TypeOK
    <3>. QED BY <3>2, <3>3
  <2>. QED BY <2>1, <2>2
<1>. QED BY <1>3, <1>4, <1>5, <1>7, <1>8

LEMMA OpenedStep ==
    ASSUME TypeOK, NEW c \in Checker, Opened(c)
    PROVE  \E k :
             /\ Goes(c, k) /\ OwesNoMore(k, c)
             /\ At(c, "opened") /\ k.at \in {"idle", "send"}
             /\ UNCHANGED <<tables, failRun>>
<1>1. check[c] \in [at : {"open", "opened", "recovered"}, of : Monitor, blocked : BOOLEAN] /\ Running(c)
  BY AtRuns, Kinds DEF Opened, At, TypeOK
<1>2. PICK b \in BOOLEAN : b = (check[c].blocked \/ open[check[c].of] = <<>>)
  OBVIOUS
<1>3. At(c, "opened") /\ SendUnless(b, c) /\ UNCHANGED <<tables, failRun>> /\ UNCHANGED <<enabled, disturbed>>
  BY <1>2, Zenon DEF Opened, tables
<1>4. Running(c) /\ check[c].of \in Monitor /\ (check[c].blocked => b)
  BY <1>1, <1>2
<1>5. PICK k : /\ k \in Check \cup {NoCheck} /\ (k = NoCheck \/ k.of = check[c].of)
               /\ Continue(c, k) /\ k.at \in {"idle", "send"} /\ (b => k.at = "idle")
  BY <1>3, <1>4, SendUnlessStep
<1>6. OwesNoMore(k, c)
  BY <1>3, <1>4, <1>5 DEF OwesNoMore, Owes, At
<1>7. Goes(c, k)
  BY <1>3, <1>4, <1>5 DEF Goes
<1>. QED BY <1>3, <1>5, <1>6, <1>7

LEMMA RecoveredStep ==
    ASSUME TypeOK, NEW c \in Checker, Recovered(c)
    PROVE  \E k :
             /\ Goes(c, k) /\ OwesNoMore(k, c)
             /\ At(c, "recovered")
             /\ open[check[c].of] = <<>> => k.at \in {"idle", "send"}
             /\ open[check[c].of] # <<>> => k.at = "close" /\ k.incident = Last(open[check[c].of])
             /\ UNCHANGED <<tables, failRun>>
<1>1. check[c] \in [at : {"open", "opened", "recovered"}, of : Monitor, blocked : BOOLEAN] /\ Running(c)
  BY AtRuns, Kinds DEF Recovered, At, TypeOK
<1>2. At(c, "recovered") /\ UNCHANGED <<tables, failRun>> /\ UNCHANGED <<enabled, disturbed>>
  BY DEF Recovered, tables
<1>3. Running(c) /\ check[c].of \in Monitor /\ check[c].blocked \in BOOLEAN
  BY <1>1
<1>4. CASE open[check[c].of] = <<>>
  <2>1. SendUnless(check[c].blocked, c)
    BY <1>4 DEF Recovered
  <2>2. PICK k : /\ k \in Check \cup {NoCheck} /\ (k = NoCheck \/ k.of = check[c].of)
                 /\ Continue(c, k) /\ k.at \in {"idle", "send"} /\ (check[c].blocked => k.at = "idle")
    BY <2>1, <1>3, SendUnlessStep
  <2>3. OwesNoMore(k, c)
    BY <1>2, <1>3, <2>2 DEF OwesNoMore, Owes, At
  <2>4. Goes(c, k)
    BY <1>2, <1>3, <2>2 DEF Goes
  <2>. QED BY <1>2, <1>4, <2>2, <2>3, <2>4
<1>5. CASE open[check[c].of] # <<>>
  <2>1. PICK k : k = [at |-> "close", of |-> check[c].of, blocked |-> check[c].blocked,
                      incident |-> Last(open[check[c].of])]
    OBVIOUS
  <2>2. Continue(c, k)
    BY <1>5, <2>1 DEF Recovered
  <2>3. Last(open[check[c].of]) \in Incident
    <3>1. PICK s : s = open[check[c].of]
      OBVIOUS
    <3>2. s \in Seq(Incident) /\ s # <<>>
      BY <3>1, <1>3, <1>5 DEF TypeOK
    <3>3. Len(s) \in 1..Len(s)
      BY <3>2, EmptySeq
    <3>4. s[Len(s)] \in Incident
      BY <3>2, <3>3, ElementOfSeq
    <3>. QED BY <3>1, <3>4 DEF Last
  <2>4. /\ k \in Check /\ k.of = check[c].of /\ k.at = "close" /\ k.blocked = check[c].blocked
        /\ k.incident = Last(open[check[c].of])
    BY <2>1, <2>3, <1>3 DEF Check
  <2>5. OwesNoMore(k, c)
    BY <2>4, <1>2 DEF OwesNoMore, Owes, At
  <2>6. Goes(c, k)
    BY <2>2, <2>4, <1>2, <1>3 DEF Goes
  <2>. QED BY <1>2, <1>5, <2>4, <2>5, <2>6
<1>. QED BY <1>4, <1>5

LEMMA CloseStep ==
    ASSUME TypeOK, NEW c \in Checker, Close(c)
    PROVE  \E k :
             /\ Goes(c, k) /\ OwesNoMore(k, c)
             /\ At(c, "close") /\ k.at \in {"idle", "send"}
             /\ open' = [open EXCEPT ![check[c].of] = Without(open[check[c].of], check[c].incident)]
             /\ UNCHANGED <<row, due, logged, failRun>>
<1>1. check[c] \in [at : {"close"}, of : Monitor, blocked : BOOLEAN, incident : Incident] /\ Running(c)
  BY AtRuns, Kinds DEF Close, At, TypeOK
<1>2. At(c, "close") /\ SendUnless(check[c].blocked, c) /\ UNCHANGED <<row, due, logged, failRun, enabled, disturbed>>
  BY DEF Close
<1>3. Running(c) /\ check[c].of \in Monitor /\ check[c].blocked \in BOOLEAN
  BY <1>1
<1>4. PICK k : /\ k \in Check \cup {NoCheck} /\ (k = NoCheck \/ k.of = check[c].of)
               /\ Continue(c, k) /\ k.at \in {"idle", "send"} /\ (check[c].blocked => k.at = "idle")
  BY <1>2, <1>3, SendUnlessStep
<1>5. OwesNoMore(k, c)
  BY <1>2, <1>3, <1>4 DEF OwesNoMore, Owes, At
<1>6. Goes(c, k)
  BY <1>2, <1>3, <1>4 DEF Goes
<1>7. open' = [open EXCEPT ![check[c].of] = Without(open[check[c].of], check[c].incident)]
  BY <1>3 DEF Close, TypeOK
<1>. QED BY <1>2, <1>4, <1>5, <1>6, <1>7

LEMMA RepeatStep ==
    ASSUME TypeOK, NEW c \in Checker, Repeat(c)
    PROVE  \E k :
             /\ Goes(c, k) /\ OwesNoMore(k, c)
             /\ At(c, "repeat") /\ k.at \in {"idle", "send"}
             /\ UNCHANGED <<tables, failRun>>
<1>1. At(c, "repeat") /\ UNCHANGED <<tables, failRun>> /\ UNCHANGED <<enabled, disturbed>>
  BY DEF Repeat, tables
<1>2. Running(c) /\ check[c].of \in Monitor
  BY <1>1, AtRuns DEF At
<1>3. PICK tooSoon \in BOOLEAN : SendUnless(tooSoon \/ open[check[c].of] = <<>>, c)
  BY DEF Repeat
<1>4. PICK b \in BOOLEAN : b = (tooSoon \/ open[check[c].of] = <<>>)
  OBVIOUS
<1>5. SendUnless(b, c)
  BY <1>3, <1>4, Zenon
<1>6. PICK k : /\ k \in Check \cup {NoCheck} /\ (k = NoCheck \/ k.of = check[c].of)
               /\ Continue(c, k) /\ k.at \in {"idle", "send"} /\ (b => k.at = "idle")
  BY <1>2, <1>5, SendUnlessStep
<1>7. OwesNoMore(k, c)
  BY <1>1, <1>6 DEF OwesNoMore, Owes, At
<1>8. Goes(c, k)
  BY <1>1, <1>2, <1>6 DEF Goes
<1>. QED BY <1>1, <1>6, <1>7, <1>8

LEMMA SendStep ==
    ASSUME TypeOK, NEW c \in Checker, Send(c)
    PROVE  \E k :
             /\ Goes(c, k)
             /\ At(c, "send") /\ k.at \in {"idle", "send"}
             /\ check[c].left \in 1..Channels
             /\ Owes(check[c], check[c].left)
             /\ \A i \in 1..Channels : Owes(k, i) => Owes(check[c], i) /\ i # check[c].left
             /\ logged' = logged + 1
             /\ UNCHANGED <<row, due, open, failRun>>
<1>1. check[c] \in [at : {"send"}, of : Monitor, left : 1..Channels] /\ Running(c)
  BY AtRuns, Kinds DEF Send, At, TypeOK
<1>2. PICK k : k = IF check[c].left = 1 THEN NoCheck ELSE [check[c] EXCEPT !.left = @ - 1]
  OBVIOUS
<1>3. /\ At(c, "send") /\ Continue(c, k) /\ logged' = logged + 1
      /\ UNCHANGED <<row, due, open, failRun, enabled, disturbed>>
  BY <1>2, Zenon DEF Send
<1>4. Running(c) /\ check[c].of \in Monitor /\ check[c].left \in 1..Channels /\ Owes(check[c], check[c].left)
  BY <1>1, Constants DEF Owes
<1>5. CASE check[c].left = 1
  <2>1. k = NoCheck /\ k.at = "idle"
    BY <1>5, <1>2, Idle
  <2>2. Goes(c, k)
    BY <2>1, <1>3, <1>4 DEF Goes
  <2>. QED BY <2>1, <2>2, <1>3, <1>4 DEF Owes
<1>6. CASE check[c].left # 1
  <2>1. k = [check[c] EXCEPT !.left = check[c].left - 1]
    BY <1>6, <1>2
  <2>2. check[c].left - 1 \in 1..Channels /\ check[c].left - 1 < check[c].left
    BY <1>4, <1>6, Constants
  <2>3. k \in [at : {"send"}, of : Monitor, left : 1..Channels] /\ k.of = check[c].of /\ k.left = check[c].left - 1
    BY <1>1, <2>1, <2>2
  <2>4. k \in Check /\ k.at = "send"
    BY <2>3 DEF Check
  <2>5. \A i \in 1..Channels : Owes(k, i) => Owes(check[c], i) /\ i # check[c].left
    <3>1. check[c].at = "send"
      BY <1>1
    <3>2. \A i \in 1..Channels : i <= check[c].left - 1 => i <= check[c].left /\ i # check[c].left
      BY <1>4, Constants
    <3>. QED BY <3>1, <3>2, <2>3, <2>4 DEF Owes
  <2>6. Goes(c, k)
    BY <2>3, <2>4, <1>3, <1>4 DEF Goes
  <2>. QED BY <2>4, <2>5, <2>6, <1>3, <1>4
<1>. QED BY <1>5, <1>6

-----------------------------------------------------------------------------
(* Types are kept. *)

LEMMA GoesType ==
    ASSUME TypeOK, NEW c \in Checker, NEW k, Goes(c, k)
    PROVE  /\ check' \in [Checker -> Check \cup {NoCheck}]
           /\ \A m \in Monitor : Running(m)' => check'[m].of = m
           /\ enabled' \subseteq Monitor /\ disturbed' \subseteq Monitor
<1>1. enabled' \subseteq Monitor /\ disturbed' \subseteq Monitor
  BY DEF Goes, TypeOK
<1>2. k \in Check \cup {NoCheck} /\ Running(c) /\ (k = NoCheck \/ k.of = check[c].of) /\ Continue(c, k)
  BY DEF Goes
<1>. QED BY <1>1, <1>2, ContinueType

LEMMA RestType ==
    ASSUME TypeOK, UNCHANGED <<row, due, open, logged, failRun>>
    PROVE  /\ row' \in [Monitor -> [status : State, fails : 0..Confirm]]
           /\ due' \in Seq(Monitor) /\ IsInjective(due')
           /\ open' \in [Monitor -> Seq(Incident)] /\ \A m \in Monitor : IsInjective(open'[m])
           /\ logged' \in Nat
           /\ failRun' \in [Monitor -> 0..Confirm]
BY DEF TypeOK

LEMMA StepType ==
    ASSUME TypeOK, NEW c \in Checker, Step(c)
    PROVE  TypeOK'
<1>. USE GoesType
<1>1. CASE Observe(c)
  <2>1. PICK k : \E r \in 0..Confirm :
             /\ Goes(c, k)
             /\ failRun' = [failRun EXCEPT ![check[c].of] = r]
             /\ UNCHANGED <<row, due, open, logged>>
    BY <1>1, ObserveStep
  <2>2. failRun' \in [Monitor -> 0..Confirm]
    BY <2>1 DEF TypeOK, Goes
  <2>. QED BY <2>1, <2>2 DEF TypeOK
<1>2. CASE Save(c)
  <2>1. PICK k :
             /\ Goes(c, k)
             /\ check[c].now \in State /\ check[c].fails \in 0..Confirm
             /\ row' = [row EXCEPT ![check[c].of] = [status |-> check[c].now, fails |-> check[c].fails]]
             /\ due' = Without(due, check[c].of)
             /\ UNCHANGED <<open, logged, failRun>>
    BY <1>2, SaveStep
  <2>2. row' \in [Monitor -> [status : State, fails : 0..Confirm]]
    BY <2>1 DEF TypeOK, Goes
  <2>3. due' \in Seq(Monitor) /\ IsInjective(due')
    BY <2>1, WithoutKeeps DEF TypeOK
  <2>. QED BY <2>1, <2>2, <2>3 DEF TypeOK
<1>3. CASE Judge(c)
  <2>1. PICK k : Goes(c, k)
    BY <1>3, JudgeStep
  <2>2. UNCHANGED <<row, due, open, logged, failRun>>
    BY <1>3 DEF Judge, tables
  <2>. QED BY <2>1, <2>2, RestType DEF TypeOK
<1>4. CASE Open(c)
  <2>1. PICK k :
             /\ Goes(c, k)
             /\ \/ open' = open /\ Unused(check[c].of) = {}
                \/ \E i \in Unused(check[c].of) :
                      open' = [open EXCEPT ![check[c].of] = Append(open[check[c].of], i)]
             /\ UNCHANGED <<row, due, logged, failRun>>
    BY <1>4, OpenStep
  <2>2. CASE open' = open
    BY <2>1, <2>2, RestType DEF TypeOK
  <2>3. CASE open' # open
    <3>1. PICK i \in Unused(check[c].of) : open' = [open EXCEPT ![check[c].of] = Append(open[check[c].of], i)]
      BY <2>1, <2>3
    <3>2. i \in Incident /\ i \notin ToSet(open[check[c].of]) /\ check[c].of \in Monitor
      BY <2>1 DEF Unused, Goes
    <3>3. Append(open[check[c].of], i) \in Seq(Incident) /\ IsInjective(Append(open[check[c].of], i))
      BY <3>2, AppendKeeps DEF TypeOK
    <3>4. open' \in [Monitor -> Seq(Incident)] /\ \A m \in Monitor : IsInjective(open'[m])
      BY <3>1, <3>2, <3>3 DEF TypeOK
    <3>. QED BY <3>4, <2>1 DEF TypeOK
  <2>. QED BY <2>2, <2>3
<1>5. CASE Opened(c)
  <2>1. PICK k : Goes(c, k)
    BY <1>5, OpenedStep
  <2>2. UNCHANGED <<row, due, open, logged, failRun>>
    BY <1>5 DEF Opened, tables
  <2>. QED BY <2>1, <2>2, RestType DEF TypeOK
<1>6. CASE Recovered(c)
  <2>1. PICK k : Goes(c, k)
    BY <1>6, RecoveredStep
  <2>2. UNCHANGED <<row, due, open, logged, failRun>>
    BY <1>6 DEF Recovered, tables
  <2>. QED BY <2>1, <2>2, RestType DEF TypeOK
<1>7. CASE Close(c)
  <2>1. PICK k :
             /\ Goes(c, k)
             /\ open' = [open EXCEPT ![check[c].of] = Without(open[check[c].of], check[c].incident)]
             /\ UNCHANGED <<row, due, logged, failRun>>
    BY <1>7, CloseStep
  <2>2. check[c].of \in Monitor
    BY <2>1 DEF Goes
  <2>3. PICK s : s = Without(open[check[c].of], check[c].incident)
    OBVIOUS
  <2>4. s \in Seq(Incident) /\ IsInjective(s)
    BY <2>2, <2>3, WithoutKeeps DEF TypeOK
  <2>5. open' \in [Monitor -> Seq(Incident)] /\ \A m \in Monitor : IsInjective(open'[m])
    BY <2>1, <2>2, <2>3, <2>4 DEF TypeOK
  <2>. QED BY <2>1, <2>5 DEF TypeOK
<1>8. CASE Repeat(c)
  <2>1. PICK k : Goes(c, k)
    BY <1>8, RepeatStep
  <2>2. UNCHANGED <<row, due, open, logged, failRun>>
    BY <1>8 DEF Repeat, tables
  <2>. QED BY <2>1, <2>2, RestType DEF TypeOK
<1>9. CASE Send(c)
  <2>1. PICK k : Goes(c, k) /\ logged' = logged + 1 /\ UNCHANGED <<row, due, open, failRun>>
    BY <1>9, SendStep
  <2>. QED BY <2>1 DEF TypeOK
<1>. QED BY <1>1, <1>2, <1>3, <1>4, <1>5, <1>6, <1>7, <1>8, <1>9 DEF Step

LEMMA ReadingType ==
    ASSUME TypeOK, NEW m \in Monitor
    PROVE  Reading(m) \in Check /\ Reading(m).of = m /\ Reading(m).at = "observe"
BY DEF TypeOK, Reading, Check

\* What the poll begins: a check of each monitor of a batch, by itself.
LEMMA TickStep ==
    ASSUME TypeOK, Tick
    PROVE  \E batch \in SUBSET Monitor :
             /\ \A m \in Monitor : ~Running(m)
             /\ Cardinality(batch) = AtMost(Cardinality(Ready), MaxConcurrent)
             /\ check' = [c \in Checker |-> IF c \in batch THEN Reading(c) ELSE check[c]]
             /\ disturbed' = disturbed \cup {m \in batch : ChecksOf(m) # {}}
             /\ UNCHANGED <<tables, failRun>>
BY DEF Tick, Begin, DueMonitors

LEMMA BeginType ==
    ASSUME TypeOK, Tick \/ \E c \in Clicker, m \in Monitor : CheckNow(c, m)
    PROVE  TypeOK'
<1>1. UNCHANGED <<row, due, open, logged, failRun>> /\ UNCHANGED enabled
  BY DEF Tick, CheckNow, Begin, tables
<1>2. CASE Tick
  <2>1. PICK batch \in SUBSET Monitor :
             /\ check' = [c \in Checker |-> IF c \in batch THEN Reading(c) ELSE check[c]]
             /\ disturbed' = disturbed \cup {m \in batch : ChecksOf(m) # {}}
    BY <1>2, TickStep
  <2>2. check' \in [Checker -> Check \cup {NoCheck}]
    BY <2>1, ReadingType DEF TypeOK
  <2>3. \A m \in Monitor : Running(m)' => check'[m].of = m
    BY <2>1, ReadingType, Constants DEF TypeOK, Running
  <2>4. disturbed' \subseteq Monitor
    BY <2>1 DEF TypeOK
  <2>. QED BY <1>1, <2>2, <2>3, <2>4, RestType DEF TypeOK
<1>3. ASSUME NEW c \in Clicker, NEW m \in Monitor, CheckNow(c, m)
      PROVE  TypeOK'
  <2>1. check' = [check EXCEPT ![c] = Reading(m)] /\ disturbed' = disturbed \cup {n \in {m} : ChecksOf(n) # {}}
    BY <1>3 DEF CheckNow, Begin
  <2>2. check' \in [Checker -> Check \cup {NoCheck}]
    BY <2>1, ReadingType, Constants DEF TypeOK
  <2>3. \A n \in Monitor : Running(n)' => check'[n].of = n
    BY <2>1, ConstantsOK, Constants DEF TypeOK, Running
  <2>4. disturbed' \subseteq Monitor
    BY <2>1 DEF TypeOK
  <2>. QED BY <1>1, <2>2, <2>3, <2>4, RestType DEF TypeOK
<1>. QED BY <1>2, <1>3

LEMMA AroundType ==
    ASSUME TypeOK, \/ \E m \in Monitor : FallDue(m) \/ Pause(m)
                   \/ HourPasses
                   \/ \E c \in Checker : Abandon(c)
    PROVE  TypeOK'
<1>1. ASSUME NEW m \in Monitor, FallDue(m) PROVE TypeOK'
  <2>1. due' \in Seq(Monitor) /\ IsInjective(due')
    BY <1>1, AppendKeeps DEF FallDue, TypeOK
  <2>2. UNCHANGED <<row, enabled, open, logged, check, failRun, disturbed>>
    BY <1>1 DEF FallDue
  <2>. QED BY <2>1, <2>2 DEF TypeOK, Running
<1>2. ASSUME NEW m \in Monitor, Pause(m) PROVE TypeOK'
  <2>1. enabled' \subseteq Monitor /\ UNCHANGED <<row, due, open, logged, check, failRun, disturbed>>
    BY <1>2 DEF Pause, TypeOK
  <2>. QED BY <2>1 DEF TypeOK, Running
<1>3. CASE HourPasses
  <2>1. logged' \in Nat /\ UNCHANGED <<row, enabled, due, open, check, failRun, disturbed>>
    BY <1>3 DEF HourPasses, TypeOK
  <2>. QED BY <2>1 DEF TypeOK, Running
<1>4. ASSUME NEW c \in Checker, Abandon(c) PROVE TypeOK'
  <2>1. Running(c) /\ Continue(c, NoCheck) /\ UNCHANGED <<row, due, open, logged, failRun>> /\ enabled' = enabled
    BY <1>4 DEF Abandon, Return, tables
  <2>2. check[c].of \in Monitor
    BY <2>1, Kinds DEF TypeOK, Running
  <2>3. disturbed' \subseteq Monitor
    BY <1>4, <2>2 DEF Abandon, TypeOK
  <2>4. /\ check' \in [Checker -> Check \cup {NoCheck}]
        /\ \A m \in Monitor : Running(m)' => check'[m].of = m
    BY <2>1, ContinueType
  <2>. QED BY <2>1, <2>3, <2>4, RestType DEF TypeOK
<1>. QED BY <1>1, <1>2, <1>3, <1>4

LEMMA NextType == TypeOK /\ [Next]_vars => TypeOK'
<1>. SUFFICES ASSUME TypeOK, [Next]_vars PROVE TypeOK'
  OBVIOUS
<1>1. CASE UNCHANGED vars
  BY <1>1 DEF vars, tables, TypeOK, Running
<1>2. CASE Next
  BY <1>2, StepType, BeginType, AroundType DEF Next, Work, Intervene
<1>. QED BY <1>1, <1>2

(***************************************************************************)
(* The tables and the checks under way keep their types.                   *)
(***************************************************************************)
THEOREM EngineTypeAlways == Spec => []TypeOK
<1>. QED BY InitType, NextType, PTL DEF Spec

-----------------------------------------------------------------------------
(* Every monitor that two checks never met stays sound.                    *)

LEMMA InitSound == Init => SoundUnlessDisturbed
<1>. SUFFICES ASSUME Init, NEW m \in Monitor PROVE Sound(m)
  BY DEF SoundUnlessDisturbed
<1>1. ChecksOf(m) = {}
  BY DEF Init, ChecksOf, Running
<1>2. OnTrack(m, NoCheck)
  BY Idle DEF Init, OnTrack, OpenIf, Open0, IsDown
<1>. QED BY <1>1, <1>2 DEF Sound

LEMMA OtherSound ==
    ASSUME TypeOK, NEW c \in Checker, NEW k, Goes(c, k), NEW m \in Monitor, m # check[c].of, Sound(m),
           row'[m] = row[m], open'[m] = open[m], failRun'[m] = failRun[m]
    PROVE  Sound(m)'
<1>1. check' = [check EXCEPT ![c] = k] /\ c \in DOMAIN check
  BY DEF Goes, Continue, TypeOK
<1>2. \A d \in Checker : d # c => check'[d] = check[d]
  BY <1>1
<1>3. \A d \in Checker : (d \in ChecksOf(m))' <=> d \in ChecksOf(m)
  <2>1. ~(c \in ChecksOf(m))' /\ c \notin ChecksOf(m)
    BY <1>1 DEF Goes, ChecksOf, Running
  <2>. QED BY <2>1, <1>2 DEF ChecksOf, Running
<1>4. ChecksOf(m)' = ChecksOf(m)
  BY <1>3 DEF ChecksOf
<1>5. c \notin ChecksOf(m)
  BY DEF ChecksOf
<1>6. \A k2 : OnTrack(m, k2)' <=> OnTrack(m, k2)
  BY DEF OnTrack, OpenIf, Open0, Open1, IsDown
<1>7. \A d \in ChecksOf(m) : check'[d] = check[d]
  BY <1>2, <1>5 DEF ChecksOf
<1>. QED BY <1>4, <1>6, <1>7 DEF Sound

LEMMA SelfSound ==
    ASSUME TypeOK, NEW c \in Checker, NEW k, Goes(c, k), NEW m \in Monitor,
           m = check[c].of, Sound(m), OnTrack(m, k)'
    PROVE  Sound(m)'
<1>1. check' = [check EXCEPT ![c] = k] /\ c \in DOMAIN check
  BY DEF Goes, Continue, TypeOK
<1>2. ChecksOf(m) = {c}
  BY DEF Sound, ChecksOf, Goes
<1>3. \A d \in Checker : d # c => check'[d] = check[d]
  BY <1>1
<1>4. ChecksOf(m)' \subseteq {c}
  BY <1>2, <1>3 DEF ChecksOf, Running
<1>5. k # NoCheck => c \in ChecksOf(m)'
  BY <1>1 DEF ChecksOf, Running, Goes
<1>6. check'[c] = k
  BY <1>1
<1>. QED BY <1>4, <1>5, <1>6 DEF Sound

LEMMA TrackOf ==
    ASSUME NEW c \in Checker, Running(c), Sound(check[c].of)
    PROVE  ChecksOf(check[c].of) = {c} /\ OnTrack(check[c].of, check[c])
BY DEF Sound, ChecksOf

\* Only the check that goes on has to be looked at.
LEMMA SoundIfSelf ==
    ASSUME TypeOK, SoundUnlessDisturbed, NEW c \in Checker, NEW k, Goes(c, k),
           \A m \in Monitor : m # check[c].of => row'[m] = row[m] /\ open'[m] = open[m] /\ failRun'[m] = failRun[m],
           \A m \in Monitor \ disturbed :
             m = check[c].of /\ ChecksOf(m) = {c} /\ OnTrack(m, check[c]) => OnTrack(m, k)'
    PROVE  SoundUnlessDisturbed'
<1>. SUFFICES ASSUME NEW m \in Monitor, m \notin disturbed' PROVE Sound(m)'
  BY DEF SoundUnlessDisturbed
<1>1. m \notin disturbed /\ Sound(m)
  BY DEF Goes, SoundUnlessDisturbed
<1>2. CASE m # check[c].of
  BY <1>1, <1>2, OtherSound
<1>3. CASE m = check[c].of
  <2>1. ChecksOf(m) = {c} /\ OnTrack(m, check[c])
    BY <1>1, <1>3, TrackOf DEF Goes
  <2>2. OnTrack(m, k)'
    BY <1>1, <1>3, <2>1
  <2>. QED BY <1>1, <1>3, <2>2, SelfSound
<1>. QED BY <1>2, <1>3

LEMMA ObserveSound ==
    ASSUME TypeOK, SoundUnlessDisturbed, NEW c \in Checker, Observe(c) PROVE SoundUnlessDisturbed'
<1>1. PICK k : \E r \in 0..Confirm :
             /\ Goes(c, k) /\ OwesNoMore(k, c)
             /\ At(c, "observe") /\ k.at = "save" /\ k.was = check[c].was
             /\ k.now = "down" /\ k.was # "down" => k.fails >= Confirm
             /\ failRun' = [failRun EXCEPT ![check[c].of] = r]
             /\ check[c].of \notin disturbed /\ failRun[check[c].of] = check[c].fails => r = k.fails
             /\ UNCHANGED <<row, due, open, logged>>
  BY ObserveStep
<1>2. PICK r \in 0..Confirm :
             /\ failRun' = [failRun EXCEPT ![check[c].of] = r]
             /\ check[c].of \notin disturbed /\ failRun[check[c].of] = check[c].fails => r = k.fails
  BY <1>1
<1>3. \A m \in Monitor : m # check[c].of => row'[m] = row[m] /\ open'[m] = open[m] /\ failRun'[m] = failRun[m]
  BY <1>1, <1>2 DEF TypeOK
<1>4. ASSUME NEW m \in Monitor \ disturbed, m = check[c].of, OnTrack(m, check[c])
      PROVE  OnTrack(m, k)'
  <2>1. failRun[m] = check[c].fails /\ check[c].was = row[m].status /\ OpenIf(m, IsDown(m))
    BY <1>1, <1>4 DEF OnTrack, At
  <2>2. failRun'[m] = k.fails
    BY <1>2, <1>4, <2>1 DEF TypeOK
  <2>3. row'[m] = row[m] /\ open'[m] = open[m]
    BY <1>1
  <2>. QED BY <1>1, <2>1, <2>2, <2>3 DEF OnTrack, OpenIf, Open0, Open1, IsDown
<1>. QED BY <1>1, <1>3, <1>4, SoundIfSelf

LEMMA SaveSound ==
    ASSUME TypeOK, SoundUnlessDisturbed, NEW c \in Checker, Save(c) PROVE SoundUnlessDisturbed'
<1>1. PICK k :
             /\ Goes(c, k) /\ OwesNoMore(k, c)
             /\ At(c, "save") /\ k.at = "judge" /\ k.was = check[c].was /\ k.now = check[c].now
             /\ check[c].now \in State /\ check[c].fails \in 0..Confirm
             /\ row' = [row EXCEPT ![check[c].of] = [status |-> check[c].now, fails |-> check[c].fails]]
             /\ due' = Without(due, check[c].of)
             /\ UNCHANGED <<open, logged, failRun>>
  BY SaveStep
<1>2. \A m \in Monitor : m # check[c].of => row'[m] = row[m] /\ open'[m] = open[m] /\ failRun'[m] = failRun[m]
  BY <1>1 DEF TypeOK
<1>3. ASSUME NEW m \in Monitor \ disturbed, m = check[c].of, OnTrack(m, check[c])
      PROVE  OnTrack(m, k)'
  <2>1. failRun[m] = check[c].fails /\ check[c].was = row[m].status /\ OpenIf(m, IsDown(m))
    BY <1>1, <1>3 DEF OnTrack, At
  <2>2. row'[m].status = check[c].now /\ row'[m].fails = check[c].fails /\ open'[m] = open[m] /\ failRun'[m] = failRun[m]
    BY <1>1, <1>3 DEF TypeOK
  <2>. QED BY <1>1, <2>1, <2>2 DEF OnTrack, OpenIf, Open0, Open1, IsDown
<1>. QED BY <1>1, <1>2, <1>3, SoundIfSelf

LEMMA JudgeSound ==
    ASSUME TypeOK, SoundUnlessDisturbed, NEW c \in Checker, Judge(c) PROVE SoundUnlessDisturbed'
<1>1. PICK k :
             /\ Goes(c, k) /\ At(c, "judge")
             /\ GoesDown(check[c]) => k.at = "open"
             /\ ComesBack(check[c]) => k.at = "recovered"
             /\ ~GoesDown(check[c]) /\ ~ComesBack(check[c]) => k.at \in {"idle", "repeat", "send"}
             /\ UNCHANGED <<tables, failRun>>
  BY JudgeStep
<1>2. ASSUME NEW m \in Monitor \ disturbed, m = check[c].of, OnTrack(m, check[c])
      PROVE  OnTrack(m, k)'
  <2>1. failRun[m] = row[m].fails /\ check[c].now = row[m].status /\ OpenIf(m, check[c].was = "down")
    BY <1>1, <1>2 DEF OnTrack, At
  <2>2. row' = row /\ open' = open /\ failRun' = failRun
    BY <1>1 DEF tables
  <2>. QED BY <1>1, <2>1, <2>2 DEF OnTrack, OpenIf, Open0, Open1, IsDown, GoesDown, ComesBack
<1>. QED BY <1>1, <1>2, SoundIfSelf DEF tables

LEMMA OpenSound ==
    ASSUME TypeOK, SoundUnlessDisturbed, NEW c \in Checker, Open(c) PROVE SoundUnlessDisturbed'
<1>1. PICK k :
             /\ Goes(c, k) /\ OwesNoMore(k, c)
             /\ At(c, "open") /\ k.at = "opened"
             /\ \/ open' = open /\ Unused(check[c].of) = {}
                \/ \E i \in Unused(check[c].of) :
                      open' = [open EXCEPT ![check[c].of] = Append(open[check[c].of], i)]
             /\ UNCHANGED <<row, due, logged, failRun>>
  BY OpenStep
<1>2. \A m \in Monitor : m # check[c].of => row'[m] = row[m] /\ open'[m] = open[m] /\ failRun'[m] = failRun[m]
  BY <1>1 DEF TypeOK
<1>3. ASSUME NEW m \in Monitor \ disturbed, m = check[c].of, ChecksOf(m) = {c}, OnTrack(m, check[c])
      PROVE  OnTrack(m, k)'
  <2>1. failRun[m] = row[m].fails /\ IsDown(m) /\ open[m] = <<>>
    BY <1>1, <1>3 DEF OnTrack, At, Open0
  <2>2. Unused(m) # {}
    <3>1. ToSet(open[m]) = {}
      BY <2>1 DEF ToSet
    <3>2. HeldBy(c) = {}
      BY <1>1 DEF HeldBy, At
    <3>3. UNION {HeldBy(d) : d \in ChecksOf(m)} = {}
      BY <3>2, <1>3
    <3>. QED BY <3>1, <3>3, ConstantsOK DEF Unused
  <2>3. PICK i \in Unused(m) : open' = [open EXCEPT ![m] = Append(open[m], i)]
    BY <2>2, <1>1, <1>3
  <2>4. open'[m] = Append(<<>>, i)
    BY <2>1, <2>3 DEF TypeOK
  <2>5. i \in Incident
    BY DEF Unused
  <2>6. Len(open'[m]) = 1
    BY <2>4, <2>5
  <2>. QED BY <1>1, <2>1, <2>6 DEF OnTrack, OpenIf, Open0, Open1, IsDown
<1>. QED BY <1>1, <1>2, <1>3, SoundIfSelf

LEMMA CalmSound ==
    ASSUME TypeOK, SoundUnlessDisturbed, NEW c \in Checker, Opened(c) \/ Repeat(c) \/ Send(c)
    PROVE  SoundUnlessDisturbed'
<1>1. PICK k :
             /\ Goes(c, k)
             /\ check[c].at \in {"opened", "repeat", "send"} /\ k.at \in {"idle", "send"}
             /\ UNCHANGED <<row, open, failRun>>
  BY OpenedStep, RepeatStep, SendStep DEF tables, At
<1>2. ASSUME NEW m \in Monitor \ disturbed, OnTrack(m, check[c])
      PROVE  OnTrack(m, k)'
  <2>1. failRun[m] = row[m].fails /\ OpenIf(m, IsDown(m))
    BY <1>1, <1>2 DEF OnTrack
  <2>. QED BY <1>1, <2>1 DEF OnTrack, OpenIf, Open0, Open1, IsDown
<1>. QED BY <1>1, <1>2, SoundIfSelf

LEMMA RecoveredSound ==
    ASSUME TypeOK, SoundUnlessDisturbed, NEW c \in Checker, Recovered(c) PROVE SoundUnlessDisturbed'
<1>1. PICK k :
             /\ Goes(c, k)
             /\ At(c, "recovered")
             /\ open[check[c].of] # <<>> => k.at = "close" /\ k.incident = Last(open[check[c].of])
             /\ UNCHANGED <<tables, failRun>>
  BY RecoveredStep
<1>2. ASSUME NEW m \in Monitor \ disturbed, m = check[c].of, OnTrack(m, check[c])
      PROVE  OnTrack(m, k)'
  <2>1. failRun[m] = row[m].fails /\ ~IsDown(m) /\ Len(open[m]) = 1
    BY <1>1, <1>2 DEF OnTrack, At, Open1
  <2>2. open[m] # <<>>
    BY <2>1, EmptySeq
  <2>3. k.at = "close" /\ k.incident = open[m][1]
    BY <1>1, <1>2, <2>1, <2>2 DEF Last
  <2>. QED BY <1>1, <2>1, <2>3 DEF OnTrack, OpenIf, Open0, Open1, IsDown, tables
<1>. QED BY <1>1, <1>2, SoundIfSelf DEF tables

LEMMA CloseSound ==
    ASSUME TypeOK, SoundUnlessDisturbed, NEW c \in Checker, Close(c) PROVE SoundUnlessDisturbed'
<1>1. PICK k :
             /\ Goes(c, k)
             /\ At(c, "close") /\ k.at \in {"idle", "send"}
             /\ open' = [open EXCEPT ![check[c].of] = Without(open[check[c].of], check[c].incident)]
             /\ UNCHANGED <<row, due, logged, failRun>>
  BY CloseStep
<1>2. \A m \in Monitor : m # check[c].of => row'[m] = row[m] /\ open'[m] = open[m] /\ failRun'[m] = failRun[m]
  BY <1>1 DEF TypeOK
<1>3. ASSUME NEW m \in Monitor \ disturbed, m = check[c].of, OnTrack(m, check[c])
      PROVE  OnTrack(m, k)'
  <2>1. failRun[m] = row[m].fails /\ ~IsDown(m) /\ Len(open[m]) = 1 /\ open[m][1] = check[c].incident
    BY <1>1, <1>3 DEF OnTrack, At, Open1
  <2>2. open[m] \in Seq(Incident)
    BY DEF TypeOK
  <2>3. Without(open[m], check[c].incident) = <<>>
    BY <2>1, <2>2, WithoutOnly
  <2>4. open'[m] = <<>>
    BY <1>1, <1>3, <2>3 DEF TypeOK
  <2>. QED BY <1>1, <2>1, <2>4 DEF OnTrack, OpenIf, Open0, Open1, IsDown
<1>. QED BY <1>1, <1>2, <1>3, SoundIfSelf

\* A check that begins reads what the tables say.
LEMMA ReadingSound ==
    ASSUME TypeOK, SoundUnlessDisturbed, UNCHANGED <<tables, failRun>>,
           NEW m \in Monitor \ disturbed, ChecksOf(m) = {}, NEW c, ChecksOf(m)' = {c}, check'[c] = Reading(m)
    PROVE  Sound(m)'
<1>1. OnTrack(m, NoCheck)
  BY DEF SoundUnlessDisturbed, Sound
<1>2. failRun[m] = row[m].fails /\ OpenIf(m, IsDown(m))
  BY <1>1, Idle DEF OnTrack
<1>3. /\ Reading(m).at = "observe" /\ Reading(m).was = row[m].status /\ Reading(m).fails = row[m].fails
      /\ UNCHANGED <<row, open, failRun>>
  BY DEF Reading, tables
<1>4. PICK k : k = Reading(m)
  OBVIOUS
<1>5. OnTrack(m, k)'
  BY <1>2, <1>3, <1>4 DEF OnTrack, OpenIf, Open0, Open1, IsDown
<1>. QED BY <1>4, <1>5 DEF Sound

LEMMA KeptSound ==
    ASSUME UNCHANGED <<row, open, failRun>>, NEW m, Sound(m), ChecksOf(m)' = ChecksOf(m),
           \A c \in ChecksOf(m) : check'[c] = check[c]
    PROVE  Sound(m)'
<1>1. \A k : OnTrack(m, k)' <=> OnTrack(m, k)
  BY DEF OnTrack, OpenIf, Open0, Open1, IsDown
<1>. QED BY <1>1 DEF Sound

LEMMA TickSound ==
    ASSUME TypeOK, SoundUnlessDisturbed, Tick PROVE SoundUnlessDisturbed'
<1>1. PICK batch \in SUBSET Monitor :
             /\ \A m \in Monitor : ~Running(m)
             /\ check' = [c \in Checker |-> IF c \in batch THEN Reading(c) ELSE check[c]]
             /\ disturbed' = disturbed \cup {m \in batch : ChecksOf(m) # {}}
             /\ UNCHANGED <<tables, failRun>>
  BY TickStep
<1>. SUFFICES ASSUME NEW m \in Monitor, m \notin disturbed' PROVE Sound(m)'
  BY DEF SoundUnlessDisturbed
<1>2. m \notin disturbed /\ Sound(m)
  BY <1>1 DEF SoundUnlessDisturbed
<1>3. \A c \in Checker : c \in batch => check'[c].of = c /\ check'[c] # NoCheck
  BY <1>1, ReadingType, Idle
<1>4. \A c \in Checker : c \notin batch => check'[c] = check[c]
  BY <1>1
<1>5. CASE m \in batch
  <2>1. ChecksOf(m) = {}
    BY <1>1, <1>5
  <2>2. \A c \in Checker : c \in ChecksOf(m)' <=> c = m
    BY <2>1, <1>3, <1>4, <1>5, Constants DEF ChecksOf, Running
  <2>3. ChecksOf(m)' = {m}
    BY <2>2, Constants DEF ChecksOf
  <2>4. check'[m] = Reading(m)
    BY <1>1, <1>5, Constants
  <2>. QED BY <2>1, <2>3, <2>4, <1>1, <1>2, ReadingSound
<1>6. CASE m \notin batch
  <2>1. \A c \in batch : c \notin ChecksOf(m) /\ c \notin ChecksOf(m)'
    BY <1>1, <1>3, <1>6 DEF ChecksOf
  <2>2. \A c \in Checker : c \in ChecksOf(m)' <=> c \in ChecksOf(m)
    BY <2>1, <1>4 DEF ChecksOf, Running
  <2>3. ChecksOf(m)' = ChecksOf(m)
    BY <2>2 DEF ChecksOf
  <2>4. \A c \in ChecksOf(m) : check'[c] = check[c]
    BY <2>1, <1>4 DEF ChecksOf
  <2>5. UNCHANGED <<row, open, failRun>>
    BY <1>1 DEF tables
  <2>. QED BY <2>3, <2>4, <2>5, <1>2, KeptSound
<1>. QED BY <1>5, <1>6

LEMMA CheckNowSound ==
    ASSUME TypeOK, SoundUnlessDisturbed, NEW c \in Clicker, NEW n \in Monitor, CheckNow(c, n)
    PROVE  SoundUnlessDisturbed'
<1>1. /\ ~Running(c) /\ c \in Checker
      /\ check' = [check EXCEPT ![c] = Reading(n)]
      /\ disturbed' = disturbed \cup {m \in {n} : ChecksOf(m) # {}}
      /\ UNCHANGED <<tables, failRun>>
  BY Constants DEF CheckNow, Begin
<1>. SUFFICES ASSUME NEW m \in Monitor, m \notin disturbed' PROVE Sound(m)'
  BY DEF SoundUnlessDisturbed
<1>2. m \notin disturbed /\ Sound(m)
  BY <1>1 DEF SoundUnlessDisturbed
<1>3. check'[c] = Reading(n) /\ check'[c].of = n /\ check'[c] # NoCheck
  BY <1>1, ReadingType, Idle DEF TypeOK
<1>4. \A d \in Checker : d # c => check'[d] = check[d]
  BY <1>1 DEF TypeOK
<1>5. CASE m = n
  <2>1. ChecksOf(m) = {}
    BY <1>1, <1>5
  <2>2. ChecksOf(m)' = {c}
    BY <2>1, <1>1, <1>3, <1>4, <1>5 DEF ChecksOf, Running
  <2>. QED BY <2>1, <2>2, <1>1, <1>2, <1>3, <1>5, ReadingSound
<1>6. CASE m # n
  <2>1. c \notin ChecksOf(m) /\ c \notin ChecksOf(m)'
    BY <1>1, <1>3, <1>6 DEF ChecksOf
  <2>2. \A d \in Checker : d \in ChecksOf(m)' <=> d \in ChecksOf(m)
    BY <2>1, <1>4 DEF ChecksOf, Running
  <2>3. ChecksOf(m)' = ChecksOf(m)
    BY <2>2 DEF ChecksOf
  <2>4. \A d \in ChecksOf(m) : check'[d] = check[d]
    BY <2>1, <1>4 DEF ChecksOf
  <2>5. UNCHANGED <<row, open, failRun>>
    BY <1>1 DEF tables
  <2>. QED BY <2>3, <2>4, <2>5, <1>2, KeptSound
<1>. QED BY <1>5, <1>6

LEMMA AbandonSound ==
    ASSUME TypeOK, SoundUnlessDisturbed, NEW c \in Checker, Abandon(c) PROVE SoundUnlessDisturbed'
<1>1. /\ Running(c) /\ check' = [check EXCEPT ![c] = NoCheck] /\ c \in DOMAIN check
      /\ disturbed' = disturbed \cup {check[c].of}
      /\ UNCHANGED <<row, open, failRun>>
  BY DEF Abandon, Return, Continue, tables, TypeOK
<1>. SUFFICES ASSUME NEW m \in Monitor, m \notin disturbed' PROVE Sound(m)'
  BY DEF SoundUnlessDisturbed
<1>2. m \notin disturbed /\ Sound(m) /\ m # check[c].of
  BY <1>1 DEF SoundUnlessDisturbed
<1>3. \A d \in Checker : d # c => check'[d] = check[d]
  BY <1>1
<1>4. c \notin ChecksOf(m) /\ c \notin ChecksOf(m)'
  BY <1>1, <1>2 DEF ChecksOf, Running
<1>5. \A d \in Checker : d \in ChecksOf(m)' <=> d \in ChecksOf(m)
  BY <1>4, <1>3 DEF ChecksOf, Running
<1>6. ChecksOf(m)' = ChecksOf(m)
  BY <1>5 DEF ChecksOf
<1>7. \A d \in ChecksOf(m) : check'[d] = check[d]
  BY <1>4, <1>3 DEF ChecksOf
<1>. QED BY <1>1, <1>2, <1>6, <1>7, KeptSound

LEMMA NextSound == EngineIInv /\ [Next]_vars => SoundUnlessDisturbed'
<1>. SUFFICES ASSUME TypeOK, SoundUnlessDisturbed, [Next]_vars PROVE SoundUnlessDisturbed'
  BY DEF EngineIInv
<1>1. CASE UNCHANGED <<row, open, failRun, check, disturbed>>
  <2>1. \A m : ChecksOf(m)' = ChecksOf(m)
    BY <1>1 DEF ChecksOf, Running
  <2>. QED BY <2>1, <1>1, KeptSound DEF SoundUnlessDisturbed
<1>2. CASE Tick
  BY <1>2, TickSound
<1>3. ASSUME NEW c \in Checker, Step(c) PROVE SoundUnlessDisturbed'
  BY <1>3, ObserveSound, SaveSound, JudgeSound, OpenSound, CalmSound, RecoveredSound, CloseSound DEF Step
<1>4. ASSUME NEW c \in Clicker, NEW m \in Monitor, CheckNow(c, m) PROVE SoundUnlessDisturbed'
  BY <1>4, CheckNowSound
<1>5. ASSUME NEW c \in Checker, Abandon(c) PROVE SoundUnlessDisturbed'
  BY <1>5, AbandonSound
<1>6. ASSUME NEW m \in Monitor, Pause(m) \/ FallDue(m) PROVE UNCHANGED <<row, open, failRun, check, disturbed>>
  BY <1>6 DEF Pause, FallDue
<1>7. HourPasses \/ UNCHANGED vars => UNCHANGED <<row, open, failRun, check, disturbed>>
  BY DEF HourPasses, vars, tables
<1>. QED BY <1>1, <1>2, <1>3, <1>4, <1>5, <1>6, <1>7 DEF Next, Work, Intervene

LEMMA EngineInvariant == Spec => []EngineIInv
<1>1. Init => EngineIInv
  BY InitType, InitSound DEF EngineIInv
<1>2. EngineIInv /\ [Next]_vars => EngineIInv'
  BY NextType, NextSound DEF EngineIInv
<1>. QED BY <1>1, <1>2, PTL DEF Spec

\* What a check knows of its monitor says how incidents and status go together.
LEMMA IncidentsFollow == EngineIInv => IncidentsFollowStatus
<1>. SUFFICES ASSUME EngineIInv, NEW m \in Monitor \ disturbed,
                     NEW behind, behind = {c \in ChecksOf(m) :
                       \/ check[c].at \in {"open", "recovered", "close"}
                       \/ At(c, "judge") /\ (GoesDown(check[c]) \/ ComesBack(check[c]))},
                     NEW isOpen, isOpen = IF behind = {} THEN row[m].status = "down" ELSE row[m].status # "down"
              PROVE  Len(open[m]) = IF isOpen THEN 1 ELSE 0
  BY Zenon DEF IncidentsFollowStatus
<1>1. Sound(m)
  BY DEF EngineIInv, SoundUnlessDisturbed
<1>2. Len(<<>>) = 0
  BY EmptySeq
<1>3. CASE ChecksOf(m) = {}
  <2>1. OpenIf(m, IsDown(m))
    BY <1>1, <1>3, Idle DEF Sound, OnTrack
  <2>2. isOpen = (row[m].status = "down")
    BY <1>3
  <2>. QED BY <2>1, <2>2, <1>2 DEF OpenIf, Open0, Open1, IsDown
<1>4. ASSUME NEW c \in ChecksOf(m)
      PROVE  Len(open[m]) = IF isOpen THEN 1 ELSE 0
  <2>1. ChecksOf(m) = {c} /\ OnTrack(m, check[c])
    BY <1>1 DEF Sound
  <2>2. CASE check[c].at \in {"open", "recovered", "close"}
    <3>1. isOpen = (row[m].status # "down")
      BY <2>1, <2>2
    <3>. QED BY <3>1, <2>1, <2>2, <1>2 DEF OnTrack, OpenIf, Open0, Open1, IsDown
  <2>3. CASE check[c].at = "judge"
    <3>1. check[c].now = row[m].status /\ OpenIf(m, check[c].was = "down")
      BY <2>1, <2>3 DEF OnTrack
    <3>2. CASE GoesDown(check[c]) \/ ComesBack(check[c])
      <4>1. isOpen = (row[m].status # "down")
        BY <2>1, <2>3, <3>2 DEF At
      <4>. QED BY <4>1, <3>1, <3>2, <1>2 DEF OpenIf, Open0, Open1, GoesDown, ComesBack
    <3>3. CASE ~(GoesDown(check[c]) \/ ComesBack(check[c]))
      <4>1. isOpen = (row[m].status = "down")
        BY <2>1, <2>3, <3>3 DEF At
      <4>. QED BY <4>1, <3>1, <3>3, <1>2 DEF OpenIf, Open0, Open1, GoesDown, ComesBack
    <3>. QED BY <3>2, <3>3
  <2>4. CASE check[c].at \notin {"judge", "open", "recovered", "close"}
    <3>1. isOpen = (row[m].status = "down")
      BY <2>1, <2>4 DEF At
    <3>2. OpenIf(m, IsDown(m))
      BY <2>1, <2>4 DEF OnTrack
    <3>. QED BY <3>1, <3>2, <1>2 DEF OpenIf, Open0, Open1, IsDown
  <2>. QED BY <2>2, <2>3, <2>4
<1>. QED BY <1>3, <1>4

(***************************************************************************)
(* Of a monitor whose checks never met and were never cut short, an        *)
(* incident is open exactly while it is down, and one only, but for the    *)
(* moment between the row and the incident (checkMonitor, openIncident and *)
(* closeIncident being statements of their own).                           *)
(***************************************************************************)
THEOREM IncidentsFollowStatusAlways == Spec => []IncidentsFollowStatus
<1>. QED BY EngineInvariant, IncidentsFollow, PTL

\* It also knows how many failures in a row there were.
LEMMA ConfirmedDownStep ==
    ASSUME EngineIInv, Next, NEW m \in Monitor \ disturbed',
           row[m].status # "down", row'[m].status = "down"
    PROVE  failRun[m] >= Confirm
<1>1. PICK c \in Checker : Save(c)
  BY DEF Next, Work, Intervene, Tick, CheckNow, Begin, Step, Observe, Judge, Open, Opened, Recovered, Close, Repeat, Send,
         Abandon, Pause, FallDue, HourPasses, tables
<1>2. TypeOK
  BY DEF EngineIInv
<1>3. PICK k :
             /\ Goes(c, k)
             /\ At(c, "save")
             /\ row' = [row EXCEPT ![check[c].of] = [status |-> check[c].now, fails |-> check[c].fails]]
  BY <1>1, <1>2, SaveStep
<1>4. m \notin disturbed /\ Running(c) /\ check[c].of \in Monitor
  BY <1>3 DEF Goes
<1>5. m = check[c].of /\ check[c].now = "down"
  BY <1>2, <1>3, <1>4 DEF TypeOK
<1>6. OnTrack(m, check[c])
  BY <1>4, <1>5, TrackOf DEF EngineIInv, SoundUnlessDisturbed
<1>. QED BY <1>3, <1>5, <1>6 DEF OnTrack, At

(***************************************************************************)
(* No step calls such a monitor down before as many checks in a row as the *)
(* settings ask for have failed (saveCheckState, called by checkMonitor).  *)
(***************************************************************************)
THEOREM ConfirmedDownAlways == Spec => ConfirmedDown
<1>1. EngineIInv /\ [Next]_vars =>
        [\A m \in Monitor \ disturbed' :
           row[m].status # "down" /\ row'[m].status = "down" => failRun[m] >= Confirm]_vars
  BY ConfirmedDownStep
<1>. QED BY <1>1, EngineInvariant, PTL DEF Spec, ConfirmedDown

-----------------------------------------------------------------------------
(***************************************************************************)
(* The hourly limit.  What is promised can only grow while the limit is    *)
(* not reached, and then by one alert per channel of each check in flight. *)
(***************************************************************************)
Busy == {c \in Checker : Running(c)}

LEMMA Finite ==
    /\ IsFiniteSet(Checker) /\ IsFiniteSet(Busy) /\ IsFiniteSet(Batch) /\ IsFiniteSet(Promised)
    /\ Cardinality(Busy) \in Nat /\ Cardinality(Batch) \in Nat /\ Cardinality(Promised) \in Nat
    /\ Cardinality(Clicker) \in Nat
<1>1. IsFiniteSet(Checker)
  BY ConstantsOK, FS_Union DEF Checker
<1>2. IsFiniteSet(1..Channels)
  BY Constants, FS_Interval
<1>3. IsFiniteSet(Checker \X (1..Channels))
  BY <1>1, <1>2, FS_Product
<1>4. IsFiniteSet(Promised)
  BY <1>3, FS_Subset DEF Promised
<1>5. IsFiniteSet(Busy) /\ IsFiniteSet(Batch)
  BY <1>1, ConstantsOK, FS_Subset DEF Busy, Batch
<1>. QED BY <1>1, <1>4, <1>5, ConstantsOK, FS_CardinalityType

\* A batch and the admins are all that is in flight.
LEMMA BusyBound ==
    ASSUME Cardinality(Batch) <= MaxConcurrent
    PROVE  Cardinality(Busy) <= InFlight
<1>1. Busy \subseteq Batch \cup Clicker
  BY DEF Busy, Batch, Checker
<1>2. /\ IsFiniteSet(Batch \cup Clicker)
      /\ Cardinality(Batch \cup Clicker) = Cardinality(Batch) + Cardinality(Clicker) - Cardinality(Batch \cap Clicker)
  BY Finite, ConstantsOK, FS_Union
<1>3. Cardinality(Batch \cap Clicker) \in Nat
  BY Finite, FS_Intersection, FS_CardinalityType
<1>4. Cardinality(Busy) <= Cardinality(Batch \cup Clicker)
  BY <1>1, <1>2, FS_Subset
<1>5. Cardinality(Batch \cup Clicker) <= Cardinality(Batch) + Cardinality(Clicker)
  BY <1>2, <1>3, Finite
<1>6. Cardinality(Batch \cup Clicker) \in Nat
  BY <1>2, FS_CardinalityType
<1>. QED BY <1>4, <1>5, <1>6, Finite, Constants DEF InFlight

\* What is promised fits the checks in flight.
LEMMA PromisedBound ==
    ASSUME TypeOK, Cardinality(Batch) <= MaxConcurrent
    PROVE  Cardinality(Promised) <= Channels * InFlight
<1>1. Promised \subseteq Busy \X (1..Channels)
  <2>. SUFFICES ASSUME NEW p \in Promised PROVE p \in Busy \X (1..Channels)
    OBVIOUS
  <2>1. p \in Checker \X (1..Channels) /\ Owes(check[p[1]], p[2])
    BY DEF Promised
  <2>2. Running(p[1])
    BY <2>1, AtRuns DEF Owes
  <2>. QED BY <2>1, <2>2 DEF Busy
<1>2. IsFiniteSet(1..Channels) /\ Cardinality(1..Channels) = Channels
  BY Constants, FS_Interval
<1>3. IsFiniteSet(Busy \X (1..Channels)) /\ Cardinality(Busy \X (1..Channels)) = Cardinality(Busy) * Channels
  BY <1>2, Finite, FS_Product
<1>4. Cardinality(Promised) <= Cardinality(Busy) * Channels
  BY <1>1, <1>3, FS_Subset
<1>5. Cardinality(Busy) <= InFlight /\ InFlight \in Nat /\ Cardinality(Busy) \in Nat
  BY BusyBound, Finite, Constants DEF InFlight
<1>6. \A a, b, c \in Nat : a <= b => a * c <= b * c
  OBVIOUS
<1>7. Cardinality(Busy) * Channels <= InFlight * Channels
  BY <1>5, <1>6, Constants
<1>8. InFlight * Channels = Channels * InFlight
  BY <1>5, Constants
<1>9. Cardinality(Busy) * Channels \in Nat /\ InFlight * Channels \in Nat
  BY <1>5, Constants
<1>. QED BY <1>4, <1>7, <1>8, <1>9, Finite

LEMMA PromisedFits ==
    TypeOK /\ Cardinality(Batch) <= MaxConcurrent => Cardinality(Promised) <= Channels * InFlight
BY PromisedBound

LEMMA PromisedBoundNext ==
    ASSUME TypeOK', Cardinality(Batch)' <= MaxConcurrent
    PROVE  Cardinality(Promised)' <= Channels * InFlight
<1>1. (TypeOK /\ Cardinality(Batch) <= MaxConcurrent => Cardinality(Promised) <= Channels * InFlight)'
  BY PromisedFits, PTL
<1>. QED BY <1>1

LEMMA InitAlerts == Init => AlertsIInv
<1>. SUFFICES ASSUME Init PROVE AlertsIInv
  OBVIOUS
<1>1. \A c \in Checker : check[c] = NoCheck
  BY DEF Init
<1>2. Batch = {}
  BY <1>1, Constants DEF Batch, Running
<1>3. Promised = {}
  <2>. SUFFICES ASSUME NEW p \in Promised PROVE FALSE
    OBVIOUS
  <2>. QED BY <1>1, Idle DEF Promised, Owes
<1>4. Cardinality({}) = 0
  BY FS_EmptySet
<1>5. InFlight \in Nat
  BY Finite, Constants DEF InFlight
<1>6. Channels * InFlight \in Nat
  BY <1>5, Constants
<1>. QED BY <1>2, <1>3, <1>4, <1>6, Constants DEF AlertsIInv, Init

\* Nothing more is promised, nothing is sent.
LEMMA AlertsShrink ==
    ASSUME TypeOK, TypeOK', AlertsIInv, logged' <= logged,
           Batch' \subseteq Batch \/ Cardinality(Batch)' <= MaxConcurrent, Promised' \subseteq Promised
    PROVE  AlertsIInv'
<1>1. Cardinality(Batch)' <= MaxConcurrent
  <2>1. CASE Batch' \subseteq Batch
    <3>1. Cardinality(Batch') <= Cardinality(Batch) /\ IsFiniteSet(Batch')
      BY <2>1, Finite, FS_Subset
    <3>2. Cardinality(Batch') \in Nat
      BY <3>1, FS_CardinalityType
    <3>. QED BY <3>1, <3>2, Finite, Constants DEF AlertsIInv
  <2>. QED BY <2>1
<1>2. IsFiniteSet(Promised') /\ Cardinality(Promised') <= Cardinality(Promised)
  BY Finite, FS_Subset
<1>3. Cardinality(Promised') \in Nat
  BY <1>2, FS_CardinalityType
<1>4. logged \in Nat /\ logged' \in Nat
  BY DEF TypeOK
<1>5. InFlight \in Nat
  BY Finite, Constants DEF InFlight
<1>6. Channels * InFlight \in Nat
  BY <1>5, Constants
<1>7. PICK x : x = Channels * InFlight
  OBVIOUS
<1>8. logged' + Cardinality(Promised') < Ceiling + x
  <2>1. logged + Cardinality(Promised) < Ceiling + x
    BY <1>7, Zenon DEF AlertsIInv
  <2>. QED BY <2>1, <1>2, <1>3, <1>4, <1>6, <1>7, Finite, Constants
<1>9. (Channels * InFlight)' = Channels * InFlight
  BY DEF InFlight
<1>. QED BY <1>1, <1>7, <1>8, <1>9 DEF AlertsIInv

\* A check that goes on leaves the others as they are.
LEMMA GoesKeeps ==
    ASSUME TypeOK, NEW c \in Checker, NEW k, Goes(c, k)
    PROVE  /\ Batch' \subseteq Batch
           /\ \A d \in Checker : d # c => check'[d] = check[d]
           /\ check'[c] = k
BY DEF Goes, Continue, TypeOK, Batch, Running

LEMMA OwesNoMoreShrinks ==
    ASSUME TypeOK, NEW c \in Checker, NEW k, Goes(c, k), OwesNoMore(k, c)
    PROVE  Batch' \subseteq Batch /\ Promised' \subseteq Promised
<1>1. Batch' \subseteq Batch /\ (\A d \in Checker : d # c => check'[d] = check[d]) /\ check'[c] = k
  BY GoesKeeps
<1>2. ASSUME NEW p \in Promised' PROVE p \in Promised
  <2>1. p \in Checker \X (1..Channels) /\ Owes(check'[p[1]], p[2])
    BY DEF Promised
  <2>2. Owes(check[p[1]], p[2])
    BY <2>1, <1>1 DEF OwesNoMore
  <2>. QED BY <2>1, <2>2 DEF Promised
<1>. QED BY <1>1, <1>2

LEMMA JudgeAlerts ==
    ASSUME TypeOK, TypeOK', AlertsIInv, NEW c \in Checker, Judge(c) PROVE AlertsIInv'
<1>1. PICK k :
             /\ Goes(c, k)
             /\ LimitReached => \A i : ~Owes(k, i)
             /\ UNCHANGED <<tables, failRun>>
  BY JudgeStep
<1>2. CASE LimitReached
  <2>1. OwesNoMore(k, c)
    BY <1>1, <1>2 DEF OwesNoMore
  <2>2. logged' <= logged
    BY <1>1 DEF tables, TypeOK
  <2>. QED BY <1>1, <2>1, <2>2, OwesNoMoreShrinks, AlertsShrink
<1>3. CASE ~LimitReached
  <2>1. IsFiniteSet(Batch') /\ Cardinality(Batch') <= Cardinality(Batch)
    BY <1>1, GoesKeeps, Finite, FS_Subset
  <2>2. Cardinality(Batch') <= MaxConcurrent
    <3>1. Cardinality(Batch') \in Nat
      BY <2>1, FS_CardinalityType
    <3>. QED BY <3>1, <2>1, Finite, Constants DEF AlertsIInv
  <2>3. PICK x : x = Channels * InFlight
    OBVIOUS
  <2>4. Cardinality(Promised') <= x
    BY <2>2, <2>3, PromisedBoundNext
  <2>5. logged' < Ceiling /\ logged' \in Nat
    BY <1>1, <1>3, Constants DEF LimitReached, tables, TypeOK
  <2>6. x \in Nat
    BY <2>3, Finite, Constants DEF InFlight
  <2>7. IsFiniteSet(Promised')
    <3>1. IsFiniteSet(Promised)'
      BY Finite, PTL
    <3>. QED BY <3>1
  <2>8. Cardinality(Promised') \in Nat
    BY <2>7, FS_CardinalityType
  <2>9. logged' + Cardinality(Promised') < Ceiling + x
    BY <2>4, <2>5, <2>6, <2>8, Constants
  <2>10. (Channels * InFlight)' = Channels * InFlight
    BY DEF InFlight
  <2>. QED BY <2>2, <2>3, <2>9, <2>10 DEF AlertsIInv
<1>. QED BY <1>2, <1>3

LEMMA SendAlerts ==
    ASSUME TypeOK, TypeOK', AlertsIInv, NEW c \in Checker, Send(c) PROVE AlertsIInv'
<1>1. PICK k :
             /\ Goes(c, k)
             /\ check[c].left \in 1..Channels
             /\ Owes(check[c], check[c].left)
             /\ \A i \in 1..Channels : Owes(k, i) => Owes(check[c], i) /\ i # check[c].left
             /\ logged' = logged + 1
  BY SendStep
<1>2. PICK e : e = <<c, check[c].left>>
  OBVIOUS
<1>3. e \in Promised
  BY <1>1, <1>2 DEF Promised
<1>4. ASSUME NEW p \in Promised' PROVE p \in Promised \ {e}
  <2>1. p \in Checker \X (1..Channels) /\ Owes(check'[p[1]], p[2])
    BY DEF Promised
  <2>2. Owes(check[p[1]], p[2]) /\ ~(p[1] = c /\ p[2] = check[c].left)
    BY <2>1, <1>1, GoesKeeps
  <2>. QED BY <2>1, <2>2, <1>2 DEF Promised
<1>5. IsFiniteSet(Promised \ {e}) /\ Cardinality(Promised \ {e}) = Cardinality(Promised) - 1
  BY <1>3, Finite, FS_RemoveElement
<1>6. Promised' \subseteq Promised \ {e}
  BY <1>4
<1>7. IsFiniteSet(Promised') /\ Cardinality(Promised') <= Cardinality(Promised) - 1
  BY <1>5, <1>6, FS_Subset
<1>8. Cardinality(Promised') \in Nat
  BY <1>7, FS_CardinalityType
<1>9. Cardinality(Batch') <= MaxConcurrent
  <2>1. IsFiniteSet(Batch') /\ Cardinality(Batch') <= Cardinality(Batch)
    BY <1>1, GoesKeeps, Finite, FS_Subset
  <2>2. Cardinality(Batch') \in Nat
    BY <2>1, FS_CardinalityType
  <2>. QED BY <2>1, <2>2, Finite, Constants DEF AlertsIInv
<1>10. PICK x : x = Channels * InFlight
  OBVIOUS
<1>11. x \in Nat
  BY <1>10, Finite, Constants DEF InFlight
<1>12. logged + Cardinality(Promised) < Ceiling + x
  BY <1>10, Zenon DEF AlertsIInv
<1>13. logged' + Cardinality(Promised') < Ceiling + x
  BY <1>1, <1>7, <1>8, <1>11, <1>12, Finite, Constants DEF TypeOK
<1>14. (Channels * InFlight)' = Channels * InFlight
  BY DEF InFlight
<1>. QED BY <1>9, <1>10, <1>13, <1>14 DEF AlertsIInv

LEMMA StepAlerts ==
    ASSUME TypeOK, TypeOK', AlertsIInv, NEW c \in Checker, Step(c) PROVE AlertsIInv'
<1>1. CASE Judge(c)
  BY <1>1, JudgeAlerts
<1>2. CASE Send(c)
  BY <1>2, SendAlerts
<1>3. CASE ~Judge(c) /\ ~Send(c)
  <2>1. PICK k : Goes(c, k) /\ OwesNoMore(k, c) /\ UNCHANGED logged
    BY <1>3, ObserveStep, SaveStep, OpenStep, OpenedStep, RecoveredStep, CloseStep, RepeatStep DEF Step, tables
  <2>2. logged' <= logged
    BY <2>1 DEF TypeOK
  <2>. QED BY <2>1, <2>2, OwesNoMoreShrinks, AlertsShrink
<1>. QED BY <1>1, <1>2, <1>3

LEMMA TickAlerts ==
    ASSUME TypeOK, TypeOK', AlertsIInv, Tick PROVE AlertsIInv'
<1>1. PICK batch \in SUBSET Monitor :
             /\ \A m \in Monitor : ~Running(m)
             /\ Cardinality(batch) = AtMost(Cardinality(Ready), MaxConcurrent)
             /\ check' = [c \in Checker |-> IF c \in batch THEN Reading(c) ELSE check[c]]
             /\ UNCHANGED <<tables, failRun>>
  BY TickStep
<1>2. Batch' \subseteq batch
  BY <1>1, Constants DEF Batch, Running
<1>3. Cardinality(batch) <= MaxConcurrent
  <2>1. IsFiniteSet(Ready)
    BY ConstantsOK, FS_Subset DEF Ready, TypeOK
  <2>2. Cardinality(Ready) \in Nat
    BY <2>1, FS_CardinalityType
  <2>. QED BY <2>2, <1>1, Constants DEF AtMost
<1>4. Cardinality(Batch') <= MaxConcurrent
  <2>1. IsFiniteSet(batch)
    BY ConstantsOK, FS_Subset
  <2>2. Cardinality(Batch') <= Cardinality(batch) /\ IsFiniteSet(Batch')
    BY <1>2, <2>1, FS_Subset
  <2>3. Cardinality(Batch') \in Nat /\ Cardinality(batch) \in Nat
    BY <2>1, <2>2, FS_CardinalityType
  <2>. QED BY <2>2, <2>3, <1>3, Constants
<1>5. ASSUME NEW p \in Promised' PROVE p \in Promised
  <2>1. p \in Checker \X (1..Channels) /\ Owes(check'[p[1]], p[2])
    BY DEF Promised
  <2>2. p[1] \notin batch
    <3>1. \A i : \A m \in Monitor : ~Owes(Reading(m), i)
      BY ReadingType DEF Owes
    <3>. QED BY <3>1, <2>1, <1>1
  <2>. QED BY <2>1, <2>2, <1>1 DEF Promised
<1>6. logged' <= logged
  BY <1>1 DEF tables, TypeOK
<1>. QED BY <1>4, <1>5, <1>6, AlertsShrink

LEMMA CheckNowAlerts ==
    ASSUME TypeOK, TypeOK', AlertsIInv, NEW c \in Clicker, NEW m \in Monitor, CheckNow(c, m) PROVE AlertsIInv'
<1>1. c \in Checker /\ check' = [check EXCEPT ![c] = Reading(m)] /\ UNCHANGED <<tables, failRun>>
  BY Constants DEF CheckNow, Begin
<1>2. \A d \in Checker : d # c => check'[d] = check[d]
  BY <1>1 DEF TypeOK
<1>3. Batch' \subseteq Batch
  <2>1. c \notin Monitor
    BY ConstantsOK
  <2>. QED BY <2>1, <1>2, Constants DEF Batch, Running
<1>4. ASSUME NEW p \in Promised' PROVE p \in Promised
  <2>1. p \in Checker \X (1..Channels) /\ Owes(check'[p[1]], p[2])
    BY DEF Promised
  <2>2. p[1] # c
    <3>1. \A i : ~Owes(Reading(m), i)
      BY ReadingType DEF Owes
    <3>. QED BY <3>1, <2>1, <1>1 DEF TypeOK
  <2>. QED BY <2>1, <2>2, <1>2 DEF Promised
<1>5. logged' <= logged
  BY <1>1 DEF tables, TypeOK
<1>. QED BY <1>3, <1>4, <1>5, AlertsShrink

LEMMA AroundAlerts ==
    ASSUME TypeOK, TypeOK', AlertsIInv,
           \/ \E m \in Monitor : FallDue(m) \/ Pause(m)
           \/ HourPasses
           \/ \E c \in Checker : Abandon(c)
           \/ UNCHANGED vars
    PROVE  AlertsIInv'
<1>1. CASE UNCHANGED check /\ logged' <= logged
  <2>1. Batch' = Batch /\ Promised' = Promised
    BY <1>1 DEF Batch, Running, Promised
  <2>. QED BY <1>1, <2>1, AlertsShrink
<1>2. ASSUME NEW c \in Checker, Abandon(c) PROVE AlertsIInv'
  <2>1. check' = [check EXCEPT ![c] = NoCheck] /\ logged' = logged
    BY <1>2 DEF Abandon, Return, Continue, tables
  <2>2. \A d \in Checker : check'[d] = check[d] \/ check'[d] = NoCheck
    BY <2>1 DEF TypeOK
  <2>3. Batch' \subseteq Batch
    BY <2>2, Constants DEF Batch, Running
  <2>4. ASSUME NEW p \in Promised' PROVE p \in Promised
    <3>1. p \in Checker \X (1..Channels) /\ Owes(check'[p[1]], p[2])
      BY DEF Promised
    <3>2. check'[p[1]] = check[p[1]]
      BY <3>1, <2>2, Idle DEF Owes
    <3>. QED BY <3>1, <3>2 DEF Promised
  <2>5. logged' <= logged
    BY <2>1 DEF TypeOK
  <2>. QED BY <2>3, <2>4, <2>5, AlertsShrink
<1>3. (\E m \in Monitor : FallDue(m) \/ Pause(m)) \/ HourPasses \/ UNCHANGED vars => UNCHANGED check /\ logged' <= logged
  BY DEF FallDue, Pause, HourPasses, vars, tables, TypeOK
<1>. QED BY <1>1, <1>2, <1>3

LEMMA AlertsInvariant == Spec => [](TypeOK /\ AlertsIInv)
<1>1. Init => TypeOK /\ AlertsIInv
  BY InitType, InitAlerts
<1>2. TypeOK /\ AlertsIInv /\ [Next]_vars => (TypeOK /\ AlertsIInv)'
  <2>. SUFFICES ASSUME TypeOK, AlertsIInv, [Next]_vars PROVE TypeOK' /\ AlertsIInv'
    OBVIOUS
  <2>1. TypeOK'
    BY NextType
  <2>. QED BY <2>1, StepAlerts, TickAlerts, CheckNowAlerts, AroundAlerts DEF Next, Work, Intervene
<1>. QED BY <1>1, <1>2, PTL DEF Spec

(***************************************************************************)
(* However the checks interleave between the count that suppressed() reads *)
(* and the rows that dispatch writes, the notifications of an hour exceed  *)
(* the limit by less than a batch and the admins can send at once.         *)
(***************************************************************************)
THEOREM AlertsAreBoundedAlways == Spec => []AlertsAreBounded
<1>1. TypeOK /\ AlertsIInv => AlertsAreBounded
  <2>. SUFFICES ASSUME TypeOK, AlertsIInv PROVE AlertsAreBounded
    OBVIOUS
  <2>1. PICK x : x = Channels * InFlight
    OBVIOUS
  <2>2. x \in Nat
    BY <2>1, Finite, Constants DEF InFlight
  <2>3. logged + Cardinality(Promised) < Ceiling + x
    BY <2>1, Zenon DEF AlertsIInv
  <2>4. logged < Ceiling + x
    BY <2>2, <2>3, Finite, Constants DEF TypeOK
  <2>. QED BY <2>1, <2>4 DEF AlertsAreBounded, InFlight
<1>. QED BY <1>1, AlertsInvariant, PTL

-----------------------------------------------------------------------------
(***************************************************************************)
(* Configuration. A route that outlived what it names comes of two tabs at *)
(* once or of an action left half done, unless it was written blind: what  *)
(* a tab is about, no other tab is, unless the id was crossed, and a row   *)
(* whose turn it is to be deleted has no routes left (RoutesAreGone).      *)
(***************************************************************************)

Script == [about : SUBSET Ids, left : Seq(Statement), monitors : SUBSET MonitorIds, picks : SUBSET ChannelIds]

\* The ids of a statement are among those its action is about.
Named(x, about) == x.id \in about /\ (x.run = "route" => x.to \in about)

\* A row is deleted after its routes, by the statement that follows.
Removes(x, id) == x.run \in {"clear", "unroute"} /\ x.id = id /\ (id \in MonitorIds <=> x.run = "clear")
Tidy(s) ==
    \A i \in DOMAIN s.left : s.left[i].run = "delete" =>
        i = 1 \/ (i = 2 /\ Removes(s.left[1], s.left[2].id))

Proper(s) ==
    /\ s.monitors \subseteq s.about
    /\ s.monitors # {} => s.picks \subseteq s.about
    /\ \A i \in DOMAIN s.left : Named(s.left[i], s.about)
    /\ Tidy(s)

\* A tab with nothing at hand has nothing to do.
Settled(s) == s.left = <<>> => s = NothingToDo

Touches(r, id) == id \in {r[1], r[2]}

\* What a tab is about to delete has no routes left, but for ids that others
\* were about as well.
RoutesAreGone(t) ==
    LET s == script[t]
    IN  s.left # <<>> /\ s.left[1].run = "delete" /\ s.left[1].id \notin crossed =>
            \A r \in routes : ~Touches(r, s.left[1].id)

ConfigIInv ==
    /\ ConfigTypeOK
    /\ \A t \in ConfigTab : Proper(script[t]) /\ Settled(script[t]) /\ RoutesAreGone(t)
    /\ \A t, u \in ConfigTab : t # u => script[t].about \cap script[u].about \subseteq crossed
    /\ \A r \in outlived \ blind : {r[1], r[2]} \cap crossed # {}

-----------------------------------------------------------------------------
LEMMA SeqOfSet ==
    ASSUME NEW S, IsFiniteSet(S)
    PROVE  /\ SetToSeq(S) \in Seq(S) /\ Len(SetToSeq(S)) \in Nat
           /\ DOMAIN SetToSeq(S) = 1..Len(SetToSeq(S))
           /\ \A i \in 1..Len(SetToSeq(S)) : SetToSeq(S)[i] \in S
<1>1. Cardinality(S) \in Nat /\ \E f \in [1..Cardinality(S) -> S] : IsInjective(f)
  BY FS_CardinalityType DEF ExistsBijection, Bijection, Injection, IsInjective
<1>2. SetToSeq(S) \in [1..Cardinality(S) -> S]
  BY <1>1 DEF SetToSeq
<1>. QED BY <1>1, <1>2

LEMMA IdsAre == MonitorIds \cap ChannelIds = {} /\ MonitorIds \subseteq Ids /\ ChannelIds \subseteq Ids
                /\ IsFiniteSet(MonitorIds) /\ IsFiniteSet(ChannelIds)
BY ConfigConstantsOK, FS_Subset DEF Ids

\* The statements for one monitor.
LEMMA StoringIs ==
    ASSUME NEW m \in MonitorIds, NEW picks \in SUBSET ChannelIds
    PROVE  /\ Storing(m, picks) \in Seq(Statement)
           /\ Storing(m, picks) # <<>>
           /\ \A i \in DOMAIN Storing(m, picks) :
                 /\ Storing(m, picks)[i].run # "delete"
                 /\ Named(Storing(m, picks)[i], {m} \cup picks)
<1>a. PICK R : R = {RouteTo(m, c) : c \in picks}
  OBVIOUS
<1>b. PICK q : q = SetToSeq(R)
  OBVIOUS
<1>1. IsFiniteSet(R)
  <2>1. IsFiniteSet(picks)
    BY IdsAre, FS_Subset
  <2>2. PICK f : f = [c \in picks |-> RouteTo(m, c)]
    OBVIOUS
  <2>3. f \in Surjection(picks, R)
    BY <1>a, <2>2 DEF Surjection
  <2>. QED BY <2>1, <2>3, FS_Surjection
<1>2. q \in Seq(R) /\ Len(q) \in Nat /\ \A i \in 1..Len(q) : q[i] \in R
  BY <1>1, <1>b, SeqOfSet
<1>3. R \subseteq Statement /\ \A x \in R : x.run = "route" /\ x.id = m /\ x.to \in picks
  BY <1>a DEF RouteTo, Statement
<1>4. PICK a : a = Do("upsert", m)
  OBVIOUS
<1>5. PICK b : b = Do("clear", m)
  OBVIOUS
<1>6. a \in Statement /\ b \in Statement /\ a.run = "upsert" /\ b.run = "clear" /\ a.id = m /\ b.id = m
  BY <1>4, <1>5, IdsAre DEF Do, Statement
<1>7. q \in Seq(Statement)
  BY <1>2, <1>3
<1>8. PICK s : s = <<a>> \o (<<b>> \o q)
  OBVIOUS
<1>9. Storing(m, picks) = s
  BY <1>a, <1>b, <1>4, <1>5, <1>8 DEF Storing, SetRoutes
<1>10. <<b>> \o q \in Seq(Statement) /\ Len(<<b>> \o q) = 1 + Len(q) /\ \A i \in 1..(1 + Len(q)) : (<<b>> \o q)[i] = IF i = 1 THEN b ELSE q[i - 1]
  BY <1>2, <1>6, <1>7
<1>11. s \in Seq(Statement) /\ Len(s) = 2 + Len(q) /\ \A i \in 1..(2 + Len(q)) : s[i] = IF i = 1 THEN a ELSE (<<b>> \o q)[i - 1]
  BY <1>2, <1>6, <1>8, <1>10
<1>12. ASSUME NEW i \in DOMAIN s PROVE s[i].run # "delete" /\ Named(s[i], {m} \cup picks)
  <2>1. i \in 1..(2 + Len(q))
    BY <1>2, <1>11, <1>12
  <2>2. CASE i = 1
    BY <2>1, <2>2, <1>6, <1>11 DEF Named
  <2>3. CASE i = 2
    BY <2>1, <2>3, <1>2, <1>6, <1>10, <1>11 DEF Named
  <2>4. CASE i > 2
    <3>1. s[i] = q[i - 2] /\ i - 2 \in 1..Len(q)
      BY <2>1, <2>4, <1>2, <1>10, <1>11
    <3>2. s[i] \in R
      BY <3>1, <1>2
    <3>. QED BY <3>2, <1>3 DEF Named
  <2>. QED BY <2>1, <2>2, <2>3, <2>4
<1>13. s # <<>>
  BY <1>2, <1>11
<1>. QED BY <1>9, <1>11, <1>12, <1>13

\* Where a proper script goes on, it stays proper, and is about no more.
LEMMA GoesOnProperly ==
    ASSUME NEW s \in Script, NEW n, n \in Onwards(s), Proper(s)
    PROVE  n \in Script /\ Proper(n) /\ Settled(n) /\ n.about \subseteq s.about
           /\ (n.left # <<>> /\ n.left[1].run = "delete" => n.left = s.left /\ n.about = s.about)
<1>1. CASE s.left # <<>>
  BY <1>1 DEF Onwards, Settled
<1>2. CASE s.left = <<>> /\ s.monitors = {}
  BY <1>2 DEF Onwards, NothingToDo, Script, Proper, Tidy, Settled
<1>3. CASE s.left = <<>> /\ s.monitors # {}
  <2>1. PICK m \in s.monitors : n = [s EXCEPT !.left = Storing(m, s.picks), !.monitors = @ \ {m}]
    BY <1>3 DEF Onwards
  <2>2. m \in MonitorIds /\ s.picks \in SUBSET ChannelIds /\ m \in s.about /\ s.picks \subseteq s.about
    BY <1>3 DEF Script, Proper
  <2>3. n = [about |-> s.about, left |-> Storing(m, s.picks), monitors |-> s.monitors \ {m}, picks |-> s.picks]
    BY <2>1 DEF Script
  <2>4. n \in Script
    BY <2>2, <2>3, StoringIs DEF Script
  <2>5. \A i \in DOMAIN n.left : n.left[i].run # "delete" /\ Named(n.left[i], s.about)
    BY <2>2, <2>3, StoringIs DEF Named
  <2>6. Proper(n)
    BY <2>2, <2>3, <2>5 DEF Proper, Tidy
  <2>7. n.left # <<>> => 1 \in DOMAIN n.left
    BY <2>4 DEF Script
  <2>. QED BY <2>2, <2>3, <2>4, <2>5, <2>6, <2>7, StoringIs DEF Settled
<1>. QED BY <1>1, <1>2, <1>3

LEMMA NothingIsProper == NothingToDo \in Script /\ Proper(NothingToDo) /\ Settled(NothingToDo)
BY DEF NothingToDo, Script, Proper, Tidy, Settled

-----------------------------------------------------------------------------
(* Actions begin. *)

LEMMA BeginsSound ==
    ASSUME ConfigIInv, NEW t \in ConfigTab, NEW about \in SUBSET Ids, NEW statements \in Seq(Statement),
           NEW monitors \in SUBSET MonitorIds, NEW picks \in SUBSET ChannelIds,
           BeginsImport(t, about, statements, monitors, picks),
           monitors \subseteq about, monitors # {} => picks \subseteq about,
           \A i \in DOMAIN statements : Named(statements[i], about),
           \A i \in DOMAIN statements : statements[i].run = "delete" =>
               i = 2 /\ Removes(statements[1], statements[2].id)
    PROVE  ConfigIInv'
<1>1. PICK s : s = [about |-> about, left |-> statements, monitors |-> monitors, picks |-> picks]
  OBVIOUS
<1>2. s \in Script /\ Proper(s)
  BY <1>1 DEF Script, Proper, Tidy
<1>3. PICK n \in Onwards(s) : script' = [script EXCEPT ![t] = n]
  BY <1>1 DEF BeginsImport
<1>4. n \in Script /\ Proper(n) /\ Settled(n) /\ n.about \subseteq about
      /\ (n.left # <<>> /\ n.left[1].run = "delete" => n.left = statements)
  BY <1>1, <1>2, <1>3, GoesOnProperly
<1>5. script \in [ConfigTab -> Script] /\ script' \in [ConfigTab -> Script]
      /\ script'[t] = n /\ \A u \in ConfigTab : u # t => script'[u] = script[u]
  BY <1>3, <1>4 DEF ConfigIInv, ConfigTypeOK, Script
<1>6. UNCHANGED <<rows, routes, shown, outlived, blind>> /\ crossed \subseteq crossed' /\ crossed' \subseteq Ids
      /\ \A u \in ConfigTab : about \cap script[u].about \subseteq crossed'
  BY DEF BeginsImport, ConfigIInv, ConfigTypeOK
<1>7. ConfigTypeOK'
  BY <1>5, <1>6 DEF ConfigIInv, ConfigTypeOK, Script
<1>8. ~(n.left # <<>> /\ n.left[1].run = "delete")
  <2>. SUFFICES ASSUME n.left # <<>>, n.left[1].run = "delete" PROVE FALSE
    OBVIOUS
  <2>1. n.left = statements /\ 1 \in DOMAIN statements
    BY <1>4
  <2>. QED BY <2>1
<1>9. \A u \in ConfigTab : (Proper(script[u]) /\ Settled(script[u]) /\ RoutesAreGone(u))'
  <2>. SUFFICES ASSUME NEW u \in ConfigTab
                PROVE  Proper(script'[u]) /\ Settled(script'[u]) /\ RoutesAreGone(u)'
    BY DEF Proper, Settled, Tidy, Named, Removes, NothingToDo
  <2>1. CASE u = t
    BY <2>1, <1>4, <1>5, <1>8 DEF RoutesAreGone
  <2>2. CASE u # t
    BY <2>2, <1>5, <1>6 DEF RoutesAreGone, ConfigIInv
  <2>. QED BY <2>1, <2>2
<1>10. (\A u, v \in ConfigTab : u # v => script[u].about \cap script[v].about \subseteq crossed)'
  BY <1>4, <1>5, <1>6 DEF ConfigIInv
<1>11. (\A r \in outlived \ blind : {r[1], r[2]} \cap crossed # {})'
  BY <1>6 DEF ConfigIInv
<1>. QED BY <1>7, <1>9, <1>10, <1>11 DEF ConfigIInv

LEMMA BeginsPlainly ==
    ASSUME ConfigIInv, NEW t \in ConfigTab, NEW about \in SUBSET Ids, NEW statements \in Seq(Statement),
           Begins(t, about, statements),
           \A i \in DOMAIN statements : Named(statements[i], about),
           \A i \in DOMAIN statements : statements[i].run = "delete" =>
               i = 2 /\ Removes(statements[1], statements[2].id)
    PROVE  ConfigIInv'
<1>1. BeginsImport(t, about, statements, {}, {})
  BY DEF Begins
<1>. QED BY <1>1, BeginsSound

LEMMA Pair ==
    ASSUME NEW a \in Statement, NEW b \in Statement
    PROVE  <<a, b>> \in Seq(Statement) /\ DOMAIN <<a, b>> = {1, 2}
OBVIOUS

LEMMA SavesAndRemovals ==
    ASSUME ConfigIInv, NEW t \in ConfigTab
    PROVE  /\ \A m \in MonitorIds, picks \in SUBSET ChannelIds : SaveMonitor(t, m, picks) => ConfigIInv'
           /\ \A m \in MonitorIds : DeleteMonitor(t, m) => ConfigIInv'
           /\ \A c \in ChannelIds : SaveChannel(t, c) \/ DeleteChannel(t, c) => ConfigIInv'
           /\ \A doc \in Document : ImportConfig(t, doc) => ConfigIInv'
<1>1. ASSUME NEW m \in MonitorIds, NEW picks \in SUBSET ChannelIds, SaveMonitor(t, m, picks)
      PROVE  ConfigIInv'
  <2>1. Begins(t, {m} \cup picks, Storing(m, picks))
    BY <1>1 DEF SaveMonitor
  <2>2. {m} \cup picks \in SUBSET Ids
    BY IdsAre
  <2>3. PICK q : q = Storing(m, picks)
    OBVIOUS
  <2>4. q \in Seq(Statement) /\ \A i \in DOMAIN q : q[i].run # "delete" /\ Named(q[i], {m} \cup picks)
    BY <2>3, StoringIs
  <2>. QED BY <2>1, <2>2, <2>3, <2>4, BeginsPlainly
<1>2. ASSUME NEW m \in MonitorIds, DeleteMonitor(t, m) PROVE ConfigIInv'
  <2>1. PICK a, b : a = Do("clear", m) /\ b = Do("delete", m)
    OBVIOUS
  <2>2. a \in Statement /\ b \in Statement /\ a.run = "clear" /\ b.run = "delete" /\ a.id = m /\ b.id = m
    BY <2>1, IdsAre DEF Do, Statement
  <2>3. Begins(t, {m}, <<a, b>>)
    BY <1>2, <2>1 DEF DeleteMonitor
  <2>4. \A i \in DOMAIN <<a, b>> : Named(<<a, b>>[i], {m})
    BY <2>2, Pair DEF Named
  <2>5. \A i \in DOMAIN <<a, b>> : <<a, b>>[i].run = "delete" => i = 2 /\ Removes(<<a, b>>[1], <<a, b>>[2].id)
    BY <2>2, Pair DEF Removes
  <2>6. {m} \in SUBSET Ids
    BY IdsAre
  <2>. QED BY <2>2, <2>3, <2>4, <2>5, <2>6, Pair, BeginsPlainly
<1>3. ASSUME NEW c \in ChannelIds, SaveChannel(t, c) PROVE ConfigIInv'
  <2>1. PICK a : a = Do("upsert", c)
    OBVIOUS
  <2>2. a \in Statement /\ a.run = "upsert" /\ a.id = c /\ {c} \in SUBSET Ids
    BY <2>1, IdsAre DEF Do, Statement
  <2>3. Begins(t, {c}, <<a>>)
    BY <1>3, <2>1 DEF SaveChannel
  <2>4. PICK q : q = <<a>>
    OBVIOUS
  <2>5. q \in Seq(Statement) /\ \A i \in DOMAIN q : q[i].run # "delete" /\ Named(q[i], {c})
    BY <2>2, <2>4 DEF Named
  <2>. QED BY <2>2, <2>3, <2>4, <2>5, BeginsPlainly
<1>4. ASSUME NEW c \in ChannelIds, DeleteChannel(t, c) PROVE ConfigIInv'
  <2>1. PICK a, b : a = Do("unroute", c) /\ b = Do("delete", c)
    OBVIOUS
  <2>2. a \in Statement /\ b \in Statement /\ a.run = "unroute" /\ b.run = "delete" /\ a.id = c /\ b.id = c
        /\ c \notin MonitorIds
    BY <2>1, IdsAre DEF Do, Statement
  <2>3. Begins(t, {c}, <<a, b>>)
    BY <1>4, <2>1 DEF DeleteChannel, ChannelRemoval
  <2>4. \A i \in DOMAIN <<a, b>> : Named(<<a, b>>[i], {c})
    BY <2>2, Pair DEF Named
  <2>5. \A i \in DOMAIN <<a, b>> : <<a, b>>[i].run = "delete" => i = 2 /\ Removes(<<a, b>>[1], <<a, b>>[2].id)
    BY <2>2, Pair DEF Removes
  <2>6. {c} \in SUBSET Ids
    BY IdsAre
  <2>. QED BY <2>2, <2>3, <2>4, <2>5, <2>6, Pair, BeginsPlainly
<1>5. ASSUME NEW doc \in Document, ImportConfig(t, doc) PROVE ConfigIInv'
  <2>1. PICK C, M, P : C = doc.channels /\ M = doc.monitors /\ P = doc.picks
    OBVIOUS
  <2>2. C \in SUBSET ChannelIds /\ M \in SUBSET MonitorIds /\ P \in SUBSET ChannelIds
    BY <2>1, ConfigConstantsOK
  <2>3. PICK U : U = {Do("upsert", c) : c \in C}
    OBVIOUS
  <2>4. IsFiniteSet(U)
    <3>1. IsFiniteSet(C)
      BY <2>2, IdsAre, FS_Subset
    <3>2. PICK f : f = [c \in C |-> Do("upsert", c)]
      OBVIOUS
    <3>3. f \in Surjection(C, U)
      BY <2>3, <3>2 DEF Surjection
    <3>. QED BY <3>1, <3>3, FS_Surjection
  <2>5. PICK q : q = SetToSeq(U)
    OBVIOUS
  <2>6. q \in Seq(U) /\ \A i \in DOMAIN q : q[i] \in U
    BY <2>4, <2>5, SeqOfSet
  <2>7. \A x \in U : x \in Statement /\ x.run = "upsert" /\ x.id \in C
    BY <2>2, <2>3, IdsAre DEF Do, Statement
  <2>8. q \in Seq(Statement) /\ \A i \in DOMAIN q : q[i].run = "upsert" /\ Named(q[i], C \cup M \cup P)
    BY <2>6, <2>7 DEF Named
  <2>9. BeginsImport(t, C \cup M \cup P, q, M, P)
    BY <1>5, <2>1, <2>3, <2>5 DEF ImportConfig
  <2>10. C \cup M \cup P \in SUBSET Ids
    BY <2>2, IdsAre
  <2>. QED BY <2>2, <2>8, <2>9, <2>10, BeginsSound
<1>. QED BY <1>1, <1>2, <1>3, <1>4, <1>5

-----------------------------------------------------------------------------
(* Statements run. *)

LEMMA StatementTaken ==
    ASSUME ConfigIInv, NEW t \in ConfigTab, NEW what, TurnTo(t, what)
    PROVE  \E x \in Statement, n \in Script :
              /\ x = NextStatement(t) /\ x = script[t].left[1] /\ script[t].left # <<>>
              /\ x.run = what /\ Named(x, script[t].about)
              /\ script' = [script EXCEPT ![t] = n]
              /\ Proper(n) /\ Settled(n) /\ n.about \subseteq script[t].about
              /\ n.left # <<>> /\ n.left[1].run = "delete" => Removes(x, n.left[1].id)
<1>1. PICK s \in Script : s = script[t]
  BY DEF ConfigIInv, ConfigTypeOK, Script
<1>2. s.left # <<>> /\ Proper(s) /\ s.left \in Seq(Statement)
  BY <1>1 DEF ConfigIInv, Settled, TurnTo, Script
<1>3. PICK q : q = Tail(s.left)
  OBVIOUS
<1>4. q \in Seq(Statement) /\ \A i \in DOMAIN q : q[i] = s.left[i + 1] /\ i + 1 \in DOMAIN s.left /\ i \in Nat /\ i > 0
  BY <1>2, <1>3
<1>5. PICK l : l = [s EXCEPT !.left = Tail(@)]
  OBVIOUS
<1>6. l \in Script /\ l.left = q /\ l.about = s.about /\ l.monitors = s.monitors /\ l.picks = s.picks
  BY <1>3, <1>4, <1>5 DEF Script
<1>7. Proper(l)
  <2>2. \A i \in DOMAIN q : Named(q[i], s.about)
    BY <1>2, <1>4 DEF Proper
  <2>3. \A i \in DOMAIN q : q[i].run = "delete" => i = 1
    BY <1>2, <1>4 DEF Proper, Tidy
  <2>5. Tidy(l)
    BY <2>3, <1>6 DEF Tidy
  <2>6. s.monitors \subseteq s.about /\ (s.monitors # {} => s.picks \subseteq s.about)
    BY <1>2 DEF Proper
  <2>7. \A i \in DOMAIN l.left : Named(l.left[i], l.about)
    BY <2>2, <1>6
  <2>8. l.monitors \subseteq l.about /\ (l.monitors # {} => l.picks \subseteq l.about)
    BY <1>6, <2>6
  <2>. QED BY <2>5, <2>7, <2>8 DEF Proper
<1>8. PICK n \in Onwards(l) : script' = [script EXCEPT ![t] = n]
  BY <1>1, <1>5 DEF TurnTo, Ran
<1>9. n \in Script /\ Proper(n) /\ Settled(n) /\ n.about \subseteq s.about
      /\ (n.left # <<>> /\ n.left[1].run = "delete" => n.left = q)
  BY <1>6, <1>7, <1>8, GoesOnProperly
<1>10. 1 \in DOMAIN s.left /\ s.left[1] \in Statement /\ NextStatement(t) = s.left[1]
  BY <1>1, <1>2 DEF NextStatement
<1>11. n.left # <<>> /\ n.left[1].run = "delete" => Removes(s.left[1], n.left[1].id)
  <2>. SUFFICES ASSUME n.left # <<>>, n.left[1].run = "delete" PROVE Removes(s.left[1], n.left[1].id)
    OBVIOUS
  <2>1. n.left = q /\ 1 \in DOMAIN q
    BY <1>4, <1>9
  <2>2. q[1] = s.left[2] /\ 2 \in DOMAIN s.left
    BY <2>1, <1>4
  <2>. QED BY <2>1, <2>2, <1>2 DEF Proper, Tidy
<1>12. s.left[1].run = what /\ Named(s.left[1], s.about)
  BY <1>2, <1>10 DEF TurnTo, Proper
<1>. QED BY <1>1, <1>2, <1>8, <1>9, <1>10, <1>11, <1>12

\* What a statement must do to the tables.
LEMMA StatementSound ==
    ASSUME ConfigIInv, NEW t \in ConfigTab, NEW n \in Script, script' = [script EXCEPT ![t] = n],
           Proper(n), Settled(n), n.about \subseteq script[t].about,
           rows' \subseteq Ids, routes' \subseteq MonitorIds \X ChannelIds, shown' \subseteq ChannelIds,
           outlived' \subseteq routes', blind' \subseteq routes', crossed' \subseteq Ids,
           crossed \subseteq crossed',
           \A u \in ConfigTab \ {t} : RoutesAreGone(u)',
           n.left # <<>> /\ n.left[1].run = "delete" => RoutesAreGone(t)',
           \A r \in outlived' \ blind' : r \in outlived \ blind \/ {r[1], r[2]} \cap crossed' # {}
    PROVE  ConfigIInv'
<1>1. script \in [ConfigTab -> Script] /\ script' \in [ConfigTab -> Script]
      /\ script'[t] = n /\ \A u \in ConfigTab : u # t => script'[u] = script[u]
  BY DEF ConfigIInv, ConfigTypeOK, Script
<1>2. ConfigTypeOK'
  BY <1>1 DEF ConfigTypeOK, Script
<1>3. \A u \in ConfigTab : (Proper(script[u]) /\ Settled(script[u]) /\ RoutesAreGone(u))'
  <2>. SUFFICES ASSUME NEW u \in ConfigTab
                PROVE  Proper(script'[u]) /\ Settled(script'[u]) /\ RoutesAreGone(u)'
    BY DEF Proper, Settled, Tidy, Named, Removes, NothingToDo
  <2>1. CASE u = t
    BY <2>1, <1>1 DEF RoutesAreGone
  <2>2. CASE u # t
    BY <2>2, <1>1 DEF ConfigIInv
  <2>. QED BY <2>1, <2>2
<1>4. (\A u, v \in ConfigTab : u # v => script[u].about \cap script[v].about \subseteq crossed)'
  BY <1>1 DEF ConfigIInv
<1>5. (\A r \in outlived \ blind : {r[1], r[2]} \cap crossed # {})'
  BY DEF ConfigIInv
<1>. QED BY <1>2, <1>3, <1>4, <1>5 DEF ConfigIInv

LEMMA OthersGone ==
    ASSUME ConfigIInv, NEW t \in ConfigTab, NEW n \in Script, script' = [script EXCEPT ![t] = n],
           crossed \subseteq crossed', NEW u \in ConfigTab \ {t}, routes' \subseteq routes
    PROVE  RoutesAreGone(u)'
<1>1. script'[u] = script[u]
  BY DEF ConfigIInv, ConfigTypeOK
<1>. QED BY <1>1 DEF ConfigIInv, RoutesAreGone

LEMMA RunSound ==
    ASSUME ConfigIInv, NEW t \in ConfigTab,
           Upsert(t) \/ DeleteRow(t) \/ ClearRoutes(t) \/ Unroute(t) \/ InsertRoute(t)
    PROVE  ConfigIInv'
<1>1. PICK what : TurnTo(t, what)
  BY DEF Upsert, DeleteRow, ClearRoutes, Unroute, InsertRoute
<1>2. PICK x \in Statement, n \in Script :
              /\ x = NextStatement(t) /\ x = script[t].left[1] /\ script[t].left # <<>>
              /\ x.run = what /\ Named(x, script[t].about)
              /\ script' = [script EXCEPT ![t] = n]
              /\ Proper(n) /\ Settled(n) /\ n.about \subseteq script[t].about
              /\ n.left # <<>> /\ n.left[1].run = "delete" => Removes(x, n.left[1].id)
  BY <1>1, StatementTaken
<1>3. x.run = NextStatement(t).run
  BY <1>2
<1>4. script'[t] = n
  BY <1>2 DEF ConfigIInv, ConfigTypeOK
<1>5. rows \subseteq Ids /\ routes \subseteq MonitorIds \X ChannelIds /\ outlived \subseteq routes /\ crossed \subseteq Ids
      /\ blind \subseteq routes /\ shown \subseteq ChannelIds
      /\ x.id \in Ids /\ (x.run = "route" => x.id \in MonitorIds /\ x.to \in ChannelIds)
  BY IdsAre DEF ConfigIInv, ConfigTypeOK, Statement
<1>6. CASE Upsert(t)
  <2>1. x.run = "upsert" /\ rows' = rows \cup {x.id} /\ UNCHANGED <<routes, outlived, blind, crossed>>
        /\ shown' \subseteq shown \cup ChannelIds
    BY <1>6, <1>2 DEF Upsert, TurnTo
  <2>2. ~(n.left # <<>> /\ n.left[1].run = "delete")
    BY <2>1, <1>2 DEF Removes
  <2>. QED BY <2>1, <2>2, <1>2, <1>5, OthersGone, StatementSound
<1>7. CASE DeleteRow(t)
  <2>1. /\ x.run = "delete" /\ rows' = rows \ {x.id} /\ UNCHANGED <<routes, shown, blind, crossed>>
        /\ outlived' = outlived \cup {r \in routes : x.id \in {r[1], r[2]}}
    BY <1>7, <1>2 DEF DeleteRow, TurnTo
  <2>2. ~(n.left # <<>> /\ n.left[1].run = "delete")
    BY <2>1, <1>2 DEF Removes
  <2>3. x.id \in crossed \/ \A r \in routes : x.id \notin {r[1], r[2]}
    BY <1>2, <2>1 DEF ConfigIInv, RoutesAreGone, Touches
  <2>4. \A r \in outlived' \ blind' : r \in outlived \ blind \/ {r[1], r[2]} \cap crossed' # {}
    BY <2>1, <2>3
  <2>. QED BY <2>1, <2>2, <2>4, <1>2, <1>5, OthersGone, StatementSound
<1>8. CASE ClearRoutes(t)
  <2>1. /\ x.run = "clear" /\ UNCHANGED <<rows, shown, crossed>>
        /\ routes' = {r \in routes : r[1] # x.id} /\ outlived' = outlived \cap routes' /\ blind' = blind \cap routes'
    BY <1>8, <1>2 DEF ClearRoutes, TurnTo, OnlyThese
  <2>2. ASSUME n.left # <<>>, n.left[1].run = "delete" PROVE RoutesAreGone(t)'
    <3>1. n.left[1].id = x.id /\ x.id \in MonitorIds
      BY <2>1, <2>2, <1>2 DEF Removes
    <3>2. \A r \in routes' : x.id \notin {r[1], r[2]}
      BY <2>1, <3>1, <1>5, IdsAre
    <3>. QED BY <3>1, <3>2, <1>4 DEF RoutesAreGone, Touches
  <2>. QED BY <2>1, <2>2, <1>2, <1>5, OthersGone, StatementSound
<1>9. CASE Unroute(t)
  <2>1. /\ x.run = "unroute" /\ UNCHANGED <<rows, shown, crossed>>
        /\ routes' = {r \in routes : r[2] # x.id} /\ outlived' = outlived \cap routes' /\ blind' = blind \cap routes'
    BY <1>9, <1>2 DEF Unroute, TurnTo, OnlyThese
  <2>2. ASSUME n.left # <<>>, n.left[1].run = "delete" PROVE RoutesAreGone(t)'
    <3>1. n.left[1].id = x.id /\ x.id \notin MonitorIds
      BY <2>1, <2>2, <1>2 DEF Removes
    <3>2. \A r \in routes' : x.id \notin {r[1], r[2]}
      BY <2>1, <3>1, <1>5, IdsAre
    <3>. QED BY <3>1, <3>2, <1>4 DEF RoutesAreGone, Touches
  <2>. QED BY <2>1, <2>2, <1>2, <1>5, OthersGone, StatementSound
<1>10. CASE InsertRoute(t)
  <2>1. /\ x.run = "route" /\ UNCHANGED <<rows, shown, crossed>>
        /\ routes' = routes \cup {<<x.id, x.to>>} /\ outlived' \subseteq routes' /\ blind' \subseteq routes'
        /\ outlived' \ blind' \subseteq outlived \ blind
    BY <1>10, <1>2, <1>5 DEF InsertRoute, TurnTo
  <2>2. ~(n.left # <<>> /\ n.left[1].run = "delete")
    BY <2>1, <1>2 DEF Removes
  <2>3. ASSUME NEW u \in ConfigTab \ {t} PROVE RoutesAreGone(u)'
    <3>1. script'[u] = script[u] /\ script[u] \in Script
      BY <1>2 DEF ConfigIInv, ConfigTypeOK, Script
    <3>2. ASSUME script[u].left # <<>>, script[u].left[1].run = "delete", script[u].left[1].id \notin crossed,
                 NEW r \in routes', Touches(r, script[u].left[1].id)
          PROVE  FALSE
      <4>1. 1 \in DOMAIN script[u].left
        BY <3>1, <3>2 DEF Script
      <4>2. script[u].left[1].id \in script[u].about
        BY <4>1 DEF ConfigIInv, Proper, Named
      <4>3. r = <<x.id, x.to>>
        BY <2>1, <3>2 DEF ConfigIInv, RoutesAreGone
      <4>4. script[u].left[1].id \in script[t].about
        BY <4>3, <3>2, <2>1, <1>2 DEF Touches, Named
      <4>. QED BY <4>2, <4>4, <3>2 DEF ConfigIInv
    <3>. QED BY <2>1, <3>1, <3>2 DEF RoutesAreGone
  <2>4. routes' \subseteq MonitorIds \X ChannelIds /\ shown' \subseteq ChannelIds
    BY <2>1, <1>5
  <2>. QED BY <2>1, <2>2, <2>3, <2>4, <1>2, <1>5, StatementSound
<1>. QED BY <1>6, <1>7, <1>8, <1>9, <1>10

LEMMA GiveUpSound ==
    ASSUME ConfigIInv, NEW t \in ConfigTab, GiveUp(t)
    PROVE  ConfigIInv'
<1>1. script' = [script EXCEPT ![t] = NothingToDo] /\ crossed' = crossed \cup script[t].about
      /\ UNCHANGED <<rows, routes, shown, outlived, blind>>
  BY DEF GiveUp
<1>2. script[t] \in Script /\ NothingToDo.about \subseteq script[t].about /\ NothingToDo.left = <<>>
  BY DEF ConfigIInv, ConfigTypeOK, Script, NothingToDo
<1>3. rows \subseteq Ids /\ routes \subseteq MonitorIds \X ChannelIds /\ outlived \subseteq routes /\ crossed' \subseteq Ids
      /\ blind \subseteq routes /\ shown \subseteq ChannelIds
  BY <1>1, <1>2 DEF ConfigIInv, ConfigTypeOK, Script
<1>. QED BY <1>1, <1>2, <1>3, NothingIsProper, OthersGone, StatementSound

(***************************************************************************)
(* A route does not outlive its monitor or its channel, to be found by a   *)
(* new one of the same id (deleteMonitor, deleteChannel and setRoutes      *)
(* statement by statement), unless it was written for a channel that was   *)
(* not there, for any tabs, ids, pages left open and imports.              *)
(***************************************************************************)
THEOREM RoutesWereChosenAlways == ConfigSpec => []RoutesWereChosen
<1>1. ConfigInit => ConfigIInv
  <2>. SUFFICES ASSUME ConfigInit PROVE ConfigIInv
    OBVIOUS
  <2>1. \A t \in ConfigTab : script[t] = NothingToDo
    BY DEF ConfigInit
  <2>2. ConfigTypeOK
    BY NothingIsProper DEF ConfigInit, ConfigTypeOK, Script
  <2>. QED BY <2>1, <2>2, NothingIsProper DEF ConfigInit, ConfigIInv, RoutesAreGone, NothingToDo
<1>2. ConfigIInv /\ [ConfigNext]_configVars => ConfigIInv'
  <2>. SUFFICES ASSUME ConfigIInv, [ConfigNext]_configVars PROVE ConfigIInv'
    OBVIOUS
  <2>1. CASE ConfigNext
    BY <2>1, SavesAndRemovals, RunSound, GiveUpSound DEF ConfigNext
  <2>2. CASE UNCHANGED configVars
    BY <2>2 DEF configVars, ConfigIInv, ConfigTypeOK, Proper, Settled, Tidy, Named, Removes, NothingToDo,
                RoutesAreGone, Touches
  <2>. QED BY <2>1, <2>2
<1>3. ConfigIInv => RoutesWereChosen
  BY DEF ConfigIInv, RoutesWereChosen
<1>. QED BY <1>1, <1>2, <1>3, PTL DEF ConfigSpec

-----------------------------------------------------------------------------
(***************************************************************************)
(* History. Of an hour that no fold cuts in two the checks are all there   *)
(* as rows, or as a summary, or, while a fold is on its way or was cut     *)
(* short, as both (HourIsAccounted); of a monitor that is not there        *)
(* nothing is left (GoneForGood). It is said of one monitor at a time, and *)
(* a step about another leaves it alone.                                   *)
(***************************************************************************)

Bucket == [of : Watched, hour : Hours, checks : Nat, failures : Nat]
Folding == [at : {"upsert", "drop"}, cutoff : Ticks, todo : SUBSET Bucket]
Removing == [at : {"rollups", "monitor"}, of : Watched]
Going == [at : {"run"}, ts : Ticks]

HistoryTypes ==
    /\ tick \in Ticks
    /\ known \subseteq Watched
    /\ results \subseteq Result /\ IsFiniteSet(results)
    /\ happened \subseteq Result /\ IsFiniteSet(happened)
    /\ rollups \subseteq Summary
    /\ checking \in [Watched -> {Quiet} \cup Going]
    /\ fold \in {Quiet} \cup Folding
    /\ removal \in {Quiet} \cup Removing
    /\ kept \in Ticks
    /\ halfway \in BOOLEAN

\* An hour that is over before a moment
Over(h, c) == (h + 1) * HourTicks <= c

\* A fold looks back from now, and cuts no other hours in two.
FoldLooksBack ==
    /\ fold # Quiet =>
          /\ fold.cutoff <= Ago(FoldAfter)
          /\ \A h \in Hours \ split : fold.cutoff <= h * HourTicks \/ Over(h, fold.cutoff)
    /\ kept <= Ago(KeepFor)
    /\ \A m \in Watched : checking[m] # Quiet => checking[m].ts + 1 >= tick

\* Of a monitor that is not there nothing is left, and no step is about it.
GoneForGood(m) ==
    /\ \A r \in results \cup happened : r.of # m
    /\ \A s \in rollups : s.of # m
    /\ checking[m] = Quiet

\* A deletion has no fold beside it, and has emptied what it has passed.
LeavesNothing(m) ==
    /\ fold = Quiet
    /\ m \in known
    /\ \A r \in results : r.of # m
    /\ removal.at = "monitor" => \A s \in rollups : s.of # m

Leaving(m) == removal # Quiet /\ removal.of = m

\* What an hour's summary must say.
Exact(m, h) == SummaryFrom(happened, m, h)

\* The checks of an hour are all there as rows, or in its summary, or, on the
\* way from the one to the other, in both.
HourIsAccounted(m, h) ==
    LET R == In(results, m, h)
        H == In(happened, m, h)
        S == SummaryOf(m, h)
    IN  /\ R = H \/ (R = {} /\ S # {})
        /\ S # {} => S = {Exact(m, h)} /\ Over(h, Ago(FoldAfter))
        /\ S # {} /\ R # {} => halfway \/ fold.at = "upsert"
        /\ fold # Quiet /\ S # {} => Over(h, fold.cutoff)
        /\ fold.at = "upsert" /\ Over(h, fold.cutoff) /\ R # {} => S # {} \/ Exact(m, h) \in fold.todo
        /\ fold.at = "upsert" => \A b \in fold.todo : b.of = m /\ b.hour = h => b = Exact(m, h) /\ Over(h, fold.cutoff)
        /\ fold.at = "drop" /\ Over(h, fold.cutoff) => R = {}

TodoIsKnown(m) == fold.at = "upsert" => \A b \in fold.todo : b.of = m => m \in known /\ ~Leaving(m)

Accounted(m) ==
    /\ m \notin known => GoneForGood(m)
    /\ TodoIsKnown(m)
    /\ Leaving(m) => LeavesNothing(m)
    /\ m \in known /\ ~Leaving(m) => \A h \in KeptHours \ split : HourIsAccounted(m, h)

HistoryIInv == HistoryTypes /\ FoldLooksBack /\ \A m \in Watched \ mixed : Accounted(m)

-----------------------------------------------------------------------------
(* Time. *)

LEMMA TimeIs ==
    /\ HourTicks \in Nat /\ HourTicks > 0 /\ FoldAfter \in Nat /\ FoldAfter > 0 /\ KeepFor \in Nat
    /\ LastTick \in Nat
    /\ \A t \in Ticks : t \in Nat
BY HistoryConstantsOK DEF Ticks

LEMMA HourIs ==
    ASSUME NEW t \in Nat
    PROVE  Hour(t) \in Nat /\ Hour(t) * HourTicks <= t /\ t < (Hour(t) + 1) * HourTicks
BY TimeIs DEF Hour

LEMMA HoursAre == \A h \in Hours : h \in Nat /\ h * HourTicks \in Nat /\ (h + 1) * HourTicks \in Nat
<1>. SUFFICES ASSUME NEW h \in Hours PROVE h \in Nat /\ h * HourTicks \in Nat /\ (h + 1) * HourTicks \in Nat
  OBVIOUS
<1>1. h \in Nat
  BY HourIs, TimeIs DEF Hours
<1>2. \A i, j \in Nat : i * j \in Nat
  OBVIOUS
<1>. QED BY <1>1, <1>2, TimeIs

LEMMA HourBounds ==
    ASSUME NEW h \in Hours, NEW t \in Ticks, NEW c \in Ticks
    PROVE  /\ Hour(t) = h /\ Over(h, c) => t < c
           /\ Hour(t) = h /\ c <= h * HourTicks => c <= t
           /\ ~(c <= h * HourTicks /\ Over(h, c))
<1>1. Hour(t) * HourTicks <= t /\ t < (Hour(t) + 1) * HourTicks /\ t \in Nat /\ c \in Nat
  BY HourIs, TimeIs
<1>2. (h + 1) * HourTicks = h * HourTicks + HourTicks /\ h \in Nat /\ h * HourTicks \in Nat /\ (h + 1) * HourTicks \in Nat
  BY HoursAre, TimeIs
<1>. QED BY <1>1, <1>2, TimeIs DEF Over

LEMMA OverStays ==
    ASSUME NEW h \in Hours, NEW c \in Ticks, NEW d \in Ticks, c <= d, Over(h, c)
    PROVE  Over(h, d)
BY HoursAre, TimeIs DEF Over

LEMMA AgoIs ==
    ASSUME tick \in Ticks, NEW n \in Nat
    PROVE  /\ Ago(n) \in Ticks /\ Ago(n) <= tick
           /\ n > 0 => \A t \in Nat : t + 1 >= tick => Ago(n) <= t
BY TimeIs DEF Ago, Ticks

LEMMA AgoGrows ==
    ASSUME tick \in Ticks, tick' \in Ticks, tick <= tick', NEW n \in Nat
    PROVE  Ago(n) <= Ago(n)'
<1>1. tick \in Nat /\ tick' \in Nat /\ tick <= tick'
  BY TimeIs
<1>2. CASE tick' > n
  <2>1. Ago(n)' = tick' - n
    BY <1>2 DEF Ago
  <2>2. Ago(n) = tick - n \/ Ago(n) = 0
    BY DEF Ago
  <2>. QED BY <1>1, <1>2, <2>1, <2>2
<1>3. CASE ~(tick' > n)
  <2>1. Ago(n)' = 0
    BY <1>3 DEF Ago
  <2>2. ~(tick > n)
    BY <1>1, <1>3
  <2>3. Ago(n) = 0
    BY <2>2 DEF Ago
  <2>. QED BY <2>1, <2>3
<1>. QED BY <1>2, <1>3

-----------------------------------------------------------------------------
(* Hours. *)

LEMMA HourIsFinite ==
    ASSUME NEW rs, IsFiniteSet(rs), NEW m, NEW h
    PROVE  /\ IsFiniteSet(In(rs, m, h)) /\ IsFiniteSet(Failed(In(rs, m, h)))
           /\ Cardinality(In(rs, m, h)) \in Nat /\ Cardinality(Failed(In(rs, m, h))) \in Nat
<1>1. In(rs, m, h) \subseteq rs /\ Failed(In(rs, m, h)) \subseteq rs
  BY DEF In, Failed
<1>. QED BY <1>1, FS_Subset, FS_CardinalityType

LEMMA SummaryIs ==
    ASSUME NEW m, NEW h, NEW p, NEW q, In(p, m, h) = In(q, m, h)
    PROVE  SummaryFrom(p, m, h) = SummaryFrom(q, m, h)
BY DEF SummaryFrom

\* What an hour of a monitor depends on.
HourKept(m, h) ==
    /\ In(results', m, h) = In(results, m, h)
    /\ In(happened', m, h) = In(happened, m, h)
    /\ SummaryOf(m, h)' = SummaryOf(m, h)

LEMMA ExactStays ==
    ASSUME NEW m, NEW h, HourKept(m, h)
    PROVE  Exact(m, h)' = Exact(m, h)
BY DEF HourKept, Exact, SummaryFrom

LEMMA HourStays ==
    ASSUME NEW m \in Watched, NEW h \in Hours, HistoryTypes, tick' \in Ticks, tick <= tick',
           HourIsAccounted(m, h), HourKept(m, h), fold' = fold, halfway' = halfway
    PROVE  HourIsAccounted(m, h)'
<1>1. Over(h, Ago(FoldAfter)) => Over(h, Ago(FoldAfter))'
  <2>1. Ago(FoldAfter) \in Ticks /\ Ago(FoldAfter) <= Ago(FoldAfter)' /\ Ago(FoldAfter) \in Nat
    BY AgoIs, AgoGrows, TimeIs DEF HistoryTypes
  <2>2. Ago(FoldAfter)' \in Nat
    BY TimeIs DEF Ago
  <2>3. (h + 1) * HourTicks \in Nat
    BY HoursAre
  <2>. QED BY <2>1, <2>2, <2>3 DEF Over
<1>2. Exact(m, h)' = Exact(m, h)
  BY ExactStays
<1>3. In(results, m, h)' = In(results', m, h) /\ In(happened, m, h)' = In(happened', m, h)
  BY DEF In
<1>. QED BY <1>1, <1>2, <1>3 DEF HourKept, HourIsAccounted

-----------------------------------------------------------------------------
(* Checks and time. *)

LEMMA PassTimeSound == HistoryIInv /\ PassTime => HistoryIInv'
<1>. SUFFICES ASSUME HistoryIInv, PassTime PROVE HistoryIInv'
  OBVIOUS
<1>1. HistoryTypes' /\ tick' = tick + 1 /\ tick <= tick' /\ tick \in Nat
  BY TimeIs DEF HistoryIInv, HistoryTypes, PassTime, Ticks
<1>2. FoldLooksBack'
  <2>1. Ago(FoldAfter) <= Ago(FoldAfter)' /\ Ago(KeepFor) <= Ago(KeepFor)'
    BY <1>1, AgoGrows, TimeIs DEF HistoryIInv, HistoryTypes
  <2>2. Ago(FoldAfter) \in Nat /\ Ago(KeepFor) \in Nat /\ kept \in Nat /\ (fold # Quiet => fold.cutoff \in Nat)
    BY AgoIs, TimeIs DEF HistoryIInv, HistoryTypes, Folding
  <2>3. (Ago(FoldAfter))' \in Nat /\ (Ago(KeepFor))' \in Nat
    BY <1>1, TimeIs DEF Ago, HistoryTypes
  <2>4. \A m \in Watched : checking[m] # Quiet => checking[m].at = "run"
    BY DEF HistoryIInv, HistoryTypes, Going
  <2>5. \A m \in Watched : checking'[m] # Quiet => checking'[m].ts + 1 >= tick'
    BY <1>1, <2>4 DEF PassTime
  <2>. QED BY <2>1, <2>2, <2>3, <2>5 DEF HistoryIInv, FoldLooksBack, PassTime, Over
<1>3. ASSUME NEW m \in Watched \ mixed' PROVE Accounted(m)'
  <2>1. Accounted(m) /\ UNCHANGED <<known, results, rollups, checking, fold, removal, happened, kept, split, halfway>>
    BY DEF PassTime, HistoryIInv
  <2>2. \A h \in Hours : HourIsAccounted(m, h) => HourIsAccounted(m, h)'
    BY <1>1, <2>1, HourStays DEF HistoryIInv, HistoryTypes, HourKept, SummaryOf
  <2>. QED BY <2>1, <2>2 DEF Accounted, GoneForGood, LeavesNothing, Leaving, TodoIsKnown, KeptHours
<1>. QED BY <1>1, <1>2, <1>3 DEF HistoryIInv

LEMMA BeginCheckSound == ASSUME HistoryIInv, NEW c \in Watched, BeginCheck(c) PROVE HistoryIInv'
<1>1. PICK k : k = [at |-> "run", ts |-> tick]
  OBVIOUS
<1>2. k \in Going /\ k.ts = tick /\ tick \in Nat
  BY <1>1, TimeIs DEF Going, HistoryIInv, HistoryTypes
<1>3. HistoryTypes' /\ \A m \in Watched : checking'[m] = IF m = c THEN k ELSE checking[m]
  BY <1>1, <1>2 DEF HistoryIInv, HistoryTypes, BeginCheck
<1>4. FoldLooksBack'
  BY <1>2, <1>3 DEF HistoryIInv, FoldLooksBack, BeginCheck, Ago
<1>5. ASSUME NEW m \in Watched \ mixed' PROVE Accounted(m)'
  <2>1. Accounted(m) /\ UNCHANGED <<tick, known, results, rollups, fold, removal, happened, kept, split, halfway>>
    BY DEF BeginCheck, HistoryIInv
  <2>2. \A h \in Hours : HourIsAccounted(m, h) => HourIsAccounted(m, h)'
    BY <2>1, <1>2, HourStays DEF HistoryIInv, HistoryTypes, HourKept, SummaryOf
  <2>3. m \notin known => checking'[m] = checking[m]
    BY <1>3 DEF BeginCheck
  <2>. QED BY <2>1, <2>2, <2>3 DEF Accounted, GoneForGood, LeavesNothing, Leaving, TodoIsKnown, KeptHours
<1>. QED BY <1>3, <1>4, <1>5 DEF HistoryIInv

\* A result at the hour it belongs to: the hour has not been folded.
LEMMA NewResult ==
    ASSUME NEW m \in Watched, NEW h \in Hours, HistoryTypes, FoldLooksBack, HourIsAccounted(m, h),
           NEW x \in Result, x.of = m, Hour(x.ts) = h, x.ts + 1 >= tick,
           results' = results \cup {x}, happened' = happened \cup (results' \ results),
           UNCHANGED <<tick, rollups, fold, halfway>>
    PROVE  HourIsAccounted(m, h)'
<1>1. x.ts \in Ticks /\ x.ts \in Nat
  BY TimeIs DEF Result
<1>2. Ago(FoldAfter) \in Ticks /\ Ago(FoldAfter) \in Nat /\ Ago(FoldAfter) <= x.ts
  BY <1>1, AgoIs, TimeIs DEF HistoryTypes
<1>3. ~Over(h, Ago(FoldAfter))
  BY <1>1, <1>2, HourBounds
<1>4. fold # Quiet => ~Over(h, fold.cutoff)
  <2>. SUFFICES ASSUME fold # Quiet, Over(h, fold.cutoff) PROVE FALSE
    OBVIOUS
  <2>1. fold.cutoff \in Ticks /\ fold.cutoff <= Ago(FoldAfter)
    BY DEF HistoryTypes, Folding, FoldLooksBack
  <2>. QED BY <2>1, <1>2, <1>3, OverStays
<1>5. SummaryOf(m, h) = {} /\ In(results, m, h) = In(happened, m, h)
  BY <1>3 DEF HourIsAccounted
<1>6. In(results', m, h) = In(results, m, h) \cup {x}
  BY DEF In
<1>7. In(happened', m, h) = In(happened, m, h) \cup {x}
  BY <1>5, <1>6 DEF In
<1>8. In(results, m, h)' = In(happened, m, h)' /\ SummaryOf(m, h)' = {}
  BY <1>5, <1>6, <1>7 DEF In, SummaryOf
<1>9. fold.at = "upsert" => fold # Quiet
  BY DEF Quiet
<1>10. fold.at = "drop" => fold # Quiet
  BY DEF Quiet
<1>11. fold.at = "upsert" => \A b \in fold.todo : ~(b.of = m /\ b.hour = h)
  BY <1>4, <1>9 DEF HourIsAccounted
<1>12. (Over(h, fold.cutoff))' <=> Over(h, fold.cutoff)
  BY DEF Over
<1>13. fold' = fold
  OBVIOUS
<1>. QED BY <1>4, <1>8, <1>9, <1>10, <1>11, <1>12, <1>13 DEF HourIsAccounted

LEMMA RecordResultSound ==
    ASSUME HistoryIInv, NEW c \in Watched, NEW failed \in BOOLEAN, RecordResult(c, failed) PROVE HistoryIInv'
<1>1. PICK x : x = [of |-> c, ts |-> checking[c].ts, failed |-> failed]
  OBVIOUS
<1>2. checking[c] \in Going /\ checking[c] # Quiet
  BY DEF HistoryIInv, HistoryTypes, RecordResult, Quiet
<1>3. x \in Result /\ x.of = c /\ x.ts = checking[c].ts /\ x.ts + 1 >= tick /\ Hour(x.ts) \in Hours
  BY <1>1, <1>2 DEF Result, Going, HistoryIInv, FoldLooksBack, Hours
<1>4. results' = results \cup {x} /\ happened' = happened \cup (results' \ results)
  BY <1>1 DEF RecordResult
<1>5. happened' = happened \/ happened' = happened \cup {x}
  BY <1>4
<1>6. IsFiniteSet(results') /\ IsFiniteSet(happened')
  BY <1>4, <1>5, FS_AddElement DEF HistoryIInv, HistoryTypes
<1>7. checking' \in [Watched -> {Quiet} \cup Going] /\ \A m \in Watched : checking'[m] = IF m = c THEN Quiet ELSE checking[m]
  BY DEF HistoryIInv, HistoryTypes, RecordResult
<1>8. UNCHANGED <<tick, known, rollups, fold, removal, kept, split, halfway>> /\ mixed \subseteq mixed'
  BY DEF RecordResult
<1>9. HistoryTypes'
  BY <1>3, <1>4, <1>5, <1>6, <1>7, <1>8 DEF HistoryIInv, HistoryTypes
<1>10. FoldLooksBack'
  BY <1>7, <1>8 DEF HistoryIInv, FoldLooksBack, Ago
<1>11. ASSUME NEW m \in Watched \ mixed' PROVE Accounted(m)'
  <2>1. Accounted(m)
    BY <1>8 DEF HistoryIInv
  <2>2. m = c => m \in known /\ ~Leaving(m)
    BY <1>2, <2>1 DEF Accounted, GoneForGood, Leaving, RecordResult
  <2>3. \A h \in Hours : m # c \/ h # Hour(x.ts) => HourKept(m, h)
    BY <1>3, <1>4, <1>5, <1>8 DEF HourKept, In, SummaryOf
  <2>4. \A h \in Hours : HourIsAccounted(m, h) /\ HourKept(m, h) => HourIsAccounted(m, h)'
    <3>1. tick' \in Ticks /\ tick \in Nat
      BY <1>8, TimeIs DEF HistoryIInv, HistoryTypes
    <3>. QED BY <1>8, <3>1, HourStays DEF HistoryIInv
  <2>5. m = c => \A h \in Hours : h = Hour(x.ts) /\ HourIsAccounted(m, h) => HourIsAccounted(m, h)'
    BY <1>3, <1>4, <1>8, NewResult DEF HistoryIInv
  <2>6. \A h \in Hours : HourIsAccounted(m, h) => HourIsAccounted(m, h)'
    BY <2>3, <2>4, <2>5
  <2>7. m # c => (GoneForGood(m) => GoneForGood(m)') /\ (LeavesNothing(m) => LeavesNothing(m)')
    BY <1>3, <1>4, <1>5, <1>7, <1>8 DEF GoneForGood, LeavesNothing
  <2>. QED BY <1>8, <2>1, <2>2, <2>6, <2>7 DEF Accounted, Leaving, TodoIsKnown, KeptHours
<1>. QED BY <1>9, <1>10, <1>11 DEF HistoryIInv

-----------------------------------------------------------------------------
(* Deleting and adding. *)

LEMMA DeleteResultsSound == ASSUME HistoryIInv, NEW d \in Watched, DeleteResults(d) PROVE HistoryIInv'
<1>1. PICK q : q = [at |-> "rollups", of |-> d]
  OBVIOUS
<1>2. q \in Removing /\ q.of = d /\ q.at = "rollups" /\ q # Quiet /\ removal' = q
  BY <1>1 DEF Removing, Quiet, DeleteResults
<1>3. results' = {r \in results : r.of # d} /\ mixed \subseteq mixed' /\ removal = Quiet /\ d \in known
      /\ UNCHANGED <<tick, known, rollups, checking, fold, happened, kept, split, halfway>>
  BY DEF DeleteResults
<1>4. IsFiniteSet(results')
  BY <1>3, FS_Subset DEF HistoryIInv, HistoryTypes
<1>5. HistoryTypes'
  BY <1>2, <1>3, <1>4 DEF HistoryIInv, HistoryTypes
<1>6. FoldLooksBack'
  BY <1>3 DEF HistoryIInv, FoldLooksBack, Ago
<1>7. ASSUME NEW m \in Watched \ mixed' PROVE Accounted(m)'
  <2>1. Accounted(m) /\ ~Leaving(m)
    BY <1>3 DEF HistoryIInv, Leaving
  <2>2. CASE m = d
    <3>1. fold = Quiet /\ Leaving(m)'
      BY <2>2, <1>2 DEF DeleteResults, Leaving
    <3>2. LeavesNothing(m)' /\ TodoIsKnown(m)' /\ m \in known'
      BY <3>1, <2>2, <1>2, <1>3 DEF LeavesNothing, TodoIsKnown, Quiet
    <3>. QED BY <3>1, <3>2 DEF Accounted
  <2>3. CASE m # d
    <3>1. ~Leaving(m)' /\ TodoIsKnown(m)'
      BY <2>1, <2>3, <1>2, <1>3 DEF Leaving, Accounted, TodoIsKnown
    <3>2. \A h \in Hours : HourKept(m, h)
      BY <2>3, <1>3 DEF HourKept, In, SummaryOf
    <3>3. \A h \in Hours : HourIsAccounted(m, h) => HourIsAccounted(m, h)'
      <4>1. tick' \in Ticks /\ tick \in Nat
        BY <1>3, TimeIs DEF HistoryIInv, HistoryTypes
      <4>. QED BY <1>3, <3>2, <4>1, HourStays DEF HistoryIInv
    <3>4. GoneForGood(m) => GoneForGood(m)'
      BY <1>3 DEF GoneForGood
    <3>. QED BY <1>3, <2>1, <3>1, <3>3, <3>4 DEF Accounted, KeptHours
  <2>. QED BY <2>2, <2>3
<1>. QED BY <1>5, <1>6, <1>7 DEF HistoryIInv

LEMMA DeleteRollupsSound == HistoryIInv /\ DeleteRollups => HistoryIInv'
<1>. SUFFICES ASSUME HistoryIInv, DeleteRollups PROVE HistoryIInv'
  OBVIOUS
<1>1. removal \in Removing /\ removal # Quiet
  BY DEF HistoryIInv, HistoryTypes, DeleteRollups, Quiet
<1>2. PICK q : q = [removal EXCEPT !.at = "monitor"]
  OBVIOUS
<1>3. q \in Removing /\ q.of = removal.of /\ q # Quiet /\ removal' = q
  BY <1>1, <1>2 DEF Removing, Quiet, DeleteRollups
<1>4. rollups' = {s \in rollups : s.of # removal.of} /\ mixed \subseteq mixed'
      /\ UNCHANGED <<tick, known, results, checking, fold, happened, kept, split, halfway>>
  BY DEF DeleteRollups
<1>5. HistoryTypes'
  BY <1>3, <1>4 DEF HistoryIInv, HistoryTypes
<1>6. FoldLooksBack'
  BY <1>4 DEF HistoryIInv, FoldLooksBack, Ago
<1>7. ASSUME NEW m \in Watched \ mixed' PROVE Accounted(m)'
  <2>1. Accounted(m)
    BY <1>4 DEF HistoryIInv
  <2>2. CASE Leaving(m)
    <3>1. Leaving(m)' /\ LeavesNothing(m)
      BY <2>1, <2>2, <1>3 DEF Leaving, Accounted
    <3>2. LeavesNothing(m)' /\ TodoIsKnown(m)' /\ m \in known'
      BY <3>1, <2>2, <1>4 DEF LeavesNothing, Leaving, TodoIsKnown, Quiet
    <3>. QED BY <3>1, <3>2 DEF Accounted
  <2>3. CASE ~Leaving(m)
    <3>1. m # removal.of /\ ~Leaving(m)' /\ TodoIsKnown(m)'
      BY <2>1, <2>3, <1>1, <1>3, <1>4 DEF Leaving, Accounted, TodoIsKnown
    <3>2. \A h \in Hours : HourKept(m, h)
      BY <3>1, <1>4 DEF HourKept, In, SummaryOf
    <3>3. \A h \in Hours : HourIsAccounted(m, h) => HourIsAccounted(m, h)'
      <4>1. tick' \in Ticks /\ tick \in Nat
        BY <1>4, TimeIs DEF HistoryIInv, HistoryTypes
      <4>. QED BY <1>4, <3>2, <4>1, HourStays DEF HistoryIInv
    <3>4. GoneForGood(m) => GoneForGood(m)'
      BY <1>4 DEF GoneForGood
    <3>. QED BY <1>4, <2>1, <2>3, <3>1, <3>3, <3>4 DEF Accounted, KeptHours
  <2>. QED BY <2>2, <2>3
<1>. QED BY <1>5, <1>6, <1>7 DEF HistoryIInv

LEMMA DeleteMonitorRowSound == HistoryIInv /\ DeleteMonitorRow => HistoryIInv'
<1>. SUFFICES ASSUME HistoryIInv, DeleteMonitorRow PROVE HistoryIInv'
  OBVIOUS
<1>1. removal \in Removing /\ removal # Quiet /\ removal.of \in Watched
  BY DEF HistoryIInv, HistoryTypes, DeleteMonitorRow, Quiet, Removing
<1>2. /\ known' = known \ {removal.of} /\ happened' = {r \in happened : r.of # removal.of} /\ mixed \subseteq mixed'
      /\ removal' = Quiet /\ UNCHANGED <<tick, results, rollups, checking, fold, kept, split, halfway>>
  BY DEF DeleteMonitorRow
<1>3. IsFiniteSet(happened')
  BY <1>2, FS_Subset DEF HistoryIInv, HistoryTypes
<1>4. HistoryTypes'
  BY <1>2, <1>3 DEF HistoryIInv, HistoryTypes
<1>5. FoldLooksBack'
  BY <1>2 DEF HistoryIInv, FoldLooksBack, Ago
<1>6. ASSUME NEW m \in Watched \ mixed' PROVE Accounted(m)'
  <2>1. Accounted(m) /\ ~Leaving(m)'
    BY <1>2 DEF HistoryIInv, Leaving
  <2>2. CASE m = removal.of
    <3>1. LeavesNothing(m)
      BY <1>1, <2>1, <2>2 DEF Accounted, Leaving
    <3>2. checking[m] = Quiet
      BY <2>2 DEF DeleteMonitorRow
    <3>3. GoneForGood(m)'
      BY <1>2, <2>2, <3>1, <3>2 DEF GoneForGood, LeavesNothing, DeleteMonitorRow
    <3>4. TodoIsKnown(m)'
      BY <1>2, <3>1 DEF TodoIsKnown, LeavesNothing, Quiet
    <3>5. m \notin known'
      BY <1>2, <2>2
    <3>. QED BY <2>1, <3>3, <3>4, <3>5 DEF Accounted
  <2>3. CASE m # removal.of
    <3>1. ~Leaving(m) /\ (m \in known' <=> m \in known)
      BY <2>3, <1>2 DEF Leaving
    <3>2. TodoIsKnown(m)'
      BY <2>1, <3>1, <1>2 DEF Accounted, TodoIsKnown, Leaving
    <3>3. \A h \in Hours : HourKept(m, h)
      BY <2>3, <1>2 DEF HourKept, In, SummaryOf
    <3>4. \A h \in Hours : HourIsAccounted(m, h) => HourIsAccounted(m, h)'
      <4>1. tick' \in Ticks /\ tick \in Nat
        BY <1>2, TimeIs DEF HistoryIInv, HistoryTypes
      <4>. QED BY <1>2, <3>3, <4>1, HourStays DEF HistoryIInv
    <3>5. GoneForGood(m) => GoneForGood(m)'
      BY <1>2 DEF GoneForGood
    <3>. QED BY <1>2, <2>1, <3>1, <3>2, <3>4, <3>5 DEF Accounted, KeptHours
  <2>. QED BY <2>2, <2>3
<1>. QED BY <1>4, <1>5, <1>6 DEF HistoryIInv

LEMMA AddMonitorSound == ASSUME HistoryIInv, NEW a \in Watched, AddMonitor(a) PROVE HistoryIInv'
<1>1. known' = known \cup {a} /\ a \notin known
      /\ UNCHANGED <<tick, results, rollups, checking, fold, removal, happened, kept, split, halfway, mixed>>
  BY DEF AddMonitor
<1>2. HistoryTypes' /\ FoldLooksBack'
  BY <1>1 DEF HistoryIInv, HistoryTypes, FoldLooksBack, Ago
<1>3. ASSUME NEW m \in Watched \ mixed' PROVE Accounted(m)'
  <2>1. Accounted(m)
    BY <1>1 DEF HistoryIInv
  <2>2. \A h \in Hours : HourIsAccounted(m, h) => HourIsAccounted(m, h)'
    <3>1. tick' \in Ticks /\ tick \in Nat
      BY <1>1, TimeIs DEF HistoryIInv, HistoryTypes
    <3>2. \A h \in Hours : HourKept(m, h)
      BY <1>1 DEF HourKept, In, SummaryOf
    <3>. QED BY <1>1, <3>1, <3>2, HourStays DEF HistoryIInv
  <2>3. (Leaving(m)' <=> Leaving(m)) /\ (TodoIsKnown(m) => TodoIsKnown(m)') /\ (LeavesNothing(m) => LeavesNothing(m)')
    BY <1>1 DEF Leaving, TodoIsKnown, LeavesNothing
  <2>4. CASE m = a
    <3>1. GoneForGood(m) /\ ~Leaving(m) /\ TodoIsKnown(m)
      BY <1>1, <2>1, <2>4 DEF Accounted, LeavesNothing
    <3>2. \A h \in Hours : HourIsAccounted(m, h)
      <4>1. \A h \in Hours : In(results, m, h) = {} /\ In(happened, m, h) = {} /\ SummaryOf(m, h) = {}
        BY <3>1 DEF GoneForGood, In, SummaryOf
      <4>2. fold.at = "upsert" => \A b \in fold.todo : b.of # m
        BY <1>1, <2>4, <3>1 DEF TodoIsKnown
      <4>. QED BY <4>1, <4>2 DEF HourIsAccounted
    <3>. QED BY <1>1, <2>2, <2>3, <2>4, <3>1, <3>2 DEF Accounted, KeptHours
  <2>5. CASE m # a
    BY <1>1, <2>1, <2>2, <2>3, <2>5 DEF Accounted, KeptHours, GoneForGood
  <2>. QED BY <2>4, <2>5
<1>. QED BY <1>2, <1>3 DEF HistoryIInv

LEMMA StopServerSound == HistoryIInv /\ StopServer => HistoryIInv'
<1>. SUFFICES ASSUME HistoryIInv, StopServer PROVE HistoryIInv'
  OBVIOUS
<1>1. /\ fold' = Quiet /\ removal' = Quiet /\ checking' = [m \in Watched |-> Quiet] /\ mixed \subseteq mixed'
      /\ halfway' = (halfway \/ fold # Quiet) /\ UNCHANGED <<tick, known, results, rollups, happened, kept, split>>
  BY DEF StopServer
<1>2. HistoryTypes'
  BY <1>1 DEF HistoryIInv, HistoryTypes
<1>3. FoldLooksBack'
  BY <1>1 DEF HistoryIInv, FoldLooksBack, Ago
<1>4. ASSUME NEW m \in Watched \ mixed' PROVE Accounted(m)'
  <2>1. Accounted(m) /\ ~Leaving(m) /\ ~Leaving(m)'
    BY <1>1 DEF HistoryIInv, Leaving, StopServer
  <2>2. TodoIsKnown(m)'
    BY <1>1 DEF TodoIsKnown, Quiet
  <2>3. GoneForGood(m) => GoneForGood(m)'
    BY <1>1 DEF GoneForGood
  <2>4. ASSUME NEW h \in Hours, HourIsAccounted(m, h) PROVE HourIsAccounted(m, h)'
    <3>1. In(results, m, h)' = In(results, m, h) /\ In(happened, m, h)' = In(happened, m, h)
          /\ SummaryOf(m, h)' = SummaryOf(m, h) /\ Exact(m, h)' = Exact(m, h)
      BY <1>1 DEF In, SummaryOf, Exact, SummaryFrom, Failed
    <3>2. (Over(h, Ago(FoldAfter)))' <=> Over(h, Ago(FoldAfter))
      BY <1>1 DEF Over, Ago
    <3>3. fold'.at # "upsert" /\ fold'.at # "drop"
      BY <1>1 DEF Quiet
    <3>4. fold.at = "upsert" => fold # Quiet
      BY DEF Quiet
    <3>. QED BY <1>1, <2>4, <3>1, <3>2, <3>3, <3>4 DEF HourIsAccounted
  <2>. QED BY <1>1, <2>1, <2>2, <2>3, <2>4 DEF Accounted, KeptHours
<1>. QED BY <1>2, <1>3, <1>4 DEF HistoryIInv

-----------------------------------------------------------------------------
(* The maintenance pass. *)

\* The rows a fold looks at, and what it says of an hour that is over
RowsBefore(c) == {r \in results : r.ts < c}

LEMMA BucketIs ==
    ASSUME NEW m \in Watched, NEW h \in Hours, NEW c \in Ticks, HistoryTypes, Over(h, c),
           HourIsAccounted(m, h), In(results, m, h) # {}
    PROVE  SummaryFrom(RowsBefore(c), m, h) = Exact(m, h)
<1>1. \A r \in results : Hour(r.ts) = h => r.ts < c
  BY HourBounds DEF HistoryTypes, Result
<1>2. In(RowsBefore(c), m, h) = In(results, m, h)
  BY <1>1 DEF In, RowsBefore
<1>3. In(results, m, h) = In(happened, m, h)
  BY DEF HourIsAccounted
<1>. QED BY <1>2, <1>3, SummaryIs DEF Exact

LEMMA BucketsAre ==
    ASSUME HistoryTypes, NEW c \in Ticks
    PROVE  /\ Buckets(c) \subseteq Bucket
           /\ \A b \in Buckets(c) : \E r \in results : /\ r.ts < c /\ b.of = r.of /\ b.hour = Hour(r.ts)
                                                      /\ b = SummaryFrom(RowsBefore(c), b.of, b.hour)
           /\ \A r \in RowsBefore(c) : SummaryFrom(RowsBefore(c), r.of, Hour(r.ts)) \in Buckets(c)
<1>1. Buckets(c) = {SummaryFrom(RowsBefore(c), r.of, Hour(r.ts)) : r \in RowsBefore(c)}
  BY DEF Buckets, RowsBefore
<1>2. IsFiniteSet(RowsBefore(c))
  BY FS_Subset DEF HistoryTypes, RowsBefore
<1>3. ASSUME NEW r \in RowsBefore(c), NEW b, b = SummaryFrom(RowsBefore(c), r.of, Hour(r.ts))
      PROVE  b \in Bucket /\ r \in results /\ r.ts < c /\ b.of = r.of /\ b.hour = Hour(r.ts)
  <2>1. r \in results /\ r.ts < c /\ r.of \in Watched /\ Hour(r.ts) \in Hours
    BY DEF RowsBefore, HistoryTypes, Result, Hours
  <2>2. Cardinality(In(RowsBefore(c), r.of, Hour(r.ts))) \in Nat /\ Cardinality(Failed(In(RowsBefore(c), r.of, Hour(r.ts)))) \in Nat
    BY <1>2, HourIsFinite
  <2>. QED BY <2>1, <2>2, <1>3 DEF SummaryFrom, Bucket
<1>. QED BY <1>1, <1>3

LEMMA BeginFoldSound == HistoryIInv /\ BeginFold => HistoryIInv'
<1>. SUFFICES ASSUME HistoryIInv, BeginFold PROVE HistoryIInv'
  OBVIOUS
<1>. DEFINE c == Ago(FoldAfter)
<1>1. c \in Ticks /\ c \in Nat
  BY AgoIs, TimeIs DEF HistoryIInv, HistoryTypes
<1>2. PICK f : f = [at |-> "upsert", cutoff |-> c, todo |-> Buckets(c)]
  OBVIOUS
<1>3. f \in Folding /\ f.at = "upsert" /\ f.cutoff = c /\ f.todo = Buckets(c) /\ f # Quiet
  BY <1>1, <1>2, BucketsAre DEF HistoryIInv, Folding, Quiet
<1>4. /\ fold = Quiet /\ fold' = f /\ mixed \subseteq mixed' /\ split \subseteq split'
      /\ UNCHANGED <<tick, known, results, rollups, checking, removal, happened, kept, halfway>>
  BY <1>2 DEF BeginFold
<1>5. HistoryTypes'
  BY <1>3, <1>4 DEF HistoryIInv, HistoryTypes
<1>6. \A h \in Hours \ split' : c <= h * HourTicks \/ Over(h, c)
  <2>. SUFFICES ASSUME NEW h \in Hours \ split' PROVE c <= h * HourTicks \/ Over(h, c)
    OBVIOUS
  <2>1. c \notin (h * HourTicks + 1)..((h + 1) * HourTicks - 1)
    BY DEF BeginFold
  <2>2. h * HourTicks \in Nat /\ (h + 1) * HourTicks \in Nat
    BY HoursAre
  <2>. QED BY <1>1, <2>1, <2>2 DEF Over
<1>7. FoldLooksBack'
  <2>1. (Ago(FoldAfter))' = c /\ (Ago(KeepFor))' = Ago(KeepFor)
    BY <1>4 DEF Ago
  <2>2. \A h \in Hours \ split' : fold'.cutoff <= h * HourTicks \/ (Over(h, fold.cutoff))'
    BY <1>3, <1>4, <1>6 DEF Over
  <2>3. fold'.cutoff <= (Ago(FoldAfter))'
    BY <1>1, <1>3, <1>4, <2>1
  <2>. QED BY <1>4, <2>1, <2>2, <2>3 DEF HistoryIInv, FoldLooksBack
<1>8. ASSUME NEW m \in Watched \ mixed' PROVE Accounted(m)'
  <2>1. Accounted(m) /\ ~Leaving(m) /\ ~Leaving(m)'
    BY <1>4 DEF HistoryIInv, Leaving, BeginFold
  <2>2. GoneForGood(m) => GoneForGood(m)'
    BY <1>4 DEF GoneForGood
  <2>3. TodoIsKnown(m)'
    <3>1. \A b \in Buckets(c) : b.of = m => m \in known
      BY <1>1, <2>1, BucketsAre DEF HistoryIInv, Accounted, GoneForGood
    <3>. QED BY <3>1, <2>1, <1>3, <1>4 DEF TodoIsKnown
  <2>4. ASSUME NEW h \in Hours \ split', HourIsAccounted(m, h) PROVE HourIsAccounted(m, h)'
    <3>1. In(results, m, h)' = In(results, m, h) /\ In(happened, m, h)' = In(happened, m, h)
          /\ SummaryOf(m, h)' = SummaryOf(m, h) /\ Exact(m, h)' = Exact(m, h)
      BY <1>4 DEF In, SummaryOf, Exact, SummaryFrom, Failed
    <3>2. (Over(h, Ago(FoldAfter)))' <=> Over(h, c)
      BY <1>4 DEF Over, Ago
    <3>3. (Over(h, fold.cutoff))' <=> Over(h, c)
      BY <1>3, <1>4 DEF Over
    <3>4. Over(h, c) /\ In(results, m, h) # {} => Exact(m, h) \in Buckets(c)
      <4>. SUFFICES ASSUME Over(h, c), In(results, m, h) # {} PROVE Exact(m, h) \in Buckets(c)
        OBVIOUS
      <4>1. PICK r \in results : r.of = m /\ Hour(r.ts) = h
        BY DEF In
      <4>2. r \in RowsBefore(c)
        BY <1>1, <4>1, HourBounds DEF HistoryIInv, HistoryTypes, Result, RowsBefore
      <4>3. SummaryFrom(RowsBefore(c), m, h) = Exact(m, h)
        BY <1>1, <2>4, BucketIs DEF HistoryIInv
      <4>. QED BY <1>1, <4>1, <4>2, <4>3, BucketsAre DEF HistoryIInv
    <3>5. ASSUME NEW b \in Buckets(c), b.of = m, b.hour = h PROVE b = Exact(m, h) /\ Over(h, c)
      <4>1. PICK r \in results : r.ts < c /\ r.of = m /\ Hour(r.ts) = h /\ b = SummaryFrom(RowsBefore(c), m, h)
        BY <1>1, <3>5, BucketsAre DEF HistoryIInv
      <4>2. r.ts \in Ticks /\ r.ts \in Nat
        BY TimeIs DEF HistoryIInv, HistoryTypes, Result
      <4>3. Over(h, c)
        BY <1>1, <1>6, <4>1, <4>2, HourBounds
      <4>4. In(results, m, h) # {}
        BY <4>1 DEF In
      <4>. QED BY <1>1, <2>4, <4>1, <4>3, <4>4, BucketIs DEF HistoryIInv
    <3>6. fold'.at = "upsert" /\ fold'.todo = Buckets(c) /\ halfway' = halfway /\ fold.at # "upsert"
      BY <1>3, <1>4 DEF Quiet
    <3>. QED BY <2>4, <3>1, <3>2, <3>3, <3>4, <3>5, <3>6 DEF HourIsAccounted
  <2>. QED BY <1>4, <2>1, <2>2, <2>3, <2>4 DEF Accounted, KeptHours
<1>. QED BY <1>5, <1>7, <1>8 DEF HistoryIInv

LEMMA FoldBucketSound == ASSUME HistoryIInv, NEW b \in Summary, FoldBucket(b) PROVE HistoryIInv'
<1>1. fold \in Folding /\ fold # Quiet /\ fold.at = "upsert" /\ b \in fold.todo
  BY DEF HistoryIInv, HistoryTypes, FoldBucket, Quiet
<1>2. PICK f : f = [fold EXCEPT !.todo = @ \ {b}]
  OBVIOUS
<1>3. f \in Folding /\ f.at = "upsert" /\ f.cutoff = fold.cutoff /\ f.todo = fold.todo \ {b} /\ f # Quiet
  BY <1>1, <1>2 DEF Folding, Quiet
<1>4. /\ fold' = f /\ rollups' = (rollups \ SummaryOf(b.of, b.hour)) \cup {b}
      /\ UNCHANGED <<tick, known, results, checking, removal, happened, kept, split, halfway, mixed>>
  BY <1>2 DEF FoldBucket, Replacement
<1>5. HistoryTypes'
  BY <1>3, <1>4 DEF HistoryIInv, HistoryTypes
<1>6. \A h : (Over(h, fold.cutoff))' <=> Over(h, fold.cutoff)
  BY <1>3, <1>4 DEF Over
<1>7. FoldLooksBack'
  BY <1>1, <1>3, <1>4, <1>6 DEF HistoryIInv, FoldLooksBack, Ago
<1>8. ASSUME NEW m \in Watched \ mixed' PROVE Accounted(m)'
  <2>1. Accounted(m) /\ TodoIsKnown(m) /\ ~Leaving(m) /\ ~Leaving(m)'
    BY <1>1, <1>4 DEF HistoryIInv, Accounted, LeavesNothing, Leaving
  <2>2. TodoIsKnown(m)'
    BY <1>3, <1>4, <1>1, <2>1 DEF TodoIsKnown
  <2>3. m \notin known => (GoneForGood(m) => GoneForGood(m)')
    BY <1>1, <1>4, <2>1 DEF TodoIsKnown, GoneForGood
  <2>4. ASSUME NEW h \in Hours \ split, HourIsAccounted(m, h) PROVE HourIsAccounted(m, h)'
    <3>1. In(results, m, h)' = In(results, m, h) /\ In(happened, m, h)' = In(happened, m, h)
          /\ Exact(m, h)' = Exact(m, h)
      BY <1>4 DEF In, Exact, SummaryFrom, Failed
    <3>2. (Over(h, Ago(FoldAfter)))' <=> Over(h, Ago(FoldAfter))
      BY <1>4 DEF Over, Ago
    <3>3. Over(h, fold.cutoff) => Over(h, Ago(FoldAfter))
      <4>1. fold.cutoff \in Ticks /\ Ago(FoldAfter) \in Ticks /\ fold.cutoff <= Ago(FoldAfter)
        BY <1>1, AgoIs, TimeIs DEF HistoryIInv, HistoryTypes, Folding, FoldLooksBack
      <4>. QED BY <4>1, OverStays
    <3>4. Exact(m, h).of = m /\ Exact(m, h).hour = h
      BY DEF Exact, SummaryFrom
    <3>5. CASE b.of = m /\ b.hour = h
      <4>1. b = Exact(m, h) /\ Over(h, fold.cutoff)
        BY <1>1, <2>4, <3>5 DEF HourIsAccounted
      <4>2. SummaryOf(m, h)' = {Exact(m, h)}
        BY <1>4, <3>4, <3>5, <4>1 DEF SummaryOf
      <4>. QED BY <1>1, <1>3, <1>4, <1>6, <2>4, <3>1, <3>2, <3>3, <4>1, <4>2 DEF HourIsAccounted
    <3>6. CASE ~(b.of = m /\ b.hour = h)
      <4>1. SummaryOf(m, h)' = SummaryOf(m, h) /\ b # Exact(m, h)
        BY <1>4, <3>4, <3>6 DEF SummaryOf
      <4>. QED BY <1>1, <1>3, <1>4, <1>6, <2>4, <3>1, <3>2, <4>1 DEF HourIsAccounted
    <3>. QED BY <3>5, <3>6
  <2>. QED BY <1>4, <2>1, <2>2, <2>3, <2>4 DEF Accounted, KeptHours
<1>. QED BY <1>5, <1>7, <1>8 DEF HistoryIInv

LEMMA DeleteFoldedSound == HistoryIInv /\ DeleteFolded => HistoryIInv'
<1>. SUFFICES ASSUME HistoryIInv, DeleteFolded PROVE HistoryIInv'
  OBVIOUS
<1>1. fold \in Folding /\ fold # Quiet /\ fold.at = "upsert" /\ fold.todo = {} /\ fold.cutoff \in Ticks
  BY DEF HistoryIInv, HistoryTypes, DeleteFolded, Quiet, Folding
<1>2. PICK f : f = [fold EXCEPT !.at = "drop"]
  OBVIOUS
<1>3. f \in Folding /\ f.at = "drop" /\ f.cutoff = fold.cutoff /\ f # Quiet
  BY <1>1, <1>2 DEF Folding, Quiet
<1>4. /\ fold' = f /\ results' = {r \in results : r.ts >= fold.cutoff}
      /\ UNCHANGED <<tick, known, rollups, checking, removal, happened, kept, split, halfway, mixed>>
  BY <1>2 DEF DeleteFolded
<1>5. IsFiniteSet(results')
  BY <1>4, FS_Subset DEF HistoryIInv, HistoryTypes
<1>6. HistoryTypes'
  BY <1>3, <1>4, <1>5 DEF HistoryIInv, HistoryTypes
<1>7. \A h : (Over(h, fold.cutoff))' <=> Over(h, fold.cutoff)
  BY <1>3, <1>4 DEF Over
<1>8. FoldLooksBack'
  BY <1>1, <1>3, <1>4, <1>7 DEF HistoryIInv, FoldLooksBack, Ago
<1>9. ASSUME NEW m \in Watched \ mixed' PROVE Accounted(m)'
  <2>1. Accounted(m) /\ ~Leaving(m) /\ ~Leaving(m)'
    BY <1>1, <1>4 DEF HistoryIInv, Accounted, LeavesNothing, Leaving
  <2>2. TodoIsKnown(m)'
    BY <1>3, <1>4 DEF TodoIsKnown
  <2>3. GoneForGood(m) => GoneForGood(m)'
    BY <1>4 DEF GoneForGood
  <2>4. ASSUME NEW h \in Hours \ split, HourIsAccounted(m, h) PROVE HourIsAccounted(m, h)'
    <3>1. In(happened, m, h)' = In(happened, m, h) /\ SummaryOf(m, h)' = SummaryOf(m, h)
          /\ Exact(m, h)' = Exact(m, h)
      BY <1>4 DEF In, SummaryOf, Exact, SummaryFrom, Failed
    <3>2. (Over(h, Ago(FoldAfter)))' <=> Over(h, Ago(FoldAfter))
      BY <1>4 DEF Over, Ago
    <3>3. \A r \in In(results, m, h) : r \in results /\ r.ts \in Ticks /\ r.ts \in Nat /\ Hour(r.ts) = h
      BY TimeIs DEF In, HistoryIInv, HistoryTypes, Result
    <3>4. fold.cutoff \in Nat
      BY <1>1, TimeIs
    <3>5. CASE Over(h, fold.cutoff)
      <4>1. \A r \in In(results, m, h) : r.ts < fold.cutoff
        BY <1>1, <3>3, <3>5, HourBounds
      <4>2. In(results, m, h)' = {}
        BY <1>4, <3>3, <3>4, <4>1 DEF In
      <4>3. SummaryOf(m, h) # {} \/ In(results, m, h) = {}
        BY <1>1, <2>4, <3>5 DEF HourIsAccounted
      <4>. QED BY <1>3, <1>4, <1>7, <2>4, <3>1, <3>2, <3>5, <4>2, <4>3 DEF HourIsAccounted
    <3>6. CASE ~Over(h, fold.cutoff)
      <4>1. fold.cutoff <= h * HourTicks
        BY <1>1, <3>6 DEF HistoryIInv, FoldLooksBack
      <4>2. \A r \in In(results, m, h) : fold.cutoff <= r.ts
        BY <1>1, <3>3, <4>1, HourBounds
      <4>3. In(results, m, h)' = In(results, m, h)
        BY <1>4, <3>3, <3>4, <4>2 DEF In
      <4>. QED BY <1>1, <1>3, <1>4, <1>7, <2>4, <3>1, <3>2, <3>6, <4>3 DEF HourIsAccounted
    <3>. QED BY <3>5, <3>6
  <2>. QED BY <1>4, <2>1, <2>2, <2>3, <2>4 DEF Accounted, KeptHours
<1>. QED BY <1>6, <1>8, <1>9 DEF HistoryIInv

LEMMA DropOldSound == HistoryIInv /\ DropOld => HistoryIInv'
<1>. SUFFICES ASSUME HistoryIInv, DropOld PROVE HistoryIInv'
  OBVIOUS
<1>1. fold.at = "drop" /\ fold # Quiet /\ Ago(KeepFor) \in Ticks /\ Ago(KeepFor) \in Nat /\ kept \in Nat
  BY AgoIs, TimeIs DEF HistoryIInv, HistoryTypes, DropOld, Quiet
<1>2. /\ fold' = Quiet /\ halfway' = FALSE /\ kept' = Ago(KeepFor)
      /\ rollups' = {s \in rollups : s.hour * HourTicks >= Ago(KeepFor)}
      /\ UNCHANGED <<tick, known, results, checking, removal, happened, split, mixed>>
  BY DEF DropOld
<1>3. HistoryTypes'
  BY <1>1, <1>2 DEF HistoryIInv, HistoryTypes
<1>4. FoldLooksBack'
  BY <1>1, <1>2 DEF HistoryIInv, FoldLooksBack, Ago
<1>5. KeptHours' \subseteq KeptHours /\ \A h \in KeptHours' : h * HourTicks >= Ago(KeepFor)
  BY <1>1, <1>2, HoursAre DEF KeptHours, HistoryIInv, FoldLooksBack
<1>6. ASSUME NEW m \in Watched \ mixed' PROVE Accounted(m)'
  <2>1. Accounted(m) /\ ~Leaving(m) /\ ~Leaving(m)'
    BY <1>1, <1>2 DEF HistoryIInv, Accounted, LeavesNothing, Leaving
  <2>2. TodoIsKnown(m)'
    BY <1>2 DEF TodoIsKnown, Quiet
  <2>3. GoneForGood(m) => GoneForGood(m)'
    BY <1>2 DEF GoneForGood
  <2>4. ASSUME NEW h \in KeptHours', HourIsAccounted(m, h) PROVE HourIsAccounted(m, h)'
    <3>1. In(results, m, h)' = In(results, m, h) /\ In(happened, m, h)' = In(happened, m, h)
          /\ Exact(m, h)' = Exact(m, h)
      BY <1>2 DEF In, Exact, SummaryFrom, Failed
    <3>2. (Over(h, Ago(FoldAfter)))' <=> Over(h, Ago(FoldAfter))
      BY <1>2 DEF Over, Ago
    <3>3. SummaryOf(m, h)' = SummaryOf(m, h)
      BY <1>2, <1>5 DEF SummaryOf
    <3>4. fold'.at # "upsert" /\ fold'.at # "drop"
      BY <1>2 DEF Quiet
    <3>5. SummaryOf(m, h) # {} => In(results, m, h) = {}
      BY <1>1, <2>4 DEF HourIsAccounted
    <3>. QED BY <1>2, <2>4, <3>1, <3>2, <3>3, <3>4, <3>5 DEF HourIsAccounted
  <2>. QED BY <1>2, <1>5, <2>1, <2>2, <2>3, <2>4 DEF Accounted
<1>. QED BY <1>3, <1>4, <1>6 DEF HistoryIInv

-----------------------------------------------------------------------------
(* The specification. *)

LEMMA HistoryStarts == HistoryInit => HistoryIInv
<1>. SUFFICES ASSUME HistoryInit PROVE HistoryIInv
  OBVIOUS
<1>1. tick \in Ticks /\ kept \in Ticks /\ kept = 0
  BY TimeIs DEF HistoryInit, Ticks
<1>2. HistoryTypes
  BY <1>1, FS_EmptySet DEF HistoryInit, HistoryTypes
<1>3. FoldLooksBack
  <2>1. Ago(KeepFor) \in Nat
    BY <1>1, AgoIs, TimeIs
  <2>. QED BY <1>1, <2>1 DEF HistoryInit, FoldLooksBack
<1>4. ASSUME NEW m \in Watched PROVE Accounted(m)
  <2>1. fold.at = "idle" /\ fold = Quiet /\ removal = Quiet /\ m \in known
    BY DEF HistoryInit, Quiet
  <2>2. \A h : In(results, m, h) = {} /\ In(happened, m, h) = {} /\ SummaryOf(m, h) = {}
    BY DEF HistoryInit, In, SummaryOf
  <2>. QED BY <2>1, <2>2 DEF Accounted, TodoIsKnown, Leaving, HourIsAccounted
<1>. QED BY <1>2, <1>3, <1>4 DEF HistoryIInv

LEMMA HistoryStep == HistoryIInv /\ [HistoryNext]_historyVars => HistoryIInv'
<1>. SUFFICES ASSUME HistoryIInv, [HistoryNext]_historyVars PROVE HistoryIInv'
  OBVIOUS
<1>1. CASE HistoryNext
  BY <1>1, PassTimeSound, BeginCheckSound, DeleteResultsSound, AddMonitorSound, RecordResultSound,
     BeginFoldSound, FoldBucketSound, DeleteFoldedSound, DropOldSound, DeleteRollupsSound,
     DeleteMonitorRowSound, StopServerSound DEF HistoryNext
<1>2. CASE UNCHANGED historyVars
  BY <1>2 DEF historyVars, HistoryIInv, HistoryTypes, FoldLooksBack, Accounted, GoneForGood, LeavesNothing,
     Leaving, HourIsAccounted, TodoIsKnown, KeptHours, Exact, SummaryFrom, SummaryOf, In, Failed, Over, Ago
<1>. QED BY <1>1, <1>2

LEMMA Copies ==
    ASSUME NEW e, NEW n \in Nat
    PROVE  Cardinality({e} \X (1..n)) = n
<1>1. IsFiniteSet({e}) /\ Cardinality({e}) = 1
  BY FS_Singleton
<1>2. IsFiniteSet(1..n) /\ Cardinality(1..n) = IF 1 > n THEN 0 ELSE n - 1 + 1
  BY FS_Interval
<1>3. Cardinality({e} \X (1..n)) = 1 * Cardinality(1..n)
  BY <1>1, <1>2, FS_Product
<1>4. Cardinality(1..n) = n
  BY <1>2
<1>. QED BY <1>3, <1>4

LEMMA RestIsExact == HistoryIInv => WholeHoursAreKept
<1>. SUFFICES ASSUME HistoryIInv, AtRest, NEW m \in known \ mixed, NEW h \in KeptHours \ split
              PROVE  Counted(m, h) = Truth(m, h)
  BY DEF WholeHoursAreKept
<1>. DEFINE R == In(results, m, h)
            H == In(happened, m, h)
            S == SummaryOf(m, h)
<1>1. HourIsAccounted(m, h)
  BY DEF HistoryIInv, HistoryTypes, AtRest, Accounted, Leaving
<1>2. fold.at = "idle" /\ ~halfway
  BY DEF AtRest, Quiet
<1>3. /\ Cardinality(R) \in Nat /\ Cardinality(Failed(R)) \in Nat
      /\ Cardinality(H) \in Nat /\ Cardinality(Failed(H)) \in Nat
  BY HourIsFinite DEF HistoryIInv, HistoryTypes
<1>4. CASE S = {}
  <2>1. R = H
    BY <1>1, <1>4 DEF HourIsAccounted
  <2>2. UNION {{s} \X (1..s.checks) : s \in S} = {} /\ UNION {{s} \X (1..s.failures) : s \in S} = {}
    BY <1>4
  <2>3. Cardinality({}) = 0
    BY FS_EmptySet
  <2>. QED BY SMTT(20), <1>3, <2>1, <2>2, <2>3 DEF Counted, Truth
<1>5. CASE S # {}
  <2>1. PICK e : e = Exact(m, h)
    OBVIOUS
  <2>2. R = {} /\ S = {e}
    BY <1>1, <1>2, <1>5, <2>1 DEF HourIsAccounted
  <2>3. e.checks = Cardinality(H) /\ e.failures = Cardinality(Failed(H))
    BY <2>1 DEF Exact, SummaryFrom
  <2>4. UNION {{s} \X (1..s.checks) : s \in S} = {e} \X (1..e.checks)
        /\ UNION {{s} \X (1..s.failures) : s \in S} = {e} \X (1..e.failures)
    BY <2>2
  <2>5. Cardinality({e} \X (1..Cardinality(H))) = Cardinality(H)
        /\ Cardinality({e} \X (1..Cardinality(Failed(H)))) = Cardinality(Failed(H))
    BY <1>3, Copies
  <2>6. Failed(R) = {} /\ Cardinality({}) = 0
    BY <2>2, FS_EmptySet DEF Failed
  <2>7. Cardinality(R) + Cardinality(UNION {{s} \X (1..s.checks) : s \in S}) = Cardinality(H)
        /\ Cardinality(Failed(R)) + Cardinality(UNION {{s} \X (1..s.failures) : s \in S}) = Cardinality(Failed(H))
    <3>1. Cardinality(R) = 0 /\ Cardinality(Failed(R)) = 0
      BY <2>2, <2>6
    <3>2. Cardinality(UNION {{s} \X (1..s.checks) : s \in S}) = Cardinality(H)
          /\ Cardinality(UNION {{s} \X (1..s.failures) : s \in S}) = Cardinality(Failed(H))
      BY <2>3, <2>4, <2>5
    <3>. HIDE DEF R, H, S
    <3>. QED BY <1>3, <3>1, <3>2
  <2>. QED BY <2>7 DEF Counted, Truth
<1>. QED BY <1>4, <1>5

(***************************************************************************)
(* Every check of a whole hour is counted once, as a row or in a summary.  *)
(***************************************************************************)
THEOREM WholeHoursAreKeptAlways == HistorySpec => []WholeHoursAreKept
<1>. QED BY HistoryStarts, HistoryStep, RestIsExact, PTL DEF HistorySpec

-----------------------------------------------------------------------------
(***************************************************************************)
(* The cause of the hour that loses its first part: a cutoff inside it.    *)
(***************************************************************************)

\* Every fold starts at the beginning of an hour, FoldAfter back.
BeginsHour(t) == t = Hour(t) * HourTicks
FoldsBeginHours == [][BeginFold => BeginsHour(Ago(FoldAfter))]_historyVars

\* Hours are in order.
LEMMA TimesGrow ==
    ASSUME NEW i \in Nat, NEW j \in Nat, i <= j
    PROVE  i * HourTicks <= j * HourTicks
<1>1. PICK k \in Nat : j = i + k
  <2>1. j - i \in Nat /\ j = i + (j - i)
    OBVIOUS
  <2>. QED BY <2>1
<1>2. j * HourTicks = i * HourTicks + k * HourTicks
  BY <1>1, TimeIs
<1>3. i * HourTicks \in Nat /\ k * HourTicks \in Nat
  BY TimeIs
<1>. QED BY <1>2, <1>3

\* The beginning of an hour is inside none.
LEMMA HoursAreWhole ==
    ASSUME NEW c \in Nat, BeginsHour(c), NEW h \in Hours
    PROVE  c \notin (h * HourTicks + 1)..((h + 1) * HourTicks - 1)
<1>1. PICK q \in Nat : c = q * HourTicks
  BY HourIs DEF BeginsHour
<1>2. h \in Nat /\ h * HourTicks \in Nat /\ (h + 1) * HourTicks \in Nat
  BY HoursAre
<1>3. CASE q <= h
  <2>1. q * HourTicks <= h * HourTicks
    BY <1>2, <1>3, TimesGrow
  <2>. QED BY <1>1, <1>2, <2>1
<1>4. CASE q >= h + 1
  <2>1. (h + 1) * HourTicks <= q * HourTicks
    BY <1>2, <1>4, TimesGrow
  <2>. QED BY <1>1, <1>2, <2>1
<1>. QED BY <1>2, <1>3, <1>4

\* A fold that starts at the beginning of an hour splits none.
LEMMA NothingIsSplit ==
    ASSUME HistoryIInv, split = {}, [HistoryNext]_historyVars,
           BeginFold => BeginsHour(Ago(FoldAfter))
    PROVE  split' = {}
<1>1. CASE BeginFold
  <2>1. Ago(FoldAfter) \in Nat /\ BeginsHour(Ago(FoldAfter))
    BY <1>1, AgoIs, TimeIs DEF HistoryIInv, HistoryTypes
  <2>2. \A h \in Hours : Ago(FoldAfter) \notin (h * HourTicks + 1)..((h + 1) * HourTicks - 1)
    BY <2>1, HoursAreWhole
  <2>. QED BY <1>1, <2>2 DEF BeginFold
<1>2. CASE UNCHANGED split
  BY <1>2
<1>. QED BY <1>1, <1>2
     DEF HistoryNext, PassTime, BeginCheck, DeleteResults, AddMonitor, RecordResult, FoldBucket, DeleteFolded,
         DropOld, DeleteRollups, DeleteMonitorRow, StopServer, historyVars

(***************************************************************************)
(* Finding 4 has one cause. Were the cutoff of every fold the beginning of *)
(* an hour, rather than FoldAfter before now to the millisecond            *)
(* (store.ts:440-469), what the rows and the summaries count together      *)
(* would be every check there was, once.                                   *)
(***************************************************************************)
THEOREM UptimeCountsOnceByTheHour == HistorySpec /\ FoldsBeginHours => []UptimeCountsOnce
<1>1. HistoryInit => HistoryIInv /\ split = {}
  BY HistoryStarts DEF HistoryInit
<1>2. ASSUME HistoryIInv, split = {}, [HistoryNext]_historyVars,
             [BeginFold => BeginsHour(Ago(FoldAfter))]_historyVars
      PROVE  HistoryIInv' /\ (split = {})'
  <2>1. CASE UNCHANGED historyVars
    BY <1>2, <2>1, HistoryStep DEF historyVars
  <2>2. CASE BeginFold => BeginsHour(Ago(FoldAfter))
    BY <1>2, <2>2, HistoryStep, NothingIsSplit
  <2>. QED BY <1>2, <2>1, <2>2
<1>3. HistoryIInv /\ split = {} => UptimeCountsOnce
  BY RestIsExact DEF WholeHoursAreKept, UptimeCountsOnce
<1>. QED BY <1>1, <1>2, <1>3, PTL DEF HistorySpec, FoldsBeginHours

-----------------------------------------------------------------------------
(***************************************************************************)
(* Figures. A weekly maintenance window, in minutes of the week.           *)
(***************************************************************************)

\* A weekly window as the configuration lets it be (config.ts:71-73), and a minute of the week
Minutes == 0..1439
Lengths == 1..10080
WindowFits(w) == w.days \subseteq 0..6 /\ w.start \in Minutes /\ w.length \in Lengths
WeeklyWindow(w) == w.kind = "weekly" /\ WindowFits(w)
MinuteOfWeek(at) == at.day \in 0..6 /\ at.minute \in Minutes

\* The minutes from a minute of day e to one of day d, within a week
MinutesFrom(e, s, d, t) == (d * 1440 + t - (e * 1440 + s)) % 10080

\* How long ago, within a week, a window of day e began.
LEMMA SinceItBegan ==
    ASSUME NEW s \in Int, NEW d \in Int, NEW t \in Int, NEW e \in Int,
           0 <= s, s <= t, t <= 1439, 0 <= d, d <= 6, 0 <= e, e <= 6
    PROVE  /\ MinutesFrom(e, s, d, t) \in Int
           /\ e = d => MinutesFrom(e, s, d, t) = t - s
           /\ e # d => MinutesFrom(e, s, d, t) >= 1440
<1>1. PICK k \in Int : k = d - e /\ -6 <= k /\ k <= 6
  OBVIOUS
<1>2. PICK x \in Int : x = d * 1440 + t - (e * 1440 + s) /\ x = k * 1440 + (t - s)
  BY <1>1
<1>3. t - s \in 0..1439
  OBVIOUS
<1>m. MinutesFrom(e, s, d, t) = x % 10080 /\ x % 10080 \in Int
  BY <1>2 DEF MinutesFrom
<1>4. CASE k = 0
  <2>1. x = t - s /\ x % 10080 = x
    BY <1>2, <1>3, <1>4
  <2>. QED BY <1>1, <1>2, <1>m, <1>4, <2>1
<1>5. CASE k > 0
  <2>1. 1440 <= x /\ x < 10080
    BY <1>1, <1>2, <1>3, <1>5
  <2>2. x % 10080 = x
    BY <2>1
  <2>. QED BY <1>1, <1>2, <1>m, <1>5, <2>1, <2>2
<1>6. CASE k < 0
  <2>1. 1440 <= x + 10080 /\ x < 0
    BY <1>1, <1>2, <1>3, <1>6
  <2>2. x % 10080 = x + 10080
    BY <2>1
  <2>. QED BY <1>1, <1>2, <1>m, <1>6, <2>1, <2>2
<1>. QED BY <1>1, <1>4, <1>5, <1>6

\* Its minutes are whole.
LEMMA WindowFitsIs ==
    ASSUME NEW w, WindowFits(w)
    PROVE  w.start \in Nat /\ w.length \in Nat
<1>1. Minutes \subseteq Nat /\ Lengths \subseteq Nat
  BY DEF Minutes, Lengths
<1>2. w.start \in Minutes /\ w.length \in Lengths
  BY Zenon DEF WindowFits
<1>. QED BY Zenon, <1>1, <1>2

\* A weekly window looks at the minutes of its own days.
LEMMA WeeklyIs ==
    ASSUME NEW w, NEW at, WeeklyWindow(w), MinuteOfWeek(at)
    PROVE  QuietNow(w, at) <=> at.day \in w.days /\ w.start <= at.minute /\ at.minute < w.start + w.length
<1>1. w.start # Missing /\ w.length # Missing
  <2>1. \A i \in Nat : i # Missing
    BY DEF Missing
  <2>2. w.start \in Nat /\ w.length \in Nat
    <3>1. WindowFits(w)
      BY DEF WeeklyWindow
    <3>. QED BY WindowFitsIs, <3>1
  <2>. QED BY <2>1, <2>2
<1>2. w.kind = "weekly"
  BY DEF WeeklyWindow
<1>3. QuietNow(w, at) <=> /\ w.days # {} /\ w.start # Missing /\ w.length # Missing
                          /\ at.day \in w.days /\ w.start <= at.minute /\ at.minute < w.start + w.length
  BY ZenonT(20), <1>2 DEF QuietNow
<1>. QED BY <1>1, <1>3

(***************************************************************************)
(* For any weekly window that can be stored, and at any minute of the      *)
(* week: it is open when its owner asked for it, but from midnight on it   *)
(* is closed (inMaintenance, store.ts:680-701).                            *)
(***************************************************************************)
THEOREM QuietUntilMidnightAlways ==
    ASSUME NEW w, NEW at, WeeklyWindow(w), MinuteOfWeek(at)
    PROVE  QuietUntilMidnight(w, at)
<1>1. PICK s, n, d, t, D : s = w.start /\ n = w.length /\ d = at.day /\ t = at.minute /\ D = w.days
  OBVIOUS
<1>2. s \in Minutes /\ n \in Lengths /\ d \in 0..6 /\ t \in Minutes /\ D \subseteq 0..6
  BY Zenon, <1>1 DEF WeeklyWindow, WindowFits, MinuteOfWeek
<1>n. /\ s \in Int /\ n \in Int /\ d \in Int /\ t \in Int
      /\ 0 <= s /\ 0 < n /\ 0 <= d /\ d <= 6 /\ t <= 1439
  BY <1>2 DEF Minutes, Lengths
<1>3. ASSUME d \in D, s <= t
      PROVE  QuietAsAsked(w, at) <=> t < s + n
  <2>1. QuietAsAsked(w, at) <=> \E e \in D : MinutesFrom(e, s, d, t) < n
    BY <1>1 DEF QuietAsAsked, MinutesFrom
  <2>2. ASSUME t < s + n
        PROVE  \E e \in D : MinutesFrom(e, s, d, t) < n
    <3>1. MinutesFrom(d, s, d, t) = t - s
      BY <1>n, <1>3, SinceItBegan
    <3>2. t - s < n
      BY <1>n, <2>2
    <3>. QED BY <1>3, <3>1, <3>2
  <2>3. ASSUME NEW e \in D, MinutesFrom(e, s, d, t) < n
        PROVE  t < s + n
    <3>1. PICK k \in Int : k = e /\ 0 <= k /\ k <= 6
      BY <1>2
    <3>2. s <= t
      BY <1>3
    <3>3. /\ MinutesFrom(k, s, d, t) \in Int
          /\ k = d => MinutesFrom(k, s, d, t) = t - s
          /\ k # d => MinutesFrom(k, s, d, t) >= 1440
      <4>1. 0 <= k /\ k <= 6
        BY <3>1
      <4>. QED BY <1>n, <3>2, <4>1, SinceItBegan
    <3>4. MinutesFrom(k, s, d, t) < n
      BY <2>3, <3>1
    <3>. QED BY <1>n, <3>3, <3>4
  <2>. QED BY <2>1, <2>2, <2>3
<1>4. QuietNow(w, at) <=> d \in D /\ s <= t /\ t < s + n
  BY <1>1, WeeklyIs
<1>5. QuietUntilMidnight(w, at) <=> (QuietNow(w, at) <=> QuietAsAsked(w, at) /\ d \in D /\ t >= s)
  <2>1. QuietNow(w, at) \in BOOLEAN /\ (QuietAsAsked(w, at) /\ d \in D /\ t >= s) \in BOOLEAN
    BY <1>1, WeeklyIs DEF WeeklyWindow, QuietNow
  <2>. QED BY <1>1, <2>1 DEF QuietUntilMidnight
<1>. QED BY <1>n, <1>3, <1>4, <1>5
==============================================================================
