---------------------------- MODULE Parts_proofs -----------------------------
(***************************************************************************)
(* Five parts that share no state, for any versions, legs, jobs, heralds,  *)
(* schedules and forms: what is published can be used (Publishing), a      *)
(* check ends in time (HealthChecks), nobody is told twice (BackupAlerts), *)
(* a job is due at the next of its moments (BackupSchedule), and what is   *)
(* submitted is what is stored (MonitorEdits). Each has an inductive       *)
(* invariant of its own.                                                   *)
(***************************************************************************)
EXTENDS Publishing, HealthChecks, BackupAlerts, BackupSchedule, MonitorEdits, WellFoundedInduction, TLAPS

(***************************************************************************)
(* Publishing. The newest tag is known, what is served was tagged, main    *)
(* does not go back, and a removal is declared between any two tags but    *)
(* where RemovalsAreDeclared lets it pass.                                 *)
(***************************************************************************)

Newest(m) == m \in DOMAIN tags /\ \A w \in DOMAIN tags : w.line < m.line \/ (w.line = m.line /\ w.pre <= m.pre)

PublishIInv ==
    /\ PublishTypeOK
    /\ \E m \in DOMAIN tags : Newest(m)
    /\ \A b \in Branch : live[b] \in DOMAIN tags /\ (live[b] \in pushed \/ b \in alone)
    /\ live["main"].pre = 0
    /\ ~Earlier(heads["main"].lists, live["main"])
    /\ ~Earlier(live["beta"], against)
    /\ RemovalsAreDeclared

-----------------------------------------------------------------------------
(* Semver is a strict order. *)
LEMMA VersionsAre == \A v \in Version : v.line \in Nat /\ v.pre \in Nat
BY VersionAssumption

LEMMA SameVersion == \A v, w \in Version : v.line = w.line /\ v.pre = w.pre => v = w
BY VersionAssumption

LEMMA EarlierIsAnOrder ==
    ASSUME NEW u \in Version, NEW v \in Version, NEW w \in Version
    PROVE  /\ ~Earlier(u, u)
           /\ Earlier(u, v) => ~Earlier(v, u)
           /\ Earlier(u, v) /\ Earlier(v, w) => Earlier(u, w)
           /\ Earlier(u, v) \/ u = v \/ Earlier(v, u)
BY VersionsAre, SameVersion DEF Earlier

\* The newest tag is there, and is what NewestTag finds.
LEMMA NewestIs ==
    ASSUME \E m \in DOMAIN tags : Newest(m)
    PROVE  Newest(NewestTag)
BY DEF Newest, NewestTag

\* What comes before a later version than the newest tag comes before that tag,
\* or is a release that had pre-releases.
LEMMA NewestIsLast ==
    ASSUME NEW x \in Version, NEW m \in Version, x # m,
           x.line < m.line \/ (x.line = m.line /\ x.pre <= m.pre)
    PROVE  Earlier(x, m) \/ (x.pre = 0 /\ m.line = x.line /\ m.pre > 0)
BY VersionsAre, SameVersion DEF Earlier

LEMMA PublishStart == PublishInit => PublishIInv
<1>. SUFFICES ASSUME PublishInit PROVE PublishIInv
  OBVIOUS
<1>. DEFINE first == [exports |-> TRUE, breaks |-> FALSE]
<1>0. PICK v \in Version :
        /\ v.pre = 0
        /\ heads = [b \in Branch |-> [lists |-> v, agrees |-> TRUE, exports |-> TRUE, breaks |-> FALSE]]
        /\ tags = [w \in {v} |-> first] /\ pushed = {v} /\ alone = {} /\ under = {}
        /\ live = [b \in Branch |-> v] /\ against = v
  BY DEF PublishInit
<1>1. PICK tree : tree = [lists |-> v, agrees |-> TRUE, exports |-> TRUE, breaks |-> FALSE]
  OBVIOUS
<1>2. tree \in Tree /\ tree.lists = v /\ first \in Surface
  BY <1>1 DEF Tree, Surface
<1>3. heads = [b \in Branch |-> tree]
  BY <1>0, <1>1
<1>4. DOMAIN tags = {v} /\ tags[v] \in Surface
  BY <1>0, <1>2
<1>5. PublishTypeOK
  BY <1>0, <1>2, <1>3, <1>4 DEF PublishTypeOK
<1>6. Newest(v)
  BY <1>4, VersionsAre DEF Newest
<1>7. RemovalsAreDeclared
  BY <1>4, EarlierIsAnOrder DEF RemovalsAreDeclared
<1>8. heads["main"].lists = v
  BY <1>2, <1>3 DEF Branch
<1>. QED BY <1>0, <1>4, <1>5, <1>6, <1>7, <1>8, EarlierIsAnOrder DEF PublishIInv, Branch

\* What a commit to a branch may not do.
LEMMA Committed ==
    ASSUME PublishIInv, UNCHANGED <<tags, pushed, live, against, alone, under>>, heads' \in [Branch -> Tree],
           ~Earlier(heads'["main"].lists, live["main"])
    PROVE  PublishIInv'
BY DEF PublishIInv, PublishTypeOK, Newest, RemovalsAreDeclared, PassedOver, Earlier

LEMMA PublishTypes ==
    ASSUME PublishIInv
    PROVE  /\ heads \in [Branch -> Tree] /\ live \in [Branch -> Version] /\ against \in Version
           /\ \A b \in Branch : heads[b].lists \in Version /\ live[b] \in Version
           /\ "main" \in Branch /\ "beta" \in Branch
<1>1. heads \in [Branch -> Tree] /\ live \in [Branch -> Version] /\ against \in Version
  BY DEF PublishIInv, PublishTypeOK
<1>2. \A b \in Branch : heads[b].lists \in Version
  BY <1>1 DEF Tree
<1>. QED BY <1>1, <1>2 DEF Branch

LEMMA ChangeSound == ASSUME PublishIInv, NEW b \in Branch, ChangeSurface(b) \/ DeclareVersion(b) PROVE PublishIInv'
<1>1. PICK tree : tree = IF ChangeSurface(b) THEN [heads[b] EXCEPT !.exports = ~heads[b].exports]
                                             ELSE [heads[b] EXCEPT !.agrees = TRUE]
  OBVIOUS
<1>2. heads[b] \in Tree
  BY PublishTypes
<1>3. tree \in Tree /\ tree.lists = heads[b].lists
  BY <1>1, <1>2 DEF Tree
<1>4. heads' = [heads EXCEPT ![b] = tree]
  BY <1>1, PublishTypes DEF ChangeSurface, DeclareVersion
<1>5. heads' \in [Branch -> Tree] /\ heads'["main"].lists = heads["main"].lists
  BY <1>3, <1>4, PublishTypes
<1>. QED BY <1>5, Committed DEF ChangeSurface, DeclareVersion, PublishIInv

LEMMA BumpSound ==
    ASSUME PublishIInv, NEW b \in Branch, NEW v \in Version, NEW breaks \in BOOLEAN, NEW agrees \in BOOLEAN,
           Bump(b, v, breaks, agrees)
    PROVE  PublishIInv'
<1>1. PICK tree : tree = [lists |-> v, agrees |-> agrees, exports |-> heads[b].exports, breaks |-> breaks]
  OBVIOUS
<1>2. tree \in Tree /\ tree.lists = v
  BY <1>1, PublishTypes DEF Tree
<1>3. heads' = [heads EXCEPT ![b] = tree]
  BY <1>1, PublishTypes DEF Bump
<1>4. heads' \in [Branch -> Tree]
  BY <1>2, <1>3, PublishTypes
<1>5. ~Earlier(heads'["main"].lists, live["main"])
  <2>1. CASE b = "main"
    <3>1. Earlier(heads["main"].lists, v) /\ ~Earlier(heads["main"].lists, live["main"])
      BY <2>1 DEF Bump, PublishIInv
    <3>. QED BY <2>1, <3>1, <1>2, <1>3, PublishTypes, EarlierIsAnOrder
  <2>2. CASE b # "main"
    BY <2>2, <1>3, PublishTypes DEF PublishIInv
  <2>. QED BY <2>1, <2>2
<1>. QED BY <1>4, <1>5, Committed DEF Bump

LEMMA PromoteSound ==
    ASSUME PublishIInv, NEW from \in Branch, NEW to \in Branch, Promote(from, to)
    PROVE  PublishIInv'
<1>1. heads' = [heads EXCEPT ![to] = heads[from]] /\ Earlier(heads[to].lists, heads[from].lists)
  BY DEF Promote
<1>2. heads' \in [Branch -> Tree]
  BY <1>1, PublishTypes
<1>3. ~Earlier(heads'["main"].lists, live["main"])
  <2>1. CASE to = "main"
    BY <2>1, <1>1, PublishTypes, EarlierIsAnOrder DEF PublishIInv
  <2>2. CASE to # "main"
    BY <2>2, <1>1, PublishTypes DEF PublishIInv
  <2>. QED BY <2>1, <2>2
<1>. QED BY <1>2, <1>3, Committed DEF Promote

LEMMA PushTagSound == ASSUME PublishIInv, NEW v \in Version, PushTag(v) PROVE PublishIInv'
<1>1. PublishTypeOK'
  BY DEF PushTag, PublishIInv, PublishTypeOK
<1>. QED BY <1>1 DEF PushTag, PublishIInv, Newest, RemovalsAreDeclared, PassedOver, Earlier

LEMMA PushSound ==
    ASSUME PublishIInv, NEW b \in Branch, NEW along \in BOOLEAN, Push(b, along)
    PROVE  PublishIInv'
<1>1. PICK v \in Version : v = heads[b].lists
  BY PublishTypes
<1>2. /\ live' = [live EXCEPT ![b] = v] /\ against' = IF b = "beta" THEN live["main"] ELSE against
      /\ pushed' = IF along THEN pushed \cup {v} ELSE pushed
      /\ alone' = IF v \in pushed' THEN alone \ {b} ELSE alone \cup {b}
      /\ UNCHANGED <<heads, tags, under>>
  BY <1>1 DEF Push
<1>3. v \in DOMAIN tags /\ (b = "main" => v.pre = 0) /\ (b = "beta" => ~Behind(v, heads["main"].lists))
  BY <1>1 DEF Push, ManifestPasses, PublishIInv
<1>4. live' \in [Branch -> Version] /\ against' \in Version
  BY <1>2, PublishTypes
<1>5. PublishTypeOK'
  BY <1>2, <1>3, <1>4 DEF PublishIInv, PublishTypeOK
<1>6. (\E m \in DOMAIN tags : Newest(m))' /\ RemovalsAreDeclared'
  BY <1>2 DEF PublishIInv, Newest, RemovalsAreDeclared, PassedOver, Earlier
<1>7. ASSUME NEW c \in Branch
      PROVE  live'[c] \in DOMAIN tags' /\ (live'[c] \in pushed' \/ c \in alone')
  <2>1. CASE c = b
    BY <2>1, <1>2, <1>3, PublishTypes
  <2>2. CASE c # b
    BY <2>2, <1>2, PublishTypes DEF PublishIInv
  <2>. QED BY <2>1, <2>2
<1>8. CASE b = "main"
  <2>1. live'["main"] = heads'["main"].lists /\ live'["beta"] = live["beta"] /\ against' = against /\ live'["main"].pre = 0
    BY <1>1, <1>2, <1>3, <1>8, PublishTypes
  <2>2. ~Earlier(heads'["main"].lists, live'["main"])
    BY <2>1, <1>2, PublishTypes, EarlierIsAnOrder
  <2>. QED BY <2>1, <2>2, <1>5, <1>6, <1>7 DEF PublishIInv, Earlier
<1>9. CASE b = "beta"
  <2>1. live'["beta"] = v /\ live'["main"] = live["main"] /\ against' = live["main"] /\ ~Behind(v, heads["main"].lists)
    BY <1>1, <1>2, <1>3, <1>9, PublishTypes
  <2>2. ~Earlier(heads["main"].lists, live["main"]) /\ live["main"].pre = 0
    BY DEF PublishIInv
  <2>3. ~Earlier(v, live["main"])
    BY <2>1, <2>2, VersionsAre, PublishTypes DEF Earlier, Behind
  <2>. QED BY <2>1, <2>2, <2>3, <1>2, <1>5, <1>6, <1>7 DEF PublishIInv, Earlier
<1>. QED BY <1>8, <1>9 DEF Branch

\* A tag cut under another is on record itself. Above all others, the check of
\* the surface looks at the newest, and what was declared before that is known of it.
LEMMA CutSound == ASSUME PublishIInv, NEW b \in Branch, CutTag(b) PROVE PublishIInv'
<1>1. PICK v \in Version, tree \in Tree : v = heads[b].lists /\ tree = heads[b]
  BY PublishTypes
<1>. DEFINE cut == [exports |-> tree.exports, breaks |-> tree.breaks]
            low == \E w \in DOMAIN tags : Earlier(v, w)
<1>2. /\ v \notin DOMAIN tags
      /\ tags' = [w \in DOMAIN tags \cup {v} |-> IF w = v THEN cut ELSE tags[w]]
      /\ under' = IF low THEN under \cup {v} ELSE under
      /\ UNCHANGED <<heads, pushed, live, against, alone>>
  BY <1>1 DEF CutTag
<1>3. PICK m \in DOMAIN tags : Newest(m) /\ (tags[m].exports /\ ~tree.exports => tree.breaks)
  BY <1>1, NewestIs DEF CutTag, SurfacePasses, PublishIInv, Newest
<1>4. DOMAIN tags \subseteq Version /\ (\A w \in DOMAIN tags : tags[w] \in Surface) /\ cut \in Surface
  BY DEF PublishIInv, PublishTypeOK, Surface, Tree
<1>5. /\ DOMAIN tags' = DOMAIN tags \cup {v}
      /\ tags'[v].exports = tree.exports /\ tags'[v].breaks = tree.breaks /\ tags'[v] \in Surface
      /\ \A w \in DOMAIN tags : tags'[w] = tags[w]
  BY <1>2, <1>4
<1>6. PublishTypeOK'
  BY <1>2, <1>4, <1>5 DEF PublishIInv, PublishTypeOK
<1>7. (\E n \in DOMAIN tags : Newest(n))'
  <2>1. CASE v.line < m.line \/ (v.line = m.line /\ v.pre <= m.pre)
    <3>1. Newest(m)'
      BY <2>1, <1>3, <1>5 DEF Newest
    <3>. QED BY <3>1, <1>5
  <2>2. CASE ~(v.line < m.line \/ (v.line = m.line /\ v.pre <= m.pre))
    <3>1. v.line > m.line \/ (v.line = m.line /\ v.pre > m.pre)
      BY <2>2, <1>4, VersionsAre
    <3>2. ASSUME NEW w \in DOMAIN tags PROVE w.line < v.line \/ (w.line = v.line /\ w.pre <= v.pre)
      BY <3>1, <1>3, <1>4, VersionsAre DEF Newest
    <3>3. Newest(v)'
      BY <3>2, <1>5, VersionsAre DEF Newest
    <3>. QED BY <3>3, <1>5
  <2>. QED BY <2>1, <2>2
<1>8. RemovalsAreDeclared'
  <2>. SUFFICES ASSUME NEW x \in DOMAIN tags', NEW w \in DOMAIN tags',
                       Earlier(x, w), tags'[x].exports, ~tags'[w].exports, ~PassedOver(x)'
                PROVE  \E u \in DOMAIN tags' :
                          /\ u = x \/ Earlier(x, u)
                          /\ u = w \/ Earlier(u, w)
                          /\ u \in under' \/ (u # x /\ tags'[u].breaks)
    BY DEF RemovalsAreDeclared, Earlier
  <2>1. ~PassedOver(x)
    BY <1>5 DEF PassedOver
  <2>2. CASE x # v /\ w # v
    <3>1. x \in DOMAIN tags /\ w \in DOMAIN tags /\ tags[x].exports /\ ~tags[w].exports
      BY <2>2, <1>5
    <3>2. PICK u \in DOMAIN tags :
            /\ u = x \/ Earlier(x, u)
            /\ u = w \/ Earlier(u, w)
            /\ u \in under \/ (u # x /\ tags[u].breaks)
      BY <2>1, <3>1 DEF PublishIInv, RemovalsAreDeclared
    <3>. QED BY <3>2, <1>2, <1>5
  <2>3. CASE low /\ (x = v \/ w = v)
    <3>1. v \in under'
      BY <2>3, <1>2
    <3>. QED BY <2>3, <3>1, <1>5
  <2>4. CASE ~low /\ x = v
    <3>1. w \in DOMAIN tags
      BY <2>4, <1>4, <1>5, EarlierIsAnOrder
    <3>. QED BY <2>4, <3>1
  <2>5. CASE ~low /\ w = v /\ x # v
    <3>1. x \in DOMAIN tags /\ x \in Version /\ m \in Version /\ tags[x].exports
      BY <2>5, <1>4, <1>5
    <3>2. CASE tags[m].exports
      BY <2>5, <3>2, <1>3, <1>5
    <3>3. CASE ~tags[m].exports
      <4>1. Earlier(x, m)
        BY <3>1, <3>3, <2>1, <1>3, NewestIsLast DEF Newest, PassedOver
      <4>2. PICK u \in DOMAIN tags :
              /\ u = x \/ Earlier(x, u)
              /\ u = m \/ Earlier(u, m)
              /\ u \in under \/ (u # x /\ tags[u].breaks)
        BY <2>1, <3>1, <3>3, <4>1 DEF PublishIInv, RemovalsAreDeclared
      <4>3. Earlier(u, v)
        BY <2>5, <1>2, <1>4, EarlierIsAnOrder
      <4>. QED BY <2>5, <4>2, <4>3, <1>2, <1>5
    <3>. QED BY <3>2, <3>3
  <2>. QED BY <2>2, <2>3, <2>4, <2>5
<1>9. \A c \in Branch : live'[c] \in DOMAIN tags' /\ (live'[c] \in pushed' \/ c \in alone')
  BY <1>2, <1>5 DEF PublishIInv
<1>. QED BY <1>2, <1>6, <1>7, <1>8, <1>9 DEF PublishIInv, Earlier

(***************************************************************************)
(* Whatever is committed, promoted, tagged and pushed in whatever order:   *)
(* what is served was tagged, and can be fetched unless its branch was     *)
(* pushed without the tag; stable serves no pre-release; beta is not below *)
(* what stable served when it was pushed; and between any two tags, of any *)
(* lines, a removal is declared, unless the first is a release that had    *)
(* pre-releases or a tag between was cut under another (check-manifest.mjs *)
(* and check-helper-surface.mjs).                                          *)
(***************************************************************************)
THEOREM PublishedIsUsableAlways == PublishSpec => []PublishedIsUsable
<1>1. PublishIInv /\ [PublishNext]_publishVars => PublishIInv'
  <2>. SUFFICES ASSUME PublishIInv, [PublishNext]_publishVars PROVE PublishIInv'
    OBVIOUS
  <2>1. CASE PublishNext
    BY <2>1, ChangeSound, BumpSound, PromoteSound, PushTagSound, PushSound, CutSound, PublishTypes DEF PublishNext
  <2>2. CASE UNCHANGED publishVars
    BY <2>2 DEF publishVars, PublishIInv, PublishTypeOK, Newest, RemovalsAreDeclared, PassedOver, Earlier
  <2>. QED BY <2>1, <2>2
<1>2. PublishIInv => PublishedIsUsable
  BY DEF PublishIInv, PublishedIsUsable, ServedIsTagged, BetaIsNotBehind
<1>. QED BY <1>1, <1>2, PublishStart, PTL DEF PublishSpec

-----------------------------------------------------------------------------
(***************************************************************************)
(* Checks. The time a check has taken is the sum of its legs', and a leg   *)
(* starts no later than those before it may last (LegFits).                *)
(***************************************************************************)

LegPlace == {"lookup", "request", "answer", "handshake", "sample", "download", "upload"}
OnLeg == [at : LegPlace, kind : Kind, expects : Expectation, since : Nat, hops : Nat, samples : Nat,
          found : State \cup {"none"}, allowed : Nat]
Slow == Longer(Timeout, SpeedTimeout)

\* The time a leg of each kind may take, and where the leg begins at the latest.
LegFits(k) ==
    /\ k.since <= moment /\ moment <= k.since + k.allowed
    /\ CASE k.kind = "http"  -> k.at = "request" /\ k.hops <= MaxRedirects /\ k.since + k.allowed <= Timeout + k.hops * LegFloor
         [] k.kind = "tls"   -> k.at = "handshake"
         [] k.kind = "tcp"   ->
              /\ k.allowed = Timeout
              /\ \/ k.at = "lookup" /\ k.since = 0
                 \/ k.at = "answer" /\ k.since <= Timeout
         [] k.kind = "speed" ->
              /\ k.allowed = Slow
              /\ \/ k.at = "sample" /\ k.samples < Samples /\ k.since <= k.samples * Slow
                 \/ k.at = "download" /\ k.since <= Samples * Slow
                 \/ k.at = "upload" /\ k.since <= (Samples + 1) * Slow /\ k.found \in Speed
         [] OTHER            -> k.at = "answer" /\ k.since = 0 /\ k.allowed = Timeout

ChecksIInv ==
    /\ check \in {NoCheck, Over} \cup OnLeg
    /\ moment \in Nat
    /\ check = NoCheck => moment = 0
    /\ check \in OnLeg => LegFits(check)

-----------------------------------------------------------------------------
LEMMA LongerIs ==
    ASSUME NEW a \in Int, NEW b \in Int
    PROVE  Longer(a, b) \in {a, b} /\ Longer(a, b) >= a /\ Longer(a, b) >= b
<1>1. CASE a >= b
  <2>1. a \in {a, b} /\ \A y \in {a, b} : a >= y
    BY <1>1
  <2>. QED BY <2>1 DEF Longer, Max
<1>2. CASE b >= a
  <2>1. b \in {a, b} /\ \A y \in {a, b} : b >= y
    BY <1>2
  <2>. QED BY <2>1 DEF Longer, Max
<1>. QED BY <1>1, <1>2

LEMMA Times ==
    /\ \A n, l \in Nat : n * l \in Nat /\ (n + 1) * l = n * l + l
    /\ \A n, m, l \in Nat : n <= m => n * l <= m * l
OBVIOUS

LEMMA LegKinds == \A k \in OnLeg : k # NoCheck /\ k # Over /\ k.at \notin {"none", "over"}
BY DEF OnLeg, LegPlace, NoCheck, Over

LEMMA Limits == {Timeout, SpeedTimeout, LegFloor, MaxRedirects, Samples} \subseteq Nat \ {0} /\ Slow \in Nat /\ Slow >= Timeout
BY CheckConstantsOK, LongerIs DEF Slow

LEMMA ChecksStart == ChecksInit => ChecksIInv
BY LegKinds DEF ChecksInit, ChecksIInv

\* A check under way is on a leg.
LEMMA UnderWay ==
    ASSUME ChecksIInv, check.at \notin {"none", "over"}
    PROVE  check \in OnLeg /\ LegFits(check) /\ moment \in Nat
BY DEF ChecksIInv, NoCheck, Over

LEMMA SettlingIsSound ==
    ASSUME ChecksIInv, NEW v, Settles(v), UNCHANGED moment
    PROVE  ChecksIInv'
BY LegKinds DEF ChecksIInv, Settles, NoCheck, Over

LEMMA GoingOnIsSound ==
    ASSUME ChecksIInv, NEW k \in OnLeg, check' = k, UNCHANGED moment, LegFits(k)
    PROVE  ChecksIInv'
BY LegKinds DEF ChecksIInv, LegFits, Slow

LEMMA StartSound ==
    ASSUME ChecksIInv, NEW kind \in Kind, NEW e \in Expectation, StartCheck(kind, e)
    PROVE  ChecksIInv'
<1>1. PICK k : k = FirstLeg(kind, e)
  OBVIOUS
<1>2. check' = k /\ UNCHANGED moment /\ moment = 0
  BY <1>1 DEF StartCheck, GoesOn, ChecksIInv
<1>3. k.at = CASE kind = "http" -> "request" [] kind = "tls" -> "handshake" [] kind = "tcp" -> "lookup"
                [] kind = "speed" -> "sample" [] OTHER -> "answer"
  BY <1>1 DEF FirstLeg
<1>4. k.allowed = IF kind = "speed" THEN Slow ELSE Timeout
  BY <1>1 DEF FirstLeg, Slow
<1>5. k.kind = kind /\ k.since = 0 /\ k.hops = 0 /\ k.samples = 0
  BY <1>1 DEF FirstLeg
<1>6. k \in OnLeg
  BY <1>1, <1>4, Limits DEF FirstLeg, OnLeg, LegPlace
<1>7. LegFits(k)
  <2>1. 0 * LegFloor = 0 /\ 0 * Slow = 0 /\ 0 < Samples /\ 0 <= MaxRedirects
    BY Limits
  <2>2. k.since <= moment /\ moment <= k.since + k.allowed
    BY <1>2, <1>4, <1>5, Limits
  <2>. QED BY <1>3, <1>4, <1>5, <2>1, <2>2, Limits DEF LegFits, Kind
<1>. QED BY <1>2, <1>6, <1>7, GoingOnIsSound

LEMMA MomentSound == ASSUME ChecksIInv, MomentPasses PROVE ChecksIInv'
<1>1. check \in OnLeg /\ LegFits(check) /\ moment \in Nat /\ moment' = moment + 1 /\ check' = check
      /\ moment < check.since + check.allowed
  BY UnderWay DEF MomentPasses
<1>2. check.since \in Nat /\ check.allowed \in Nat
  BY <1>1 DEF OnLeg
<1>3. moment' \in Nat /\ check.since <= moment' /\ moment' <= check.since + check.allowed
  BY <1>1, <1>2 DEF LegFits
<1>4. LegFits(check)'
  BY <1>1, <1>3 DEF LegFits, Slow
<1>. QED BY <1>1, <1>3, <1>4, LegKinds DEF ChecksIInv

\* A redirect leaves what is left of the time, or the floor.
LEMMA HttpSound ==
    ASSUME ChecksIInv, NEW status \in Status, NEW location, HttpAnswers(status, location)
    PROVE  ChecksIInv'
<1>1. check \in OnLeg /\ LegFits(check) /\ moment \in Nat /\ UNCHANGED moment /\ check.at = "request"
  BY UnderWay DEF HttpAnswers
<1>2. CASE \E v : Settles(v)
  BY <1>1, <1>2, SettlingIsSound
<1>3. CASE check.hops # MaxRedirects /\ check' = [Leg("request", Remaining) EXCEPT !.hops = @ + 1]
  <2>1. check.kind = "http" /\ check.hops <= MaxRedirects /\ check.since + check.allowed <= Timeout + check.hops * LegFloor
    BY <1>1 DEF LegFits, OnLeg, Kind
  <2>2. PICK n \in Nat : n = check.hops
    BY <1>1 DEF OnLeg
  <2>3. PICK r : r = Remaining
    OBVIOUS
  <2>4. r \in {LegFloor, Timeout - moment} /\ r >= LegFloor /\ r >= Timeout - moment
    BY <1>1, <2>3, Limits, LongerIs DEF Remaining
  <2>5. r \in Nat
    BY <2>4, <1>1, Limits
  <2>6. PICK k : k = [Leg("request", Remaining) EXCEPT !.hops = @ + 1]
    OBVIOUS
  <2>7. k = [check EXCEPT !.at = "request", !.since = moment, !.allowed = r, !.hops = n + 1]
    BY <1>1, <2>2, <2>3, <2>6 DEF Leg, OnLeg
  <2>8. k \in OnLeg /\ k.kind = "http" /\ k.at = "request" /\ k.since = moment /\ k.allowed = r /\ k.hops = n + 1
    <3>1. n + 1 \in Nat /\ "request" \in LegPlace /\ moment \in Nat
      BY <1>1 DEF LegPlace
    <3>2. k = [at |-> "request", kind |-> check.kind, expects |-> check.expects, since |-> moment, hops |-> n + 1,
               samples |-> check.samples, found |-> check.found, allowed |-> r]
      BY <1>1, <2>7 DEF OnLeg
    <3>. QED BY <3>1, <3>2, <1>1, <2>1, <2>5 DEF OnLeg
  <2>9. moment <= Timeout + n * LegFloor
    <3>1. check.since \in Nat /\ check.allowed \in Nat /\ n * LegFloor \in Nat
      BY <1>1, Limits, Times DEF OnLeg
    <3>. QED BY <3>1, <1>1, <2>1, <2>2, Limits DEF LegFits
  <2>10. moment + r <= Timeout + (n + 1) * LegFloor
    <3>1. (n + 1) * LegFloor = n * LegFloor + LegFloor /\ n * LegFloor \in Nat
      BY Limits, Times
    <3>. QED BY <3>1, <1>1, <2>4, <2>9, Limits
  <2>11. n + 1 <= MaxRedirects
    BY <1>3, <2>1, <2>2, Limits
  <2>12. LegFits(k)
    BY <1>1, <2>5, <2>8, <2>10, <2>11 DEF LegFits
  <2>. QED BY <1>1, <1>3, <2>6, <2>8, <2>12, GoingOnIsSound
<1>. QED BY <1>2, <1>3 DEF HttpAnswers, GoesOn

LEMMA BytesSound == ASSUME ChecksIInv, BytesArrive PROVE ChecksIInv'
<1>1. check \in OnLeg /\ LegFits(check) /\ moment \in Nat /\ UNCHANGED moment /\ check.at = "handshake"
  BY UnderWay DEF BytesArrive
<1>2. PICK k : k = Leg("handshake", Timeout)
  OBVIOUS
<1>3. check' = k /\ k \in OnLeg /\ k.kind = check.kind /\ k.at = "handshake" /\ k.since = moment /\ k.allowed = Timeout
  BY <1>1, <1>2, Limits DEF BytesArrive, GoesOn, Leg, OnLeg
<1>4. check.kind = "tls"
  BY <1>1 DEF LegFits, OnLeg, Kind
<1>5. LegFits(k)
  BY <1>1, <1>3, <1>4, Limits DEF LegFits
<1>. QED BY <1>1, <1>3, <1>5, GoingOnIsSound

\* A connection is waited for from when the name is found.
LEMMA NameSound == ASSUME ChecksIInv, NameFound PROVE ChecksIInv'
<1>1. check \in OnLeg /\ LegFits(check) /\ moment \in Nat /\ UNCHANGED moment /\ check.at = "lookup"
  BY UnderWay DEF NameFound
<1>2. PICK k : k = Leg("answer", Timeout)
  OBVIOUS
<1>3. check' = k /\ k \in OnLeg /\ k.kind = check.kind /\ k.at = "answer" /\ k.since = moment /\ k.allowed = Timeout
  BY <1>1, <1>2, Limits DEF NameFound, GoesOn, Leg, OnLeg, LegPlace
<1>4. check.kind = "tcp" /\ check.since = 0 /\ check.allowed = Timeout
  BY <1>1 DEF LegFits, OnLeg, Kind
<1>5. moment <= Timeout
  BY <1>1, <1>4, Limits DEF LegFits
<1>6. LegFits(k)
  BY <1>1, <1>3, <1>4, <1>5, Limits DEF LegFits
<1>. QED BY <1>1, <1>3, <1>6, GoingOnIsSound

\* The legs of a speed test follow one another.
LEMMA SampleSound == ASSUME ChecksIInv, SampleEnds PROVE ChecksIInv'
<1>1. check \in OnLeg /\ LegFits(check) /\ moment \in Nat /\ UNCHANGED moment /\ check.at = "sample"
  BY UnderWay DEF SampleEnds
<1>2. PICK n \in Nat : n = check.samples
  BY <1>1 DEF OnLeg
<1>3. check.kind = "speed" /\ check.allowed = Slow /\ n < Samples /\ check.since <= n * Slow
  BY <1>1, <1>2 DEF LegFits, OnLeg, Kind
<1>4. PICK place : place = IF n + 1 = Samples THEN "download" ELSE "sample"
  OBVIOUS
<1>5. PICK k : k = [check EXCEPT !.at = place, !.since = moment, !.allowed = Slow, !.samples = n + 1]
  OBVIOUS
<1>6. check' = k
  BY <1>1, <1>2, <1>3, <1>4, <1>5 DEF SampleEnds, GoesOn, Leg, OnLeg
<1>7. k \in OnLeg /\ k.kind = "speed" /\ k.at = place /\ k.since = moment /\ k.allowed = Slow /\ k.samples = n + 1
  <2>1. n + 1 \in Nat /\ place \in LegPlace /\ moment \in Nat
    BY <1>1, <1>4 DEF LegPlace
  <2>2. k = [at |-> place, kind |-> check.kind, expects |-> check.expects, since |-> moment, hops |-> check.hops,
             samples |-> n + 1, found |-> check.found, allowed |-> Slow]
    BY <1>1, <1>5 DEF OnLeg
  <2>. QED BY <2>1, <2>2, <1>1, <1>3, Limits DEF OnLeg
<1>8. moment <= (n + 1) * Slow
  <2>1. (n + 1) * Slow = n * Slow + Slow /\ n * Slow \in Nat /\ check.since \in Nat
    BY <1>1, Limits, Times DEF OnLeg
  <2>2. moment <= check.since + check.allowed
    BY <1>1 DEF LegFits
  <2>. QED BY <2>1, <2>2, <1>1, <1>3, Limits
<1>9. LegFits(k)
  <2>1. n + 1 # Samples => n + 1 < Samples
    BY <1>3, Limits
  <2>2. k.since <= moment /\ moment <= k.since + k.allowed
    BY <1>1, <1>7, Limits
  <2>. QED BY <1>4, <1>7, <1>8, <2>1, <2>2 DEF LegFits
<1>. QED BY <1>1, <1>6, <1>7, <1>9, GoingOnIsSound

LEMMA DownloadSound ==
    ASSUME ChecksIInv, NEW v \in Speed, NEW skip \in BOOLEAN, DownloadEnds(v, skip)
    PROVE  ChecksIInv'
<1>1. check \in OnLeg /\ LegFits(check) /\ moment \in Nat /\ UNCHANGED moment /\ check.at = "download"
  BY UnderWay DEF DownloadEnds
<1>2. CASE skip
  BY <1>1, <1>2, SettlingIsSound DEF DownloadEnds
<1>3. CASE ~skip
  <2>1. check.kind = "speed" /\ check.allowed = Slow /\ check.since <= Samples * Slow
    BY <1>1 DEF LegFits, OnLeg, Kind
  <2>2. PICK k : k = [check EXCEPT !.at = "upload", !.since = moment, !.allowed = Slow, !.found = v]
    OBVIOUS
  <2>3. check' = k
    BY <1>1, <1>3, <2>1, <2>2 DEF DownloadEnds, GoesOn, Leg, OnLeg
  <2>4. k \in OnLeg /\ k.kind = "speed" /\ k.at = "upload" /\ k.since = moment /\ k.allowed = Slow /\ k.found = v
    BY <1>1, <2>1, <2>2, Limits DEF OnLeg, LegPlace, Speed, State
  <2>5. moment <= (Samples + 1) * Slow
    <3>1. (Samples + 1) * Slow = Samples * Slow + Slow /\ Samples * Slow \in Nat /\ check.since \in Nat
      BY <1>1, Limits, Times DEF OnLeg
    <3>2. moment <= check.since + check.allowed
      BY <1>1 DEF LegFits
    <3>. QED BY <3>1, <3>2, <1>1, <2>1, Limits
  <2>6. LegFits(k)
    <3>1. k.since <= moment /\ moment <= k.since + k.allowed
      BY <1>1, <2>4, Limits
    <3>. QED BY <2>4, <2>5, <3>1 DEF LegFits
  <2>. QED BY <1>1, <2>3, <2>4, <2>6, GoingOnIsSound
<1>. QED BY <1>2, <1>3

LEMMA InTime == ChecksIInv => ChecksEndInTime
<1>. SUFFICES ASSUME ChecksIInv, check.at \notin {"none", "over"}, check.kind # "tls"
              PROVE  moment <= Allowance(check.kind)
  BY DEF ChecksEndInTime
<1>1. check \in OnLeg /\ LegFits(check) /\ moment \in Nat /\ check.since \in Nat /\ check.allowed \in Nat
  BY UnderWay DEF OnLeg
<1>2. moment <= check.since + check.allowed
  BY <1>1 DEF LegFits
<1>3. CASE check.kind = "http"
  <2>1. PICK n \in Nat : n = check.hops
    BY <1>1 DEF OnLeg
  <2>2. n <= MaxRedirects /\ check.since + check.allowed <= Timeout + n * LegFloor
    BY <1>1, <1>3, <2>1 DEF LegFits
  <2>3. n * LegFloor <= MaxRedirects * LegFloor /\ n * LegFloor \in Nat /\ MaxRedirects * LegFloor \in Nat
    BY <2>2, Limits, Times
  <2>. QED BY <1>1, <1>2, <1>3, <2>2, <2>3, Limits DEF Allowance
<1>4. CASE check.kind = "speed"
  <2>1. check.allowed = Slow
    BY <1>1, <1>4 DEF LegFits
  <2>2. check.since <= (Samples + 1) * Slow
    <3>1. PICK n \in Nat : n = check.samples
      BY <1>1 DEF OnLeg
    <3>2. \/ n < Samples /\ check.since <= n * Slow
          \/ check.since <= Samples * Slow
          \/ check.since <= (Samples + 1) * Slow
      BY <1>1, <1>4, <3>1 DEF LegFits
    <3>3. n < Samples => n * Slow <= Samples * Slow
      BY Limits, Times
    <3>4. (Samples + 1) * Slow = Samples * Slow + Slow /\ Samples * Slow \in Nat /\ n * Slow \in Nat
      BY Limits, Times
    <3>. QED BY <3>2, <3>3, <3>4, <1>1, Limits
  <2>3. (Samples + 2) * Slow = (Samples + 1) * Slow + Slow /\ (Samples + 1) * Slow \in Nat
    <3>1. Samples + 1 \in Nat /\ Samples + 2 = (Samples + 1) + 1
      BY Limits
    <3>. QED BY <3>1, Limits, Times
  <2>4. Allowance(check.kind) = (Samples + 2) * Slow
    BY <1>4 DEF Allowance, Slow
  <2>. QED BY <1>1, <1>2, <2>1, <2>2, <2>3, <2>4, Limits
<1>5. CASE check.kind = "tcp"
  <2>1. check.since <= Timeout /\ check.allowed = Timeout
    BY <1>1, <1>5, Limits DEF LegFits
  <2>2. Allowance(check.kind) = 2 * Timeout
    BY <1>5 DEF Allowance
  <2>. QED BY <1>1, <1>2, <2>1, <2>2, Limits
<1>6. CASE check.kind \notin {"http", "speed", "tcp"}
  <2>1. check.since = 0 /\ check.allowed = Timeout
    BY <1>1, <1>6 DEF LegFits
  <2>2. Allowance(check.kind) = Timeout
    BY <1>6 DEF Allowance
  <2>. QED BY <1>1, <1>2, <2>1, <2>2, Limits
<1>. QED BY <1>3, <1>4, <1>5, <1>6

(***************************************************************************)
(* For any time-outs, floors, redirects and numbers of samples, every      *)
(* check but a TLS handshake is over within its allowance (runHttp's       *)
(* remaining time, runTcp's timer that starts again once the name is       *)
(* found, runSpeed's legs, the timers of the others).                      *)
(***************************************************************************)
THEOREM ChecksEndInTimeAlways == ChecksSpec => []ChecksEndInTime
<1>1. ChecksIInv /\ [ChecksNext]_checkVars => ChecksIInv'
  <2>. SUFFICES ASSUME ChecksIInv, [ChecksNext]_checkVars PROVE ChecksIInv'
    OBVIOUS
  <2>1. CASE \E v : Settles(v) /\ UNCHANGED moment
    BY <2>1, SettlingIsSound
  <2>2. CASE UNCHANGED checkVars
    BY <2>2 DEF checkVars, ChecksIInv, LegFits, Slow
  <2>3. CASE RefuseCheck \/ ConnectionFails \/ DeadlinePasses \/ NoCertificate \/ DownloadFails \/ UploadEnds
    BY <2>1, <2>3 DEF RefuseCheck, ConnectionFails, DeadlinePasses, NoCertificate, DownloadFails, UploadEnds
  <2>4. CASE \E good \in BOOLEAN : AnswerComes(good)
    BY <2>1, <2>4 DEF AnswerComes
  <2>5. CASE \E days \in DaysLeft : CertificateRead(days)
    BY <2>1, <2>5 DEF CertificateRead
  <2>. QED BY <2>2, <2>3, <2>4, <2>5, MomentSound, StartSound, HttpSound, BytesSound, NameSound, SampleSound, DownloadSound DEF ChecksNext
<1>. QED BY <1>1, ChecksStart, InTime, PTL DEF ChecksSpec

-----------------------------------------------------------------------------
(***************************************************************************)
(* Alerts. Of a job whose alerts kept apart, the row knows of the last     *)
(* delivery, but for the alert that made it (Apart). What summaries        *)
(* counted is not younger than the last mark (SummariesApart).             *)
(***************************************************************************)

\* An alert on its way, from the row it read to the mark.
OnItsWay == [at : {"holds", "email", "webhook", "mark"}, of : AlertJob, row : Row, asked : Int, sent : BOOLEAN]
Moments == (0..LastHour) \cup {Never}

AlertsType ==
    /\ hour \in 0..LastHour
    /\ jobRow \in [AlertJob -> Row \cup {NoRow}]
    /\ edit \in [AlertJob -> Row \cup {NoRow}]
    /\ alert \in [Herald -> {Silent} \cup OnItsWay]
    /\ heard \in [AlertJob -> Moments]
    /\ \A j \in AlertJob : heard[j] # Never => heard[j] <= hour

Raises(w, j) == alert[w] # Silent /\ alert[w].of = j /\ alert[w].at # "holds"
SaidEnough(row, h) == h = Never \/ hour - h >= AtLeastOne(row.every)

\* Of a job whose alerts kept apart: its row knows of the last delivery, but
\* for the alert that made it; and an alert that has reached nobody yet comes
\* when it may.
Apart(j) ==
    /\ \A v, w \in Herald : Raises(v, j) /\ Raises(w, j) => v = w
    /\ \A w \in Herald : Raises(w, j) /\ ~alert[w].sent => SaidEnough(alert[w].row, heard[j])
    /\ heard[j] # Never /\ jobRow[j] # NoRow =>
         jobRow[j].toldAt >= heard[j] \/ \E w \in Herald : Raises(w, j) /\ alert[w].sent
HoldersAreSilent == \A w \in Herald : alert[w] # Silent /\ alert[w].at = "holds" => ~alert[w].sent

AlertsApart ==
    /\ AlertsType /\ HoldersAreSilent
    /\ early \subseteq overlapped
    /\ \A j \in AlertJob : j \notin overlapped => Apart(j)

\* The runs that summaries counted are not younger than the last mark.
SummaryType ==
    /\ digestAt \in Moments
    /\ counted \subseteq AlertRun
    /\ \/ summary = Silent
       \/ summary \in [at : {"lines", "send", "mark"}, since : Int, runs : SUBSET AlertRun]
    /\ run \in [AlertRun -> {NoBackup} \cup [of : AlertJob, started : 0..LastHour, state : {"running", "done", "failed"}]]
    /\ \A r \in AlertRun : run[r] # NoBackup => run[r].started <= hour
SummariesApart ==
    /\ SummaryType
    /\ lost \in BOOLEAN
    /\ \A r \in counted : run[r] # NoBackup
    /\ summary.at \in {"send", "mark"} => \A r \in summary.runs : run[r] # NoBackup
    /\ summary.at \in {"lines", "send"} => digestAt = Never \/ digestAt <= summary.since
    /\ summary.at = "send" => \A r \in summary.runs : run[r].started >= summary.since
    /\ summary.at = "lines" => summary.runs = {}
    /\ ~lost /\ summary.at # "mark" => \A r \in counted : digestAt # Never /\ run[r].started <= digestAt
    /\ lost \/ countedTwice = {}

BackupAlertsIInv == AlertsApart /\ SummariesApart

-----------------------------------------------------------------------------
LEMMA Clock ==
    /\ Never \in Int /\ Never < 0 /\ DigestEvery \in Nat /\ LastHour \in Nat
    /\ Window \subseteq Nat
    /\ \A t \in Moments : t \in Int /\ (t # Never => t >= 0)
    /\ \A t \in 0..LastHour : t \in Nat /\ t \in Moments
BY AlertConstantsOK DEF Moments

LEMMA RowsAre ==
    /\ \A s \in Settings, t \in Moments : With(s, t) \in Row
    /\ \A row \in Row : /\ row.toldAt \in Moments /\ row.every \in Window /\ row # NoRow
                        /\ \E s \in Settings : row = With(s, row.toldAt)
<1>1. ASSUME NEW s \in Settings, NEW t \in Moments PROVE With(s, t) \in Row
  BY DEF With, Row, Settings, Moments
<1>2. ASSUME NEW row \in Row
      PROVE  /\ row.toldAt \in Moments /\ row.every \in Window /\ row # NoRow
             /\ \E s \in Settings : row = With(s, row.toldAt)
  <2>1. row.toldAt \in Moments /\ row.every \in Window
    BY DEF Row, Moments
  <2>2. row # NoRow
    <3>1. NoRow.toldAt = Never - 1
      BY DEF NoRow
    <3>. QED BY <2>1, <3>1, Clock
  <2>3. PICK s : s = [enabled |-> row.enabled, every |-> row.every, stale |-> row.stale, by |-> row.by]
    OBVIOUS
  <2>4. s \in Settings /\ row = With(s, row.toldAt)
    BY <2>3 DEF Row, With, Settings
  <2>. QED BY <2>1, <2>2, <2>4
<1>. QED BY <1>1, <1>2

LEMMA WindowIs == \A n \in Nat : AtLeastOne(n) \in Nat /\ AtLeastOne(n) >= 1
BY DEF AtLeastOne

LEMMA OnItsWayIs ==
    \A k \in OnItsWay : k # Silent /\ k.of \in AlertJob /\ k.row \in Row /\ k.row.every \in Nat
<1>. SUFFICES ASSUME NEW k \in OnItsWay PROVE k # Silent /\ k.of \in AlertJob /\ k.row \in Row /\ k.row.every \in Nat
  OBVIOUS
<1>1. k # Silent /\ k.of \in AlertJob /\ k.row \in Row
  BY DEF OnItsWay, Silent
<1>. QED BY <1>1, RowsAre, Clock

\* Enough said stays enough said.
LEMMA EnoughStays ==
    ASSUME NEW row \in Row, NEW h \in Moments, SaidEnough(row, h), hour \in Nat, hour' \in Nat, hour <= hour'
    PROVE  SaidEnough(row, h)'
<1>1. row.every \in Nat /\ AtLeastOne(row.every) \in Nat /\ h \in Int
  BY RowsAre, Clock, WindowIs
<1>2. PICK n \in Nat : n = AtLeastOne(row.every)
  BY <1>1
<1>. QED BY <1>1, <1>2 DEF SaidEnough

-----------------------------------------------------------------------------
(* Alerts. *)

\* Nothing is raised or delivered, and no row is touched.
LEMMA AlertsFrame ==
    ASSUME AlertsApart, UNCHANGED <<alert, heard, early, jobRow>>, edit' \in [AlertJob -> Row \cup {NoRow}],
           overlapped \subseteq overlapped', hour' \in 0..LastHour, hour <= hour'
    PROVE  AlertsApart'
<1>1. AlertsType'
  <2>1. ASSUME NEW j \in AlertJob, heard[j] # Never PROVE heard[j] <= hour'
    <3>1. heard[j] \in Int /\ hour \in Int /\ hour' \in Int /\ heard[j] <= hour
      BY <2>1, Clock DEF AlertsApart, AlertsType
    <3>. QED BY <3>1
  <2>. QED BY <2>1 DEF AlertsApart, AlertsType
<1>2. HoldersAreSilent' /\ early' \subseteq overlapped'
  BY DEF AlertsApart, HoldersAreSilent
<1>3. ASSUME NEW j \in AlertJob, j \notin overlapped' PROVE Apart(j)'
  <2>1. Apart(j)
    BY <1>3 DEF AlertsApart
  <2>2. \A w : Raises(w, j)' <=> Raises(w, j)
    BY DEF Raises
  <2>3. ASSUME NEW w \in Herald, Raises(w, j), ~alert[w].sent PROVE SaidEnough(alert[w].row, heard[j])'
    <3>1. alert[w].row \in Row /\ heard[j] \in Moments /\ hour \in Nat /\ hour' \in Nat
      BY <2>3, OnItsWayIs, Clock DEF AlertsApart, AlertsType, Raises
    <3>2. PICK row \in Row : row = alert[w].row
      BY <3>1
    <3>3. SaidEnough(row, heard[j])
      BY <2>1, <2>3, <3>2 DEF Apart
    <3>4. PICK h \in Moments : h = heard[j]
      BY <3>1
    <3>5. SaidEnough(row, h)'
      BY <3>1, <3>3, <3>4, EnoughStays
    <3>. QED BY <3>2, <3>4, <3>5 DEF SaidEnough
  <2>. QED BY <2>1, <2>2, <2>3 DEF Apart
<1>. QED BY <1>1, <1>2, <1>3 DEF AlertsApart

\* One herald goes on with the alert of one job.
LEMMA HeraldStep ==
    ASSUME AlertsApart, NEW w \in Herald, NEW k \in {Silent} \cup OnItsWay, NEW j \in AlertJob,
           alert' = [alert EXCEPT ![w] = k],
           alert[w] # Silent => alert[w].of = j, k # Silent => k.of = j,
           k.at = "holds" => ~k.sent,
           UNCHANGED <<hour, edit>>, overlapped \subseteq overlapped', early' \subseteq overlapped',
           jobRow' \in [AlertJob -> Row \cup {NoRow}], heard' \in [AlertJob -> Moments],
           heard'[j] # Never => heard'[j] <= hour,
           \A i \in AlertJob \ {j} : heard'[i] = heard[i] /\ jobRow'[i] = jobRow[i],
           j \notin overlapped' => Apart(j)'
    PROVE  AlertsApart'
<1>1. alert \in [Herald -> {Silent} \cup OnItsWay] /\ alert' \in [Herald -> {Silent} \cup OnItsWay]
      /\ alert'[w] = k /\ \A v \in Herald \ {w} : alert'[v] = alert[v]
  BY DEF AlertsApart, AlertsType
<1>2. AlertsType'
  BY <1>1 DEF AlertsApart, AlertsType
<1>3. HoldersAreSilent'
  BY <1>1 DEF AlertsApart, HoldersAreSilent
<1>4. ASSUME NEW i \in AlertJob, i \notin overlapped' PROVE Apart(i)'
  <2>1. CASE i = j
    BY <1>4, <2>1
  <2>2. CASE i # j
    <3>1. Apart(i)
      BY <1>4 DEF AlertsApart
    <3>2. ~Raises(w, i) /\ ~Raises(w, i)'
      BY <1>1, <2>2 DEF Raises
    <3>3. \A v \in Herald : (Raises(v, i)' <=> Raises(v, i)) /\ (Raises(v, i) => alert'[v] = alert[v])
      BY <1>1, <3>2 DEF Raises
    <3>4. heard'[i] = heard[i] /\ jobRow'[i] = jobRow[i]
      BY <2>2
    <3>5. \A row, h : SaidEnough(row, h)' <=> SaidEnough(row, h)
      BY DEF SaidEnough
    <3>. QED BY <3>1, <3>3, <3>4, <3>5 DEF Apart
  <2>. QED BY <2>1, <2>2
<1>. QED BY <1>2, <1>3, <1>4 DEF AlertsApart

\* While it only looks, or has nothing to tell, nobody raises more or less.
LEMMA QuietStep ==
    ASSUME AlertsApart, NEW w \in Herald, NEW k \in {Silent} \cup OnItsWay, NEW j \in AlertJob,
           alert' = [alert EXCEPT ![w] = k],
           alert[w] # Silent => alert[w].of = j /\ alert[w].at = "holds",
           k # Silent => k.of = j /\ k.at = "holds" /\ ~k.sent,
           UNCHANGED <<hour, jobRow, edit, heard, early>>, overlapped \subseteq overlapped'
    PROVE  AlertsApart'
<1>1. alert'[w] = k /\ \A v \in Herald \ {w} : alert'[v] = alert[v]
  BY DEF AlertsApart, AlertsType
<1>2. \A v \in Herald : (Raises(v, j)' <=> Raises(v, j)) /\ (Raises(v, j) => alert'[v] = alert[v])
  BY <1>1 DEF Raises
<1>3. j \notin overlapped' => Apart(j)'
  <2>1. \A row, h : SaidEnough(row, h)' <=> SaidEnough(row, h)
    BY DEF SaidEnough
  <2>. QED BY <1>2, <2>1 DEF AlertsApart, Apart
<1>4. k.at = "holds" => ~k.sent
  BY DEF Silent
<1>. QED BY <1>3, <1>4, HeraldStep DEF AlertsApart, AlertsType

LEMMA Holding ==
    ASSUME AlertsApart, NEW w \in Herald, alert[w] # Silent
    PROVE  /\ alert[w] \in OnItsWay /\ alert[w].of \in AlertJob /\ alert[w].row \in Row /\ alert[w].row.every \in Nat
           /\ alert[w].at = "holds" => ~alert[w].sent
BY OnItsWayIs DEF AlertsApart, AlertsType, HoldersAreSilent

\* What alert decides on is what the row still says, or the two overlapped.
LEMMA AnnounceStep ==
    ASSUME AlertsApart, NEW w \in Herald, alert[w] # Silent, alert[w].at = "holds", Announce(w),
           UNCHANGED <<hour, jobRow, edit, heard, early>>
    PROVE  AlertsApart'
<1>1. PICK a \in OnItsWay : a = alert[w] /\ a.of \in AlertJob /\ a.row \in Row /\ a.row.every \in Nat /\ ~a.sent /\ a.at = "holds"
  BY Holding
<1>2. PICK j \in AlertJob : j = a.of
  BY <1>1
<1>3. CASE ~ShouldNotify(a.row)
  <2>1. alert' = [alert EXCEPT ![w] = Silent] /\ UNCHANGED overlapped
    BY <1>1, <1>3 DEF Announce
  <2>. QED BY <1>1, <1>2, <2>1, QuietStep
<1>4. CASE ShouldNotify(a.row)
  <2>1. PICK k : k = [a EXCEPT !.at = "email"]
    OBVIOUS
  <2>2. k \in OnItsWay /\ k.of = j /\ k.row = a.row /\ k.sent = FALSE /\ k.at = "email"
    BY <1>1, <1>2, <2>1 DEF OnItsWay
  <2>3. alert' = [alert EXCEPT ![w] = k]
        /\ overlapped' = IF Alerting(j) # {} \/ jobRow[j].toldAt # a.row.toldAt THEN overlapped \cup {j} ELSE overlapped
    BY <1>1, <1>2, <1>4, <2>1 DEF Announce
  <2>4. alert'[w] = k /\ \A v \in Herald \ {w} : alert'[v] = alert[v]
    BY <2>3 DEF AlertsApart, AlertsType
  <2>5. ASSUME j \notin overlapped' PROVE Apart(j)'
    <3>1. Alerting(j) = {} /\ jobRow[j].toldAt = a.row.toldAt /\ j \notin overlapped
      BY <2>3, <2>5
    <3>2. \A v \in Herald : ~Raises(v, j)
      BY <3>1 DEF Alerting, Raises
    <3>3. \A v \in Herald : Raises(v, j)' <=> v = w
      BY <2>2, <2>4, <3>2, OnItsWayIs DEF Raises
    <3>4. a.row.toldAt \in Moments /\ heard[j] \in Moments
      BY <1>1, RowsAre DEF AlertsApart, AlertsType
    <3>5. jobRow[j] # NoRow
      <4>1. NoRow.toldAt = Never - 1
        BY DEF NoRow
      <4>. QED BY <3>1, <3>4, <4>1, Clock DEF Moments
    <3>6. heard[j] # Never => a.row.toldAt >= heard[j]
      BY <3>1, <3>2, <3>5 DEF AlertsApart, Apart
    <3>7. SaidEnough(a.row, heard[j])
      <4>1. PICK n \in Nat : n = AtLeastOne(a.row.every)
        BY <1>1, WindowIs
      <4>2. a.row.toldAt = Never \/ hour - a.row.toldAt >= n
        BY <1>4, <4>1 DEF ShouldNotify
      <4>3. hour \in Int /\ heard[j] \in Int /\ a.row.toldAt \in Int
        BY <3>4, Clock DEF AlertsApart, AlertsType
      <4>4. heard[j] # Never => heard[j] >= 0
        BY <3>4 DEF Moments
      <4>. QED BY <3>6, <4>1, <4>2, <4>3, <4>4, Clock DEF SaidEnough
    <3>8. SaidEnough(k.row, heard[j])' /\ heard'[j] = heard[j] /\ jobRow'[j] = jobRow[j]
      BY <2>2, <3>7 DEF SaidEnough
    <3>9. heard[j] # Never => jobRow[j].toldAt >= heard[j]
      BY <3>1, <3>6
    <3>. QED BY <2>4, <3>3, <3>8, <3>9 DEF Apart
  <2>. QED BY <1>1, <1>2, <2>2, <2>3, <2>5, HeraldStep DEF AlertsApart, AlertsType
<1>. QED BY <1>3, <1>4

LEMMA HoldApart == ASSUME AlertsApart, NEW w \in Herald, NEW j \in AlertJob, HoldRow(w, j) PROVE AlertsApart'
<1>1. PICK k : k = [at |-> "holds", of |-> j, row |-> jobRow[j], asked |-> IF w = Ticker THEN hour ELSE Never, sent |-> FALSE]
  OBVIOUS
<1>2. k \in OnItsWay /\ k.of = j /\ k.at = "holds" /\ ~k.sent
  <2>1. hour \in Int /\ jobRow[j] \in Row
    BY DEF HoldRow, AlertsApart, AlertsType
  <2>. QED BY <1>1, <2>1, Clock DEF OnItsWay
<1>3. alert' = [alert EXCEPT ![w] = k] /\ alert[w] = Silent
  BY <1>1 DEF HoldRow
<1>. QED BY <1>2, <1>3, QuietStep DEF HoldRow, historyOfAlerts

LEMMA LetGoApart == ASSUME AlertsApart, NEW w \in Herald, LetGo(w) PROVE AlertsApart'
BY Holding, QuietStep DEF LetGo, historyOfAlerts

LEMMA FindStaleApart == ASSUME AlertsApart, FindStale PROVE AlertsApart'
<1>1. Ticker \in Herald
  BY AlertConstantsOK
<1>2. CASE Announce(Ticker)
  BY <1>1, <1>2, AnnounceStep DEF FindStale
<1>3. CASE alert' = [alert EXCEPT ![Ticker] = Silent] /\ UNCHANGED overlapped
  BY <1>1, <1>3, Holding, QuietStep DEF FindStale
<1>. QED BY <1>2, <1>3 DEF FindStale

\* A delivery is early only if the job was heard of in another's window.
LEMMA DeliverApart ==
    ASSUME AlertsApart, NEW w \in Herald, NEW way \in {"email", "webhook"}, NEW next \in {"webhook", "mark"},
           Deliver(w, way, next)
    PROVE  AlertsApart'
<1>1. PICK a \in OnItsWay : a = alert[w] /\ a.of \in AlertJob /\ a.row \in Row /\ a.row.every \in Nat /\ a.at = way
  BY Holding DEF Deliver
<1>2. PICK j \in AlertJob : j = a.of
  BY <1>1
<1>3. UNCHANGED <<hour, jobRow, edit, overlapped>> /\ heard \in [AlertJob -> Moments] /\ hour \in 0..LastHour /\ a # Silent
  BY <1>1 DEF Deliver, AlertsApart, AlertsType
<1>4. Raises(w, j)
  BY <1>1, <1>2, <1>3 DEF Raises
<1>5. \A row, h : SaidEnough(row, h)' <=> SaidEnough(row, h)
  BY <1>3 DEF SaidEnough
<1>6. CASE /\ alert' = [alert EXCEPT ![w] = [a EXCEPT !.at = next, !.sent = TRUE]]
           /\ early' = IF ~a.sent /\ heard[a.of] # Never /\ hour - heard[a.of] < AtLeastOne(a.row.every)
                       THEN early \cup {a.of} ELSE early
           /\ heard' = [heard EXCEPT ![a.of] = hour]
  <2>1. PICK k : k = [a EXCEPT !.at = next, !.sent = TRUE]
    OBVIOUS
  <2>2. k \in OnItsWay /\ k.of = j /\ k.sent /\ k.at = next
    BY <1>1, <1>2, <2>1 DEF OnItsWay
  <2>3. alert' = [alert EXCEPT ![w] = k] /\ heard' = [heard EXCEPT ![j] = hour]
    BY <1>2, <1>6, <2>1
  <2>4. alert'[w] = k /\ \A v \in Herald \ {w} : alert'[v] = alert[v]
    BY <2>3 DEF AlertsApart, AlertsType
  <2>5. heard' \in [AlertJob -> Moments] /\ heard'[j] = hour /\ \A i \in AlertJob \ {j} : heard'[i] = heard[i]
    BY <1>3, <2>3 DEF Moments
  <2>6. early' \subseteq overlapped'
    <3>1. CASE j \in overlapped
      BY <1>2, <1>3, <1>6, <3>1 DEF AlertsApart
    <3>2. CASE j \notin overlapped
      <4>1. ~a.sent => SaidEnough(a.row, heard[j])
        BY <1>1, <1>4, <3>2 DEF AlertsApart, Apart
      <4>2. PICK n \in Nat : n = AtLeastOne(a.row.every)
        BY <1>1, WindowIs
      <4>3. heard[j] \in Int /\ hour \in Int
        BY <1>3, Clock
      <4>4. early' = early
        BY <1>2, <1>6, <4>1, <4>2, <4>3 DEF SaidEnough
      <4>. QED BY <1>3, <4>4 DEF AlertsApart
    <3>. QED BY <3>1, <3>2
  <2>7. ASSUME j \notin overlapped' PROVE Apart(j)'
    <3>1. Apart(j)
      BY <1>3, <2>7 DEF AlertsApart
    <3>2. \A v \in Herald : Raises(v, j)' <=> v = w
      BY <1>4, <2>2, <2>4, <3>1, OnItsWayIs DEF Apart, Raises
    <3>3. (\A u, v \in Herald : Raises(u, j) /\ Raises(v, j) => u = v)'
      BY <3>2
    <3>4. (\A v \in Herald : Raises(v, j) /\ ~alert[v].sent => SaidEnough(alert[v].row, heard[j]))'
      BY <2>2, <2>4, <3>2
    <3>5. (\E v \in Herald : Raises(v, j) /\ alert[v].sent)'
      BY <2>2, <2>4, <3>2
    <3>. QED BY <3>3, <3>4, <3>5 DEF Apart
  <2>8. heard'[j] <= hour
    BY <1>3, <2>5, Clock
  <2>. QED BY <1>1, <1>2, <1>3, <2>2, <2>3, <2>5, <2>6, <2>7, <2>8, HeraldStep DEF AlertsApart, AlertsType
<1>7. CASE alert' = [alert EXCEPT ![w] = [a EXCEPT !.at = next]] /\ UNCHANGED <<heard, early>>
  <2>1. PICK k : k = [a EXCEPT !.at = next]
    OBVIOUS
  <2>2. k \in OnItsWay /\ k.of = j /\ k.sent = a.sent /\ k.at = next /\ k.row = a.row
    BY <1>1, <1>2, <2>1 DEF OnItsWay
  <2>3. alert' = [alert EXCEPT ![w] = k]
    BY <1>7, <2>1
  <2>4. alert'[w] = k /\ \A v \in Herald \ {w} : alert'[v] = alert[v]
    BY <2>3 DEF AlertsApart, AlertsType
  <2>5. ASSUME j \notin overlapped' PROVE Apart(j)'
    <3>1. Apart(j)
      BY <1>3, <2>5 DEF AlertsApart
    <3>2. \A v \in Herald : Raises(v, j)' <=> Raises(v, j)
      BY <1>4, <2>2, <2>4, OnItsWayIs DEF Raises
    <3>3. \A v \in Herald : alert'[v].sent = alert[v].sent /\ alert'[v].row = alert[v].row
      BY <1>1, <2>2, <2>4
    <3>. QED BY <1>3, <1>5, <1>7, <3>1, <3>2, <3>3 DEF Apart
  <2>. QED BY <1>1, <1>2, <1>3, <1>7, <2>2, <2>3, <2>5, HeraldStep DEF AlertsApart, AlertsType
<1>. QED BY <1>1, <1>6, <1>7 DEF Deliver

LEMMA MarkApart == ASSUME AlertsApart, NEW w \in Herald, MarkNotified(w) PROVE AlertsApart'
<1>1. PICK a \in OnItsWay : a = alert[w] /\ a.of \in AlertJob /\ a.at = "mark"
  BY Holding DEF MarkNotified
<1>2. PICK j \in AlertJob : j = a.of
  BY <1>1
<1>3. UNCHANGED <<hour, edit, heard, early, overlapped>> /\ alert' = [alert EXCEPT ![w] = Silent] /\ hour \in Moments
  BY DEF MarkNotified, historyOfAlerts, AlertsApart, AlertsType, Moments
<1>4. alert'[w] = Silent /\ \A v \in Herald \ {w} : alert'[v] = alert[v]
  BY <1>3 DEF AlertsApart, AlertsType
<1>5. PICK row : row = IF jobRow[j] = NoRow THEN NoRow ELSE [jobRow[j] EXCEPT !.toldAt = hour]
  OBVIOUS
<1>6. jobRow' = [jobRow EXCEPT ![j] = row]
  BY <1>1, <1>2, <1>5 DEF MarkNotified
<1>7. row \in Row \cup {NoRow} /\ (row # NoRow => row.toldAt = hour)
  <2>1. CASE jobRow[j] \in Row
    <3>1. PICK s \in Settings : jobRow[j] = With(s, jobRow[j].toldAt)
      BY <2>1, RowsAre
    <3>2. row = With(s, hour)
      BY <2>1, <3>1, <1>5, RowsAre DEF With
    <3>. QED BY <1>3, <3>2, RowsAre DEF With
  <2>. QED BY <2>1, <1>5 DEF AlertsApart, AlertsType
<1>8. jobRow' \in [AlertJob -> Row \cup {NoRow}] /\ jobRow'[j] = row /\ \A i \in AlertJob \ {j} : jobRow'[i] = jobRow[i]
  BY <1>6, <1>7 DEF AlertsApart, AlertsType
<1>9. ASSUME j \notin overlapped' PROVE Apart(j)'
  <2>1. Apart(j)
    BY <1>3, <1>9 DEF AlertsApart
  <2>2. Raises(w, j) /\ ~Raises(w, j)' /\ \A v \in Herald \ {w} : ~Raises(v, j)
    BY <1>1, <1>2, <1>4, <2>1, OnItsWayIs DEF Raises, Apart
  <2>3. \A v \in Herald : ~Raises(v, j)'
    BY <1>4, <2>2 DEF Raises
  <2>4. heard[j] # Never => heard[j] <= hour
    BY DEF AlertsApart, AlertsType
  <2>5. heard[j] \in Int /\ hour \in Int
    BY <1>3, Clock DEF AlertsApart, AlertsType
  <2>. QED BY <1>3, <1>7, <1>8, <2>3, <2>4, <2>5 DEF Apart
<1>. QED BY <1>1, <1>2, <1>3, <1>8, <1>9, HeraldStep DEF AlertsApart, AlertsType, Silent

LEMMA CutApart == ASSUME AlertsApart, NEW w \in Herald, CutShort(w) PROVE AlertsApart'
<1>1. PICK a \in OnItsWay : a = alert[w] /\ a.of \in AlertJob /\ a.at # "holds"
  BY Holding DEF CutShort
<1>2. PICK j \in AlertJob : j = a.of
  BY <1>1
<1>3. UNCHANGED <<hour, edit, heard, early, jobRow>> /\ alert' = [alert EXCEPT ![w] = Silent]
      /\ overlapped' = IF a.sent THEN overlapped \cup {j} ELSE overlapped
  BY <1>1, <1>2 DEF CutShort
<1>4. alert'[w] = Silent /\ \A v \in Herald \ {w} : alert'[v] = alert[v]
  BY <1>3 DEF AlertsApart, AlertsType
<1>5. ASSUME j \notin overlapped' PROVE Apart(j)'
  <2>1. Apart(j) /\ ~a.sent
    BY <1>3, <1>5 DEF AlertsApart
  <2>2. ~Raises(w, j)' /\ \A v \in Herald \ {w} : ~Raises(v, j)
    BY <1>1, <1>2, <1>4, <2>1, OnItsWayIs DEF Raises, Apart
  <2>3. \A v \in Herald : ~Raises(v, j)'
    BY <1>4, <2>2 DEF Raises
  <2>4. ~\E v \in Herald : Raises(v, j) /\ alert[v].sent
    BY <1>1, <2>1, <2>2
  <2>. QED BY <1>3, <2>1, <2>3, <2>4 DEF Apart
<1>. QED BY <1>1, <1>2, <1>3, <1>5, HeraldStep DEF AlertsApart, AlertsType, Silent

\* A restart cuts every alert short.
LEMMA StopApart == ASSUME AlertsApart, StopTelling PROVE AlertsApart'
<1>1. /\ overlapped' = overlapped \cup {alert[w].of : w \in {x \in Herald : alert[x] # Silent /\ alert[x].sent}}
      /\ alert' = [w \in Herald |-> Silent] /\ edit' = [j \in AlertJob |-> NoRow]
      /\ UNCHANGED <<hour, jobRow, heard, early>>
  BY DEF StopTelling
<1>2. AlertsType' /\ HoldersAreSilent' /\ early' \subseteq overlapped'
  BY <1>1 DEF AlertsApart, AlertsType, HoldersAreSilent
<1>3. ASSUME NEW j \in AlertJob, j \notin overlapped' PROVE Apart(j)'
  <2>1. Apart(j)
    BY <1>1, <1>3 DEF AlertsApart
  <2>2. \A w \in Herald : ~Raises(w, j)'
    BY <1>1 DEF Raises
  <2>3. ~\E w \in Herald : Raises(w, j) /\ alert[w].sent
    BY <1>1, <1>3 DEF Raises
  <2>. QED BY <1>1, <2>1, <2>2, <2>3 DEF Apart
<1>. QED BY <1>2, <1>3 DEF AlertsApart

\* One row is replaced or removed, and knows no less of the last delivery.
LEMMA RowStep ==
    ASSUME AlertsApart, NEW j \in AlertJob, NEW row \in Row \cup {NoRow}, jobRow' = [jobRow EXCEPT ![j] = row],
           edit' \in [AlertJob -> Row \cup {NoRow}], UNCHANGED <<hour, alert, heard, early>>, overlapped \subseteq overlapped',
           \/ row = NoRow
           \/ heard[j] = Never
           \/ jobRow[j] # NoRow /\ row.toldAt = jobRow[j].toldAt
           \/ j \in overlapped'
    PROVE  AlertsApart'
<1>1. jobRow' \in [AlertJob -> Row \cup {NoRow}] /\ jobRow'[j] = row /\ \A i \in AlertJob \ {j} : jobRow'[i] = jobRow[i]
  BY DEF AlertsApart, AlertsType
<1>2. AlertsType' /\ HoldersAreSilent' /\ early' \subseteq overlapped'
  BY <1>1 DEF AlertsApart, AlertsType, HoldersAreSilent
<1>3. ASSUME NEW i \in AlertJob, i \notin overlapped' PROVE Apart(i)'
  <2>1. Apart(i)
    BY <1>3 DEF AlertsApart
  <2>2. (\A w : Raises(w, i)' <=> Raises(w, i)) /\ \A r, h : SaidEnough(r, h)' <=> SaidEnough(r, h)
    BY DEF Raises, SaidEnough
  <2>3. jobRow'[i] = jobRow[i] \/ jobRow'[i] = NoRow \/ heard[i] = Never \/ (jobRow[i] # NoRow /\ jobRow'[i].toldAt = jobRow[i].toldAt)
    BY <1>1, <1>3
  <2>. QED BY <2>1, <2>2, <2>3 DEF Apart
<1>. QED BY <1>2, <1>3 DEF AlertsApart

LEMMA WriteApart == ASSUME AlertsApart, NEW j \in AlertJob, NEW s \in Settings, WriteJob(j, s) PROVE AlertsApart'
<1>1. PICK t : t = IF jobRow[j] = NoRow THEN edit[j].toldAt ELSE jobRow[j].toldAt
  OBVIOUS
<1>2. t \in Moments
  BY <1>1, RowsAre DEF WriteJob, AlertsApart, AlertsType
<1>3. With(s, t) \in Row /\ With(s, t).toldAt = t
  BY <1>2, RowsAre DEF With
<1>4. jobRow' = [jobRow EXCEPT ![j] = With(s, t)]
  BY <1>1 DEF WriteJob, AlertsApart, AlertsType
<1>5. edit' \in [AlertJob -> Row \cup {NoRow}] /\ UNCHANGED <<hour, alert, heard, early>> /\ overlapped \subseteq overlapped'
      /\ (jobRow[j] = NoRow => j \in overlapped')
  BY DEF WriteJob, AlertsApart, AlertsType
<1>. QED BY <1>1, <1>3, <1>4, <1>5, RowStep

LEMMA CloneApart == ASSUME AlertsApart, NEW j \in AlertJob, NEW copy \in AlertJob, CloneJob(j, copy) PROVE AlertsApart'
<1>1. PICK s \in Settings : jobRow[j] = With(s, jobRow[j].toldAt)
  BY RowsAre DEF CloneJob, AlertsApart, AlertsType
<1>2. PICK row : row = [jobRow[j] EXCEPT !.enabled = FALSE, !.toldAt = Never]
  OBVIOUS
<1>3. PICK paused : paused = [s EXCEPT !.enabled = FALSE]
  OBVIOUS
<1>4. paused \in Settings /\ row = With(paused, Never)
  <2>1. paused = [enabled |-> FALSE, every |-> s.every, stale |-> s.stale, by |-> s.by]
    BY <1>3 DEF Settings
  <2>2. paused \in Settings
    BY <2>1 DEF Settings
  <2>3. jobRow[j] \in Row
    BY RowsAre DEF CloneJob, AlertsApart, AlertsType
  <2>4. row = [enabled |-> FALSE, every |-> jobRow[j].every, stale |-> jobRow[j].stale, by |-> jobRow[j].by, toldAt |-> Never]
    BY <1>2, <2>3 DEF Row
  <2>5. jobRow[j].every = s.every /\ jobRow[j].stale = s.stale /\ jobRow[j].by = s.by
    BY <1>1 DEF With
  <2>. QED BY <2>1, <2>2, <2>4, <2>5 DEF With
<1>5. row \in Row
  BY <1>4, RowsAre DEF Moments
<1>6. jobRow' = [jobRow EXCEPT ![copy] = row] /\ heard[copy] = Never /\ UNCHANGED <<hour, alert, heard, early, overlapped, edit>>
  BY <1>2 DEF CloneJob, historyOfAlerts
<1>. QED BY <1>5, <1>6, RowStep DEF AlertsApart, AlertsType

LEMMA RemoveApart == ASSUME AlertsApart, NEW j \in AlertJob, RemoveJob(j) PROVE AlertsApart'
BY RowStep DEF RemoveJob, AlertsApart, AlertsType

-----------------------------------------------------------------------------
(* Summaries. *)

LEMMA SummariesFrame ==
    ASSUME SummariesApart, UNCHANGED <<summary, digestAt, counted, countedTwice, lost>>,
           hour \in 0..LastHour, hour' \in 0..LastHour, hour <= hour',
           run' \in [AlertRun -> {NoBackup} \cup [of : AlertJob, started : 0..LastHour, state : {"running", "done", "failed"}]],
           \A r \in AlertRun : run'[r] # NoBackup => run'[r].started <= hour',
           \A r \in AlertRun : run[r] # NoBackup => run'[r] # NoBackup /\ run'[r].started = run[r].started
    PROVE  SummariesApart'
<1>1. SummaryType'
  BY DEF SummariesApart, SummaryType
<1>2. counted \subseteq AlertRun /\ (summary.at \in {"send", "mark"} => summary.runs \subseteq AlertRun)
  BY DEF SummariesApart, SummaryType, Silent
<1>. QED BY <1>1, <1>2 DEF SummariesApart
LEMMA SummaryIs ==
    ASSUME SummariesApart
    PROVE  /\ summary # Silent => summary.runs \subseteq AlertRun /\ summary.since \in Int /\ summary.at \in {"lines", "send", "mark"}
           /\ counted \subseteq AlertRun /\ digestAt \in Int
           /\ \A r \in AlertRun : run[r] # NoBackup => run[r].started \in Nat /\ run[r].started <= hour
BY Clock DEF SummariesApart, SummaryType, Silent

LEMMA OpenApart == ASSUME SummariesApart, hour \in 0..LastHour, OpenDigest PROVE SummariesApart'
<1>1. hour - DigestEvery \in Int /\ hour \in Int
  BY Clock
<1>2. PICK k : k = [at |-> "lines", since |-> hour - DigestEvery, runs |-> {}]
  OBVIOUS
<1>3. summary' = k /\ k \in [at : {"lines", "send", "mark"}, since : Int, runs : SUBSET AlertRun]
      /\ k.at = "lines" /\ k.runs = {} /\ k.since = hour - DigestEvery
  BY <1>1, <1>2 DEF OpenDigest
<1>4. UNCHANGED <<hour, run, digestAt, counted, countedTwice, lost>> /\ (digestAt = Never \/ digestAt <= hour - DigestEvery)
      /\ summary = Silent
  BY DEF OpenDigest, historyOfAlerts
<1>5. SummaryType'
  BY <1>3, <1>4 DEF SummariesApart, SummaryType
<1>. QED BY <1>3, <1>4, <1>5 DEF SummariesApart, Silent

LEMMA ReadApart == ASSUME SummariesApart, ReadLines PROVE SummariesApart'
<1>1. UNCHANGED <<hour, run, digestAt, counted, countedTwice, lost>> /\ summary.at = "lines" /\ summary # Silent
  BY DEF ReadLines, historyOfAlerts, Silent
<1>2. CASE summary' = Silent
  <2>1. SummaryType'
    BY <1>1, <1>2 DEF SummariesApart, SummaryType
  <2>. QED BY <1>1, <1>2, <2>1 DEF SummariesApart, Silent
<1>3. CASE summary' = [summary EXCEPT !.at = "send",
                           !.runs = {r \in AlertRun : run[r] # NoBackup /\ jobRow[run[r].of] # NoRow
                                                      /\ run[r].started >= summary.since}]
  <2>1. PICK R : R = {r \in AlertRun : run[r] # NoBackup /\ jobRow[run[r].of] # NoRow /\ run[r].started >= summary.since}
    OBVIOUS
  <2>2. PICK k : k = [summary EXCEPT !.at = "send", !.runs = R]
    OBVIOUS
  <2>3. summary \in [at : {"lines", "send", "mark"}, since : Int, runs : SUBSET AlertRun]
    BY <1>1 DEF SummariesApart, SummaryType
  <2>4. R \subseteq AlertRun /\ \A r \in R : run[r] # NoBackup /\ run[r].started >= summary.since
    BY <2>1
  <2>5. summary' = k /\ k \in [at : {"lines", "send", "mark"}, since : Int, runs : SUBSET AlertRun]
        /\ k.at = "send" /\ k.runs = R /\ k.since = summary.since
    BY <1>3, <2>1, <2>2, <2>3, <2>4
  <2>6. SummaryType'
    BY <1>1, <2>5 DEF SummariesApart, SummaryType
  <2>. QED BY <1>1, <2>4, <2>5, <2>6 DEF SummariesApart
<1>. QED BY <1>2, <1>3 DEF ReadLines

\* What a summary counts again is at the edge, unless a mark was lost.
LEMMA SendApart == ASSUME SummariesApart, SendDigest PROVE SummariesApart'
<1>1. UNCHANGED <<hour, run, digestAt, lost>> /\ summary.at = "send" /\ summary # Silent
  BY DEF SendDigest, Silent
<1>2. summary \in [at : {"lines", "send", "mark"}, since : Int, runs : SUBSET AlertRun]
  BY <1>1 DEF SummariesApart, SummaryType
<1>3. PICK k : k = [summary EXCEPT !.at = "mark"]
  OBVIOUS
<1>4. summary' = k /\ k \in [at : {"lines", "send", "mark"}, since : Int, runs : SUBSET AlertRun]
      /\ k.at = "mark" /\ k.runs = summary.runs
  BY <1>2, <1>3 DEF SendDigest
<1>5. counted' \subseteq counted \cup summary.runs
  BY DEF SendDigest
<1>6. \A r \in counted' : run[r] # NoBackup
  BY <1>1, <1>5 DEF SummariesApart
<1>7. SummaryType'
  BY <1>1, <1>2, <1>4, <1>5 DEF SummariesApart, SummaryType
<1>8. lost \/ countedTwice' = {}
  <2>. SUFFICES ASSUME ~lost, NEW r \in summary.runs \cap counted, run[r].started # digestAt PROVE FALSE
    BY DEF SendDigest, SummariesApart
  <2>1. digestAt # Never /\ run[r].started <= digestAt /\ run[r].started >= summary.since /\ digestAt <= summary.since
    BY <1>1 DEF SummariesApart
  <2>2. digestAt \in Int /\ run[r].started \in Int /\ summary.since \in Int
    BY <1>1, <1>2, SummaryIs DEF SummariesApart
  <2>. QED BY <2>1, <2>2
<1>. QED BY <1>1, <1>4, <1>6, <1>7, <1>8 DEF SummariesApart

LEMMA MarkDigestApart == ASSUME SummariesApart, hour \in 0..LastHour, MarkDigestSent PROVE SummariesApart'
<1>1. UNCHANGED <<hour, run, counted, countedTwice, lost>> /\ digestAt' = hour /\ summary' = Silent
  BY DEF MarkDigestSent, historyOfAlerts
<1>2. hour \in Moments /\ hour # Never
  BY Clock
<1>3. SummaryType'
  BY <1>1, <1>2 DEF SummariesApart, SummaryType
<1>4. \A r \in counted : run[r].started <= hour
  BY SummaryIs DEF SummariesApart
<1>. QED BY <1>1, <1>2, <1>3, <1>4 DEF SummariesApart, Silent

\* A deleted job's runs are in no summary any more.
LEMMA RemoveFromSummaries == ASSUME SummariesApart, NEW j \in AlertJob, RemoveJob(j) PROVE SummariesApart'
<1>1. UNCHANGED <<hour, digestAt, countedTwice, lost>>
      /\ run' = [r \in AlertRun |-> IF run[r].of = j THEN NoBackup ELSE run[r]]
      /\ counted' = {r \in counted : run[r].of # j}
  BY DEF RemoveJob
<1>2. run' \in [AlertRun -> {NoBackup} \cup [of : AlertJob, started : 0..LastHour, state : {"running", "done", "failed"}]]
      /\ \A r \in AlertRun : run'[r] = NoBackup \/ run'[r] = run[r]
  BY <1>1 DEF SummariesApart, SummaryType
<1>3. counted \subseteq AlertRun /\ \A r \in AlertRun : run[r].of # j => run'[r] = run[r]
  BY <1>1, SummaryIs
<1>4. CASE summary.at \in {"send", "mark"}
  <2>1. PICK R : R = {r \in summary.runs : run[r].of # j}
    OBVIOUS
  <2>2. summary \in [at : {"lines", "send", "mark"}, since : Int, runs : SUBSET AlertRun]
    BY <1>4 DEF SummariesApart, SummaryType, Silent
  <2>3. summary' = [summary EXCEPT !.runs = R]
    BY <1>4, <2>1, <2>2 DEF RemoveJob
  <2>4. R \subseteq summary.runs /\ R \subseteq AlertRun /\ \A r \in R : run'[r] = run[r]
    BY <1>3, <2>1, <2>2
  <2>5. summary' \in [at : {"lines", "send", "mark"}, since : Int, runs : SUBSET AlertRun]
        /\ summary'.at = summary.at /\ summary'.runs = R /\ summary'.since = summary.since
    BY <2>2, <2>3, <2>4
  <2>6. SummaryType'
    BY <1>1, <1>2, <2>5 DEF SummariesApart, SummaryType
  <2>. QED BY <1>1, <1>3, <1>4, <2>4, <2>5, <2>6 DEF SummariesApart
<1>5. CASE summary.at \notin {"send", "mark"}
  <2>1. summary' = summary
    BY <1>5 DEF RemoveJob
  <2>2. SummaryType'
    BY <1>1, <1>2, <2>1 DEF SummariesApart, SummaryType
  <2>. QED BY <1>1, <1>3, <1>5, <2>1, <2>2 DEF SummariesApart
<1>. QED BY <1>4, <1>5

LEMMA StopSummaries == ASSUME SummariesApart, StopTelling PROVE SummariesApart'
<1>1. UNCHANGED <<hour, run, digestAt, counted, countedTwice>> /\ summary' = Silent /\ lost' = (lost \/ summary.at = "mark")
  BY DEF StopTelling
<1>2. SummaryType'
  BY <1>1 DEF SummariesApart, SummaryType
<1>. QED BY <1>1, <1>2 DEF SummariesApart, Silent

\* A run that fails or is started gets the hour it is.
LEMMA RunsApart ==
    ASSUME SummariesApart, hour \in 0..LastHour, UNCHANGED <<summary, digestAt, counted, countedTwice, lost, hour>>,
           NEW r \in AlertRun, NEW b \in [of : AlertJob, started : 0..LastHour, state : {"running", "done", "failed"}],
           run' = [run EXCEPT ![r] = b],
           b.started = IF run[r] = NoBackup THEN hour ELSE run[r].started
    PROVE  SummariesApart'
<1>1. b # NoBackup
  BY Clock DEF NoBackup
<1>2. /\ run' \in [AlertRun -> {NoBackup} \cup [of : AlertJob, started : 0..LastHour, state : {"running", "done", "failed"}]]
      /\ run'[r] = b /\ \A x \in AlertRun \ {r} : run'[x] = run[x]
  BY DEF SummariesApart, SummaryType
<1>3. \A x \in AlertRun : run'[x] # NoBackup => run'[x].started <= hour
  BY <1>2, Clock DEF SummariesApart, SummaryType
<1>4. \A x \in AlertRun : run[x] # NoBackup => run'[x] # NoBackup /\ run'[x].started = run[x].started
  BY <1>1, <1>2
<1>5. hour <= hour' /\ hour' \in 0..LastHour
  BY Clock
<1>. QED BY <1>2, <1>3, <1>4, <1>5, SummariesFrame

LEMMA FailsApart == ASSUME AlertsApart, SummariesApart, NEW w \in Herald, NEW r \in AlertRun, RunFails(w, r) PROVE BackupAlertsIInv'
<1>1. AlertsApart'
  BY AnnounceStep DEF RunFails
<1>2. PICK b : b = [of |-> alert[w].of, started |-> IF run[r] = NoBackup THEN hour ELSE run[r].started, state |-> "failed"]
  OBVIOUS
<1>3. hour \in 0..LastHour
  BY DEF AlertsApart, AlertsType
<1>4. b \in [of : AlertJob, started : 0..LastHour, state : {"running", "done", "failed"}]
  BY <1>2, <1>3, Holding DEF RunFails, SummariesApart, SummaryType
<1>5. run' = [run EXCEPT ![r] = b]
  BY <1>2 DEF RunFails, SummariesApart, SummaryType
<1>6. UNCHANGED <<summary, digestAt, counted, countedTwice, lost, hour>>
  BY DEF RunFails
<1>7. SummariesApart'
  BY <1>2, <1>3, <1>4, <1>5, <1>6, RunsApart
<1>. QED BY <1>1, <1>7 DEF BackupAlertsIInv

LEMMA StartsApart ==
    ASSUME AlertsApart, SummariesApart, NEW j \in AlertJob, NEW r \in AlertRun, StartBackup(r, j)
    PROVE  BackupAlertsIInv'
<1>1. hour \in 0..LastHour /\ hour <= hour
  BY Clock DEF AlertsApart, AlertsType
<1>2. AlertsApart'
  BY <1>1, AlertsFrame DEF StartBackup, historyOfAlerts, AlertsApart, AlertsType
<1>3. PICK b : b = [of |-> j, started |-> hour, state |-> "running"]
  OBVIOUS
<1>4. b \in [of : AlertJob, started : 0..LastHour, state : {"running", "done", "failed"}] /\ b.started = hour
  BY <1>1, <1>3
<1>5. run[r] = NoBackup /\ run' = [run EXCEPT ![r] = b] /\ UNCHANGED <<summary, digestAt, counted, countedTwice, lost, hour>>
  BY <1>3 DEF StartBackup, historyOfAlerts
<1>6. SummariesApart'
  BY <1>1, <1>4, <1>5, RunsApart
<1>. QED BY <1>2, <1>6 DEF BackupAlertsIInv

LEMMA FinishApart == ASSUME AlertsApart, SummariesApart, NEW r \in AlertRun, FinishBackup(r) PROVE BackupAlertsIInv'
<1>1. hour \in 0..LastHour /\ hour <= hour
  BY Clock DEF AlertsApart, AlertsType
<1>2. AlertsApart'
  BY <1>1, AlertsFrame DEF FinishBackup, historyOfAlerts, AlertsApart, AlertsType
<1>3. run[r] \in [of : AlertJob, started : 0..LastHour, state : {"running", "done", "failed"}] /\ run[r] # NoBackup
  BY DEF FinishBackup, SummariesApart, SummaryType, NoBackup
<1>4. PICK b : b = [run[r] EXCEPT !.state = "done"]
  OBVIOUS
<1>5. b \in [of : AlertJob, started : 0..LastHour, state : {"running", "done", "failed"}] /\ b.started = run[r].started
  BY <1>3, <1>4
<1>6. run' = [run EXCEPT ![r] = b] /\ UNCHANGED <<summary, digestAt, counted, countedTwice, lost, hour>>
  BY <1>4 DEF FinishBackup, historyOfAlerts
<1>7. SummariesApart'
  BY <1>1, <1>3, <1>5, <1>6, RunsApart
<1>. QED BY <1>2, <1>7 DEF BackupAlertsIInv

-----------------------------------------------------------------------------
LEMMA AlertsStart == AlertsInit => BackupAlertsIInv
<1>. SUFFICES ASSUME AlertsInit PROVE BackupAlertsIInv
  OBVIOUS
<1>1. 0 \in 0..LastHour /\ Never \in Moments
  BY Clock DEF Moments
<1>2. AlertsApart
  BY <1>1 DEF AlertsInit, AlertsApart, AlertsType, HoldersAreSilent, Apart, Raises
<1>3. SummariesApart
  BY <1>1 DEF AlertsInit, SummariesApart, SummaryType, Silent, NoBackup
<1>. QED BY <1>2, <1>3 DEF BackupAlertsIInv

\* A step that leaves hour, runs and summaries alone.
LEMMA SummariesUntouched ==
    ASSUME AlertsApart, SummariesApart, UNCHANGED <<hour, run, summary, digestAt, counted, countedTwice, lost>>
    PROVE  SummariesApart'
<1>1. hour \in 0..LastHour /\ hour <= hour
  BY Clock DEF AlertsApart, AlertsType
<1>. QED BY <1>1, SummariesFrame DEF SummariesApart, SummaryType

\* ... or rows, alerts and what was heard.
LEMMA AlertsUntouched ==
    ASSUME AlertsApart, UNCHANGED <<hour, jobRow, alert, heard, early, overlapped>>, edit' \in [AlertJob -> Row \cup {NoRow}]
    PROVE  AlertsApart'
<1>1. hour \in 0..LastHour /\ hour <= hour
  BY Clock DEF AlertsApart, AlertsType
<1>. QED BY <1>1, AlertsFrame

LEMMA TimeApart == ASSUME AlertsApart, SummariesApart, HourGoes PROVE BackupAlertsIInv'
<1>1. hour' = hour + 1 /\ hour < LastHour /\ hour \in 0..LastHour /\ UNCHANGED <<jobRow, run, digestAt, alert, summary, edit, historyOfAlerts>>
  BY DEF HourGoes, AlertsApart, AlertsType
<1>2. hour' \in 0..LastHour /\ hour <= hour' /\ hour \in Nat /\ hour' \in Nat
  BY <1>1, Clock
<1>3. AlertsApart'
  BY <1>1, <1>2, AlertsFrame DEF historyOfAlerts, AlertsApart, AlertsType
<1>4. \A r \in AlertRun : run[r] # NoBackup => run[r].started <= hour'
  BY <1>2, SummaryIs
<1>5. SummariesApart'
  BY <1>1, <1>2, <1>4, SummariesFrame DEF historyOfAlerts, SummariesApart, SummaryType
<1>. QED BY <1>3, <1>5 DEF BackupAlertsIInv

LEMMA ReadForSaveApart == ASSUME AlertsApart, NEW j \in AlertJob, ReadForSave(j) PROVE AlertsApart'
<1>1. edit' \in [AlertJob -> Row \cup {NoRow}]
  BY DEF ReadForSave, AlertsApart, AlertsType
<1>. QED BY <1>1, AlertsUntouched DEF ReadForSave, historyOfAlerts

\* The heralds' steps, and those of the jobs' editor.
LEMMA HeraldsApart ==
    ASSUME AlertsApart, SummariesApart, NEW w \in Herald,
           \/ \E j \in AlertJob : HoldRow(w, j)
           \/ LetGo(w) \/ Deliver(w, "email", "webhook") \/ Deliver(w, "webhook", "mark")
           \/ MarkNotified(w) \/ CutShort(w) \/ FindStale
    PROVE  BackupAlertsIInv'
<1>1. AlertsApart'
  BY HoldApart, LetGoApart, DeliverApart, MarkApart, CutApart, FindStaleApart
<1>2. UNCHANGED <<hour, run, summary, digestAt, counted, countedTwice, lost>>
  BY DEF HoldRow, LetGo, Deliver, MarkNotified, CutShort, FindStale, historyOfAlerts
<1>. QED BY <1>1, <1>2, SummariesUntouched DEF BackupAlertsIInv

LEMMA EditsApart ==
    ASSUME AlertsApart, SummariesApart, NEW j \in AlertJob,
           \/ ReadForSave(j) \/ RemoveJob(j)
           \/ \E s \in Settings : WriteJob(j, s)
           \/ \E c \in AlertJob : CloneJob(j, c)
    PROVE  BackupAlertsIInv'
<1>1. AlertsApart'
  BY ReadForSaveApart, RemoveApart, WriteApart, CloneApart
<1>2. CASE RemoveJob(j)
  BY <1>1, <1>2, RemoveFromSummaries DEF BackupAlertsIInv
<1>3. CASE ~RemoveJob(j)
  <2>1. UNCHANGED <<hour, run, summary, digestAt, counted, countedTwice, lost>>
    BY <1>3 DEF ReadForSave, WriteJob, CloneJob, historyOfAlerts
  <2>. QED BY <1>1, <2>1, SummariesUntouched DEF BackupAlertsIInv
<1>. QED BY <1>2, <1>3

LEMMA DigestApart ==
    ASSUME AlertsApart, SummariesApart, OpenDigest \/ ReadLines \/ SendDigest \/ MarkDigestSent
    PROVE  BackupAlertsIInv'
<1>1. hour \in 0..LastHour /\ edit \in [AlertJob -> Row \cup {NoRow}]
  BY DEF AlertsApart, AlertsType
<1>2. AlertsApart'
  BY <1>1, AlertsUntouched DEF OpenDigest, ReadLines, SendDigest, MarkDigestSent, historyOfAlerts
<1>. QED BY <1>1, <1>2, OpenApart, ReadApart, SendApart, MarkDigestApart DEF BackupAlertsIInv

(***************************************************************************)
(* For any heralds, jobs, runs, windows and edits: a job is told of once   *)
(* in its window unless two of its alerts overlapped or one was cut short  *)
(* (shouldNotify on a row read earlier, markNotified after the sending),   *)
(* and no run is counted in two weekly summaries unless the mark of one    *)
(* was lost (maybeSendDigest).                                             *)
(***************************************************************************)
THEOREM NobodyIsToldTwiceAlways == AlertsSpec => []NobodyIsToldTwice
<1>1. BackupAlertsIInv /\ [AlertsNext]_alertVars => BackupAlertsIInv'
  <2>. SUFFICES ASSUME AlertsApart, SummariesApart, [AlertsNext]_alertVars PROVE BackupAlertsIInv'
    BY DEF BackupAlertsIInv
  <2>1. CASE \E on \in BOOLEAN : SetDigest(on)
    BY <2>1, AlertsUntouched, SummariesUntouched DEF SetDigest, historyOfAlerts, BackupAlertsIInv, AlertsApart, AlertsType
  <2>2. CASE UNCHANGED alertVars
    BY <2>2, AlertsUntouched, SummariesUntouched DEF alertVars, historyOfAlerts, BackupAlertsIInv, AlertsApart, AlertsType
  <2>3. CASE StopTelling
    BY <2>3, StopApart, StopSummaries DEF BackupAlertsIInv
  <2>4. CASE \E w \in Herald, r \in AlertRun : RunFails(w, r)
    BY <2>4, FailsApart
  <2>5. CASE \E r \in AlertRun : FinishBackup(r) \/ \E j \in AlertJob : StartBackup(r, j)
    BY <2>5, StartsApart, FinishApart
  <2>6. CASE FindStale
    BY <2>6, HeraldsApart, AlertConstantsOK
  <2>. QED BY <2>1, <2>2, <2>3, <2>4, <2>5, <2>6, HeraldsApart, EditsApart, DigestApart, TimeApart DEF AlertsNext
<1>2. BackupAlertsIInv => NobodyIsToldTwice
  BY DEF BackupAlertsIInv, AlertsApart, SummariesApart, NobodyIsToldTwice
<1>. QED BY <1>1, <1>2, AlertsStart, PTL DEF AlertsSpec

-----------------------------------------------------------------------------
(***************************************************************************)
(* Schedules. Days have 24 hours and weeks seven days, so every week has   *)
(* each of its days, and an interval that divides the day meets the same   *)
(* times on each.                                                          *)
(***************************************************************************)

StoredSchedule == [kind : {"daily", "interval"}, every : 1..720, at : 0..23, days : SUBSET (0..6)]

ScheduleIInv ==
    /\ schedule \in StoredSchedule
    /\ now \in Nat /\ begin \in Nat
    /\ due = NextRun(schedule, now)

\* What DueAtNextMoment asks of a schedule that fits, between two times.
DueNext(s, from, to) ==
    /\ to > from
    /\ IsMomentOf(s, to)
    /\ \A t \in (from + 1)..(to - 1) : ~IsMomentOf(s, t)

-----------------------------------------------------------------------------
LEMMA MinIs ==
    ASSUME NEW S, S \subseteq Nat, S # {}
    PROVE  Min(S) \in S /\ \A t \in S : Min(S) <= t
<1>1. PICK m \in S : \A k \in S : ~(<<k, m>> \in OpToRel(<, Nat))
  BY NatLessThanWellFounded, WFMin
<1>2. \A k \in S : ~(k < m)
  BY <1>1 DEF OpToRel
<1>3. \A k \in S : m <= k
  BY <1>2
<1>. QED BY <1>3 DEF Min

LEMMA ClampIs == ASSUME NEW at \in 0..23 PROVE Clamp(at) = at
<1>1. Max({0, at}) = at
  BY DEF Max
<1>2. Min({23, at}) = at
  BY DEF Min
<1>. QED BY <1>1, <1>2 DEF Clamp

LEMMA StartIs ==
    ASSUME NEW t \in Nat
    PROVE  t \div 24 \in Nat /\ StartOfDay(t) = 24 * (t \div 24) /\ StartOfDay(t) <= t /\ t < StartOfDay(t) + 24
BY DEF StartOfDay

\* In each week there is each of its days.
LEMMA WeekHas ==
    ASSUME NEW q \in Nat, NEW w \in 0..6
    PROVE  \E i \in 1..7 : (q + i + 4) % 7 = w
<1>1. PICK i : i = 1 + ((w - (q + 5)) % 7)
  OBVIOUS
<1>2. i \in 1..7 /\ (q + i + 4) % 7 = w
  BY <1>1
<1>. QED BY <1>2

LEMMA DailyIsNext ==
    ASSUME NEW s \in StoredSchedule, NEW from \in Nat, s.kind = "daily"
    PROVE  NextDaily(s, from) \in Nat /\ DueNext(s, from, NextDaily(s, from))
<1>. DEFINE q == from \div 24
            at == s.at
            candidates == {StartOfDay(from) + 24 * i + Clamp(s.at) : i \in 0..14}
            fitting == {t \in candidates : t > from /\ OnDay(s, t)}
            due1 == Min(fitting)
<1>1. at \in 0..23 /\ Clamp(at) = at /\ s.days \subseteq 0..6
  BY ClampIs DEF StoredSchedule
<1>2. q \in Nat /\ StartOfDay(from) = 24 * q /\ 24 * q <= from /\ from < 24 * q + 24
  BY StartIs
<1>3. candidates = {24 * (q + i) + at : i \in 0..14}
  BY <1>1, <1>2
<1>4. \A d \in Nat : (24 * d + at) \div 24 = d /\ (24 * d + at) % 24 = at
  BY <1>1
<1>5. \A d \in Nat : OnDay(s, 24 * d + at) <=> s.days = {} \/ (d + 4) % 7 \in s.days
  BY <1>4 DEF OnDay, WeekdayAt, DayOfWeek
<1>6. \A d \in Nat : IsMomentOf(s, 24 * d + at) <=> OnDay(s, 24 * d + at)
  BY <1>4, <1>5 DEF IsMomentOf
<1>7. \E i \in 1..7 : OnDay(s, 24 * (q + i) + at)
  <2>1. CASE s.days = {}
    BY <2>1 DEF OnDay
  <2>2. CASE s.days # {}
    <3>1. PICK w \in 0..6 : w \in s.days
      BY <1>1, <2>2
    <3>2. PICK i \in 1..7 : (q + i + 4) % 7 = w
      BY <1>2, WeekHas
    <3>3. q + i \in Nat
      BY <1>2
    <3>. HIDE DEF at, q
    <3>4. OnDay(s, 24 * (q + i) + at)
      BY <1>5, <3>1, <3>2, <3>3
    <3>. QED BY <3>4
  <2>. QED BY <2>1, <2>2
<1>8. fitting # {} /\ fitting \subseteq Nat
  <2>1. PICK i \in 1..7 : OnDay(s, 24 * (q + i) + at)
    BY <1>7
  <2>2. 24 * (q + i) + at \in candidates /\ 24 * (q + i) + at > from
    BY <1>1, <1>2, <1>3
  <2>3. candidates \subseteq Nat
    BY <1>1, <1>2, <1>3
  <2>4. 24 * (q + i) + at \in fitting
    BY <2>1, <2>2
  <2>. QED BY <2>3, <2>4
<1>9. due1 \in fitting /\ \A t \in fitting : due1 <= t
  <2>. HIDE DEF fitting
  <2>. QED BY <1>8, MinIs
<1>10. NextDaily(s, from) = due1
  BY <1>8 DEF NextDaily
<1>11. PICK j \in 0..14 : due1 = 24 * (q + j) + at
  BY <1>3, <1>9
<1>12. due1 \in Nat /\ due1 > from /\ IsMomentOf(s, due1)
  <2>1. q + j \in Nat
    BY <1>2
  <2>. QED BY <1>1, <1>6, <1>8, <1>9, <1>11, <2>1
<1>13. ASSUME NEW t \in (from + 1)..(due1 - 1), IsMomentOf(s, t) PROVE FALSE
  <2>1. t \in Nat /\ from < t /\ t < due1 /\ t % 24 = at
    BY <1>12, <1>13 DEF IsMomentOf
  <2>2. PICK d \in Nat : t = 24 * d + at
    <3>1. \A n \in Nat : n \div 24 \in Nat /\ n = 24 * (n \div 24) + (n % 24)
      OBVIOUS
    <3>. HIDE DEF at, due1
    <3>. QED BY <2>1, <3>1
  <2>3. d - q \in 0..14 /\ t = 24 * (q + (d - q)) + at
    <3>. HIDE DEF at, due1, q
    <3>1. at \in Nat /\ at <= 23 /\ d \in Nat /\ q \in Nat /\ j \in Nat /\ j <= 14
      BY <1>1, <1>2
    <3>2. 24 * d + at < 24 * (q + j) + at
      BY <1>11, <2>1, <2>2
    <3>3. 24 * q < 24 * d + at + 1
      BY <1>2, <2>1, <2>2, <3>1
    <3>4. d < q + j /\ q <= d
      BY <3>1, <3>2, <3>3
    <3>. QED BY <2>2, <3>1, <3>4
  <2>4. t \in candidates
    BY <1>3, <2>3
  <2>5. t \in fitting
    BY <1>6, <1>13, <2>1, <2>2, <2>4
  <2>. HIDE DEF due1, fitting
  <2>6. due1 <= t
    BY <1>9, <2>5
  <2>. QED BY <1>12, <2>1, <2>6
<1>. HIDE DEF due1
<1>. QED BY <1>10, <1>12, <1>13 DEF DueNext

-----------------------------------------------------------------------------
(* Intervals. *)

\* Times of one remainder, e apart, counted from the start of a day
LEMMA StepsMeet ==
    ASSUME NEW e \in {1, 2, 3, 4, 6, 8, 12, 24}, NEW q \in Nat, NEW x \in Nat
    PROVE  (24 * q + x) % e = x % e
<1>1. CASE e = 1 BY <1>1
<1>2. CASE e = 2 BY <1>2
<1>3. CASE e = 3 BY <1>3
<1>4. CASE e = 4 BY <1>4
<1>5. CASE e = 6 BY <1>5
<1>6. CASE e = 8 BY <1>6
<1>7. CASE e = 12 BY <1>7
<1>8. CASE e = 24 BY <1>8
<1>. QED BY <1>1, <1>2, <1>3, <1>4, <1>5, <1>6, <1>7, <1>8

\* Whatever divides the day is one of these.
LEMMA DivisorsAre == \A e \in 1..720 : 24 % e = 0 => e \in {1, 2, 3, 4, 6, 8, 12, 24}
<1>. SUFFICES ASSUME NEW e \in 1..720, 24 % e = 0 PROVE e \in {1, 2, 3, 4, 6, 8, 12, 24}
  OBVIOUS
<1>1. e <= 24
  <2>1. e > 24 => 24 % e = 24
    OBVIOUS
  <2>. QED BY <2>1
<1>2. e \in {5, 7, 9, 10, 11} => 24 % e # 0
  <2>1. 24 % 5 = 4 /\ 24 % 7 = 3 /\ 24 % 9 = 6 /\ 24 % 10 = 4 /\ 24 % 11 = 2
    OBVIOUS
  <2>. QED BY <2>1
<1>3. e \in 13..23 => 24 % e = 24 - e
  OBVIOUS
<1>. QED BY <1>1, <1>2, <1>3

\* Rounded up to the next time of an interval
LEMMA StepsAre ==
    ASSUME NEW e \in Nat, e > 0, NEW x \in Nat
    PROVE  /\ x \div e \in Nat /\ e * (x \div e + 1) \in Nat
           /\ e * (x \div e + 1) > x /\ e * (x \div e + 1) <= x + e
<1>1. x \div e \in Nat /\ e * (x \div e) <= x /\ x < e * (x \div e) + e
  OBVIOUS
<1>2. e * (x \div e + 1) = e * (x \div e) + e /\ e * (x \div e) \in Nat
  BY <1>1
<1>. QED BY <1>1, <1>2

LEMMA IntervalIsLater ==
    ASSUME NEW s \in StoredSchedule, NEW from \in Nat
    PROVE  NextInterval(s, from) \in Nat /\ NextInterval(s, from) > from
<1>. DEFINE start == StartOfDay(from) + Clamp(s.at)
<1>1. start \in Nat
  BY StartIs, ClampIs DEF StoredSchedule
<1>2. StepOf(s) \in Nat /\ StepOf(s) > 0
  BY DEF StoredSchedule, StepOf
<1>3. CASE start > from
  BY <1>1, <1>3 DEF NextInterval
<1>4. CASE ~(start > from)
  <2>1. PICK x \in Nat : x = from - start
    BY <1>1, <1>4
  <2>2. NextInterval(s, from) = start + StepOf(s) * (x \div StepOf(s) + 1)
    BY <1>4, <2>1 DEF NextInterval
  <2>3. StepOf(s) * (x \div StepOf(s) + 1) \in Nat /\ StepOf(s) * (x \div StepOf(s) + 1) > x
    BY <1>2, StepsAre
  <2>. HIDE DEF start
  <2>. QED BY <1>1, <2>1, <2>2, <2>3
<1>. QED BY <1>3, <1>4

\* The next time of a remainder, for each interval that divides the day
LEMMA StepArithmetic ==
    ASSUME NEW e \in {1, 2, 3, 4, 6, 8, 12, 24}, NEW q \in Nat, NEW at \in 0..(e - 1), NEW x \in Nat
    PROVE  LET y == e * (x \div e + 1)
           IN  /\ (24 * q + at + y) % e = at
               /\ \A t \in (24 * q + at + x + 1)..(24 * q + at + y - 1) : t % e # at
<1>1. CASE e = 1 BY <1>1
<1>2. CASE e = 2 BY <1>2
<1>3. CASE e = 3 BY <1>3
<1>4. CASE e = 4 BY <1>4
<1>5. CASE e = 6 BY <1>5
<1>6. CASE e = 8 BY <1>6
<1>7. CASE e = 12 BY <1>7
<1>8. CASE e = 24 BY <1>8
<1>. QED BY <1>1, <1>2, <1>3, <1>4, <1>5, <1>6, <1>7, <1>8

LEMMA IntervalIsNext ==
    ASSUME NEW s \in StoredSchedule, NEW from \in Nat, s.kind = "interval", Fits(s)
    PROVE  DueNext(s, from, NextInterval(s, from))
<1>1. PICK e : e = s.every
  OBVIOUS
<1>2. PICK at : at = s.at
  OBVIOUS
<1>3. e \in {1, 2, 3, 4, 6, 8, 12, 24} /\ at \in 0..(e - 1) /\ Clamp(s.at) = at /\ StepOf(s) = e
  <2>1. e \in 1..720 /\ 24 % e = 0 /\ at < e /\ at \in 0..23
    BY <1>1, <1>2 DEF StoredSchedule, Fits
  <2>. QED BY <1>1, <1>2, <2>1, DivisorsAre, ClampIs DEF StepOf
<1>4. e \in Nat /\ e > 0 /\ at \in Nat
  BY <1>3
<1>5. \A t : IsMomentOf(s, t) = (t % e = at)
  BY <1>1, <1>2 DEF IsMomentOf
<1>6. PICK q \in Nat : StartOfDay(from) = 24 * q /\ 24 * q <= from
  BY StartIs
<1>7. PICK n \in Nat : n = NextInterval(s, from) /\ n > from
  BY IntervalIsLater
<1>8. CASE 24 * q + at > from
  <2>1. n = 24 * q + at
    BY <1>7, <1>3, <1>6, <1>8 DEF NextInterval
  <2>2. (24 * q + at) % e = at
    <3>1. at \in Nat /\ at % e = at
      BY <1>3
    <3>. QED BY <1>3, <3>1, StepsMeet
  <2>3. ASSUME NEW t \in (from + 1)..(24 * q + at - 1), t % e = at PROVE FALSE
    <3>1. PICK x \in Nat : t = 24 * q + x /\ x < at
      BY <1>3, <1>6
    <3>2. t % e = x % e
      BY <1>3, <3>1, StepsMeet
    <3>3. x % e = x
      BY <1>3, <3>1
    <3>. QED BY <1>3, <2>3, <3>1, <3>2, <3>3
  <2>4. n % e = at /\ \A t \in (from + 1)..(n - 1) : t % e # at
    BY <1>4, <2>1, <2>2, <2>3
  <2>. QED BY <1>7, <1>5, <2>4, Zenon DEF DueNext
<1>9. CASE ~(24 * q + at > from)
  <2>1. PICK x \in Nat : x = from - (24 * q + at)
    BY <1>3, <1>9
  <2>2. PICK y : y = e * (x \div e + 1)
    OBVIOUS
  <2>3. n = 24 * q + at + y /\ from = 24 * q + at + x
    BY <1>7, <1>3, <1>6, <1>9, <2>1, <2>2 DEF NextInterval
  <2>4. y \in Nat /\ y > x
    BY <1>3, <2>2, StepsAre
  <2>5. (24 * q + at + y) % e = at /\ \A t \in (24 * q + at + x + 1)..(24 * q + at + y - 1) : t % e # at
    BY <1>3, <2>2, StepArithmetic
  <2>6. n % e = at /\ \A t \in (from + 1)..(n - 1) : t % e # at
    BY <1>4, <2>3, <2>4, <2>5
  <2>. QED BY <1>7, <1>5, <2>6, Zenon DEF DueNext
<1>. QED BY <1>9, <1>8

-----------------------------------------------------------------------------
(* The specification. *)

LEMMA NextRunIs ==
    ASSUME NEW s \in StoredSchedule, NEW from \in Nat
    PROVE  /\ NextRun(s, from) \in Nat
           /\ Fits(s) => DueNext(s, from, NextRun(s, from))
BY DailyIsNext, IntervalIsLater, IntervalIsNext DEF NextRun, StoredSchedule

LEMMA ScheduleStarts == Init => ScheduleIInv
BY SchedulesOK DEF Init, ScheduleIInv, StoredSchedule

LEMMA ScheduleStep == ScheduleIInv /\ [Next]_vars => ScheduleIInv'
<1>. SUFFICES ASSUME ScheduleIInv, [Next]_vars PROVE ScheduleIInv'
  OBVIOUS
<1>1. due \in Nat /\ now \in Nat
  BY NextRunIs DEF ScheduleIInv
<1>2. ASSUME NEW late \in Lag, TickMarks(late) PROVE ScheduleIInv'
  <2>1. now' \in Nat /\ due' = NextRun(schedule', now') /\ schedule' = schedule /\ begin' = begin
    BY <1>1, <1>2, SchedulesOK DEF TickMarks
  <2>. QED BY <2>1 DEF ScheduleIInv
<1>3. ASSUME NEW s \in Schedules, NEW t \in now..due, EditSchedule(s, t) PROVE ScheduleIInv'
  BY <1>1, <1>3, SchedulesOK DEF ScheduleIInv, EditSchedule, StoredSchedule
<1>4. CASE UNCHANGED vars
  BY <1>4 DEF vars, ScheduleIInv
<1>. QED BY <1>2, <1>3, <1>4 DEF Next

LEMMA NextIsDue == ScheduleIInv => DueAtNextMoment
BY NextRunIs DEF ScheduleIInv, DueAtNextMoment, DueNext

(***************************************************************************)
(* A job is always due at the very next of its moments.                    *)
(***************************************************************************)
THEOREM DueAtNextMomentAlways == Spec => []DueAtNextMoment
<1>. QED BY ScheduleStarts, ScheduleStep, NextIsDue, PTL DEF Spec

-----------------------------------------------------------------------------
(***************************************************************************)
(* The calendar. A week belongs to the year its Thursday is in, and is     *)
(* numbered by counting Thursdays.                                         *)
(***************************************************************************)

\* Days are counted in whole numbers.
LEMMA YearStartType == \A y \in Int : YearStart(y) \in Int
  BY DEF YearStart, LeapDaysBefore

\* Between 1970 and 2900 leap days are too few for the guess at a day's year to be off by more than two.
LEMMA LeapDaysAreFew ==
    ASSUME NEW k \in 0..930
    PROVE  /\ LeapDaysBefore(1970 + k) - LeapDaysBefore(1970) <= k
           /\ k - 730 < LeapDaysBefore(1973 + k) - LeapDaysBefore(1970)
  <1>1. PICK n \in Int : n = 1969 + k
    OBVIOUS
  <1>2. LeapDaysBefore(1970 + k) = n \div 4 - n \div 100 + n \div 400
    BY <1>1 DEF LeapDaysBefore
  <1>3. LeapDaysBefore(1973 + k) = (n + 3) \div 4 - (n + 3) \div 100 + (n + 3) \div 400
    BY <1>1 DEF LeapDaysBefore
  <1>4. LeapDaysBefore(1970) = 477
    BY DEF LeapDaysBefore
  <1>5. n \in 1969..2899
    BY <1>1
  <1>6. /\ n \div 4 \in Int /\ 4 * (n \div 4) <= n /\ n <= 4 * (n \div 4) + 3
        /\ n \div 100 \in Int /\ 100 * (n \div 100) <= n /\ n <= 100 * (n \div 100) + 99
        /\ n \div 400 \in Int /\ 400 * (n \div 400) <= n /\ n <= 400 * (n \div 400) + 399
    BY <1>5
  <1>7. n \div 4 - n \div 100 + n \div 400 - 477 <= n - 1969
    BY <1>5, <1>6
  <1>8. (n + 3) \div 4 - (n + 3) \div 100 + (n + 3) \div 400 > n - 1969 - 730 + 477
    BY <1>5
  <1> QED BY <1>1, <1>2, <1>3, <1>4, <1>7, <1>8

(***************************************************************************)
(* The year that is computed for a day, by a guess and two corrections, is *)
(* the one the day is in, for every day before 2900.                       *)
(***************************************************************************)
THEOREM YearIsRight ==
    ASSUME NEW d \in Int, 0 <= d, d < YearStart(2900)
    PROVE  /\ Year(d) \in Int
           /\ YearStart(Year(d)) <= d
           /\ d < YearStart(Year(d) + 1)
  <1>1. YearStart(2900) = 339676
    BY DEF YearStart, LeapDaysBefore
  <1>2. PICK k \in Int : k = d \div 366
    OBVIOUS
  <1>3. k \in 0..930 /\ 366 * k <= d /\ d <= 366 * k + 365
    BY <1>1, <1>2
  <1>4. /\ LeapDaysBefore(1970 + k) \in Int /\ LeapDaysBefore(1973 + k) \in Int
        /\ LeapDaysBefore(1970) \in Int
    BY DEF LeapDaysBefore
  <1>5. YearStart(1970 + k) <= d
    BY <1>3, <1>4, LeapDaysAreFew DEF YearStart
  <1>6. d < YearStart(1973 + k)
    BY <1>3, <1>4, LeapDaysAreFew DEF YearStart
  <1>7. YearStart(1971 + k) \in Int /\ YearStart(1972 + k) \in Int
    BY YearStartType
  <1>8. \E y \in (1970 + k)..((1970 + k) + 2) : YearStart(y) <= d /\ d < YearStart(y + 1)
    <2>0. 1970 + k \in (1970 + k)..((1970 + k) + 2) /\ 1971 + k \in (1970 + k)..((1970 + k) + 2)
          /\ 1972 + k \in (1970 + k)..((1970 + k) + 2) /\ 1970 + k + 1 = 1971 + k
          /\ 1971 + k + 1 = 1972 + k /\ 1972 + k + 1 = 1973 + k
      OBVIOUS
    <2>1. CASE d < YearStart(1971 + k)
      BY <2>0, <2>1, <1>5
    <2>2. CASE ~(d < YearStart(1971 + k)) /\ d < YearStart(1972 + k)
      BY <2>0, <2>2, <1>7
    <2>3. CASE ~(d < YearStart(1972 + k))
      BY <2>0, <2>3, <1>6, <1>7
    <2> QED BY <2>1, <2>2, <2>3
  <1>9. Year(d) = CHOOSE y \in (1970 + k)..((1970 + k) + 2) :
                      YearStart(y) <= d /\ d < YearStart(y + 1)
    BY <1>2 DEF Year
  <1>10. Year(d) \in (1970 + k)..((1970 + k) + 2) /\ YearStart(Year(d)) <= d /\ d < YearStart(Year(d) + 1)
    BY <1>8, <1>9
  <1> QED BY <1>10

\* A week's Thursday is three days from its Monday, near to each of its days and, since 1970 began on one, divisible by seven.
LEMMA ThursdayIsMidweek ==
    ASSUME NEW d \in Int
    PROVE  /\ MondayOf(d) \in Int /\ ThursdayOf(d) \in Int
           /\ ThursdayOf(d) = MondayOf(d) + 3
           /\ ThursdayOf(d) % 7 = 0
           /\ d - 3 <= ThursdayOf(d) /\ ThursdayOf(d) <= d + 3
  <1>1. PICK r \in 0..6 : r = (d + 3) % 7
    OBVIOUS
  <1>2. (((d + 4) % 7) + 6) % 7 = r
    BY <1>1
  <1>3. MondayOf(d) = d - r /\ ThursdayOf(d) = d - r + 3
    BY <1>1, <1>2 DEF MondayOf, ThursdayOf, DayOfWeek
  <1>4. (d - r + 3) % 7 = 0
    BY <1>1
  <1> QED BY <1>3, <1>4

\* The same without remainders.
LEMMA ThursdayIsNear ==
    ASSUME NEW d \in Int
    PROVE  ThursdayOf(d) \in Int /\ d - 3 <= ThursdayOf(d) /\ ThursdayOf(d) <= d + 3
  BY ThursdayIsMidweek, Zenon

\* The same with nothing else.
LEMMA ThursdayIsDivisible == \A d \in Int : ThursdayOf(d) % 7 = 0
  BY ThursdayIsMidweek, Zenon

\* Monday and Thursday give each other away.
LEMMA ThursdayFollowsMonday ==
    ASSUME NEW d \in Int
    PROVE  MondayOf(d) \in Int /\ ThursdayOf(d) = MondayOf(d) + 3
  BY ThursdayIsMidweek

\* Of a year's Thursdays, two with the same number are the same.
LEMMA SameThursdaySameWeek ==
    ASSUME NEW t \in Int, NEW u \in Int, NEW f \in Int, t % 7 = 0, u % 7 = 0, f % 7 = 0,
           1 + (t - f) \div 7 = 1 + (u - f) \div 7
    PROVE  t = u
  OBVIOUS

(***************************************************************************)
(* Two days have the same ISO week key exactly if they are in the same     *)
(* week from Monday to Sunday, for every day from 1970 to 2899 and its     *)
(* neighbours a week around, the ends of years and leap years among them   *)
(* (weekKey, snapshots.ts:106).                                            *)
(***************************************************************************)
THEOREM WeekKeysAreWeeksForAll ==
    ASSUME NEW Days, \A d \in Days : d \in Int /\ 10 <= d /\ d < YearStart(2900) - 10
    PROVE  WeeksAreWeeks(Days)
  <1>0. YearStart(2900) = 339676
    BY DEF YearStart, LeapDaysBefore
  <1>1. SUFFICES ASSUME NEW d \in Days, NEW e \in (d - 7)..(d + 7)
                 PROVE  (WeekKey(d) = WeekKey(e)) <=> (MondayOf(d) = MondayOf(e))
    BY DEF WeeksAreWeeks
  <1>2. d \in Int /\ e \in Int
    OBVIOUS
  <1>3. /\ ThursdayOf(d) \in Int /\ 0 <= ThursdayOf(d) /\ ThursdayOf(d) < YearStart(2900)
        /\ ThursdayOf(e) \in Int /\ 0 <= ThursdayOf(e) /\ ThursdayOf(e) < YearStart(2900)
    <2>1. e \in Int /\ d - 7 <= e /\ e <= d + 7
      OBVIOUS
    <2>2. 10 <= d /\ d < YearStart(2900) - 10
      OBVIOUS
    <2> QED BY <1>0, <1>2, <2>1, <2>2, ThursdayIsNear
  <1>4. CASE MondayOf(d) = MondayOf(e)
    <2>1. ThursdayOf(d) = ThursdayOf(e)
      BY <1>2, <1>4, ThursdayIsMidweek
    <2>2. WeekKey(d) = WeekKey(e)
      BY <2>1 DEF WeekKey
    <2> QED BY <1>4, <2>2
  <1>5. CASE WeekKey(d) = WeekKey(e)
    <2>1. PICK t \in Int : t = ThursdayOf(d) /\ t % 7 = 0 /\ 0 <= t /\ t < YearStart(2900)
      BY <1>2, <1>3, ThursdayIsDivisible
    <2>2. PICK u \in Int : u = ThursdayOf(e) /\ u % 7 = 0
      BY <1>2, <1>3, ThursdayIsDivisible
    <2>3. PICK y \in Int : y = Year(t)
      BY <2>1, YearIsRight
    <2>4. PICK s \in Int : s = YearStart(y) + 3
      BY <2>3, YearStartType
    <2>5. PICK f \in Int : f = ThursdayOf(s) /\ f % 7 = 0
      BY <2>4, ThursdayIsMidweek
    <2>6. WeekKey(d) = <<y, 1 + (t - f) \div 7>>
      BY <2>1, <2>3, <2>4, <2>5 DEF WeekKey
    <2>7. WeekKey(e) = <<Year(u), 1 + (u - ThursdayOf(YearStart(Year(u)) + 3)) \div 7>>
      BY <2>2 DEF WeekKey
    <2>8. y = Year(u)
      <3>1. WeekKey(d)[1] = y
        BY <2>6
      <3>2. WeekKey(e)[1] = Year(u)
        BY <2>7
      <3> QED BY <1>5, <3>1, <3>2
    <2>9. WeekKey(e) = <<y, 1 + (u - f) \div 7>>
      BY <2>4, <2>5, <2>7, <2>8
    <2>10. PICK a \in Int, b \in Int : a = 1 + (t - f) \div 7 /\ b = 1 + (u - f) \div 7
      OBVIOUS
    <2>11. t = u
      <3>1. WeekKey(d)[2] = a
        BY <2>6, <2>10
      <3>2. WeekKey(e)[2] = b
        BY <2>9, <2>10
      <3>3. a = b
        BY <1>5, <3>1, <3>2
      <3>4. 1 + (t - f) \div 7 = 1 + (u - f) \div 7
        BY <2>10, <3>3
      <3> QED BY <2>1, <2>2, <2>5, <3>4, SameThursdaySameWeek
    <2>12. ThursdayOf(d) = MondayOf(d) + 3 /\ ThursdayOf(e) = MondayOf(e) + 3
           /\ MondayOf(d) \in Int /\ MondayOf(e) \in Int
      BY <1>2, ThursdayFollowsMonday
    <2>13. ThursdayOf(d) = ThursdayOf(e)
      BY <2>1, <2>2, <2>11
    <2>14. MondayOf(d) = MondayOf(e)
      BY <2>12, <2>13
    <2> QED BY <1>5, <2>14
  <1> QED BY <1>4, <1>5

\* A year has 365 or 366 days.
LEMMA YearsAreLong ==
    ASSUME NEW y \in Int
    PROVE  /\ YearStart(y) \in Int
           /\ 365 <= YearStart(y + 1) - YearStart(y)
           /\ YearStart(y + 1) - YearStart(y) <= 366
  <1>1. PICK n \in Int : n = y - 1
    OBVIOUS
  <1>2. /\ LeapDaysBefore(y) = n \div 4 - n \div 100 + n \div 400
        /\ LeapDaysBefore(y + 1) = (n + 1) \div 4 - (n + 1) \div 100 + (n + 1) \div 400
        /\ LeapDaysBefore(1970) = 477
    BY <1>1 DEF LeapDaysBefore
  <1>3. PICK q \in Int, r \in 0..399 : n = 400 * q + r
    <2>1. n = 400 * (n \div 400) + (n % 400) /\ n \div 400 \in Int /\ n % 400 \in 0..399
      OBVIOUS
    <2> QED BY <2>1
  <1>4. /\ n \div 4 = 100 * q + r \div 4 /\ n \div 100 = 4 * q + r \div 100 /\ n \div 400 = q
        /\ (n + 1) \div 4 = 100 * q + (r + 1) \div 4
        /\ (n + 1) \div 100 = 4 * q + (r + 1) \div 100
        /\ (n + 1) \div 400 = q + (r + 1) \div 400
    BY <1>3
  <1>5. /\ LeapDaysBefore(y) \in Int
        /\ 0 <= LeapDaysBefore(y + 1) - LeapDaysBefore(y)
        /\ LeapDaysBefore(y + 1) - LeapDaysBefore(y) <= 1
    <2>1. /\ 0 <= (r + 1) \div 4 - (r + 1) \div 100 + (r + 1) \div 400 - (r \div 4 - r \div 100)
          /\ (r + 1) \div 4 - (r + 1) \div 100 + (r + 1) \div 400 - (r \div 4 - r \div 100) <= 1
      BY <1>3
    <2> QED BY <1>2, <1>3, <1>4, <2>1
  <1> QED BY <1>2, <1>5 DEF YearStart

(***************************************************************************)
(* The month that is computed for a day is the one the day is in: the day  *)
(* is not before the month's first, and before the first of the next.      *)
(* December ends with the year (monthKey, snapshots.ts:97).               *)
(***************************************************************************)
THEOREM MonthIsRight ==
    ASSUME NEW d \in Int, 0 <= d, d < YearStart(2900)
    PROVE  /\ Month(d) \in 1..12
           /\ YearStart(Year(d)) + MonthStarts(Year(d))[Month(d)] <= d
           /\ d < IF Month(d) = 12 THEN YearStart(Year(d) + 1)
                  ELSE YearStart(Year(d)) + MonthStarts(Year(d))[Month(d) + 1]
  <1>1. PICK y : y = Year(d)
    OBVIOUS
  <1>2. y \in Int /\ YearStart(y) \in Int /\ YearStart(y) <= d /\ d < YearStart(y + 1)
        /\ YearStart(y + 1) \in Int
        /\ 365 <= YearStart(y + 1) - YearStart(y) /\ YearStart(y + 1) - YearStart(y) <= 366
    <2>1. y \in Int /\ YearStart(y) <= d /\ d < YearStart(y + 1)
      BY <1>1, YearIsRight
    <2>2. YearStart(y + 1) \in Int
      BY <2>1, YearStartType
    <2>3. YearStart(y) \in Int /\ 365 <= YearStart(y + 1) - YearStart(y) /\ YearStart(y + 1) - YearStart(y) <= 366
      BY <2>1, YearsAreLong
    <2> QED BY <2>1, <2>2, <2>3
  <1>3. PICK leap \in 0..1 : leap = YearStart(y + 1) - YearStart(y) - 365
    BY <1>2
  <1>4. PICK into \in Int : into = d - YearStart(y) /\ 0 <= into /\ into < 366
    <2>1. PICK a \in Int, b \in Int : a = YearStart(y) /\ b = YearStart(y + 1)
      BY <1>2
    <2>2. d - a \in Int /\ 0 <= d - a /\ d - a < 366
      BY <1>2, <2>1
    <2> QED BY <2>1, <2>2
  <1>5. /\ MonthStarts(y)[1] = 0 /\ MonthStarts(y)[2] = 31 /\ MonthStarts(y)[3] = 59 + leap
        /\ MonthStarts(y)[4] = 90 + leap /\ MonthStarts(y)[5] = 120 + leap /\ MonthStarts(y)[6] = 151 + leap
        /\ MonthStarts(y)[7] = 181 + leap /\ MonthStarts(y)[8] = 212 + leap /\ MonthStarts(y)[9] = 243 + leap
        /\ MonthStarts(y)[10] = 273 + leap /\ MonthStarts(y)[11] = 304 + leap /\ MonthStarts(y)[12] = 334 + leap
    BY <1>3 DEF MonthStarts
  <1>6. \E m \in 1..12 : MonthStarts(y)[m] <= into /\ (m = 12 \/ into < MonthStarts(y)[m + 1])
    <2> DEFINE In(m) == MonthStarts(y)[m] <= into /\ (m = 12 \/ into < MonthStarts(y)[m + 1])
    <2>1. In(1) \/ In(2) \/ In(3) \/ In(4) \/ In(5) \/ In(6) \/ In(7) \/ In(8) \/ In(9) \/ In(10) \/ In(11) \/ In(12)
      BY <1>4, <1>5
    <2>2. 1 \in 1..12 /\ 2 \in 1..12 /\ 3 \in 1..12 /\ 4 \in 1..12 /\ 5 \in 1..12 /\ 6 \in 1..12
          /\ 7 \in 1..12 /\ 8 \in 1..12 /\ 9 \in 1..12 /\ 10 \in 1..12 /\ 11 \in 1..12 /\ 12 \in 1..12
      OBVIOUS
    <2>. HIDE DEF In
    <2>3. \E m \in 1..12 : In(m)
      BY <2>1, <2>2
    <2> QED BY <2>3 DEF In
  <1>7. Month(d) \in 1..12 /\ MonthStarts(y)[Month(d)] <= into
        /\ (Month(d) = 12 \/ into < MonthStarts(y)[Month(d) + 1])
    <2>1. Month(d) = CHOOSE m \in 1..12 : MonthStarts(y)[m] <= into /\ (m = 12 \/ into < MonthStarts(y)[m + 1])
      BY <1>1, <1>4 DEF Month
    <2> QED BY <1>6, <2>1
  <1>8. \A m \in 1..12 : MonthStarts(y)[m] \in Int
    BY <1>3 DEF MonthStarts
  <1>9. /\ YearStart(y) + MonthStarts(y)[Month(d)] <= d
        /\ d < IF Month(d) = 12 THEN YearStart(y + 1) ELSE YearStart(y) + MonthStarts(y)[Month(d) + 1]
    BY <1>2, <1>4, <1>7, <1>8
  <1> QED BY <1>1, <1>7, <1>9

(***************************************************************************)
(* A week key is a year and a week number from 1 to 53.                    *)
(***************************************************************************)
THEOREM WeekNumbers ==
    ASSUME NEW d \in Int, 10 <= d, d < YearStart(2900) - 10
    PROVE  WeekKey(d)[1] \in Int /\ WeekKey(d)[2] \in 1..53
  <1>0. YearStart(2900) = 339676
    BY DEF YearStart, LeapDaysBefore
  <1>1. PICK t \in Int : t = ThursdayOf(d) /\ t % 7 = 0
    BY ThursdayIsMidweek
  <1>2. 0 <= t /\ t < YearStart(2900)
    BY <1>0, <1>1, ThursdayIsNear
  <1>3. PICK y \in Int : y = Year(t) /\ YearStart(y) <= t /\ t < YearStart(y + 1)
    BY <1>2, YearIsRight
  <1>4. PICK s \in Int : s = YearStart(y) /\ s <= t /\ t < s + 366
    BY <1>3, YearsAreLong
  <1>5. PICK f \in Int : f = ThursdayOf(s + 3) /\ f % 7 = 0
    BY <1>4, ThursdayIsMidweek
  <1>6. s <= f /\ f <= s + 6
    BY <1>5, ThursdayIsNear
  <1>7. WeekKey(d) = <<y, 1 + (t - f) \div 7>>
    BY <1>1, <1>3, <1>4, <1>5 DEF WeekKey
  <1>8. 0 <= t - f /\ t - f <= 365
    BY <1>1, <1>4, <1>5, <1>6
  <1>9. (t - f) \div 7 \in 0..52
    BY <1>8
  <1>10. 1 + (t - f) \div 7 \in 1..53
    <2>1. PICK w \in 0..52 : w = (t - f) \div 7
      BY <1>9
    <2>2. 1 + w \in 1..53
      OBVIOUS
    <2> QED BY <2>1, <2>2
  <1> QED BY <1>7, <1>10

-----------------------------------------------------------------------------
(***************************************************************************)
(* Forms. What a monitor's form shows follows from what is stored, and     *)
(* what is stored from the form and what was there: followed box by box    *)
(* around the whole way. Sendable says what the page can send.             *)
(***************************************************************************)

FormBoxes == {"name", "kind", "target", "port", "intervalSec", "timeoutMs", "retries", "degradedMs", "parentId",
              "enabled", "routes", "expectStatus", "insecureTls", "skipUpload", "minMbps", "payloadMb"}

\* What a form stands for once it is stored
AsStored(f) == [f EXCEPT !.port = IF f.kind = "tls" /\ @ = Blank THEN 443 ELSE @,
                         !.minMbps = IF @ = 0 THEN Blank ELSE @]

\* A box of the speed test that was emptied
Emptied(f, x) == f.kind = "speed" /\ x \in KeysOf("speed") /\ ~Given(f, x)

\* What the page can send of a monitor that may depend on others and use channels
Sendable(f, others, channels) ==
    /\ f = HideOthers(f) /\ DOMAIN f = FormBoxes
    /\ f.intervalSec \in IntervalChoices
    /\ f.parentId \in {""} \cup others /\ f.routes \subseteq channels
    /\ f.insecureTls \in BOOLEAN

\* The keys of each kind, spelled out.
LEMMA KeysAre ==
    /\ KeysOf("http") = {"expectStatus", "insecureTls"} /\ KeysOf("tls") = {"insecureTls"}
    /\ KeysOf("speed") = {"skipUpload", "minMbps", "payloadMb"}
    /\ KeysOf("ping") = {} /\ KeysOf("tcp") = {} /\ KeysOf("dns") = {}
    /\ ConfigKeys = {"expectStatus", "insecureTls", "skipUpload", "minMbps", "payloadMb"}
<1>1. KeysOf("http") = {"expectStatus", "insecureTls"} /\ KeysOf("tls") = {"insecureTls"}
      /\ KeysOf("speed") = {"skipUpload", "minMbps", "payloadMb"}
      /\ KeysOf("ping") = {} /\ KeysOf("tcp") = {} /\ KeysOf("dns") = {}
  BY DEF KeysOf
<1>. QED BY <1>1 DEF ConfigKeys

\* Keys of the config column are boxes of their own.
LEMMA ConfigKeysAreBoxes ==
    /\ ConfigKeys \subseteq FormBoxes
    /\ \A x \in ConfigKeys : x \notin {"name", "kind", "target", "port", "intervalSec", "timeoutMs", "retries",
                                      "degradedMs", "parentId", "enabled", "routes"}
BY KeysAre DEF FormBoxes

\* An empty box is not a zero.
LEMMA BlankIsNotZero == Blank # 0
BY DEF Blank

\* What an empty form has, spelled out.
LEMMA NothingIs ==
    /\ NothingIn["expectStatus"] = "" /\ NothingIn["insecureTls"] = FALSE /\ NothingIn["skipUpload"] = FALSE
    /\ NothingIn["minMbps"] = Blank /\ NothingIn["payloadMb"] = Blank
BY DEF NothingIn

\* Hiding, box by box.
LEMMA HiddenIs ==
    ASSUME NEW f, DOMAIN f = FormBoxes
    PROVE  /\ DOMAIN HideOthers(f) = FormBoxes
           /\ \A x \in FormBoxes :
                 HideOthers(f)[x] = IF x \in ConfigKeys \ KeysOf(f.kind) THEN NothingIn[x]
                                    ELSE IF x = "port" /\ ~AsksPort(f.kind) THEN Blank ELSE f[x]
BY DEF HideOthers

\* Hiding what is hidden changes nothing.
LEMMA HiddenStays ==
    ASSUME NEW f, DOMAIN f = FormBoxes
    PROVE  HideOthers(HideOthers(f)) = HideOthers(f)
<1>1. PICK g : g = HideOthers(f)
  OBVIOUS
<1>2. "kind" \in FormBoxes /\ "kind" \notin ConfigKeys
  BY KeysAre DEF FormBoxes
<1>3. DOMAIN g = FormBoxes /\ g.kind = f.kind
  BY <1>1, <1>2, HiddenIs
<1>4. \A x \in FormBoxes : HideOthers(g)[x] = g[x]
  BY <1>1, <1>3, HiddenIs
<1>5. DOMAIN HideOthers(g) = FormBoxes
  BY <1>3, HiddenIs
<1>6. g = [x \in FormBoxes |-> g[x]]
  BY <1>1, <1>3 DEF HideOthers
<1>7. HideOthers(g) = [x \in FormBoxes |-> HideOthers(g)[x]]
  BY <1>5 DEF HideOthers
<1>. QED BY <1>1, <1>4, <1>6, <1>7

\* What is stored for a box that the form covers is what was in it.
LEMMA StoredIs ==
    ASSUME NEW row, NEW f, NEW id, f.kind \in Kinds, f.insecureTls \in BOOLEAN,
           id # "", NEW key \in KeysOf(f.kind)
    PROVE  StoredBoxes(Saved(row, id, f))[key] = f[key] \/ Emptied(f, key)
           \/ (key = "minMbps" /\ f[key] = 0)
<1>. DEFINE prev == IF row = NoMonitor THEN <<>> ELSE row.config
            gone == (IF f.insecureTls THEN {} ELSE {"insecureTls"}) \cup
                    (IF f.kind = "http" /\ f.expectStatus = "" THEN {"expectStatus"} ELSE {})
            c == MergedConfig(prev, f)
<1>1. Saved(row, id, f).config = c /\ Saved(row, id, f) # NoMonitor
  BY ZenonT(60) DEF Saved, NoMonitor
<1>2. key \in ConfigKeys
  BY KeysAre DEF Kinds
<1>3. StoredBoxes(Saved(row, id, f))[key] = IF key \in DOMAIN c THEN c[key] ELSE NothingIn[key]
  BY <1>1, <1>2 DEF StoredBoxes
<1>4. PICK given : given = {x \in KeysOf(f.kind) : Given(f, x)}
  OBVIOUS
<1>5. DOMAIN ConfigFrom(f) = given /\ \A x \in given : ConfigFrom(f)[x] = f[x]
  BY <1>4 DEF ConfigFrom
<1>6. DOMAIN c = (given \cup DOMAIN prev) \ gone
      /\ \A x \in DOMAIN c : x \in given => c[x] = f[x]
  BY <1>5 DEF MergedConfig, Without, Spread
<1>7. CASE key \in given
  <2>1. f[key] # NothingIn[key]
    BY <1>4, <1>7 DEF Given
  <2>2. ~(key = "insecureTls" /\ ~f.insecureTls) /\ ~(key = "expectStatus" /\ f.expectStatus = "")
    BY <2>1, NothingIs
  <2>3. key \notin gone
    BY <2>2
  <2>. QED BY <1>3, <1>6, <1>7, <2>3
<1>8. CASE key \notin given
  <2>1. ~Given(f, key)
    BY <1>4, <1>8
  <2>2. CASE f.kind = "speed"
    BY <2>1, <2>2 DEF Emptied
  <2>3. CASE f.kind # "speed"
    <3>1. key \in {"expectStatus", "insecureTls"} /\ (key = "expectStatus" => f.kind = "http")
      BY <2>3, KeysAre DEF Kinds
    <3>2. f[key] = NothingIn[key]
      BY <2>1, <3>1 DEF Given
    <3>4. key = "insecureTls" \/ (f.kind = "http" /\ key = "expectStatus")
      BY <3>1
    <3>5. (key = "insecureTls" => ~f.insecureTls) /\ (key = "expectStatus" => f.expectStatus = "")
      BY <3>2, NothingIs
    <3>3. key \in gone
      BY <3>4, <3>5
    <3>. QED BY <1>3, <1>6, <3>2, <3>3
  <2>. QED BY <2>2, <2>3
<1>. QED BY <1>7, <1>8

\* s is what the form shows of a row, box by box.
ShownBoxes(s, row, others, channels) ==
    /\ DOMAIN s = FormBoxes
    /\ s.name = row.name /\ s.kind = row.kind /\ s.target = row.target
    /\ s.port = (IF AsksPort(row.kind) THEN row.port ELSE Blank)
    /\ s.intervalSec = ShownInterval(row, row.kind)
    /\ s.timeoutMs = row.timeoutMs /\ s.retries = row.retries /\ s.degradedMs = row.degradedMs
    /\ s.parentId = (IF row.parentId \in others THEN row.parentId ELSE "")
    /\ s.enabled = row.enabled /\ s.routes = row.routes \cap channels
    /\ \A x \in ConfigKeys : s[x] = IF x \in KeysOf(row.kind) THEN StoredBoxes(row)[x] ELSE NothingIn[x]
    /\ s = HideOthers(s)

\* Showing a row, box by box.
LEMMA ShownIs ==
    ASSUME NEW row, NEW others, NEW channels
    PROVE  ShownBoxes(Shown(row, others, channels), row, others, channels)
<1>. DEFINE s == Shown(row, others, channels)
<1>1. PICK a : a = [name |-> row.name, kind |-> row.kind, target |-> row.target, port |-> row.port,
                    intervalSec |-> ShownInterval(row, row.kind),
                    timeoutMs |-> row.timeoutMs, retries |-> row.retries, degradedMs |-> row.degradedMs,
                    parentId |-> IF row.parentId \in others THEN row.parentId ELSE "",
                    enabled |-> row.enabled, routes |-> row.routes \cap channels]
  OBVIOUS
<1>2. PICK b : b = Spread(StoredBoxes(row), a)
  OBVIOUS
<1>3. s = HideOthers(b)
  BY <1>1, <1>2 DEF Shown
<1>. HIDE DEF s
<1>4. DOMAIN a = {"name", "kind", "target", "port", "intervalSec", "timeoutMs", "retries", "degradedMs",
                  "parentId", "enabled", "routes"}
  BY <1>1
<1>5. DOMAIN StoredBoxes(row) = ConfigKeys
  BY DEF StoredBoxes
<1>6. /\ DOMAIN b = FormBoxes
      /\ \A x \in DOMAIN a : b[x] = a[x]
      /\ \A x \in ConfigKeys : b[x] = StoredBoxes(row)[x]
  BY <1>2, <1>4, <1>5, KeysAre DEF Spread, FormBoxes
<1>8. /\ b.name = row.name /\ b.kind = row.kind /\ b.target = row.target /\ b.port = row.port
      /\ b.intervalSec = ShownInterval(row, row.kind) /\ b.timeoutMs = row.timeoutMs /\ b.retries = row.retries
      /\ b.degradedMs = row.degradedMs /\ b.enabled = row.enabled /\ b.routes = row.routes \cap channels
      /\ b.parentId = (IF row.parentId \in others THEN row.parentId ELSE "")
  <2>1. \A x \in DOMAIN a : b[x] = a[x]
    BY <1>6
  <2>. QED BY <1>1, <1>4, <2>1
<1>9. DOMAIN s = FormBoxes
      /\ \A x \in FormBoxes : s[x] = IF x \in ConfigKeys \ KeysOf(b.kind) THEN NothingIn[x]
                                    ELSE IF x = "port" /\ ~AsksPort(b.kind) THEN Blank ELSE b[x]
  BY <1>3, <1>6, HiddenIs
<1>10. /\ s.name = b.name /\ s.kind = b.kind /\ s.target = b.target
       /\ s.port = (IF AsksPort(b.kind) THEN b.port ELSE Blank)
       /\ s.intervalSec = b.intervalSec /\ s.timeoutMs = b.timeoutMs /\ s.retries = b.retries
       /\ s.degradedMs = b.degradedMs /\ s.parentId = b.parentId /\ s.enabled = b.enabled
       /\ s.routes = b.routes
  BY <1>9, KeysAre DEF FormBoxes
<1>11. ASSUME NEW x \in ConfigKeys
       PROVE  s[x] = IF x \in KeysOf(row.kind) THEN StoredBoxes(row)[x] ELSE NothingIn[x]
  <2>1. x \in FormBoxes /\ x # "port"
    BY KeysAre DEF FormBoxes
  <2>2. s[x] = IF x \in ConfigKeys \ KeysOf(b.kind) THEN NothingIn[x] ELSE b[x]
    BY <1>9, <2>1
  <2>3. b[x] = StoredBoxes(row)[x] /\ b.kind = row.kind
    BY <1>6, <1>8
  <2>. QED BY <2>2, <2>3
<1>12. s = HideOthers(s)
  BY <1>3, <1>6, HiddenStays
<1>13. ShownBoxes(s, row, others, channels)
  BY <1>8, <1>9, <1>10, <1>11, <1>12 DEF ShownBoxes
<1>. QED BY <1>13 DEF s

\* The gap that is shown is one of the list.
LEMMA ShownIntervalIs ==
    ASSUME NEW row, NEW k
    PROVE  ShownInterval(row, k) \in IntervalChoices
BY DEF ShownInterval, DefaultInterval, IntervalChoices

\* What a form stands for, box by box.
LEMMA AsStoredIs ==
    ASSUME NEW f, DOMAIN f = FormBoxes
    PROVE  /\ AsStored(f)["port"] = IF f.kind = "tls" /\ f.port = Blank THEN 443 ELSE f.port
           /\ AsStored(f)["minMbps"] = IF f.minMbps = 0 THEN Blank ELSE f.minMbps
           /\ \A x \in FormBoxes \ {"port", "minMbps"} : AsStored(f)[x] = f[x]
           /\ DOMAIN AsStored(f) = FormBoxes
BY DEF AsStored, FormBoxes

\* The round trip: what is stored over any row is shown again, but for emptied boxes of the speed test.
LEMMA FormTakesEffect ==
    ASSUME NEW row, NEW f, NEW id, NEW others, NEW channels, id # "", id \notin others,
           Sendable(f, others, channels), f.kind \in Kinds,
           NEW s, s = Shown(Saved(row, id, f), others, channels)
    PROVE  DOMAIN s = FormBoxes /\ \A x \in FormBoxes : s[x] = AsStored(f)[x] \/ Emptied(f, x)
<1>1. PICK n : n = Saved(row, id, f)
  OBVIOUS
<1>2. s = Shown(n, others, channels)
  BY <1>1
<1>3. /\ n.name = f.name /\ n.kind = f.kind /\ n.target = f.target /\ n.intervalSec = f.intervalSec
      /\ n.timeoutMs = f.timeoutMs /\ n.retries = f.retries /\ n.degradedMs = f.degradedMs
      /\ n.enabled = f.enabled /\ n.routes = f.routes
      /\ n.port = (IF f.kind = "tls" /\ f.port = Blank THEN 443 ELSE f.port)
      /\ n.parentId = (IF f.parentId = id THEN "" ELSE f.parentId)
      /\ n.id = id
  BY <1>1 DEF Saved
<1>4. n # NoMonitor
  <2>1. NoMonitor.id = ""
    BY DEF NoMonitor
  <2>. QED BY <1>3, <2>1
<1>f. DOMAIN f = FormBoxes /\ f = HideOthers(f)
  BY DEF Sendable
<1>5. /\ \A x \in ConfigKeys \ KeysOf(f.kind) : f[x] = NothingIn[x]
      /\ ~AsksPort(f.kind) => f.port = Blank
  <2>1. \A x \in FormBoxes : f[x] = IF x \in ConfigKeys \ KeysOf(f.kind) THEN NothingIn[x]
                                     ELSE IF x = "port" /\ ~AsksPort(f.kind) THEN Blank ELSE f[x]
    BY <1>f, HiddenIs
  <2>2. ConfigKeys \subseteq FormBoxes /\ "port" \in FormBoxes /\ "port" \notin ConfigKeys
    BY KeysAre DEF FormBoxes
  <2>. QED BY <2>1, <2>2
<1>6. /\ DOMAIN s = FormBoxes
      /\ s.name = n.name /\ s.kind = n.kind /\ s.target = n.target
      /\ s.port = (IF AsksPort(n.kind) THEN n.port ELSE Blank)
      /\ s.intervalSec = ShownInterval(n, n.kind)
      /\ s.timeoutMs = n.timeoutMs /\ s.retries = n.retries /\ s.degradedMs = n.degradedMs
      /\ s.parentId = (IF n.parentId \in others THEN n.parentId ELSE "")
      /\ s.enabled = n.enabled /\ s.routes = n.routes \cap channels
      /\ \A x \in ConfigKeys : s[x] = IF x \in KeysOf(n.kind) THEN StoredBoxes(n)[x] ELSE NothingIn[x]
  <2>1. ShownBoxes(s, n, others, channels)
    BY <1>2, ShownIs
  <2>. QED BY <2>1 DEF ShownBoxes
<1>7. ASSUME NEW x \in FormBoxes PROVE s[x] = AsStored(f)[x] \/ Emptied(f, x)
  <2>0. /\ x \notin {"port", "minMbps"} => AsStored(f)[x] = f[x]
        /\ x = "minMbps" => AsStored(f)[x] = IF f[x] = 0 THEN Blank ELSE f[x]
        /\ x = "port" => AsStored(f)[x] = IF f.kind = "tls" /\ f.port = Blank THEN 443 ELSE f.port
    <3>1. x \notin {"port", "minMbps"} => AsStored(f)[x] = f[x]
      BY <1>f, AsStoredIs
    <3>2. x = "minMbps" => AsStored(f)[x] = IF f[x] = 0 THEN Blank ELSE f[x]
      <4>1. AsStored(f)["minMbps"] = IF f.minMbps = 0 THEN Blank ELSE f.minMbps
        BY <1>f, AsStoredIs
      <4>. QED BY <4>1
    <3>3. AsStored(f)["port"] = IF f.kind = "tls" /\ f.port = Blank THEN 443 ELSE f.port
      BY <1>f, AsStoredIs
    <3>. QED BY ZenonT(60), <3>1, <3>2, <3>3
  <2>1. CASE x \in ConfigKeys
    <3>0. x # "port"
      BY <2>1, ConfigKeysAreBoxes
    <3>1. CASE x \in KeysOf(f.kind)
      <4>1. s[x] = StoredBoxes(n)[x]
        BY <1>3, <1>6, <2>1, <3>1
      <4>2. f.insecureTls \in BOOLEAN
        BY DEF Sendable
      <4>3. s[x] = f[x] \/ Emptied(f, x) \/ (x = "minMbps" /\ f[x] = 0)
        BY <1>1, <3>1, <4>1, <4>2, StoredIs
      <4>4. x = "minMbps" => f.kind = "speed"
        BY <3>1, KeysAre DEF Kinds
      <4>5. x = "minMbps" /\ f[x] = 0 => Emptied(f, x)
        BY <3>1, <4>4 DEF Emptied, Given
      <4>. QED BY <2>0, <3>0, <4>3, <4>5
    <3>2. CASE x \notin KeysOf(f.kind)
      <4>1. s[x] = NothingIn[x] /\ f[x] = NothingIn[x]
        BY <1>3, <1>5, <1>6, <2>1, <3>2
      <4>2. x = "minMbps" => f[x] # 0
        BY <4>1, BlankIsNotZero, NothingIs
      <4>. QED BY <2>0, <3>0, <4>1, <4>2
    <3>. QED BY <3>1, <3>2
  <2>2. CASE x = "port"
    <3>1. f.kind = "tls" => AsksPort(f.kind)
      BY DEF AsksPort
    <3>2. s[x] = IF AsksPort(f.kind) THEN n.port ELSE Blank
      BY <1>3, <1>6, <2>2
    <3>. QED BY ZenonT(60), <1>3, <1>5, <2>0, <2>2, <3>1, <3>2
  <2>3. CASE x = "intervalSec"
    <3>1. s[x] = f.intervalSec
      BY <1>3, <1>4, <1>6, <2>3 DEF ShownInterval, Sendable
    <3>. QED BY <2>0, <2>3, <3>1
  <2>4. CASE x = "parentId"
    <3>1. f.parentId \in {""} \cup others
      BY DEF Sendable
    <3>2. s[x] = f.parentId
      BY <1>3, <1>6, <2>4, <3>1
    <3>. QED BY <2>0, <2>4, <3>2
  <2>5. CASE x = "routes"
    <3>1. f.routes \subseteq channels
      BY DEF Sendable
    <3>2. s[x] = f.routes
      <4>1. s[x] = f.routes \cap channels
        BY <1>3, <1>6, <2>5
      <4>2. f.routes \cap channels = f.routes
        BY <3>1
      <4>. QED BY <4>1, <4>2
    <3>. QED BY <2>0, <2>5, <3>2
  <2>6. CASE x \in {"name", "kind", "target", "timeoutMs", "retries", "degradedMs", "enabled"}
    <3>1. s[x] = f[x]
      BY ZenonT(60), <1>3, <1>6, <2>6
    <3>2. x \notin {"port", "minMbps"}
      BY <2>6
    <3>. QED BY <2>0, <3>1, <3>2
  <2>7. x \in ConfigKeys \cup {"port", "intervalSec", "parentId", "routes", "name", "kind", "target", "timeoutMs",
                             "retries", "degradedMs", "enabled"}
    BY KeysAre DEF FormBoxes
  <2>. QED BY <2>1, <2>2, <2>3, <2>4, <2>5, <2>6, <2>7
<1>. QED BY <1>6, <1>7


\* The tick about certificates is stored as a tick, if at all.
PlainTick(row) == StoredBoxes(row)["insecureTls"] \in BOOLEAN

\* Only boxes of the speed test that were emptied show something else than what was submitted.
OnlyEmptied ==
    taken # NoForm =>
        /\ taken.kind \in Kinds /\ DOMAIN taken = FormBoxes /\ DOMAIN FormOf(monitor) = FormBoxes
        /\ \A x \in FormBoxes : FormOf(monitor)[x] = AsStored(taken)[x] \/ Emptied(taken, x)

EditIInv == Sendable(draft, Others, {Mail}) /\ PlainTick(monitor) /\ OnlyEmptied

\* A new monitor has no tick stored.
LEMMA NoMonitorIsPlain == PlainTick(NoMonitor)
BY KeysAre, NothingIs DEF PlainTick, StoredBoxes

\* The empty form is one that the page can send.
LEMMA EmptyFormIs ==
    ASSUME NEW others, NEW channels
    PROVE  Sendable(EmptyForm, others, channels)
<1>1. PICK a : a = [name |-> "", kind |-> "http", target |-> "", port |-> Blank, intervalSec |-> DefaultInterval("http"),
         timeoutMs |-> Blank, retries |-> Blank, degradedMs |-> Blank, parentId |-> "", enabled |-> TRUE, routes |-> {}]
  OBVIOUS
<1>2. DOMAIN a = {"name", "kind", "target", "port", "intervalSec", "timeoutMs", "retries", "degradedMs",
                  "parentId", "enabled", "routes"}
  BY <1>1
<1>3. DOMAIN NothingIn = ConfigKeys
  BY KeysAre DEF NothingIn
<1>4. PICK e : e = EmptyForm
  OBVIOUS
<1>5. e = Spread(NothingIn, a)
  BY <1>1, <1>4 DEF EmptyForm
<1>6. /\ DOMAIN e = FormBoxes
      /\ \A x \in DOMAIN a : e[x] = a[x]
      /\ \A x \in ConfigKeys : e[x] = NothingIn[x]
      /\ e = [x \in FormBoxes |-> e[x]]
  BY <1>2, <1>3, <1>5, KeysAre DEF Spread, FormBoxes
<1>7. /\ e.kind = "http" /\ e.port = Blank /\ e.intervalSec = DefaultInterval("http") /\ e.parentId = "" /\ e.routes = {}
  <2>1. \A x \in DOMAIN a : e[x] = a[x]
    BY <1>6
  <2>. QED BY <1>1, <1>2, <2>1
<1>8. e.insecureTls \in BOOLEAN
  <2>1. e["insecureTls"] = FALSE
    BY <1>6, KeysAre, NothingIs
  <2>. QED BY <2>1
<1>9. e = HideOthers(e)
  <2>1. ASSUME NEW x \in FormBoxes PROVE HideOthers(e)[x] = e[x]
    <3>1. HideOthers(e)[x] = IF x \in ConfigKeys \ KeysOf(e.kind) THEN NothingIn[x]
                              ELSE IF x = "port" /\ ~AsksPort(e.kind) THEN Blank ELSE e[x]
      BY <1>6, HiddenIs
    <3>2. x = "port" => e[x] = Blank
      BY <1>7
    <3>3. x \in ConfigKeys => e[x] = NothingIn[x]
      BY <1>6
    <3>. QED BY <3>1, <3>2, <3>3
  <2>2. HideOthers(e) = [x \in FormBoxes |-> HideOthers(e)[x]]
    BY <1>6 DEF HideOthers
  <2>. QED BY <1>6, <2>1, <2>2
<1>10. e.intervalSec \in IntervalChoices
  <2>1. DefaultInterval("http") = 60
    BY DEF DefaultInterval
  <2>2. 60 \in IntervalChoices
    BY DEF IntervalChoices
  <2>. QED BY <1>7, <2>1, <2>2
<1>11. Sendable(e, others, channels)
  BY <1>6, <1>7, <1>8, <1>9, <1>10 DEF Sendable
<1>. QED BY <1>4, <1>11

\* Showing a row, box by box.
LEMMA ShownIsSendable ==
    ASSUME NEW row, NEW others, NEW channels, PlainTick(row)
    PROVE  Sendable(Shown(row, others, channels), others, channels)
<1>1. PICK s : s = Shown(row, others, channels)
  OBVIOUS
<1>2. ShownBoxes(s, row, others, channels)
  BY <1>1, ShownIs
<1>3. s.intervalSec \in IntervalChoices
  BY ZenonT(60), <1>2, ShownIntervalIs DEF ShownBoxes
<1>4. s.insecureTls \in BOOLEAN
  <2>1. "insecureTls" \in ConfigKeys
    BY KeysAre
  <2>2. s["insecureTls"] = StoredBoxes(row)["insecureTls"] \/ s["insecureTls"] = NothingIn["insecureTls"]
    BY <1>2, <2>1 DEF ShownBoxes
  <2>. QED BY <2>2, NothingIs DEF PlainTick
<1>5. s.parentId \in {""} \cup others /\ s.routes \subseteq channels
  BY <1>2 DEF ShownBoxes
<1>6. s = HideOthers(s) /\ DOMAIN s = FormBoxes
  BY <1>2 DEF ShownBoxes
<1>7. Sendable(s, others, channels)
  BY <1>3, <1>4, <1>5, <1>6 DEF Sendable
<1>. QED BY <1>1, <1>7

\* whether there is one or not;
LEMMA FormOfIsSendable ==
    ASSUME NEW row, PlainTick(row) PROVE Sendable(FormOf(row), Others, {Mail})
BY EmptyFormIs, ShownIsSendable DEF FormOf

\* Nothing is stored under no key.
LEMMA NothingStored == DOMAIN <<>> = {}
OBVIOUS

\* Saving leaves the tick a tick.
LEMMA SavedIsPlain ==
    ASSUME NEW row, NEW id, NEW f, PlainTick(row), id # "", f.insecureTls \in BOOLEAN
    PROVE  PlainTick(Saved(row, id, f))
<1>. DEFINE prev == IF row = NoMonitor THEN <<>> ELSE row.config
            c == MergedConfig(prev, f)
            key == "insecureTls"
<1>1. Saved(row, id, f).config = c /\ Saved(row, id, f) # NoMonitor
  BY ZenonT(60) DEF Saved, NoMonitor
<1>2. key \in ConfigKeys
  BY KeysAre
<1>3. StoredBoxes(Saved(row, id, f))[key] = IF key \in DOMAIN c THEN c[key] ELSE NothingIn[key]
  BY <1>1, <1>2 DEF StoredBoxes
<1>4. key \in DOMAIN c => c[key] = f[key] \/ (key \in DOMAIN prev /\ c[key] = prev[key])
  BY DEF MergedConfig, Without, Spread, ConfigFrom
<1>5. key \in DOMAIN prev => prev[key] \in BOOLEAN
  <2>1. CASE row = NoMonitor
    <3>3. prev = <<>>
      BY <2>1
    <3>1. DOMAIN prev = {}
      BY <3>3, NothingStored
    <3>. QED BY <3>1
  <2>2. CASE row # NoMonitor
    BY <1>2, <2>2 DEF PlainTick, StoredBoxes
  <2>. QED BY <2>1, <2>2
<1>. QED BY <1>3, <1>4, <1>5, NothingIs DEF PlainTick

\* Hiding, box by box.
LEMMA HiddenIsSendable ==
    ASSUME NEW g, NEW others, NEW channels, DOMAIN g = FormBoxes, g.intervalSec \in IntervalChoices,
           g.parentId \in {""} \cup others, g.routes \subseteq channels, g.insecureTls \in BOOLEAN
    PROVE  Sendable(HideOthers(g), others, channels)
<1>1. PICK h : h = HideOthers(g)
  OBVIOUS
<1>2. h = HideOthers(h)
  BY <1>1, HiddenStays
<1>3. /\ DOMAIN h = FormBoxes
      /\ \A x \in FormBoxes : h[x] = IF x \in ConfigKeys \ KeysOf(g.kind) THEN NothingIn[x]
                                    ELSE IF x = "port" /\ ~AsksPort(g.kind) THEN Blank ELSE g[x]
  BY <1>1, HiddenIs
<1>4. h.intervalSec = g.intervalSec /\ h.parentId = g.parentId /\ h.routes = g.routes
  <2>1. ASSUME NEW x \in FormBoxes, x \notin ConfigKeys, x # "port" PROVE h[x] = g[x]
    BY <1>3, <2>1
  <2>2. {"intervalSec", "parentId", "routes"} \subseteq FormBoxes
        /\ "intervalSec" \notin ConfigKeys /\ "parentId" \notin ConfigKeys /\ "routes" \notin ConfigKeys
    BY KeysAre DEF FormBoxes
  <2>. QED BY <2>1, <2>2
<1>5. h.insecureTls \in BOOLEAN
  <2>1. "insecureTls" \in FormBoxes
    BY DEF FormBoxes
  <2>2. h["insecureTls"] = NothingIn["insecureTls"] \/ h["insecureTls"] = g["insecureTls"]
    BY <1>3, <2>1
  <2>. QED BY <2>2, NothingIs
<1>6. Sendable(h, others, channels)
  BY <1>2, <1>3, <1>4, <1>5 DEF Sendable
<1>. QED BY <1>1, <1>6

\* what it becomes when another kind is chosen,
LEMMA ChosenIsSendable ==
    ASSUME NEW row, NEW f, NEW k, NEW others, NEW channels, PlainTick(row), Sendable(f, others, channels)
    PROVE  Sendable(WithKind(row, f, k), others, channels)
<1>1. PICK g : g = [x \in DOMAIN f |->
        CASE x = "kind" -> k
          [] x = "intervalSec" -> ShownInterval(row, k)
          [] x \in KeysOf(k) \ KeysOf(f.kind) -> StoredBoxes(row)[x]
          [] x = "port" /\ AsksPort(k) /\ ~AsksPort(f.kind) -> IF row = NoMonitor THEN Blank ELSE row.port
          [] OTHER -> f[x]]
  OBVIOUS
<1>2. WithKind(row, f, k) = HideOthers(g)
  BY <1>1 DEF WithKind
<1>3. DOMAIN f = FormBoxes /\ DOMAIN g = FormBoxes
  BY <1>1 DEF Sendable
<1>4. g.intervalSec = ShownInterval(row, k)
  <2>1. "intervalSec" \in DOMAIN f
    BY <1>3 DEF FormBoxes
  <2>2. g["intervalSec"] = (CASE "intervalSec" = "kind" -> k
          [] "intervalSec" = "intervalSec" -> ShownInterval(row, k)
          [] "intervalSec" \in KeysOf(k) \ KeysOf(f.kind) -> StoredBoxes(row)["intervalSec"]
          [] "intervalSec" = "port" /\ AsksPort(k) /\ ~AsksPort(f.kind) -> IF row = NoMonitor THEN Blank ELSE row.port
          [] OTHER -> f["intervalSec"])
    BY <1>1, <2>1
  <2>3. "intervalSec" \notin KeysOf(k)
    BY DEF KeysOf
  <2>. QED BY <2>2, <2>3
<1>5. ASSUME NEW x \in {"parentId", "routes"} PROVE g[x] = f[x]
  BY <1>1, <1>3 DEF FormBoxes, KeysOf
<1>6. g["insecureTls"] = f["insecureTls"] \/ g["insecureTls"] = StoredBoxes(row)["insecureTls"]
  BY <1>1, <1>3 DEF FormBoxes
<1>7. g.intervalSec \in IntervalChoices
  BY <1>4, ShownIntervalIs
<1>8. g.parentId \in {""} \cup others /\ g.routes \subseteq channels
  BY <1>5 DEF Sendable
<1>9. g.insecureTls \in BOOLEAN
  BY <1>6 DEF Sendable, PlainTick
<1>. QED BY <1>2, <1>3, <1>7, <1>8, <1>9, HiddenIsSendable

\* or a box is filled in.
LEMMA FilledIsSendable ==
    ASSUME NEW f, NEW box \in DOMAIN Typed, NEW v \in Typed[box], Sendable(f, Others, {Mail})
    PROVE  Sendable(HideOthers([f EXCEPT ![box] = v]), Others, {Mail})
<1>1. PICK g : g = [f EXCEPT ![box] = v]
  OBVIOUS
<1>2. DOMAIN f = FormBoxes /\ f.intervalSec \in IntervalChoices /\ f.parentId \in {""} \cup Others
      /\ f.routes \subseteq {Mail} /\ f.insecureTls \in BOOLEAN
  BY DEF Sendable
<1>3. DOMAIN g = FormBoxes /\ \A x \in FormBoxes : g[x] = f[x] \/ (x = box /\ g[x] = v)
  BY <1>1, <1>2
<1>4. /\ Typed["intervalSec"] = {60, 300} /\ Typed["parentId"] = {""} \cup Others
      /\ Typed["routes"] = SUBSET {Mail} /\ Typed["insecureTls"] = BOOLEAN
  BY DEF Typed
<1>5. {60, 300} \subseteq IntervalChoices
  BY DEF IntervalChoices
<1>6. {"intervalSec", "parentId", "routes", "insecureTls"} \subseteq FormBoxes
  BY DEF FormBoxes
<1>7. g["intervalSec"] = f["intervalSec"] \/ g["intervalSec"] \in {60, 300}
  <2>1. box = "intervalSec" => v \in {60, 300}
    BY <1>4
  <2>. QED BY <1>3, <1>6, <2>1
<1>8. g["parentId"] = f["parentId"] \/ g["parentId"] \in {""} \cup Others
  <2>1. box = "parentId" => v \in {""} \cup Others
    BY <1>4
  <2>. QED BY <1>3, <1>6, <2>1
<1>9. g["routes"] = f["routes"] \/ g["routes"] \in SUBSET {Mail}
  <2>1. box = "routes" => v \in SUBSET {Mail}
    BY <1>4
  <2>. QED BY <1>3, <1>6, <2>1
<1>10. g["insecureTls"] = f["insecureTls"] \/ g["insecureTls"] \in BOOLEAN
  <2>1. box = "insecureTls" => v \in BOOLEAN
    BY <1>4
  <2>. QED BY <1>3, <1>6, <2>1
<1>11. g.intervalSec \in IntervalChoices /\ g.parentId \in {""} \cup Others
       /\ g.routes \subseteq {Mail} /\ g.insecureTls \in BOOLEAN
  <2>1. g.intervalSec \in IntervalChoices
    BY <1>2, <1>5, <1>7
  <2>2. g.parentId \in {""} \cup Others
    BY <1>2, <1>8
  <2>3. g.routes \subseteq {Mail}
    BY <1>2, <1>9
  <2>4. g.insecureTls \in BOOLEAN
    BY <1>2, <1>10
  <2>. QED BY <2>1, <2>2, <2>3, <2>4
<1>. QED BY <1>1, <1>3, <1>11, HiddenIsSendable

\* The other monitor can go.
LEMMA ParentGone ==
    ASSUME NEW f, NEW others, NEW channels, Sendable(f, others, channels)
    PROVE  Sendable([f EXCEPT !.parentId = ""], {}, channels)
<1>1. PICK g : g = [f EXCEPT !.parentId = ""]
  OBVIOUS
<1>2. DOMAIN f = FormBoxes /\ f = HideOthers(f) /\ f.intervalSec \in IntervalChoices /\ f.routes \subseteq channels
      /\ f.insecureTls \in BOOLEAN
  BY DEF Sendable
<1>3. /\ DOMAIN g = FormBoxes /\ g = [x \in FormBoxes |-> g[x]]
      /\ \A x \in FormBoxes : x # "parentId" => g[x] = f[x]
      /\ g["parentId"] = ""
  BY <1>1, <1>2 DEF FormBoxes
<1>4. {"kind", "intervalSec", "parentId", "routes", "insecureTls"} \subseteq FormBoxes
  BY DEF FormBoxes
<1>5. g.kind = f.kind /\ g.intervalSec = f.intervalSec /\ g.routes = f.routes /\ g.insecureTls = f.insecureTls
  BY <1>3, <1>4
<1>6. ASSUME NEW x \in FormBoxes PROVE HideOthers(g)[x] = g[x]
  <2>1. HideOthers(g)[x] = IF x \in ConfigKeys \ KeysOf(g.kind) THEN NothingIn[x]
                            ELSE IF x = "port" /\ ~AsksPort(g.kind) THEN Blank ELSE g[x]
    BY <1>3, HiddenIs
  <2>2. f[x] = IF x \in ConfigKeys \ KeysOf(f.kind) THEN NothingIn[x]
               ELSE IF x = "port" /\ ~AsksPort(f.kind) THEN Blank ELSE f[x]
    BY <1>2, HiddenIs
  <2>3. CASE x = "parentId"
    <3>1. x \notin ConfigKeys /\ x # "port"
      BY <2>3, KeysAre
    <3>. QED BY <2>1, <3>1
  <2>4. CASE x # "parentId"
    BY <1>3, <1>5, <2>1, <2>2, <2>4
  <2>. QED BY <2>3, <2>4
<1>7. HideOthers(g) = [x \in FormBoxes |-> HideOthers(g)[x]]
  BY <1>3 DEF HideOthers
<1>8. g = HideOthers(g)
  BY <1>3, <1>6, <1>7
<1>9. Sendable(g, {}, channels)
  BY <1>2, <1>3, <1>5, <1>8 DEF Sendable
<1>. QED BY <1>1, <1>9

\* What is accepted is of some kind.
LEMMA AcceptedKind == ASSUME NEW f, Accepts(f) PROVE f.kind \in Kinds
BY DEF Accepts

\* An import keeps no tick that is none.
LEMMA DocumentsArePlain ==
    ASSUME NEW d \in Documents PROVE PlainTick(Imported(d))
<1>1. d.config = [method |-> "HEAD", minMbps |-> 50] /\ Imported(d).config = Without(d.config, DOMAIN d.config \ ImportKeys)
  <2>1. PICK k \in {"http", "speed"}, i \in {9, 10} : d = DocumentOf(k, i)
    BY DEF Documents
  <2>4. d.config = [method |-> "HEAD", minMbps |-> 50]
    BY <2>1, Zenon DEF DocumentOf
  <2>2. "config" \in DOMAIN d
    BY <2>1, Zenon DEF DocumentOf
  <2>3. Imported(d).config = Without(d.config, DOMAIN d.config \ ImportKeys)
    BY <2>2 DEF Imported
  <2>. QED BY <2>3, <2>4
<1>2. DOMAIN Imported(d).config \subseteq {"method"}
  <2>1. DOMAIN d.config = {"method", "minMbps"}
    BY <1>1
  <2>. QED BY <1>1, <2>1 DEF Without, ImportKeys
<1>3. "insecureTls" \in ConfigKeys
  BY KeysAre
<1>4. StoredBoxes(Imported(d))["insecureTls"] = NothingIn["insecureTls"]
  BY <1>2, <1>3 DEF StoredBoxes
<1>. QED BY <1>4, NothingIs DEF PlainTick

\* At first nothing was submitted.
LEMMA EditsBegin == EditsInit => EditIInv
BY EmptyFormIs, NoMonitorIsPlain DEF EditsInit, EditIInv, OnlyEmptied

\* Every step keeps the form one that can be sent, and what was submitted on show.
LEMMA EditsStep ==
    ASSUME Router # "web", EditIInv, [EditsNext]_editVars
    PROVE  EditIInv'
<1>1. ASSUME NEW k \in Kinds, ChooseKind(k) PROVE EditIInv'
  BY <1>1, ChosenIsSendable DEF EditIInv, ChooseKind, OnlyEmptied, Others, FormOf
<1>2. ASSUME NEW box \in DOMAIN Typed, Fill(box) PROVE EditIInv'
  BY <1>2, FilledIsSendable DEF EditIInv, Fill, OnlyEmptied, Others, FormOf
<1>3. CASE SubmitForm
  <2>1. /\ monitor' = Saved(monitor, "web", draft) /\ taken' = draft
        /\ draft' = FormOf(monitor') /\ routerThere' = routerThere /\ Accepts(draft)
    BY <1>3 DEF SubmitForm
  <2>2. Others' = Others /\ FormOf(monitor)' = FormOf(monitor')
    BY <2>1 DEF Others, FormOf
  <2>k. draft.kind \in Kinds
    BY <2>1, AcceptedKind
  <2>d. Sendable(draft, Others, {Mail}) /\ draft.insecureTls \in BOOLEAN /\ DOMAIN draft = FormBoxes
    BY DEF EditIInv, Sendable
  <2>3. PlainTick(Saved(monitor, "web", draft))
    BY <2>d, SavedIsPlain DEF EditIInv
  <2>4. PlainTick(monitor')
    BY <2>1, <2>3
  <2>5. Sendable(draft', Others, {Mail})
    BY <2>1, <2>4, FormOfIsSendable
  <2>6. monitor' # NoMonitor
    <3>1. monitor'.id = "web" /\ NoMonitor.id = ""
      BY <2>1 DEF Saved, NoMonitor
    <3>. QED BY <3>1
  <2>7. FormOf(monitor') = Shown(Saved(monitor, "web", draft), Others, {Mail})
    BY <2>1, <2>6 DEF FormOf
  <2>8. "web" \notin Others
    BY DEF Others
  <2>9. /\ DOMAIN FormOf(monitor') = FormBoxes
        /\ \A x \in FormBoxes : FormOf(monitor')[x] = AsStored(draft)[x] \/ Emptied(draft, x)
    <3>1. "web" # ""
      OBVIOUS
    <3>2. PICK s : s = FormOf(monitor')
      OBVIOUS
    <3>3. s = Shown(Saved(monitor, "web", draft), Others, {Mail})
      BY <3>2, <2>7
    <3>4. DOMAIN s = FormBoxes /\ \A x \in FormBoxes : s[x] = AsStored(draft)[x] \/ Emptied(draft, x)
      BY ZenonT(60), <3>1, <3>3, <2>8, <2>k, <2>d, FormTakesEffect
    <3>. QED BY <3>2, <3>4
  <2>10. OnlyEmptied'
    BY <2>1, <2>2, <2>9, <2>k, <2>d DEF OnlyEmptied
  <2>. QED BY <2>2, <2>4, <2>5, <2>10 DEF EditIInv, PlainTick
<1>4. ASSUME NEW d \in Documents, ImportMonitor(d) PROVE EditIInv'
  <2>1. monitor' = Imported(d) /\ taken' = NoForm /\ draft' = FormOf(monitor') /\ routerThere' = routerThere
    BY <1>4 DEF ImportMonitor
  <2>2. PlainTick(Imported(d))
    BY DocumentsArePlain
  <2>3. PlainTick(monitor')
    BY <2>1, <2>2
  <2>4. Sendable(draft', Others, {Mail})
    BY <2>1, <2>3, FormOfIsSendable
  <2>5. Others' = Others
    BY <2>1 DEF Others
  <2>6. OnlyEmptied'
    BY <2>1 DEF OnlyEmptied
  <2>. QED BY <2>3, <2>4, <2>5, <2>6 DEF EditIInv, PlainTick
<1>5. CASE DeleteRouter
  <2>1. Others' = {} /\ taken' = NoForm /\ monitor' = monitor /\ draft' = [draft EXCEPT !.parentId = ""]
    BY <1>5 DEF DeleteRouter, Others
  <2>2. Sendable(draft', {}, {Mail})
    BY <2>1, ParentGone DEF EditIInv
  <2>. QED BY <2>1, <2>2 DEF EditIInv, OnlyEmptied, PlainTick
<1>6. CASE UNCHANGED editVars
  BY <1>6 DEF editVars, EditIInv, OnlyEmptied, Others, FormOf
<1>. QED BY <1>1, <1>2, <1>3, <1>4, <1>5, <1>6 DEF EditsNext

\* Box by box is the whole form.
LEMMA NothingElseIsLost ==
    ASSUME EditIInv, \A x \in FormBoxes : ~Emptied(taken, x)
    PROVE  EditTakesEffect
<1>1. SUFFICES ASSUME taken # NoForm PROVE FormOf(monitor) = AsStored(taken)
  BY DEF EditTakesEffect, AsStored
<1>2. PICK s : s = FormOf(monitor)
  OBVIOUS
<1>3. DOMAIN taken = FormBoxes /\ DOMAIN s = FormBoxes /\ \A x \in FormBoxes : s[x] = AsStored(taken)[x]
  BY <1>1, <1>2 DEF EditIInv, OnlyEmptied
<1>4. s = [x \in FormBoxes |-> s[x]]
  <2>1. CASE monitor = NoMonitor
    BY <1>2, <1>3, <2>1 DEF FormOf, EmptyForm, Spread
  <2>2. CASE monitor # NoMonitor
    BY <1>2, <1>3, <2>2 DEF FormOf, Shown, HideOthers
  <2>. QED BY <2>1, <2>2
<1>5. DOMAIN AsStored(taken) = FormBoxes
  BY <1>3, AsStoredIs
<1>6. AsStored(taken) = [x \in FormBoxes |-> AsStored(taken)[x]]
  BY ZenonT(60), <1>5 DEF AsStored
<1>7. s = AsStored(taken)
  BY <1>3, <1>4, <1>6
<1>. QED BY <1>2, <1>7

(***************************************************************************)
(* Finding 5 has one extent: whatever is typed, chosen, submitted and      *)
(* imported, the only boxes that can show something else than what was     *)
(* last submitted are those of the speed test that were emptied; every     *)
(* other box, of every kind, takes effect (saveMonitorAction,              *)
(* actions.ts:59-63).                                                      *)
(***************************************************************************)
THEOREM OnlyEmptiedBoxesStay ==
    ASSUME Router # "web"
    PROVE  EditsSpec => []OnlyEmptied
<1>1. EditIInv => OnlyEmptied
  BY DEF EditIInv
<1>2. EditIInv /\ [EditsNext]_editVars => EditIInv'
  BY EditsStep
<1>. QED BY <1>1, <1>2, EditsBegin, PTL DEF EditsSpec

(***************************************************************************)
(* So an edit takes effect as a whole unless it empties a box of the speed *)
(* test.                                                                   *)
(***************************************************************************)
THEOREM EditTakesEffectUnlessEmptied ==
    ASSUME Router # "web"
    PROVE  EditsSpec => []((\A x \in FormBoxes : ~Emptied(taken, x)) => EditTakesEffect)
<1>1. EditIInv => ((\A x \in FormBoxes : ~Emptied(taken, x)) => EditTakesEffect)
  BY NothingElseIsLost
<1>2. EditIInv /\ [EditsNext]_editVars => EditIInv'
  BY EditsStep
<1>. QED BY <1>1, <1>2, EditsBegin, PTL DEF EditsSpec

-----------------------------------------------------------------------------
\* The same form on its own: what a round trip keeps, and what a form that was accepted is good for.

\* A form is what is in its boxes.
LEMMA ShownAgain ==
    ASSUME NEW row, NEW others, NEW channels, NEW s, s = Shown(row, others, channels), DOMAIN s = FormBoxes
    PROVE  s = [x \in FormBoxes |-> s[x]]
BY DEF Shown, HideOthers

(***************************************************************************)
(* Whatever was stored before by an earlier form, a check that is not a    *)
(* speed test shows what the last form said, for any form the page can     *)
(* send.                                                                   *)
(***************************************************************************)
THEOREM LastFormWinsAlways ==
    ASSUME NEW earlier, NEW f, NEW others, NEW channels, "web" \notin others, Sendable(f, others, channels)
    PROVE  LastFormWins(earlier, f, others, channels)
<1>1. PICK row : row = Saved(NoMonitor, "web", earlier)
  OBVIOUS
<1>2. PICK s : s = Shown(Saved(row, "web", f), others, channels)
  OBVIOUS
<1>3. SUFFICES ASSUME f.kind \in Kinds, f.kind # "speed"
               PROVE  s = [f EXCEPT !.port = IF f.kind = "tls" /\ @ = Blank THEN 443 ELSE @]
  BY <1>1, <1>2, AcceptedKind DEF LastFormWins
<1>w. "web" # ""
  OBVIOUS
<1>4. DOMAIN s = FormBoxes /\ \A x \in FormBoxes : s[x] = AsStored(f)[x] \/ Emptied(f, x)
  BY <1>2, <1>3, <1>w, FormTakesEffect
<1>5. \A x \in FormBoxes : s[x] = AsStored(f)[x]
  BY <1>3, <1>4 DEF Emptied
<1>f. DOMAIN f = FormBoxes /\ f = HideOthers(f)
  BY DEF Sendable
<1>6. f.minMbps # 0
  <2>1. "minMbps" \in ConfigKeys \ KeysOf(f.kind) /\ "minMbps" \in FormBoxes
    BY <1>3, KeysAre DEF Kinds, FormBoxes
  <2>2. f["minMbps"] = NothingIn["minMbps"]
    BY <1>f, <2>1, HiddenIs
  <2>. QED BY <2>2, NothingIs, BlankIsNotZero
<1>7. PICK g : g = [f EXCEPT !.port = IF f.kind = "tls" /\ @ = Blank THEN 443 ELSE @]
  OBVIOUS
<1>8. g = [x \in FormBoxes |-> g[x]] /\ \A x \in FormBoxes : x # "port" => g[x] = f[x]
  BY <1>7, <1>f DEF FormBoxes
<1>9. g["port"] = IF f.kind = "tls" /\ f.port = Blank THEN 443 ELSE f.port
  <2>1. "port" \in DOMAIN f
    BY <1>f DEF FormBoxes
  <2>. QED BY <1>7, <2>1
<1>10. ASSUME NEW x \in FormBoxes PROVE s[x] = g[x]
  <2>1. CASE x = "port"
    <3>1. AsStored(f)["port"] = IF f.kind = "tls" /\ f.port = Blank THEN 443 ELSE f.port
      BY <1>f, AsStoredIs
    <3>. QED BY <1>5, <1>9, <2>1, <3>1
  <2>2. CASE x = "minMbps"
    <3>1. AsStored(f)["minMbps"] = IF f.minMbps = 0 THEN Blank ELSE f.minMbps
      BY <1>f, AsStoredIs
    <3>. QED BY <1>5, <1>6, <1>8, <2>2, <3>1
  <2>3. CASE x \notin {"port", "minMbps"}
    <3>1. AsStored(f)[x] = f[x]
      BY <1>f, <2>3, AsStoredIs
    <3>. QED BY <1>5, <1>8, <2>3, <3>1
  <2>. QED BY <2>1, <2>2, <2>3
<1>11. s = [x \in FormBoxes |-> s[x]]
  BY <1>2, <1>4, ShownAgain
<1>12. s = g
  BY <1>8, <1>10, <1>11
<1>. QED BY <1>7, <1>12

(***************************************************************************)
(* Any channel the form accepts has what sending to it takes, but for mail *)
(* without recipients where the module has none either (parseChannelForm   *)
(* and sendAlert).                                                         *)
(***************************************************************************)
THEOREM ChannelsAreUsableAlways ==
    ASSUME NEW f, NEW fallback, f.kind \in ChannelKinds, f.url \in {"", "url", "host"}
    PROVE  ChannelsAreUsable(f, fallback)
BY DEF ChannelsAreUsable, ChannelAccepts, ChannelConfig, Sends, Text, ChannelKinds

\* The import's limits are no tighter than the form's.
LEMMA NumbersFitImport ==
    ASSUME NEW f, NEW n, NumbersFit(f), f.retries \in Int, n.port = f.port \/ n.port = 443,
           n.intervalSec = f.intervalSec, n.timeoutMs = f.timeoutMs, n.retries = f.retries, n.degradedMs = f.degradedMs
    PROVE  ImportNumbersFit(n)
<1>1. BlankOr(n.retries, 0, 10)
  <2>1. BlankOr(f.retries, 1, 10)
    BY DEF NumbersFit
  <2>2. PICK r \in Int : r = f.retries
    OBVIOUS
  <2>. QED BY <2>1, <2>2 DEF BlankOr, Within
<1>2. BlankOr(n.port, 1, 65535)
  <2>1. BlankOr(f.port, 1, 65535)
    BY DEF NumbersFit
  <2>2. BlankOr(443, 1, 65535)
    BY DEF BlankOr, Within
  <2>. QED BY <2>1, <2>2
<1>3. BlankOr(n.intervalSec, MinInterval, MaxInterval) /\ BlankOr(n.timeoutMs, 500, 120000)
      /\ BlankOr(n.degradedMs, 1, 120000)
  BY DEF NumbersFit
<1>. QED BY <1>1, <1>2, <1>3 DEF ImportNumbersFit

(***************************************************************************)
(* Any monitor the form accepts is one that an import takes, except that   *)
(* an import wants an address for the speed test too: none of the import's *)
(* limits is tighter than the form's (types.ts:51).                        *)
(***************************************************************************)
THEOREM FormFitsImportAlways ==
    ASSUME NEW f, f.retries \in Int
    PROVE  FormFitsImport(f)
<1>1. SUFFICES ASSUME Accepts(f), f.target # "" PROVE ImportAccepts(Saved(NoMonitor, "web", f))
  BY DEF FormFitsImport
<1>2. PICK n : n = Saved(NoMonitor, "web", f)
  OBVIOUS
<1>3. n.name = f.name /\ n.target = f.target /\ n.kind = f.kind
  BY <1>2 DEF Saved
<1>4. n.port = f.port \/ n.port = 443
  BY <1>2 DEF Saved
<1>5. n.intervalSec = f.intervalSec /\ n.timeoutMs = f.timeoutMs /\ n.retries = f.retries /\ n.degradedMs = f.degradedMs
  BY <1>2 DEF Saved
<1>6. NumbersFit(f) /\ f.name # "" /\ f.kind \in Kinds
  BY <1>1 DEF Accepts
<1>7. ImportNumbersFit(n)
  BY <1>4, <1>5, <1>6, NumbersFitImport
<1>8. ImportAccepts(n)
  BY <1>1, <1>3, <1>6, <1>7 DEF ImportAccepts
<1>. QED BY <1>2, <1>8

\* Each setting's default is within its limits.
LEMMA SettingsAre ==
    ASSUME NEW key \in DOMAIN NumberSettings
    PROVE  \E a, b, c \in Int : NumberSettings[key] = <<a, b, c>> /\ b <= a /\ a <= c
BY DEF NumberSettings, MinInterval, MaxInterval

(***************************************************************************)
(* Whatever number is stored, every setting is read within its limits, and *)
(* no monitor that the form accepted is checked more often than the least  *)
(* interval (settings.ts:8).                                               *)
(***************************************************************************)
THEOREM NoBusyLoopAlways ==
    ASSUME NEW f, NEW stored \in Int
    PROVE  NoBusyLoop(f, stored)
<1>1. ASSUME NEW key \in DOMAIN NumberSettings
      PROVE  LET s == NumberSettings[key]
             IN  Within(s[1], s[2], s[3]) /\ Within(ReadSetting(key, stored), s[2], s[3])
  <2>1. PICK a \in Int, b \in Int, c \in Int : NumberSettings[key] = <<a, b, c>> /\ b <= a /\ a <= c
    BY SettingsAre
  <2>. QED BY <2>1 DEF Within, ReadSetting, Clamp2
<1>2. ASSUME Accepts(f) PROVE Within(IntervalOf(Saved(NoMonitor, "web", f), stored), MinInterval, MaxInterval)
  <2>1. PICK i : i = f.intervalSec
    OBVIOUS
  <2>2. i = Blank \/ Within(i, MinInterval, MaxInterval)
    <3>1. NumbersFit(f)
      BY <1>2 DEF Accepts
    <3>. QED BY <2>1, <3>1 DEF NumbersFit, BlankOr
  <2>3. Saved(NoMonitor, "web", f).intervalSec = i
    BY <2>1 DEF Saved
  <2>4. Within(ReadSetting("defaultIntervalSec", stored), MinInterval, MaxInterval)
    BY DEF ReadSetting, NumberSettings, Within, Clamp2, MinInterval, MaxInterval
  <2>. QED BY <2>2, <2>3, <2>4 DEF IntervalOf
<1>. QED BY <1>1, <1>2 DEF NoBusyLoop

\* Over nothing but its own keys, a form stores its own keys.
LEMMA MergedIs ==
    ASSUME NEW prev, NEW f, f.insecureTls \in BOOLEAN, DOMAIN prev \subseteq DOMAIN ConfigFrom(f)
    PROVE  MergedConfig(prev, f) = ConfigFrom(f)
<1>. DEFINE gone == (IF f.insecureTls THEN {} ELSE {"insecureTls"}) \cup
                    (IF f.kind = "http" /\ f.expectStatus = "" THEN {"expectStatus"} ELSE {})
<1>1. PICK c : c = ConfigFrom(f)
  OBVIOUS
<1>2. PICK given : given = {x \in KeysOf(f.kind) : Given(f, x)}
  OBVIOUS
<1>3. DOMAIN c = given /\ c = [x \in given |-> c[x]]
  BY <1>1, <1>2 DEF ConfigFrom
<1>4. ASSUME NEW x \in given PROVE x \notin gone
  <2>1. f[x] # NothingIn[x]
    BY <1>2 DEF Given
  <2>2. ~(x = "insecureTls" /\ ~f.insecureTls) /\ ~(x = "expectStatus" /\ f.expectStatus = "")
    BY <2>1, NothingIs
  <2>. QED BY <2>2
<1>5. MergedConfig(prev, f) = Without(Spread(prev, c), gone)
  BY <1>1 DEF MergedConfig
<1>. HIDE DEF gone
<1>6. DOMAIN prev \subseteq given
  BY <1>1, <1>3
<1>7. PICK w : w = Spread(prev, c)
  OBVIOUS
<1>8. DOMAIN w = given /\ \A x \in given : w[x] = c[x]
  BY <1>3, <1>6, <1>7 DEF Spread
<1>9. Without(w, gone) = [x \in given \ gone |-> w[x]]
  BY <1>8 DEF Without
<1>10. given \ gone = given
  BY <1>4
<1>11. Without(w, gone) = c
  BY <1>3, <1>8, <1>9, <1>10
<1>. QED BY <1>1, <1>5, <1>7, <1>11

\* What is stored of a form, as a form.
LEMMA AsStoredGiven ==
    ASSUME NEW f, DOMAIN f = FormBoxes, f.kind \in Kinds
    PROVE  ConfigFrom(AsStored(f)) = ConfigFrom(f)
<1>1. PICK a : a = AsStored(f)
  OBVIOUS
<1>2. a.kind = f.kind
  BY <1>1, AsStoredIs DEF FormBoxes
<1>3. ASSUME NEW x \in KeysOf(f.kind)
      PROVE  (Given(a, x) <=> Given(f, x)) /\ (Given(f, x) => a[x] = f[x])
  <2>1. x \in FormBoxes /\ x # "port"
    BY KeysAre DEF FormBoxes, Kinds
  <2>2. CASE x = "minMbps"
    <3>1. a["minMbps"] = IF f.minMbps = 0 THEN Blank ELSE f.minMbps
      BY <1>1, AsStoredIs
    <3>. QED BY <2>2, <3>1, NothingIs, BlankIsNotZero DEF Given
  <2>3. CASE x # "minMbps"
    <3>1. a[x] = f[x]
      BY <1>1, <2>1, <2>3, AsStoredIs
    <3>. QED BY <2>3, <3>1 DEF Given
  <2>. QED BY <2>2, <2>3
<1>4. PICK given : given = {x \in KeysOf(f.kind) : Given(f, x)}
  OBVIOUS
<1>5. {x \in KeysOf(a.kind) : Given(a, x)} = given
  BY <1>2, <1>3, <1>4
<1>6. \A x \in given : a[x] = f[x]
  BY <1>3, <1>4
<1>7. ConfigFrom(a) = [x \in given |-> a[x]] /\ ConfigFrom(f) = [x \in given |-> f[x]]
  BY <1>4, <1>5 DEF ConfigFrom
<1>8. [x \in given |-> a[x]] = [x \in given |-> f[x]]
  BY <1>6
<1>. QED BY <1>1, <1>7, <1>8

\* A monitor saved for the first time has nothing but the form's.
LEMMA FreshConfig ==
    ASSUME NEW f, f.insecureTls \in BOOLEAN
    PROVE  Saved(NoMonitor, "web", f).config = ConfigFrom(f)
<1>1. Saved(NoMonitor, "web", f).config = MergedConfig(<<>>, f)
  BY DEF Saved
<1>2. DOMAIN <<>> \subseteq DOMAIN ConfigFrom(f)
  BY NothingStored
<1>3. MergedConfig(<<>>, f) = ConfigFrom(f)
  BY <1>2, MergedIs
<1>. QED BY <1>1, <1>3

\* A new monitor shows what its form stands for, emptied boxes too.
LEMMA FreshShown ==
    ASSUME NEW f, NEW others, NEW channels, "web" \notin others, Sendable(f, others, channels), f.kind \in Kinds
    PROVE  Shown(Saved(NoMonitor, "web", f), others, channels) = AsStored(f)
<1>1. PICK n : n = Saved(NoMonitor, "web", f)
  OBVIOUS
<1>2. PICK s : s = Shown(n, others, channels)
  OBVIOUS
<1>w. "web" # ""
  OBVIOUS
<1>f. DOMAIN f = FormBoxes /\ f.insecureTls \in BOOLEAN
  BY DEF Sendable
<1>3. DOMAIN s = FormBoxes /\ \A x \in FormBoxes : s[x] = AsStored(f)[x] \/ Emptied(f, x)
  BY <1>1, <1>2, <1>w, FormTakesEffect
<1>4. n.config = ConfigFrom(f) /\ n.kind = f.kind
  <2>1. f.insecureTls \in BOOLEAN
    BY <1>f
  <2>2. n.config = ConfigFrom(f)
    BY <1>1, <2>1, FreshConfig
  <2>3. n.kind = f.kind
    BY <1>1 DEF Saved
  <2>. QED BY <2>2, <2>3
<1>5. n # NoMonitor
  <2>1. n.id = "web" /\ NoMonitor.id = ""
    BY <1>1 DEF Saved, NoMonitor
  <2>. QED BY <2>1
<1>6. ASSUME NEW x \in FormBoxes PROVE s[x] = AsStored(f)[x]
  <2>1. SUFFICES ASSUME Emptied(f, x) PROVE s[x] = AsStored(f)[x]
    BY <1>3
  <2>2. x \in KeysOf(f.kind) /\ x \in ConfigKeys /\ x # "port" /\ ~Given(f, x)
    BY <2>1, KeysAre DEF Emptied
  <2>3. s[x] = StoredBoxes(n)[x]
    <3>1. ShownBoxes(s, n, others, channels)
      BY <1>2, ShownIs
    <3>. QED BY <1>4, <2>2, <3>1 DEF ShownBoxes
  <2>4. x \notin DOMAIN n.config
    BY <1>4, <2>2 DEF ConfigFrom
  <2>5. s[x] = NothingIn[x]
    BY <1>5, <2>2, <2>3, <2>4 DEF StoredBoxes
  <2>6. CASE x = "minMbps"
    <3>1. AsStored(f)["minMbps"] = IF f.minMbps = 0 THEN Blank ELSE f.minMbps
      BY <1>f, AsStoredIs
    <3>2. f["minMbps"] = 0 \/ f["minMbps"] = Blank
      BY <2>2, <2>6, NothingIs DEF Given
    <3>. QED BY <2>5, <2>6, <3>1, <3>2, NothingIs
  <2>7. CASE x # "minMbps"
    <3>1. AsStored(f)[x] = f[x]
      BY <1>f, <2>2, <2>7, AsStoredIs
    <3>2. f[x] = NothingIn[x]
      BY <2>2, <2>7 DEF Given
    <3>. QED BY <2>5, <3>1, <3>2
  <2>. QED BY <2>6, <2>7
<1>7. s = [x \in FormBoxes |-> s[x]]
  BY <1>2, <1>3, ShownAgain
<1>8. AsStored(f) = [x \in FormBoxes |-> AsStored(f)[x]]
  <2>1. DOMAIN AsStored(f) = FormBoxes
    BY <1>f, AsStoredIs
  <2>. QED BY ZenonT(60), <2>1 DEF AsStored
<1>9. s = AsStored(f)
  BY <1>6, <1>7, <1>8
<1>. QED BY <1>1, <1>2, <1>9

\* A port of 443 and no least speed are within the limits.
LEMMA NumbersStayFit ==
    ASSUME NEW f, NEW a, NumbersFit(f), a.port = f.port \/ a.port = 443, a.minMbps = f.minMbps \/ a.minMbps = Blank,
           a.intervalSec = f.intervalSec, a.timeoutMs = f.timeoutMs, a.retries = f.retries,
           a.degradedMs = f.degradedMs, a.payloadMb = f.payloadMb
    PROVE  NumbersFit(a)
<1>1. BlankOr(a.port, 1, 65535)
  <2>1. BlankOr(f.port, 1, 65535)
    BY DEF NumbersFit
  <2>2. BlankOr(443, 1, 65535)
    BY DEF BlankOr, Within
  <2>. QED BY <2>1, <2>2
<1>2. BlankOr(a.minMbps, 0, 100000)
  <2>1. BlankOr(f.minMbps, 0, 100000)
    BY DEF NumbersFit
  <2>2. BlankOr(Blank, 0, 100000)
    BY DEF BlankOr
  <2>. QED BY <2>1, <2>2
<1>3. /\ BlankOr(a.intervalSec, MinInterval, MaxInterval) /\ BlankOr(a.timeoutMs, 500, 120000)
      /\ BlankOr(a.retries, 1, 10) /\ BlankOr(a.degradedMs, 1, 120000) /\ BlankOr(a.payloadMb, 1, 100)
  BY DEF NumbersFit
<1>. QED BY <1>1, <1>2, <1>3 DEF NumbersFit

\* What a form stands for is accepted if the form is.
LEMMA StoredAccepted ==
    ASSUME NEW f, DOMAIN f = FormBoxes, Accepts(f)
    PROVE  Accepts(AsStored(f))
<1>1. PICK a : a = AsStored(f)
  OBVIOUS
<1>2. ASSUME NEW x \in FormBoxes \ {"port", "minMbps"} PROVE a[x] = f[x]
  BY <1>1, AsStoredIs
<1>3. /\ a.name = f.name /\ a.kind = f.kind /\ a.target = f.target /\ a.intervalSec = f.intervalSec
      /\ a.timeoutMs = f.timeoutMs /\ a.retries = f.retries /\ a.degradedMs = f.degradedMs
      /\ a.payloadMb = f.payloadMb
  <2>1. {"name", "kind", "target", "intervalSec", "timeoutMs", "retries", "degradedMs", "payloadMb"}
           \subseteq FormBoxes \ {"port", "minMbps"}
    BY DEF FormBoxes
  <2>. QED BY <1>2, <2>1
<1>4. a.port = f.port \/ (a.port = 443 /\ f.kind = "tls")
  <2>1. a["port"] = IF f.kind = "tls" /\ f.port = Blank THEN 443 ELSE f.port
    BY <1>1, AsStoredIs
  <2>. QED BY <2>1
<1>5. a.minMbps = f.minMbps \/ a.minMbps = Blank
  <2>1. a["minMbps"] = IF f.minMbps = 0 THEN Blank ELSE f.minMbps
    BY <1>1, AsStoredIs
  <2>. QED BY <2>1
<1>6. f.name # "" /\ f.kind \in Kinds /\ TargetFits(f.kind, f.target) /\ (f.kind = "tcp" => f.port # Blank)
      /\ NumbersFit(f)
  BY DEF Accepts
<1>7. NumbersFit(a)
  BY <1>3, <1>4, <1>5, <1>6, NumbersStayFit
<1>8. f.kind = "tls" => f.kind # "tcp"
  OBVIOUS
<1>9. a.kind = "tcp" => a.port # Blank
  BY <1>3, <1>4, <1>6, <1>8
<1>10. Accepts(a)
  BY <1>3, <1>6, <1>7, <1>9 DEF Accepts
<1>. QED BY <1>1, <1>10

(***************************************************************************)
(* For any form the page can send, of any kind: a monitor that was saved   *)
(* from it, shown again and saved as it stands is the same row, and the    *)
(* form accepts what it shows.                                             *)
(***************************************************************************)
THEOREM UnchangedIsUnchangedAlways ==
    ASSUME NEW f, NEW others, NEW channels, "web" \notin others, Sendable(f, others, channels)
    PROVE  UnchangedIsUnchanged(f, others, channels)
<1>1. SUFFICES ASSUME Accepts(f)
               PROVE  LET row == Saved(NoMonitor, "web", f)
                          shown == Shown(row, others, channels)
                      IN  Accepts(shown) /\ Saved(row, "web", shown) = row
  BY DEF UnchangedIsUnchanged
<1>2. PICK row : row = Saved(NoMonitor, "web", f)
  OBVIOUS
<1>3. PICK a : a = AsStored(f)
  OBVIOUS
<1>f. DOMAIN f = FormBoxes /\ f.insecureTls \in BOOLEAN /\ f.kind \in Kinds /\ f.parentId \in {""} \cup others
  BY <1>1, AcceptedKind DEF Sendable
<1>4. Shown(row, others, channels) = a
  BY <1>2, <1>3, <1>f, FreshShown
<1>5. Accepts(a)
  BY <1>1, <1>3, <1>f, StoredAccepted
<1>6. ASSUME NEW x \in FormBoxes \ {"port", "minMbps"} PROVE a[x] = f[x]
  BY <1>3, <1>f, AsStoredIs
<1>7. /\ a.name = f.name /\ a.kind = f.kind /\ a.target = f.target /\ a.intervalSec = f.intervalSec
      /\ a.timeoutMs = f.timeoutMs /\ a.retries = f.retries /\ a.degradedMs = f.degradedMs
      /\ a.parentId = f.parentId /\ a.enabled = f.enabled /\ a.routes = f.routes /\ a.insecureTls = f.insecureTls
  <2>1. {"name", "kind", "target", "intervalSec", "timeoutMs", "retries", "degradedMs", "parentId", "enabled",
         "routes", "insecureTls"} \subseteq FormBoxes \ {"port", "minMbps"}
    BY DEF FormBoxes
  <2>. QED BY <1>6, <2>1
<1>8. (IF a.kind = "tls" /\ a.port = Blank THEN 443 ELSE a.port) = (IF f.kind = "tls" /\ f.port = Blank THEN 443 ELSE f.port)
  <2>1. a["port"] = IF f.kind = "tls" /\ f.port = Blank THEN 443 ELSE f.port
    BY <1>3, <1>f, AsStoredIs
  <2>. QED BY <1>7, <2>1
<1>9. row.config = ConfigFrom(a)
  <2>1. f.insecureTls \in BOOLEAN
    BY <1>f
  <2>2. row.config = ConfigFrom(f)
    BY <1>2, <2>1, FreshConfig
  <2>3. ConfigFrom(a) = ConfigFrom(f)
    BY <1>3, <1>f, AsStoredGiven
  <2>. QED BY <2>2, <2>3
<1>10. a.insecureTls \in BOOLEAN
  BY <1>7, <1>f
<1>11. MergedConfig(row.config, a) = row.config
  <2>1. DOMAIN row.config \subseteq DOMAIN ConfigFrom(a)
    BY <1>9
  <2>. QED BY <1>9, <1>10, <2>1, MergedIs
<1>12. row # NoMonitor
  <2>1. row.id = "web" /\ NoMonitor.id = ""
    BY <1>2 DEF Saved, NoMonitor
  <2>. QED BY <2>1
<1>13. MergedConfig(IF row = NoMonitor THEN <<>> ELSE row.config, a) = row.config
  BY <1>11, <1>12
<1>14. MergedConfig(IF NoMonitor = NoMonitor THEN <<>> ELSE NoMonitor.config, f) = row.config
  <2>1. Saved(NoMonitor, "web", f).config = MergedConfig(IF NoMonitor = NoMonitor THEN <<>> ELSE NoMonitor.config, f)
    BY DEF Saved
  <2>. QED BY <1>2, <2>1
<1>15. Saved(row, "web", a) = row
  BY <1>2, <1>7, <1>8, <1>13, <1>14 DEF Saved
<1>. QED BY <1>2, <1>4, <1>5, <1>15
==============================================================================
