---------------------------- MODULE Publishing -----------------------------
(***************************************************************************)
(* How one helper is published: its tree on the two branches, the tags cut *)
(* from them, and the manifest each channel serves.  Two scripts stand in  *)
(* between: check-helper-surface.mjs before a tag is cut, and              *)
(* check-manifest.mjs before a branch is pushed.  Both look at the tags of *)
(* the clone they run in; tags are pushed apart from their branch.  A      *)
(* version is a line (X.Y.Z) and the number of its pre-release, 0 for the  *)
(* release itself.  The surface is one export, there or not.               *)
(***************************************************************************)
EXTENDS Integers

CONSTANTS
    Version        \* the versions that may be given out

ASSUME VersionAssumption == Version \subseteq [line : Nat, pre : Nat]

VARIABLES
    heads,         \* branch -> the tree committed there, and what its manifest says
    tags,          \* version -> its surface when it was cut; what is tagged stays as it is
    pushed,        \* tags the installer can fetch
    live,          \* branch -> the version its channel serves
    against,       \* what stable served when beta was last pushed
    \* history
    alone,         \* branches last pushed without the tag of their version
    under          \* tags cut while there was one above them
publishVars == <<heads, tags, pushed, live, against, alone, under>>

Branch == {"main", "beta"}
Surface == [exports : BOOLEAN, breaks : BOOLEAN]
Tree == [lists : Version,       \* the entry's version in addons.json
         agrees : BOOLEAN,      \* helper.ts declares that version too
         exports : BOOLEAN,     \* api.ts has the export
         breaks : BOOLEAN]      \* the entry's breakingFrom names that version

PublishTypeOK ==
    /\ heads \in [Branch -> Tree]
    /\ DOMAIN tags \subseteq Version /\ \A v \in DOMAIN tags : tags[v] \in Surface
    /\ live \in [Branch -> Version] /\ against \in Version
    /\ pushed \subseteq DOMAIN tags /\ alone \subseteq Branch /\ under \subseteq DOMAIN tags

-----------------------------------------------------------------------------
(* Orders of versions. *)

\* Semver: a release comes after its pre-releases, which come by number.
Earlier(v, w) ==
    \/ v.line < w.line
    \/ v.line = w.line /\ v.pre > 0 /\ (w.pre = 0 \/ v.pre < w.pre)

\* As text, "10" comes before "9": numbers below 100, by their first digit and the shorter first.
AsText(n) == IF n < 10 THEN 20 * n ELSE 20 * (n \div 10) + 1 + (n % 10)

\* Mutant: a release is taken for the lowest of its line.
BehindByNumber(v, w) ==
    \/ v.line < w.line
    \/ v.line = w.line /\ AsText(v.pre) < AsText(w.pre)

\* cmpVersion(v, w) < 0: pre-releases are compared as text.
Behind(v, w) ==
    \/ v.line < w.line
    \/ v.line = w.line /\ v.pre > 0 /\ (w.pre = 0 \/ AsText(v.pre) < AsText(w.pre))

\* lastPublishedTag: localeCompare with numbers, so a release comes before its pre-releases.
NewestTag ==
    CHOOSE v \in DOMAIN tags : \A w \in DOMAIN tags :
        w.line < v.line \/ (w.line = v.line /\ w.pre <= v.pre)

-----------------------------------------------------------------------------
(* The two checks. *)

\* Whether a removal since the newest tag is declared.
SurfacePasses(tree) ==
    DOMAIN tags # {} /\ tags[NewestTag].exports /\ ~tree.exports => tree.breaks

\* What is served has a tag and the right version; beta is not behind main.
ManifestPasses(b) ==
    LET v == heads[b].lists IN
    /\ DOMAIN tags # {} => v \in DOMAIN tags
    /\ b = "main" => v.pre = 0
    /\ heads[b].agrees
    /\ b = "beta" => ~Behind(v, heads["main"].lists)

-----------------------------------------------------------------------------
\* The helper is at its first release, on both channels.
PublishInit ==
    \E v \in Version :
        LET tree == [lists |-> v, agrees |-> TRUE, exports |-> TRUE, breaks |-> FALSE] IN
        /\ v.pre = 0 /\ \A w \in Version : ~Earlier(w, v)
        /\ heads = [b \in Branch |-> tree] /\ tags = [w \in {v} |-> [exports |-> TRUE, breaks |-> FALSE]]
        /\ pushed = {v} /\ alone = {} /\ under = {}
        /\ live = [b \in Branch |-> v] /\ against = v

\* The export is taken out, or put back, on a branch.
ChangeSurface(b) ==
    /\ heads' = [heads EXCEPT ![b].exports = ~@]
    /\ UNCHANGED <<tags, pushed, live, against, alone, under>>

\* A later version, or for beta the one main has, is written to the manifest; to the code as well, or not yet.
Bump(b, v, breaks, agrees) ==
    /\ v # heads[b].lists
    /\ Earlier(heads[b].lists, v) \/ (b = "beta" /\ v = heads["main"].lists)
    /\ heads' = [heads EXCEPT ![b] = [lists |-> v, agrees |-> agrees, exports |-> @.exports, breaks |-> breaks]]
    /\ UNCHANGED <<tags, pushed, live, against, alone, under>>

DeclareVersion(b) ==
    /\ ~heads[b].agrees
    /\ heads' = [heads EXCEPT ![b].agrees = TRUE]
    /\ UNCHANGED <<tags, pushed, live, against, alone, under>>

\* A branch takes the later tree of the other.
Promote(from, to) ==
    /\ Earlier(heads[to].lists, heads[from].lists)
    /\ heads' = [heads EXCEPT ![to] = heads[from]]
    /\ UNCHANGED <<tags, pushed, live, against, alone, under>>

\* The surface is checked and the version tagged, once, in this clone.
CutTag(b) ==
    LET v == heads[b].lists IN
    /\ v \notin DOMAIN tags
    /\ SurfacePasses(heads[b])
    /\ tags' = [w \in DOMAIN tags \cup {v} |-> IF w = v THEN [exports |-> heads[b].exports, breaks |-> heads[b].breaks] ELSE tags[w]]
    /\ under' = IF \E w \in DOMAIN tags : Earlier(v, w) THEN under \cup {v} ELSE under
    /\ UNCHANGED <<heads, pushed, live, against, alone>>

\* A tag that was left behind follows.
PushTag(v) ==
    /\ v \in DOMAIN tags \ pushed
    /\ pushed' = pushed \cup {v}
    /\ UNCHANGED <<heads, tags, live, against, alone, under>>

\* The manifest is checked and the branch pushed, which is what its channel then
\* serves; with the tag of its version, or without.
Push(b, along) ==
    LET v == heads[b].lists IN
    /\ ManifestPasses(b)
    /\ along => v \in DOMAIN tags
    /\ pushed' = IF along THEN pushed \cup {v} ELSE pushed
    /\ alone' = IF v \in pushed' THEN alone \ {b} ELSE alone \cup {b}
    /\ live' = [live EXCEPT ![b] = v]
    /\ against' = IF b = "beta" THEN live["main"] ELSE against
    /\ UNCHANGED <<heads, tags, under>>

PublishNext ==
    \/ \E b \in Branch :
          \/ ChangeSurface(b) \/ DeclareVersion(b) \/ CutTag(b)
          \/ \E along \in BOOLEAN : Push(b, along)
          \/ \E v \in Version, breaks \in BOOLEAN, agrees \in BOOLEAN : Bump(b, v, breaks, agrees)
    \/ \E v \in Version : PushTag(v)
    \/ Promote("beta", "main") \/ Promote("main", "beta")

PublishSpec == PublishInit /\ [][PublishNext]_publishVars

-----------------------------------------------------------------------------
\* What a channel serves can be fetched, unless its branch was pushed without
\* the tag, which can follow; and stable serves no pre-release.
ServedIsTagged ==
    /\ \A b \in Branch : live[b] \in pushed \/ (b \in alone /\ live[b] \in DOMAIN tags)
    /\ live["main"].pre = 0

\* What beta serves is by semver not below what stable served when it was pushed.
BetaIsNotBehind == ~Earlier(live["beta"], against)

\* A release that had pre-releases: the check compares with the last of those instead.
PassedOver(v) == v.pre = 0 /\ \E w \in DOMAIN tags : w.line = v.line /\ w.pre > 0

\* An export that was in one version and is gone from a later one was declared
\* on the way, or a tag on the way was cut under another.
RemovalsAreDeclared ==
    \A v, w \in DOMAIN tags :
        Earlier(v, w) /\ tags[v].exports /\ ~tags[w].exports /\ ~PassedOver(v)
        => \E u \in DOMAIN tags :
              /\ u = v \/ Earlier(v, u)
              /\ u = w \/ Earlier(u, w)
              /\ u \in under \/ (u # v /\ tags[u].breaks)

(* What the two checks let through, and no more: a served version was tagged,
   so it can be fetched if its branch was pushed with the tag, as it should;
   beta was not behind stable when it was pushed, although the check reads the
   local main and compares pre-releases as text, but may be once stable moves;
   and a removal is declared on the way of those who update, but to those who
   come from a release that had pre-releases, or past tags that were not cut
   in order. *)
PublishedIsUsable == ServedIsTagged /\ BetaIsNotBehind /\ RemovalsAreDeclared
=============================================================================
