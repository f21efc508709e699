---------------------------- MODULE HealthConfig ----------------------------
(***************************************************************************)
(* Monitors, channels and the routes between them, as administrators save, *)
(* delete and import them (addons/health-monitor: actions.ts,              *)
(* lib/config.ts and the tables of lib/store.ts).  Every action reads what *)
(* it needs, and then runs its statements one by one, beside those of      *)
(* other tabs; ids of deleted rows are given out again.                    *)
(***************************************************************************)
EXTENDS Naturals, FiniteSets, SequencesExt

CONSTANTS
    MonitorName,   \* ids a new monitor's name can lead to, in uniqueId's order
    ChannelName,   \* likewise for a channel
    ConfigTab,     \* tabs in which an action can be going on
    Document       \* texts of the import box: channels, and monitors with their channels

MonitorIds == ToSet(MonitorName)
ChannelIds == ToSet(ChannelName)
Ids == MonitorIds \cup ChannelIds

ASSUME ConfigConstantsOK ==
    /\ IsInjective(MonitorName) /\ IsInjective(ChannelName)
    /\ MonitorIds \cap ChannelIds = {}
    /\ IsFiniteSet(Ids)
    /\ Document \subseteq [channels : SUBSET ChannelIds, monitors : SUBSET MonitorIds, picks : SUBSET ChannelIds]

VARIABLES
    rows,       \* ids in the monitors and channels tables
    routes,     \* routes table
    shown,      \* channels a page that is still open may name: all there ever were
    script,     \* what each tab's action has still to run, the monitors it has still
                \* to import after that, and the ids it is about
    \* history
    outlived,   \* routes that were there while their monitor or channel was not
    blind,      \* those of them that were written at such a moment
    crossed     \* ids two actions were about at once, or one left unfinished

configVars == <<rows, routes, shown, script, outlived, blind, crossed>>

NothingToDo == [about |-> {}, left |-> <<>>, monitors |-> {}, picks |-> {}]
Statement == [run : {"upsert", "clear", "delete", "unroute"}, id : Ids] \cup [run : {"route"}, id : MonitorIds, to : ChannelIds]

ConfigTypeOK ==
    /\ rows \subseteq Ids
    /\ routes \subseteq MonitorIds \X ChannelIds
    /\ shown \subseteq ChannelIds
    /\ script \in [ConfigTab -> [about : SUBSET Ids, left : Seq(Statement),
                                monitors : SUBSET MonitorIds, picks : SUBSET ChannelIds]]
    /\ outlived \subseteq routes /\ blind \subseteq routes
    /\ crossed \subseteq Ids

ConfigInit ==
    /\ rows = {}
    /\ routes = {}
    /\ shown = {}
    /\ script = [t \in ConfigTab |-> NothingToDo]
    /\ outlived = {}
    /\ blind = {}
    /\ crossed = {}

\* uniqueId: the first id of the name that is not taken.
UniqueId(name) ==
    {name[i] : i \in {j \in DOMAIN name : \A k \in 1..j : (name[k] \in rows) = (k < j)}}

Do(what, x) == [run |-> what, id |-> x]
RouteTo(m, c) == [run |-> "route", id |-> m, to |-> c]

\* setRoutes: what the monitor had goes, then one row per channel.
SetRoutes(m, picks) == <<Do("clear", m)>> \o SetToSeq({RouteTo(m, c) : c \in picks})
Storing(m, picks) == <<Do("upsert", m)>> \o SetRoutes(m, picks)

\* Where a script goes on: an import turns to its next monitor.
Onwards(s) ==
    IF s.left # <<>> THEN {s}
    ELSE IF s.monitors = {} THEN {NothingToDo}
    ELSE {[s EXCEPT !.left = Storing(m, s.picks), !.monitors = @ \ {m}] : m \in s.monitors}

\* An action begins: it is about some ids, which others may be about as well.
BeginsImport(t, about, statements, monitors, picks) ==
    /\ script[t] = NothingToDo
    /\ \E s \in Onwards([about |-> about, left |-> statements, monitors |-> monitors, picks |-> picks]) :
          script' = [script EXCEPT ![t] = s]
    /\ crossed' = crossed \cup (about \cap UNION {script[u].about : u \in ConfigTab})
    /\ UNCHANGED <<rows, routes, shown, outlived, blind>>

Begins(t, about, statements) == BeginsImport(t, about, statements, {}, {})

-----------------------------------------------------------------------------
\* A monitor that is there is updated; a new one takes a free id.  Whether the
\* channels picked are still there is not asked.
SaveMonitor(t, m, picks) ==
    /\ m \in (MonitorIds \cap rows) \cup UniqueId(MonitorName)
    /\ picks \subseteq shown
    /\ Begins(t, {m} \cup picks, Storing(m, picks))

DeleteMonitor(t, m) ==
    /\ m \in MonitorIds \cap rows
    /\ Begins(t, {m}, <<Do("clear", m), Do("delete", m)>>)

\* The id of a page's form is taken as it is.
SaveChannel(t, c) ==
    /\ c \in shown \cup UniqueId(ChannelName)
    /\ Begins(t, {c}, <<Do("upsert", c)>>)

\* Mutant: the routes to a deleted channel are left.
ChannelRemovalAlone(c) == <<Do("delete", c)>>

ChannelRemoval(c) == <<Do("unroute", c), Do("delete", c)>>

DeleteChannel(t, c) ==
    /\ c \in ChannelIds \cap rows
    /\ Begins(t, {c}, ChannelRemoval(c))

\* importConfigJson adds and updates, channels first, and deletes nothing.
ImportConfig(t, doc) ==
    BeginsImport(t, doc.channels \cup doc.monitors \cup doc.picks,
                 SetToSeq({Do("upsert", c) : c \in doc.channels}), doc.monitors, doc.picks)

-----------------------------------------------------------------------------
(* One statement of an action. *)

NextStatement(t) == Head(script[t].left)
Ran(t) ==
    \E s \in Onwards([script[t] EXCEPT !.left = Tail(@)]) : script' = [script EXCEPT ![t] = s]

TurnTo(t, what) == script[t] # NothingToDo /\ NextStatement(t).run = what /\ Ran(t)

\* INSERT ... ON CONFLICT DO UPDATE
Upsert(t) ==
    /\ TurnTo(t, "upsert")
    /\ rows' = rows \cup {NextStatement(t).id}
    /\ shown' = shown \cup ({NextStatement(t).id} \cap ChannelIds)
    /\ UNCHANGED <<routes, outlived, blind, crossed>>

DeleteRow(t) ==
    /\ TurnTo(t, "delete")
    /\ rows' = rows \ {NextStatement(t).id}
    /\ outlived' = outlived \cup {r \in routes : NextStatement(t).id \in {r[1], r[2]}}
    /\ UNCHANGED <<routes, shown, blind, crossed>>

OnlyThese(left) ==
    /\ routes' = left
    /\ outlived' = outlived \cap left
    /\ blind' = blind \cap left
    /\ UNCHANGED <<rows, shown, crossed>>

ClearRoutes(t) ==
    /\ TurnTo(t, "clear")
    /\ OnlyThese({r \in routes : r[1] # NextStatement(t).id})

Unroute(t) ==
    /\ TurnTo(t, "unroute")
    /\ OnlyThese({r \in routes : r[2] # NextStatement(t).id})

\* INSERT OR IGNORE, whether or not the channel is there.
InsertRoute(t) ==
    /\ TurnTo(t, "route")
    /\ LET r == <<NextStatement(t).id, NextStatement(t).to>>
           amiss == IF {r[1], r[2]} \subseteq rows THEN {} ELSE {r}
       IN  /\ routes' = routes \cup {r}
           /\ outlived' = (outlived \ {r}) \cup amiss
           /\ blind' = (blind \ {r}) \cup amiss
    /\ UNCHANGED <<rows, shown, crossed>>

\* The process stops, or a statement throws.
GiveUp(t) ==
    /\ script[t] # NothingToDo
    /\ script' = [script EXCEPT ![t] = NothingToDo]
    /\ crossed' = crossed \cup script[t].about
    /\ UNCHANGED <<rows, routes, shown, outlived, blind>>

ConfigNext ==
    \E t \in ConfigTab :
        \/ \E m \in MonitorIds, picks \in SUBSET ChannelIds : SaveMonitor(t, m, picks)
        \/ \E m \in MonitorIds : DeleteMonitor(t, m)
        \/ \E c \in ChannelIds : SaveChannel(t, c) \/ DeleteChannel(t, c)
        \/ \E doc \in Document : ImportConfig(t, doc)
        \/ Upsert(t) \/ DeleteRow(t) \/ ClearRoutes(t) \/ Unroute(t) \/ InsertRoute(t) \/ GiveUp(t)

ConfigSpec == ConfigInit /\ [][ConfigNext]_configVars

-----------------------------------------------------------------------------
(***************************************************************************)
(* Deletions take their routes along: a route does not outlive its monitor *)
(* or its channel, to be found by a new one that is given the same id.     *)
(* Said of ids that no two actions were about at once, and that none left  *)
(* half done; and not of a route that was written for a channel which was  *)
(* not there: a page that is still open, or a document, may name one, the  *)
(* code does not look, and a channel that gets the id later gets the route.*)
(***************************************************************************)
RoutesWereChosen ==
    \A r \in outlived \ blind : r[1] \in rows /\ r[2] \in rows => {r[1], r[2]} \cap crossed # {}
=============================================================================
