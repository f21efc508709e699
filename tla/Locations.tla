----------------------------- MODULE Locations ------------------------------
(***************************************************************************)
(* Where modules may work (helpers/filesystem: api.ts, lib/admin.ts,       *)
(* lib/paths.ts): folders an administrator approved, folders modules ask   *)
(* for, and the switches that let every folder in.  A call finds its       *)
(* folder, asks its switch and checks its paths in steps, while            *)
(* administrators change what it reads and folders turn into links.        *)
(***************************************************************************)
EXTENDS Naturals, Sequences

CONSTANTS
    Folder,       \* folders of the machine
    Holds,        \* pairs of a folder and one in it or itself
    Drive,        \* drive roots
    Spelling,     \* paths as they are typed
    Spells,       \* the folder each of them is written for
    Barred,       \* writeForbiddenRoots: JonDash's own folder and the system's
    FileModule,   \* modules that use the helper
    Asker,        \* calls that may be under way
    ModuleOf,     \* the module each call is made by
    Declares,     \* the verbs each module declared
    AdminPage,    \* pages administrators have open
    Wish          \* ids of rows of the suggestions table

Verb == {"read", "write", "delete"}

ASSUME LocationConstantsOK ==
    /\ Holds \subseteq Folder \X Folder
    /\ \A f \in Folder : <<f, f>> \in Holds
    /\ Drive \cup Barred \subseteq Folder
    /\ Spells \in [Spelling -> Folder]
    /\ ModuleOf \in [Asker -> FileModule]
    /\ Declares \in [FileModule -> SUBSET Verb]

VARIABLES
    roots,        \* roots table, by path
    everything,   \* verbs whose "everything" switch is on
    wishes,       \* suggestions table
    leads,        \* the machine: where the path of each folder leads
    page,         \* what each administrator's page is doing
    errand,       \* what each call is doing
    \* history
    inForce,      \* what was approved at some moment of each call
    ledTo,        \* where folders led at some moment of each call
    contested     \* suggestions two pages dealt with at once, or asked for twice

locationVars == <<roots, everything, wishes, leads, page, errand, inForce, ledTo, contested>>

(* What a call is for: the capability it needs, and each end with the switch
   and the rules that apply to it. *)
Errand == {"browse", "start", "listSnapshots", "prune"}
Capability(e) == IF e = "start" THEN "write" ELSE IF e = "prune" THEN "delete" ELSE "read"
Sides(e) == IF e = "start" THEN <<"source", "dest">> ELSE IF e = "browse" THEN <<"source">> ELSE <<"dest">>
SwitchFor(e, end) ==
    IF end = "source" \/ e = "listSnapshots" THEN "read" ELSE IF e = "prune" THEN "delete" ELSE "write"

NoErrand == [at |-> "none"]
NoPage == [at |-> "none"]
NoWish == [state |-> "none"]
Root == [path : Folder, synthetic : BOOLEAN]

LocationsTypeOK ==
    /\ roots \subseteq Folder
    /\ everything \subseteq Verb
    /\ wishes \in [Wish -> {NoWish} \cup
          [state : {"open", "accepted", "declined"}, by : FileModule, path : Spelling]]
    /\ leads \in [Folder -> Folder]
    /\ page \in [AdminPage -> {NoPage} \cup [at : {"add", "mark"}, wish : Wish] \cup
                              [at : {"insert"}, path : Folder, wish : Wish \cup {"none"}]]
    /\ \A c \in Asker : errand[c].at \in {"none", "suggest", "find", "switch", "check", "granted", "work"}
    /\ inForce \in [Asker -> SUBSET (Folder \cup Verb)]
    /\ ledTo \in [Asker -> SUBSET (Folder \X Folder)]
    /\ contested \subseteq Wish

LocationsInit ==
    /\ roots = {}
    /\ everything = {}
    /\ wishes = [w \in Wish |-> NoWish]
    /\ leads = [f \in Folder |-> f]
    /\ page = [a \in AdminPage |-> NoPage]
    /\ errand = [c \in Asker |-> NoErrand]
    /\ inForce = [c \in Asker |-> {}]
    /\ ledTo = [c \in Asker |-> {}]
    /\ contested = {}

\* contains (paths.ts): the second path is the first or lies in it.
Encloses(f, g) == <<f, g>> \in Holds
Overlap(f, g) == Encloses(f, g) \/ Encloses(g, f)

\* assertUsableAsSource follows links; assertUsableAsDestination also bars
\* what holds, or lies in, a forbidden folder.
Usable(f, end) == end = "source" \/ \A b \in Barred : ~Overlap(b, leads[f])

Notice ==
    /\ inForce' = [c \in Asker |->
          IF errand'[c] = NoErrand THEN {} ELSE inForce[c] \cup roots' \cup everything']
    /\ ledTo' = [c \in Asker |->
          IF errand'[c] = NoErrand THEN {} ELSE ledTo[c] \cup {<<f, leads'[f]>> : f \in Folder}]

PageTurns(a, p) == page' = [page EXCEPT ![a] = p]
PagesOn(w) == {a \in AdminPage : page[a].at # "none" /\ page[a].wish = w}

-----------------------------------------------------------------------------
(* What administrators do. *)

\* addRoot looks the canonical path up, and inserts it in a later statement.
AddRoot(a, f) ==
    /\ page[a] = NoPage
    /\ leads[f] \notin roots
    /\ PageTurns(a, [at |-> "insert", path |-> leads[f], wish |-> "none"])
    /\ UNCHANGED <<roots, everything, wishes, leads, errand, contested>>
    /\ Notice

\* The path is unique: of two that add it, one fails.
InsertRoot(a) ==
    /\ page[a].at = "insert"
    /\ roots' = roots \cup {page[a].path}
    /\ PageTurns(a, IF page[a].wish = "none" \/ page[a].path \in roots THEN NoPage
                    ELSE [at |-> "mark", wish |-> page[a].wish])
    /\ UNCHANGED <<everything, wishes, leads, errand, contested>>
    /\ Notice

RemoveRoot(f) ==
    /\ f \in roots
    /\ roots' = roots \ {f}
    /\ UNCHANGED <<everything, wishes, leads, page, errand, contested>>
    /\ Notice

SetEverything(v, on) ==
    /\ everything' = IF on THEN everything \cup {v} ELSE everything \ {v}
    /\ everything' # everything
    /\ UNCHANGED <<roots, wishes, leads, page, errand, contested>>
    /\ Notice

\* acceptSuggestion: still open when read, then approved, then marked.
AcceptSuggestion(a, w) ==
    /\ page[a] = NoPage
    /\ wishes[w].state = "open"
    /\ PageTurns(a, [at |-> "add", wish |-> w])
    /\ contested' = contested \cup (IF PagesOn(w) = {} THEN {} ELSE {w})
    /\ UNCHANGED <<roots, everything, wishes, leads, errand>>
    /\ Notice

AddSuggested(a) ==
    /\ page[a].at = "add"
    /\ LET f == leads[Spells[wishes[page[a].wish].path]]
       IN  PageTurns(a, IF f \in roots THEN [page[a] EXCEPT !.at = "mark"]
                        ELSE [at |-> "insert", path |-> f, wish |-> page[a].wish])
    /\ UNCHANGED <<roots, everything, wishes, leads, errand, contested>>
    /\ Notice

MarkAccepted(a) ==
    /\ page[a].at = "mark"
    /\ wishes' = [wishes EXCEPT ![page[a].wish].state = "accepted"]
    /\ PageTurns(a, NoPage)
    /\ UNCHANGED <<roots, everything, leads, errand, contested>>
    /\ Notice

DeclineSuggestion(w) ==
    /\ wishes[w].state = "open"
    /\ wishes' = [wishes EXCEPT ![w].state = "declined"]
    /\ contested' = contested \cup (IF PagesOn(w) = {} THEN {} ELSE {w})
    /\ UNCHANGED <<roots, everything, leads, page, errand>>
    /\ Notice

-----------------------------------------------------------------------------
(* What modules do. *)

ErrandTurns(c, e) == errand' = [errand EXCEPT ![c] = e]
Refuse(c) == ErrandTurns(c, NoErrand)

\* Mutant: a declined request may be made again.
AlreadyOpen(m, s) == {w \in Wish : wishes[w].state = "open" /\ wishes[w].by = m /\ wishes[w].path = s}

\* The path as it was typed, which may be one of many for the same folder.
Already(m, s) ==
    {w \in Wish : wishes[w].state \in {"open", "declined"} /\ wishes[w].by = m /\ wishes[w].path = s}

\* suggestRoot looks for a request that is open or declined, and inserts one
\* in a later statement.
SuggestRoot(c, s) ==
    /\ errand[c] = NoErrand
    /\ "read" \in Declares[ModuleOf[c]]
    /\ Already(ModuleOf[c], s) = {}
    /\ ErrandTurns(c, [at |-> "suggest", path |-> s])
    /\ UNCHANGED <<roots, everything, wishes, leads, page, contested>>
    /\ Notice

AskedTwice(c) ==
    \E d \in Asker \ {c} : errand[d] = errand[c] /\ ModuleOf[d] = ModuleOf[c]

InsertSuggestion(c, w) ==
    /\ errand[c].at = "suggest"
    /\ wishes[w] = NoWish
    /\ wishes' = [wishes EXCEPT ![w] = [state |-> "open", by |-> ModuleOf[c], path |-> errand[c].path]]
    /\ contested' = contested \cup (IF AskedTwice(c) THEN {w} ELSE {})
    /\ ErrandTurns(c, NoErrand)
    /\ UNCHANGED <<roots, everything, leads, page>>
    /\ Notice

SwitchIsOn(v) == v \in everything

\* A call names a root for each of its ends, by id.
Request(c, e, wanted) ==
    /\ errand[c] = NoErrand
    /\ Capability(e) \in Declares[ModuleOf[c]]
    /\ DOMAIN wanted = DOMAIN Sides(e)
    /\ ErrandTurns(c, [at |-> "find", for |-> e, wanted |-> wanted, places |-> <<>>])
    /\ UNCHANGED <<roots, everything, wishes, leads, page, contested>>
    /\ Notice

EndOf(c) == Len(errand[c].places) + 1
Wanted(c) == errand[c].wanted[EndOf(c)]
Side(c) == Sides(errand[c].for)[EndOf(c)]

\* A synthetic root is there while any switch is on and its drive is not stored.
FindRoot(c) ==
    /\ errand[c].at = "find"
    /\ IF Wanted(c).synthetic
       THEN IF Wanted(c).path \in Drive \ roots /\ everything # {}
            THEN ErrandTurns(c, [errand[c] EXCEPT !.at = "switch"]) ELSE Refuse(c)
       ELSE IF Wanted(c).path \in roots
            THEN ErrandTurns(c, [errand[c] EXCEPT !.at = "check"]) ELSE Refuse(c)
    /\ UNCHANGED <<roots, everything, wishes, leads, page, contested>>
    /\ Notice

AskSwitch(c) ==
    /\ errand[c].at = "switch"
    /\ IF SwitchIsOn(SwitchFor(errand[c].for, Side(c)))
       THEN ErrandTurns(c, [errand[c] EXCEPT !.at = "check"]) ELSE Refuse(c)
    /\ UNCHANGED <<roots, everything, wishes, leads, page, contested>>
    /\ Notice

\* Mutant: the folder asked for is joined and never looked at again.
InRootOrNot(root, place) == TRUE

\* The joined path is compared with where the root leads now, as text: what a
\* link below the root leads to is not asked.
InRoot(root, place) == Encloses(leads[root], place)

\* The root and the folder asked for in it; both ends of a copy must be apart.
CheckPlace(c, place) ==
    LET places == Append(errand[c].places, place)
        last == Len(places) = Len(Sides(errand[c].for))
    IN  /\ errand[c].at = "check"
        /\ IF \/ ~Usable(Wanted(c).path, Side(c))
              \/ ~InRoot(Wanted(c).path, place)
              \/ last /\ errand[c].for = "start" /\ Overlap(places[1], places[2])
           THEN Refuse(c)
           ELSE ErrandTurns(c, [errand[c] EXCEPT !.at = IF last THEN "granted" ELSE "find", !.places = places])
        /\ UNCHANGED <<roots, everything, wishes, leads, page, contested>>
        /\ Notice

\* runCopy and planPrune check where they will write once more.
BeginWork(c) ==
    /\ errand[c].at = "granted"
    /\ IF errand[c].for \in {"start", "prune"} /\ ~Usable(errand[c].places[Len(errand[c].places)], "dest")
       THEN Refuse(c)
       ELSE ErrandTurns(c, [errand[c] EXCEPT !.at = "work"])
    /\ UNCHANGED <<roots, everything, wishes, leads, page, contested>>
    /\ Notice

EndWork(c) ==
    /\ errand[c].at = "work"
    /\ Refuse(c)
    /\ UNCHANGED <<roots, everything, wishes, leads, page, contested>>
    /\ Notice

\* Somebody turns an ordinary folder into a link, or a link into a folder.
Relink(f, g) ==
    /\ f \notin Drive \cup Barred
    /\ leads[g] = g \/ g = f
    /\ \A h \in Folder : h # f => leads[h] # f /\ ~Encloses(f, h)
    /\ leads[f] # g
    /\ leads' = [leads EXCEPT ![f] = g]
    /\ UNCHANGED <<roots, everything, wishes, page, errand, contested>>
    /\ Notice

LocationsNext ==
    \/ \E a \in AdminPage, f \in Folder : AddRoot(a, f)
    \/ \E f \in Folder : RemoveRoot(f)
    \/ \E v \in Verb, on \in BOOLEAN : SetEverything(v, on)
    \/ \E a \in AdminPage, w \in Wish : AcceptSuggestion(a, w)
    \/ \E a \in AdminPage : InsertRoot(a) \/ AddSuggested(a) \/ MarkAccepted(a)
    \/ \E w \in Wish : DeclineSuggestion(w)
    \/ \E c \in Asker, s \in Spelling : SuggestRoot(c, s)
    \/ \E c \in Asker, f \in Folder : CheckPlace(c, f)
    \/ \E c \in Asker, w \in Wish : InsertSuggestion(c, w)
    \/ \E c \in Asker, e \in Errand : \E wanted \in [DOMAIN Sides(e) -> Root] : Request(c, e, wanted)
    \/ \E c \in Asker : FindRoot(c) \/ AskSwitch(c) \/ BeginWork(c) \/ EndWork(c)
    \/ \E f, g \in Folder : Relink(f, g)

LocationsSpec == LocationsInit /\ [][LocationsNext]_locationVars

-----------------------------------------------------------------------------
(***************************************************************************)
(* A call works only where an administrator let it.  The path of each end  *)
(* lies where an approved folder, or a drive while the switch of this very *)
(* verb was on, led at a moment of the call; and a copy or a prune writes  *)
(* only on a path that led clear of JonDash's folder and the system's at   *)
(* such a moment.  Approvals, other verbs' switches and links race with    *)
(* the call's reads.  The promise is about paths: what a link below the    *)
(* root leads to, or a folder that becomes one after the last check, is    *)
(* not part of it.                                                         *)
(***************************************************************************)
ApprovedEnd(e, i, approved, led) ==
    LET r == e.wanted[i]
    IN  /\ (IF r.synthetic THEN SwitchFor(e.for, Sides(e.for)[i]) ELSE r.path) \in approved
        /\ \E g \in Folder : <<r.path, g>> \in led /\ Encloses(g, e.places[i])

ClearOfBarred(e, led) ==
    \E g \in Folder : /\ <<e.places[Len(e.places)], g>> \in led
                      /\ \A b \in Barred : ~Overlap(b, g)

ReachWasApproved ==
    \A c \in Asker :
        /\ errand[c].at \in {"granted", "work"} =>
              \A i \in DOMAIN errand[c].wanted : ApprovedEnd(errand[c], i, inForce[c], ledTo[c])
        /\ errand[c].at = "work" /\ errand[c].for \in {"start", "prune"} =>
              ClearOfBarred(errand[c], ledTo[c])

(***************************************************************************)
(* A path an administrator declined is not put before one again by the     *)
(* same module as long as it is typed as it was: the code compares the     *)
(* text, so another spelling of the same folder is another request.  Said  *)
(* of requests that were not accepted on another page at that moment, nor  *)
(* asked for twice at once: the code reads a request and writes it in two  *)
(* statements.                                                             *)
(***************************************************************************)
DeclinesAreRemembered ==
    \A v, w \in Wish \ contested :
        /\ wishes[v].state = "declined"
        /\ wishes[w].state = "open"
        => <<wishes[v].by, wishes[v].path>> # <<wishes[w].by, wishes[w].path>>
=============================================================================
