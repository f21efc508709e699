---------------------------- MODULE CopyEngine ------------------------------
(***************************************************************************)
(* One module's copy runs (helpers/filesystem: lib/copy.ts, lib/secrets.ts *)
(* and start in api.ts): the secrets are looked up, the source is walked,  *)
(* every file is compared, searched for secrets and copied in steps of its *)
(* own, while people and programs change the tree; then the row is settled.*)
(***************************************************************************)
EXTENDS Naturals, FiniteSets

CONSTANTS
    File,          \* paths of files below the source
    Subfolder,        \* folders directly below it
    Inside,        \* where each file is: a member of Subfolder, or "top"
    SecretPath,    \* candidatePaths: files that hold secrets when they exist
    SecretFolder,  \* candidatePaths: folders that do
    Ident,         \* dev:ino pairs
    Content,       \* what a file may hold
    SizeOf,        \* its size
    TimeOf,        \* when it was written, times two seconds apart being equal
    Small          \* contents of at most CONTENT_CHECK_MAX_BYTES

ASSUME CopyConstantsOK ==
    /\ Inside \in [File -> Subfolder \cup {"top"}]
    /\ File \cap Subfolder = {} /\ "top" \notin File \cup Subfolder
    /\ SecretPath \subseteq File /\ SecretFolder \subseteq Subfolder
    /\ SizeOf \in [Content -> Nat]
    /\ TimeOf \in [Content -> Nat \ {0}]
    /\ Small \subseteq Content

VARIABLES
    tree,          \* the source: identity and content of each file
    unreadable,    \* files and folders, the source among them, that cannot be read
    hidden,        \* those that cannot even be looked at: stat fails
    exclusion,     \* administrators' switch: JonDash's own data is left out
    target,        \* the destination: size, time and content of each file
    registry,      \* SecretRegistry of the run
    copying,       \* how far the run is
    told,          \* what the run reports: copied, skipped, failed
    runRow,        \* state of the run's row
    aborted,       \* signal.aborted
    \* history
    disturbed,     \* what changed since the run began
    exposed        \* the switch was off at some moment since then

copyVars == <<tree, unreadable, hidden, exclusion, target, registry, copying, told, runRow, aborted,
              disturbed, exposed>>

SourcePath == File \cup Subfolder \cup {"top"}
NoFile == [id |-> "none"]
NotThere == [size |-> 0, time |-> 0, has |-> "nothing"]
NoRun == [at |-> "off"]
Untold == [copied |-> {}, skipped |-> {}, failed |-> {}]
NoRegistry == [identities |-> {}, contents |-> {}]
CopyState == {"done", "cancelled", "failed"}

CopyTypeOK ==
    /\ tree \in [File -> {NoFile} \cup [id : Ident, has : Content]]
    /\ unreadable \subseteq SourcePath
    /\ hidden \subseteq File \cup Subfolder
    /\ exclusion \in BOOLEAN /\ exposed \in BOOLEAN
    /\ target \in [File -> [size : Nat, time : Nat, has : Content \cup {"nothing"}]]
    /\ registry.identities \subseteq Ident \cup SecretFolder
    /\ registry.contents \subseteq Content
    /\ copying.at \in {"off", "identities", "contents", "switch", "list", "walk", "same", "search", "write", "ended"}
    /\ told \in [copied : SUBSET File, skipped : SUBSET SourcePath, failed : SUBSET File]
    /\ runRow \in {"none", "running", "interrupted"} \cup CopyState
    /\ aborted \in BOOLEAN
    /\ disturbed \subseteq SourcePath

CopyInit ==
    /\ tree \in [File -> {NoFile} \cup [id : Ident, has : Content]]
    /\ \A f, g \in File : f # g /\ tree[f] # NoFile => tree[f].id # tree[g].id
    /\ unreadable = {} /\ hidden = {}
    /\ exclusion = TRUE /\ exposed = FALSE
    /\ target = [f \in File |-> NotThere]
    /\ registry = NoRegistry
    /\ copying = NoRun
    /\ told = Untold
    /\ runRow = "none"
    /\ aborted = FALSE
    /\ disturbed = {}

Present == {f \in File : tree[f] # NoFile}
TreeAsItIs == UNCHANGED <<tree, unreadable, hidden, exclusion, disturbed, exposed>>
RunAsItIs == UNCHANGED <<exclusion, target, registry, copying, told, runRow, aborted, exposed>>
RunTurns(r) == copying' = r

-----------------------------------------------------------------------------
(* What happens to the tree. *)

\* A file is created, or written in place, and keeps its identity.
WriteFile(f, c) ==
    /\ tree[f] # NoFile
    /\ tree' = [tree EXCEPT ![f].has = c]
    /\ disturbed' = disturbed \cup {f}
    /\ RunAsItIs /\ UNCHANGED <<unreadable, hidden>>

\* Written anew and renamed over the old one: another identity.
ReplaceFile(f, i, c) ==
    /\ \A g \in Present : tree[g].id # i
    /\ tree' = [tree EXCEPT ![f] = [id |-> i, has |-> c]]
    /\ disturbed' = disturbed \cup {f}
    /\ RunAsItIs /\ UNCHANGED <<unreadable, hidden>>

DeleteFile(f) ==
    /\ f \in Present
    /\ tree' = [tree EXCEPT ![f] = NoFile]
    /\ disturbed' = disturbed \cup {f}
    /\ RunAsItIs /\ UNCHANGED <<unreadable, hidden>>

MoveFile(f, g) ==
    /\ f \in Present /\ g # f
    /\ tree' = [tree EXCEPT ![g] = tree[f], ![f] = NoFile]
    /\ disturbed' = disturbed \cup {f, g}
    /\ RunAsItIs /\ UNCHANGED <<unreadable, hidden>>

ChangeAccess(x) ==
    /\ unreadable' = IF x \in unreadable THEN unreadable \ {x} ELSE unreadable \cup {x}
    /\ disturbed' = disturbed \cup {x}
    /\ RunAsItIs /\ UNCHANGED <<tree, hidden>>

\* Locked, or out of reach behind a folder: what it is cannot be asked.
ChangeStat(x) ==
    /\ hidden' = IF x \in hidden THEN hidden \ {x} ELSE hidden \cup {x}
    /\ disturbed' = disturbed \cup {x}
    /\ RunAsItIs /\ UNCHANGED <<tree, unreadable>>

\* setJondashProtected.
SetExclusion(on) ==
    /\ exclusion' = on /\ on # exclusion
    /\ exposed' = (exposed \/ ~on)
    /\ UNCHANGED <<tree, unreadable, hidden, disturbed, target, registry, copying, told, runRow, aborted>>

-----------------------------------------------------------------------------
(* start and loadRegistry. *)

\* A snapshot is written into a new folder, a sync into what is there.
StartCopy(mode) ==
    /\ copying = NoRun
    /\ RunTurns([at |-> "identities", mode |-> mode])
    /\ target' = IF mode = "snapshot" THEN [f \in File |-> NotThere] ELSE target
    /\ told' = Untold
    /\ disturbed' = {} /\ exposed' = ~exclusion
    /\ runRow' = "none"
    /\ UNCHANGED <<tree, unreadable, hidden, exclusion, registry, aborted>>

\* Mutant: the size limit of the contents is put on the identities as well.
IdentitiesOfSmall ==
    (SecretFolder \ hidden) \cup
        {tree[f].id : f \in {g \in (SecretPath \cap Present) \ hidden : tree[g].has \in Small}}

Identities == (SecretFolder \ hidden) \cup {tree[f].id : f \in (SecretPath \cap Present) \ hidden}

LoadIdentities ==
    /\ copying.at = "identities"
    /\ registry' = [registry EXCEPT !.identities = Identities]
    /\ RunTurns([copying EXCEPT !.at = "contents"])
    /\ TreeAsItIs /\ UNCHANGED <<target, told, runRow, aborted>>

Contents == {tree[f].has : f \in (SecretPath \cap Present) \ (unreadable \cup hidden)} \cap Small

LoadContents ==
    /\ copying.at = "contents"
    /\ registry' = [registry EXCEPT !.contents = Contents]
    /\ RunTurns([copying EXCEPT !.at = "switch"])
    /\ TreeAsItIs /\ UNCHANGED <<target, told, runRow, aborted>>

\* activeRegistry: with the exclusion switched off nothing is a secret.  The
\* row is inserted once the registry is known.
AskExclusion ==
    /\ copying.at = "switch"
    /\ registry' = IF exclusion THEN registry ELSE NoRegistry
    /\ runRow' = "running"
    /\ RunTurns([at |-> "list", mode |-> copying.mode, folder |-> "top", left |-> {}, above |-> {}])
    /\ TreeAsItIs /\ UNCHANGED <<target, told, aborted>>

\* runCopy finds the pair of folders no longer usable: failed, nothing copied.
RefuseCopy ==
    /\ copying.at = "list"
    /\ copying.folder = "top"
    /\ RunTurns([at |-> "ended", result |-> "failed"])
    /\ TreeAsItIs /\ UNCHANGED <<target, registry, told, runRow, aborted>>

-----------------------------------------------------------------------------
(* walkFiles: one folder within the source at a time. *)

Entries(d) ==
    {f \in Present : Inside[f] = d} \cup (IF d = "top" THEN Subfolder ELSE {})

ListFolder ==
    /\ copying.at = "list"
    /\ IF copying.folder \in unreadable
       THEN /\ told' = [told EXCEPT !.skipped = @ \cup {copying.folder}]
            /\ RunTurns([copying EXCEPT !.at = "walk", !.folder = "top", !.left = copying.above, !.above = {}])
       ELSE /\ RunTurns([copying EXCEPT !.at = "walk", !.left = Entries(copying.folder)])
            /\ UNCHANGED told
    /\ TreeAsItIs /\ UNCHANGED <<target, registry, runRow, aborted>>

\* A folder that cannot be looked at is passed over without a word; a
\* protected one is stepped over whole; any other is listed in turn.
EnterFolder(d) ==
    /\ copying.at = "walk" /\ d \in copying.left \cap Subfolder
    /\ IF d \in hidden
       THEN RunTurns([copying EXCEPT !.left = @ \ {d}]) /\ UNCHANGED told
       ELSE IF d \in registry.identities
       THEN /\ told' = [told EXCEPT !.skipped = @ \cup {d}]
            /\ RunTurns([copying EXCEPT !.left = @ \ {d}])
       ELSE /\ RunTurns([copying EXCEPT !.at = "list", !.folder = d, !.left = {}, !.above = copying.left \ {d}])
            /\ UNCHANGED told
    /\ TreeAsItIs /\ UNCHANGED <<target, registry, runRow, aborted>>

LeaveFolder ==
    /\ copying.at = "walk" /\ copying.left = {} /\ copying.folder # "top"
    /\ RunTurns([copying EXCEPT !.folder = "top", !.left = copying.above, !.above = {}])
    /\ TreeAsItIs /\ UNCHANGED <<target, registry, told, runRow, aborted>>

\* stat, which may fail without a word, the identity check, and the check of
\* the signal before the body.
MeetFile(f) ==
    LET on == [copying EXCEPT !.left = @ \ {f}]
    IN  /\ copying.at = "walk" /\ f \in copying.left \cap File
        /\ IF f \notin Present \ hidden
           THEN RunTurns(on) /\ UNCHANGED told
           ELSE IF tree[f].id \in registry.identities
           THEN /\ told' = [told EXCEPT !.skipped = @ \cup {f}]
                /\ RunTurns(on)
           ELSE /\ RunTurns(IF aborted THEN [at |-> "ended", result |-> "cancelled"]
                            ELSE [at |-> IF copying.mode = "sync" THEN "same" ELSE "search",
                                  file |-> f, met |-> tree[f].has, back |-> on, mode |-> copying.mode])
                /\ UNCHANGED told
        /\ TreeAsItIs /\ UNCHANGED <<target, registry, runRow, aborted>>

FinishWalk ==
    /\ copying.at = "walk" /\ copying.left = {} /\ copying.folder = "top"
    /\ RunTurns([at |-> "ended", result |-> "done"])
    /\ TreeAsItIs /\ UNCHANGED <<target, registry, told, runRow, aborted>>

-----------------------------------------------------------------------------
(* The body of the loop in runCopy. *)

Same(there, c) == there.size = SizeOf[c] /\ there.time = TimeOf[c]

CompareFile ==
    /\ copying.at = "same"
    /\ RunTurns(IF Same(target[copying.file], copying.met) THEN copying.back
                ELSE [copying EXCEPT !.at = "search"])
    /\ TreeAsItIs /\ UNCHANGED <<target, registry, told, runRow, aborted>>

\* contentReason, on what the file holds now; the size is the walk's.
SearchFile ==
    LET f == copying.file
        searched == copying.met \in Small /\ f \in Present \ unreadable
    IN  /\ copying.at = "search"
        /\ IF searched /\ tree[f].has \in registry.contents
           THEN /\ told' = [told EXCEPT !.skipped = @ \cup {f}]
                /\ RunTurns(copying.back)
           ELSE RunTurns([copying EXCEPT !.at = "write"]) /\ UNCHANGED told
        /\ TreeAsItIs /\ UNCHANGED <<target, registry, runRow, aborted>>

\* copyFile and utimes, which may fail and leaves the time of the copy (0).
WriteCopy(timed) ==
    LET f == copying.file
    IN  /\ copying.at = "write"
        /\ f \in Present \ unreadable
        /\ target' = [target EXCEPT ![f] =
              [size |-> SizeOf[tree[f].has], has |-> tree[f].has,
               time |-> IF timed THEN TimeOf[copying.met] ELSE 0]]
        /\ told' = [told EXCEPT !.copied = @ \cup {f}]
        /\ RunTurns(copying.back)
        /\ TreeAsItIs /\ UNCHANGED <<registry, runRow, aborted>>

\* The file is gone or unreadable, or the destination does not take it: an
\* error is noted, and what was there may be lost.
FailCopy(lost) ==
    /\ copying.at = "write"
    /\ told' = [told EXCEPT !.failed = @ \cup {copying.file}]
    /\ target' = [target EXCEPT ![copying.file] = IF lost THEN NotThere ELSE @]
    /\ RunTurns(copying.back)
    /\ TreeAsItIs /\ UNCHANGED <<registry, runRow, aborted>>

-----------------------------------------------------------------------------
(* The end of a run. *)

CancelCopy ==
    /\ copying # NoRun
    /\ aborted' = TRUE
    /\ TreeAsItIs /\ UNCHANGED <<target, registry, copying, told, runRow>>

\* Mutant: a run that ran to its end is done.
SettledAsDone(result) == {IF result = "cancelled" THEN "done" ELSE result, "failed", "running"}

\* The outcome is written; if that throws, the failure; and if that throws
\* too, the row stays as it is.
Settled(result) == {result, "failed", "running"}

SettleCopy ==
    /\ copying.at = "ended"
    /\ runRow' \in Settled(copying.result)
    /\ RunTurns(NoRun)
    /\ registry' = NoRegistry
    /\ aborted' = FALSE
    /\ TreeAsItIs /\ UNCHANGED <<target, told>>

\* The process stops; reconcileInterruptedRuns closes the row at boot.
RestartCopying ==
    /\ runRow' = IF runRow = "running" THEN "interrupted" ELSE runRow
    /\ RunTurns(NoRun)
    /\ registry' = NoRegistry
    /\ aborted' = FALSE
    /\ TreeAsItIs /\ UNCHANGED <<target, told>>

CopySteps ==
    \/ \E mode \in {"sync", "snapshot"} : StartCopy(mode)
    \/ LoadIdentities \/ LoadContents \/ AskExclusion \/ RefuseCopy \/ ListFolder \/ LeaveFolder \/ FinishWalk
    \/ \E d \in Subfolder : EnterFolder(d)
    \/ \E f \in File : MeetFile(f)
    \/ CompareFile \/ SearchFile
    \/ \E b \in BOOLEAN : WriteCopy(b) \/ FailCopy(b)
    \/ CancelCopy \/ SettleCopy \/ RestartCopying

TreeSteps ==
    \/ \E f \in File, c \in Content : WriteFile(f, c) \/ \E i \in Ident : ReplaceFile(f, i, c)
    \/ \E f \in File : DeleteFile(f) \/ \E g \in File : MoveFile(f, g)
    \/ \E x \in SourcePath : ChangeAccess(x)
    \/ \E x \in File \cup Subfolder : ChangeStat(x)

CopyNext == CopySteps \/ TreeSteps \/ \E on \in BOOLEAN : SetExclusion(on)
CopySpec == CopyInit /\ [][CopyNext]_copyVars

-----------------------------------------------------------------------------
Quietly(f) == f \in Present /\ {f, Inside[f]} \cap disturbed = {}

(***************************************************************************)
(* A run that says done has dealt with every file that was there and left  *)
(* alone all the while: the file is at the destination, with its size and  *)
(* time or its very content, or the report names it, its folder or the     *)
(* whole source as skipped or failed.  Cancelling, files that come and go, *)
(* unreadable folders, lost copies and a run before this one do not make   *)
(* it lie.  The one gap is named: a file that cannot be looked at, or lies *)
(* in a folder that cannot, is left out without a word.                    *)
(***************************************************************************)
DoneMeansAccountedFor ==
    runRow = "done" /\ copying = NoRun =>
        \A f \in File : Quietly(f) =>
            \/ {f, Inside[f], "top"} \cap (told.skipped \cup told.failed) # {}
            \/ {f, Inside[f]} \cap hidden # {}
            \/ Same(target[f], tree[f].has)
            \/ target[f].has = tree[f].has

(***************************************************************************)
(* While the administrators' switch that leaves JonDash's own data out is  *)
(* on, what a run copied is neither one of JonDash's secret files,         *)
(* wherever it was moved before the run, nor a small file with what one of *)
(* them holds.  Said of files left alone during the run; secrets that      *)
(* appear after the registry was read, or could not be looked at then, are *)
(* not in it.  A switch that was off at any moment of the run promises     *)
(* nothing.                                                                *)
(***************************************************************************)
SecretsStay ==
    copying # NoRun /\ ~exposed => \A f \in told.copied : Quietly(f) =>
        /\ f \notin SecretPath
        /\ Inside[f] \notin SecretFolder
        /\ \A s \in SecretPath :
              Quietly(s) /\ s \notin unreadable \cup hidden /\ tree[s].has \in Small => tree[f].has # tree[s].has
=============================================================================
