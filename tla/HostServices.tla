---------------------------- MODULE HostServices ----------------------------
(***************************************************************************)
(* The host-services helper: the list of services an administrator allows  *)
(* (lib/allowlist.ts, lib/scopes.ts), the Windows grants made for them     *)
(* (lib/grant.ts), and what modules ask for (lib/requests.ts, api.ts).     *)
(* Adding, removing and executing wait for a permission prompt or for      *)
(* Windows between reading the tables and writing them, and any other      *)
(* handler may run in that time.                                           *)
(***************************************************************************)
EXTENDS Naturals, FiniteSets

CONSTANTS
    ServiceTab,     \* pages an administrator has open
    ServiceModule,  \* modules that may ask
    Service,
    TaskBase,       \* task name a service's grants go under; two may share one
    EntryId,        \* ids of rows of the entries table
    Ask             \* ids of rows of the requests table

ASSUME ServicesConstantsOK ==
    /\ ServiceTab \cap ServiceModule = {}
    /\ DOMAIN TaskBase = Service

VARIABLES
    entries,        \* entries table
    grants,         \* Windows: task bases that have grants
    unbounded,      \* settings table: read.unbounded
    suggested,      \* suggestions table: modules with an open suggestion
    asks,           \* requests table
    aged,           \* requests older than EXPIRY_DAYS
    handler,        \* what each page and module has going on
    \* history
    meddled,        \* bases that two changes dealt with at once
    cut,            \* bases a stop caught between Windows and the table, not in order since
    withdrawn,      \* bases whose grants the removed helper took back, not made anew since
    ran,            \* how often each request was carried out
    decided,        \* the first decision on each request
    disputed        \* requests decided while, or after, they were dealt with

serviceTables == <<entries, grants, unbounded, suggested, asks, aged>>
servicesVars == <<serviceTables, handler, meddled, cut, withdrawn, ran, decided, disputed>>

Base == {TaskBase[s] : s \in Service}
Worker == ServiceTab \cup ServiceModule
Resting == [at |-> "none"]
NoAsk == [state |-> "none"]
Entry == [id : EntryId, service : Service, canControl : BOOLEAN, unattended : BOOLEAN]
Decision == {"approved", "declined", "cancelled-at-uac", "expired", "failed"}

\* grantState: rows that may be controlled have their grants made first
Granted(e) == e.canControl

ServicesTypeOK ==
    /\ entries \subseteq Entry
    /\ grants \subseteq Base
    /\ unbounded \in BOOLEAN
    /\ suggested \subseteq ServiceModule
    /\ asks \in [Ask -> {NoAsk} \cup [state : {"pending"} \cup Decision, entry : EntryId]]
    /\ aged \subseteq Ask
    /\ handler \in [Worker -> {Resting}
          \cup [at : {"grant", "insert"}, service : Service, canControl : BOOLEAN]
          \cup [at : {"ungrant", "delete"}, entry : Entry]
          \cup [at : {"execute"}, ask : Ask]
          \cup [at : {"run"}, ask : Ask, base : Base]
          \cup [at : {"settle"}, ask : Ask, outcome : Decision]]
    /\ meddled \subseteq Base
    /\ cut \subseteq Base
    /\ withdrawn \subseteq Base
    /\ ran \in [Ask -> 0..2]
    /\ decided \in [Ask -> {"none"} \cup Decision]
    /\ disputed \subseteq Ask

ServicesInit ==
    /\ entries = {}
    /\ grants = {}
    /\ unbounded = FALSE
    /\ suggested = {}
    /\ asks = [r \in Ask |-> NoAsk]
    /\ aged = {}
    /\ handler = [w \in Worker |-> Resting]
    /\ meddled = {}
    /\ cut = {}
    /\ withdrawn = {}
    /\ ran = [r \in Ask |-> 0]
    /\ decided = [r \in Ask |-> "none"]
    /\ disputed = {}

AtPlace(w, place) == handler[w].at = place
Resumes(w, h) == handler' = [handler EXCEPT ![w] = h]
Finishes(w) == Resumes(w, Resting)

FindEntry(id) == {e \in entries : e.id = id}

\* The base a change of the list is about
BaseOf(h) ==
    CASE h.at \in {"grant", "insert"}   -> {TaskBase[h.service]}
      [] h.at \in {"ungrant", "delete"} -> {TaskBase[h.entry.service]}
      [] OTHER -> {}
BasesInHand(ws) == UNION {BaseOf(handler[w]) : w \in ws}

\* A handler takes on a change of the list
Takes(w, h) ==
    /\ Resumes(w, h)
    /\ meddled' = meddled \cup (BaseOf(h) \cap BasesInHand(Worker \ {w}))

RequestsAsTheyWere == UNCHANGED <<asks, aged, ran, decided, disputed>>
ListAsItWas == UNCHANGED <<entries, unbounded, suggested>>
GrantsAsTheyWere == UNCHANGED <<grants, meddled, cut, withdrawn>>

-----------------------------------------------------------------------------
(* addEntry: refused for a service that is listed, and for one whose task  *)
(* name another has; then the grants, then the row.                        *)

AddEntry(w, s, canControl) ==
    /\ handler[w] = Resting
    /\ \A e \in entries : TaskBase[e.service] # TaskBase[s]
    /\ Takes(w, [at |-> IF canControl THEN "grant" ELSE "insert",
                 service |-> s, canControl |-> canControl])
    /\ UNCHANGED <<grants, cut, withdrawn>> /\ ListAsItWas /\ RequestsAsTheyWere

\* One prompt for all verbs; turned down, unanswered or failed, nothing stays.
CreateGrants(w) ==
    /\ AtPlace(w, "grant")
    /\ \/ /\ grants' = grants \cup BaseOf(handler[w])
          /\ withdrawn' = withdrawn \ BaseOf(handler[w])
          /\ Resumes(w, [handler[w] EXCEPT !.at = "insert"])
       \/ /\ UNCHANGED <<grants, withdrawn>>
          /\ Finishes(w)
    /\ UNCHANGED <<meddled, cut>> /\ ListAsItWas /\ RequestsAsTheyWere

\* randomUUID: no row has it, no request names it, no handler remembers it.
IsFresh(id) ==
    /\ FindEntry(id) = {}
    /\ \A r \in Ask : asks[r] # NoAsk => asks[r].entry # id
    /\ \A w \in Worker : handler[w].at \in {"ungrant", "delete"} => handler[w].entry.id # id

\* serviceName and taskBase are UNIQUE: the second of two is turned away,
\* with its grants made.
InsertEntry(w) ==
    /\ AtPlace(w, "insert")
    /\ LET h == handler[w]
       IN  IF \E e \in entries : TaskBase[e.service] = TaskBase[h.service]
           THEN entries' = entries
           ELSE \E id \in EntryId :
                   /\ IsFresh(id)
                   /\ entries' = entries \cup {[id |-> id, service |-> h.service,
                                    canControl |-> h.canControl, unattended |-> FALSE]}
    /\ cut' = IF handler[w].canControl THEN cut \ BaseOf(handler[w]) ELSE cut
    /\ Finishes(w)
    /\ UNCHANGED <<grants, unbounded, suggested, meddled, withdrawn>> /\ RequestsAsTheyWere

(* removeEntry: the grants, then the row.  The list of what may be seen    *)
(* turns away a row that may be controlled; the list of what may be        *)
(* controlled takes any.                                                   *)

RemoveEntry(w, id) ==
    /\ handler[w] = Resting
    /\ \E e \in FindEntry(id) :
          Takes(w, [at |-> IF Granted(e) THEN "ungrant" ELSE "delete", entry |-> e])
    /\ UNCHANGED <<grants, cut, withdrawn>> /\ ListAsItWas /\ RequestsAsTheyWere

\* Mutant: the row goes although its grants could not be taken back.
RemoveGrantsOrNot(w) ==
    /\ AtPlace(w, "ungrant")
    /\ \/ grants' = grants \ BaseOf(handler[w])
       \/ grants' = grants
    /\ Resumes(w, [handler[w] EXCEPT !.at = "delete"])
    /\ UNCHANGED <<meddled, cut, withdrawn>> /\ ListAsItWas /\ RequestsAsTheyWere

\* If the grants cannot be taken back the row stays, to be seen.
RemoveGrants(w) ==
    /\ AtPlace(w, "ungrant")
    /\ \/ /\ grants' = grants \ BaseOf(handler[w])
          /\ Resumes(w, [handler[w] EXCEPT !.at = "delete"])
       \/ /\ grants' = grants
          /\ Finishes(w)
    /\ UNCHANGED <<meddled, cut, withdrawn>> /\ ListAsItWas /\ RequestsAsTheyWere

DeleteEntry(w) ==
    /\ AtPlace(w, "delete")
    /\ entries' = {e \in entries : e.id # handler[w].entry.id}
    /\ cut' = IF Granted(handler[w].entry) THEN cut \ BaseOf(handler[w]) ELSE cut
    /\ Finishes(w)
    /\ UNCHANGED <<grants, unbounded, suggested, meddled, withdrawn>> /\ RequestsAsTheyWere

SetUnattended(id, on) ==
    /\ FindEntry(id) # {}
    /\ entries' = {IF e.id = id THEN [e EXCEPT !.unattended = on] ELSE e : e \in entries}
    /\ UNCHANGED <<unbounded, suggested, handler>>
    /\ GrantsAsTheyWere /\ RequestsAsTheyWere

SetUnbounded(on) ==
    /\ unbounded' = on
    /\ UNCHANGED <<entries, suggested, handler>>
    /\ GrantsAsTheyWere /\ RequestsAsTheyWere

-----------------------------------------------------------------------------
(* Requests. *)

Busy(r) == \E w \in Worker : handler[w].at \in {"execute", "run", "settle"} /\ handler[w].ask = r

\* Mutant: a settled request is settled again.
SettleAnyway(r, d) ==
    /\ asks' = [asks EXCEPT ![r].state = d]
    /\ decided' = [decided EXCEPT ![r] = IF @ = "none" THEN d ELSE @]

\* Only a pending request is updated: the first decision stands.
Settle(r, d) ==
    IF asks[r].state = "pending"
    THEN /\ asks' = [asks EXCEPT ![r].state = d]
         /\ decided' = [decided EXCEPT ![r] = d]
    ELSE UNCHANGED <<asks, decided>>

\* request: an id that is unknown and one that is read-only get one answer.
\* An entry that needs no asking is carried out at once.
RequestAction(m, r, id) ==
    /\ handler[m] = Resting
    /\ asks[r] = NoAsk
    /\ \E e \in FindEntry(id) :
          /\ e.canControl
          /\ asks' = [asks EXCEPT ![r] = [state |-> "pending", entry |-> id]]
          /\ Resumes(m, IF e.unattended THEN [at |-> "execute", ask |-> r] ELSE Resting)
    /\ UNCHANGED <<aged, ran, decided, disputed>> /\ GrantsAsTheyWere /\ ListAsItWas

\* A click on a page that may be old: nothing asks whether the request is
\* still waiting.
Approve(w, r) ==
    /\ handler[w] = Resting
    /\ asks[r] # NoAsk
    /\ Resumes(w, [at |-> "execute", ask |-> r])
    /\ disputed' = IF Busy(r) \/ asks[r].state # "pending" THEN disputed \cup {r} ELSE disputed
    /\ UNCHANGED <<asks, aged, ran, decided>> /\ GrantsAsTheyWere /\ ListAsItWas

Decline(r) ==
    /\ asks[r] # NoAsk
    /\ Settle(r, "declined")
    /\ disputed' = IF Busy(r) THEN disputed \cup {r} ELSE disputed
    /\ UNCHANGED <<aged, handler, ran>> /\ GrantsAsTheyWere /\ ListAsItWas

\* requestStatus: a pending request that is too old expires when it is read.
Expire(r) ==
    /\ asks[r] # NoAsk
    /\ r \in aged
    /\ Settle(r, "expired")
    /\ disputed' = IF Busy(r) THEN disputed \cup {r} ELSE disputed
    /\ UNCHANGED <<aged, handler, ran>> /\ GrantsAsTheyWere /\ ListAsItWas

(* execute *)

\* The entry is looked up again, by the id the request was made with.
Execute(w) ==
    /\ AtPlace(w, "execute")
    /\ LET r     == handler[w].ask
           found == {e \in FindEntry(asks[r].entry) : e.canControl}
       IN  IF found = {}
           THEN Resumes(w, [at |-> "settle", ask |-> r, outcome |-> "failed"])
           ELSE \E e \in found :
                   Resumes(w, [at |-> "run", ask |-> r, base |-> TaskBase[e.service]])
    /\ GrantsAsTheyWere /\ ListAsItWas /\ RequestsAsTheyWere

\* Windows runs the task it was granted, if it still has it.
RunGrant(w) ==
    /\ AtPlace(w, "run")
    /\ LET h == handler[w]
           ends(o) == Resumes(w, [at |-> "settle", ask |-> h.ask, outcome |-> o])
       IN  \/ /\ h.base \in grants
              /\ ran' = [ran EXCEPT ![h.ask] = IF @ < 2 THEN @ + 1 ELSE @]
              /\ ends("approved")
           \/ /\ ran' = ran
              /\ \/ ends("cancelled-at-uac")
                 \/ ends("failed")
    /\ UNCHANGED <<asks, aged, decided, disputed>> /\ GrantsAsTheyWere /\ ListAsItWas

SettleOutcome(w) ==
    /\ AtPlace(w, "settle")
    /\ Settle(handler[w].ask, handler[w].outcome)
    /\ Finishes(w)
    /\ UNCHANGED <<aged, ran, disputed>> /\ GrantsAsTheyWere /\ ListAsItWas

\* One open suggestion for each module; no code ever closes one.
Suggest(m) ==
    /\ m \notin suggested
    /\ suggested' = suggested \cup {m}
    /\ UNCHANGED <<entries, unbounded, handler>>
    /\ GrantsAsTheyWere /\ RequestsAsTheyWere

-----------------------------------------------------------------------------
(* Time, and the end of the process or of the helper.                      *)

Age(r) ==
    /\ asks[r] # NoAsk
    /\ aged' = aged \cup {r}
    /\ UNCHANGED <<asks, handler, ran, decided, disputed>>
    /\ GrantsAsTheyWere /\ ListAsItWas

\* What was between Windows and the table of a row that may be controlled
HalfDone(h) == \/ h.at = "insert" /\ h.canControl
               \/ h.at = "delete" /\ Granted(h.entry)

StopProcess ==
    /\ handler' = [w \in Worker |-> Resting]
    /\ cut' = cut \cup BasesInHand({w \in Worker : HalfDone(handler[w])})
    /\ disputed' = disputed \cup {r \in Ask : Busy(r)}
    /\ UNCHANGED <<grants, meddled, withdrawn, asks, aged, ran, decided>> /\ ListAsItWas

\* The helper is removed and, some day, there again.  It takes its grants back,
\* unless the administrator keeps them or Windows does not go along, then the
\* audit log names them.  Its tables stay: no row is touched.
UninstallHelper ==
    /\ \E left \in SUBSET grants :
          /\ grants' = left
          /\ withdrawn' = withdrawn \cup (grants \ left)
    /\ meddled' = meddled \cup BasesInHand(Worker)
    /\ UNCHANGED <<handler, cut>> /\ ListAsItWas /\ RequestsAsTheyWere

ServicesNext ==
    \/ \E w \in ServiceTab :
          \/ \E s \in Service, c \in BOOLEAN : AddEntry(w, s, c)
          \/ CreateGrants(w) \/ InsertEntry(w)
          \/ \E id \in EntryId : RemoveEntry(w, id)
          \/ RemoveGrants(w) \/ DeleteEntry(w)
          \/ \E r \in Ask : Approve(w, r)
    \/ \E id \in EntryId, on \in BOOLEAN : SetUnattended(id, on)
    \/ \E on \in BOOLEAN : SetUnbounded(on)
    \/ \E m \in ServiceModule :
          \/ \E r \in Ask, id \in EntryId : RequestAction(m, r, id)
          \/ Suggest(m)
    \/ \E w \in Worker : Execute(w) \/ RunGrant(w) \/ SettleOutcome(w)
    \/ \E r \in Ask : Decline(r) \/ Expire(r) \/ Age(r)
    \/ StopProcess
    \/ UninstallHelper

ServicesSpec == ServicesInit /\ [][ServicesNext]_servicesVars

-----------------------------------------------------------------------------
(* "Getting it backwards is how the system ends up with a live OS grant    *)
(* that no JonDash row accounts for": when nobody is at work on a task     *)
(* name, every grant Windows has under it has its row, and every row that  *)
(* may be controlled has its grants, unless the helper took them back when *)
(* it was removed and they were not made anew: the row stays then, and     *)
(* names a grant the machine no longer has.  A name a stop of the process  *)
(* caught between Windows and the table is left out only until its service *)
(* is added, or removed, to the end; names two changes dealt with at once  *)
(* are left out for good.                                                  *)
GrantsAreAccountedFor ==
    \A b \in Base \ (meddled \cup cut \cup BasesInHand(Worker)) :
        LET listed == \E e \in entries : Granted(e) /\ TaskBase[e.service] = b
        IN  /\ listed => b \in grants \cup withdrawn
            /\ b \in grants => listed

(* A request is decided once, whoever decides it and however late the      *)
(* answer of Windows comes; and when a single decision was made on it,     *)
(* what its module is told is what happened: done when it was carried out, *)
(* once, and otherwise not carried out at all.                             *)
RequestsAreAnsweredOnce ==
    \A r \in Ask : asks[r] # NoAsk =>
        /\ asks[r].state # "pending" => asks[r].state = decided[r]
        /\ (r \notin disputed /\ ~Busy(r)) =>
               ran[r] = (IF asks[r].state = "approved" THEN 1 ELSE 0)
=============================================================================
