---------------------------- MODULE MonitorEdits ----------------------------
(***************************************************************************)
(* One monitor of the health monitor and the page it is edited on: the     *)
(* form is filled in and submitted, again and again; a document is         *)
(* imported over it.                                                       *)
(***************************************************************************)
EXTENDS MonitorForms

CONSTANTS Router,      \* another monitor, which this one may depend on
          Mail         \* a channel

VARIABLES monitor,     \* the row and its routes, or NoMonitor
          routerThere, \* is the other monitor still there
          draft,       \* what stands in the form
          taken        \* the form that was last accepted, while what it stored is still there
editVars == <<monitor, routerThere, draft, taken>>

NoForm == [kind |-> ""]
Others == IF routerThere THEN {Router} ELSE {}
FormOf(row) == IF row = NoMonitor THEN EmptyForm ELSE Shown(row, Others, {Mail})

EditsInit ==
    /\ monitor = NoMonitor
    /\ routerThere = TRUE
    /\ draft = EmptyForm
    /\ taken = NoForm

\* What may be typed into a box, as far as the checks tell it apart
Typed ==
    [name |-> {"", "n"}, target |-> {"", "url", "badurl", "host"}, port |-> {Blank, 0, 22},
     intervalSec |-> {60, 300}, timeoutMs |-> {Blank, 499, 500}, retries |-> {Blank, 1}, degradedMs |-> {Blank},
     parentId |-> {""} \cup Others, enabled |-> BOOLEAN, routes |-> SUBSET {Mail},
     expectStatus |-> {"", "2xx"}, insecureTls |-> BOOLEAN, skipUpload |-> BOOLEAN,
     minMbps |-> {Blank, 0, 50}, payloadMb |-> {Blank, 10, 101}]

ChooseKind(k) ==
    /\ draft' = WithKind(monitor, draft, k)
    /\ UNCHANGED <<monitor, routerThere, taken>>

Fill(box) ==
    /\ \E v \in Typed[box] : draft' = HideOthers([draft EXCEPT ![box] = v])
    /\ UNCHANGED <<monitor, routerThere, taken>>

\* saveMonitorAction; the form then shows what is stored.
SubmitForm ==
    /\ Accepts(draft)
    /\ monitor' = Saved(monitor, "web", draft)
    /\ taken' = draft
    /\ draft' = FormOf(monitor')
    /\ UNCHANGED routerThere

\* importConfigJson, of a document that names this monitor
ImportMonitor(d) ==
    /\ ImportAccepts(d)
    /\ monitor' = Imported(d)
    /\ taken' = NoForm
    /\ draft' = FormOf(monitor')
    /\ UNCHANGED routerThere

\* deleteMonitorAction, of the other one, on the same page: the box falls back to Nothing.
DeleteRouter ==
    /\ routerThere' = FALSE
    /\ taken' = NoForm
    /\ draft' = [draft EXCEPT !.parentId = ""]
    /\ UNCHANGED monitor

DocumentOf(k, i) ==
    [id |-> "web", name |-> "n", kind |-> k, target |-> "url", port |-> Blank, intervalSec |-> i, timeoutMs |-> Blank,
     retries |-> 0, degradedMs |-> Blank, parentId |-> "", enabled |-> TRUE, routes |-> {},
     config |-> [method |-> "HEAD", minMbps |-> 50]]
Documents == {DocumentOf(k, i) : k \in {"http", "speed"}, i \in {9, 10}}

EditsNext ==
    \/ \E k \in Kinds : ChooseKind(k)
    \/ \E box \in DOMAIN Typed : Fill(box)
    \/ SubmitForm
    \/ \E d \in Documents : ImportMonitor(d)
    \/ DeleteRouter

EditsSpec == EditsInit /\ [][EditsNext]_editVars

-----------------------------------------------------------------------------
(* What a person submits is what the form shows afterwards.  The code says *)
(* "Keep any config keys the form doesn't cover (set via import), then     *)
(* apply the form" (actions.ts:59): the keys it does cover are the form's  *)
(* alone.  A certificate check's empty port stands for 443, and a least    *)
(* speed of 0 for none.                                                    *)
EditTakesEffect ==
    taken # NoForm =>
        FormOf(monitor) = [taken EXCEPT !.port = IF taken.kind = "tls" /\ @ = Blank THEN 443 ELSE @,
                                        !.minMbps = IF @ = 0 THEN Blank ELSE @]
=============================================================================
