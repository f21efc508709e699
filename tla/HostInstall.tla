---------------------------- MODULE HostInstall -----------------------------
(***************************************************************************)
(* The host-install helper (api.ts, lib/store.ts, helper.ts): modules ask  *)
(* for software to be installed or removed, an administrator approves each *)
(* request, and a table remembers what JonDash itself installed.  Between  *)
(* the approval and the table lie a prompt and an installer that may run   *)
(* for minutes.                                                            *)
(***************************************************************************)
EXTENDS Naturals, FiniteSets

CONSTANTS
    InstallTab,      \* pages an administrator has open
    InstallModule,   \* modules that may ask
    Package,         \* package ids that pass validatePackageId
    Order,           \* ids of rows of the requests table
    QuestionLimit    \* questions an uninstall screen shows

ASSUME InstallConstantsOK ==
    /\ InstallTab \cap InstallModule = {}
    /\ QuestionLimit \in Nat

VARIABLES
    installed,       \* installed table: packages JonDash installed
    orders,          \* requests table
    old,             \* orders older than EXPIRY_DAYS
    present,         \* the machine: packages that are there
    job,             \* what each page and module has going on
    \* history
    deed,            \* the last thing JonDash did with a package
    unwritten,       \* packages the table was not told the last of, and not since
    tangled          \* packages two dealt with at once

installVars == <<installed, orders, old, present, job, deed, unwritten, tangled>>

Doing == {"install", "uninstall"}
Verdict == {"done", "declined", "cancelled-at-uac", "failed", "expired"}
NoOrder == [state |-> "none"]
NoJob == [at |-> "none"]

InstallTypeOK ==
    /\ installed \subseteq Package
    /\ orders \in [Order -> {NoOrder} \cup
          [state : {"pending"} \cup Verdict, of : InstallModule, package : Package, action : Doing]]
    /\ old \subseteq Order
    /\ present \subseteq Package
    /\ job \in [InstallTab \cup InstallModule -> {NoJob}
          \cup [at : {"raise"}, package : Package, action : Doing]
          \cup [at : {"execute", "write"}, order : Order]
          \cup [at : {"settle"}, order : Order, verdict : Verdict]]
    /\ deed \in [Package -> Doing \cup {"none"}]
    /\ unwritten \subseteq Package
    /\ tangled \subseteq Package

InstallInit ==
    /\ installed = {}
    /\ orders = [o \in Order |-> NoOrder]
    /\ old = {}
    /\ present \in SUBSET Package
    /\ job = [w \in InstallTab \cup InstallModule |-> NoJob]
    /\ deed = [p \in Package |-> "none"]
    /\ unwritten = {}
    /\ tangled = {}

JobAt(w, place) == job[w].at = place
Turns(w, j) == job' = [job EXCEPT ![w] = j]

\* The package a page is dealing with
InWork(ws) == {orders[job[w].order].package : w \in {v \in ws : job[v].at \in {"execute", "write"}}}

OpenOrders(m) == {o \in Order : orders[o].state = "pending" /\ orders[o].of = m /\ o \notin old}

-----------------------------------------------------------------------------
(* What modules ask. *)

\* Mutant: anything that is on the machine may be removed.
MayAskPresent(p, action) == action = "uninstall" => p \in present

\* Clean up what you created, never what you found.
MayAsk(p, action) == action = "uninstall" => p \in installed

\* One open request for each module; it is looked for before the row is written.
Raise(m, p, action) ==
    /\ job[m] = NoJob
    /\ MayAsk(p, action)
    /\ OpenOrders(m) = {}
    /\ Turns(m, [at |-> "raise", package |-> p, action |-> action])
    /\ UNCHANGED <<installed, orders, old, present, deed, unwritten, tangled>>

CreateOrder(m, o) ==
    /\ JobAt(m, "raise")
    /\ orders[o] = NoOrder
    /\ orders' = [orders EXCEPT ![o] = [state |-> "pending", of |-> m,
                    package |-> job[m].package, action |-> job[m].action]]
    /\ Turns(m, NoJob)
    /\ UNCHANGED <<installed, old, present, deed, unwritten, tangled>>

SettleOrder(o, v) == orders' = IF orders[o].state = "pending"
                               THEN [orders EXCEPT ![o].state = v] ELSE orders

\* requestStatus: an old request expires when its module asks about it.
ExpireOrder(o) ==
    /\ orders[o].state = "pending"
    /\ o \in old
    /\ SettleOrder(o, "expired")
    /\ UNCHANGED <<installed, old, present, job, deed, unwritten, tangled>>

-----------------------------------------------------------------------------
(* What the administrator decides. *)

DeclineOrder(o) ==
    /\ orders[o] # NoOrder
    /\ SettleOrder(o, "declined")
    /\ UNCHANGED <<installed, old, present, job, deed, unwritten, tangled>>

\* Waiting or not is asked once, before the prompt; how old it is, never.
ApproveOrder(w, o) ==
    /\ job[w] = NoJob
    /\ orders[o].state = "pending"
    /\ Turns(w, [at |-> "execute", order |-> o])
    /\ tangled' = tangled \cup ({orders[o].package} \cap InWork(InstallTab \ {w}))
    /\ UNCHANGED <<installed, orders, old, present, deed, unwritten>>

\* installPackage or uninstallPackage.  An install of what is there already
\* may count as one.
RunInstaller(w) ==
    /\ JobAt(w, "execute")
    /\ LET o == job[w].order
           p == orders[o].package
           a == orders[o].action
       IN  \/ /\ a = "uninstall" => p \in present
              /\ present' = IF a = "install" THEN present \cup {p} ELSE present \ {p}
              /\ deed' = [deed EXCEPT ![p] = a]
              /\ Turns(w, [at |-> "write", order |-> o])
           \/ /\ \E v \in {"cancelled-at-uac", "failed"} :
                    Turns(w, [at |-> "settle", order |-> o, verdict |-> v])
              /\ UNCHANGED <<present, deed>>
    /\ UNCHANGED <<installed, orders, old, unwritten, tangled>>

\* recordInstalled or forgetInstalled, and only after success
WriteInstalled(w) ==
    /\ JobAt(w, "write")
    /\ LET o == job[w].order
           p == orders[o].package
       IN  /\ installed' = IF orders[o].action = "install" THEN installed \cup {p} ELSE installed \ {p}
           /\ unwritten' = unwritten \ {p}
           /\ Turns(w, [at |-> "settle", order |-> o, verdict |-> "done"])
    /\ UNCHANGED <<orders, old, present, deed, tangled>>

SettleApproved(w) ==
    /\ JobAt(w, "settle")
    /\ SettleOrder(job[w].order, job[w].verdict)
    /\ Turns(w, NoJob)
    /\ UNCHANGED <<installed, old, present, deed, unwritten, tangled>>

-----------------------------------------------------------------------------
(* Time, people at the machine, and the end of the process or the helper.  *)

GrowOld(o) ==
    /\ orders[o] # NoOrder
    /\ old' = old \cup {o}
    /\ UNCHANGED <<installed, orders, present, job, deed, unwritten, tangled>>

ByHand(p) ==
    /\ present' = IF p \in present THEN present \ {p} ELSE present \cup {p}
    /\ UNCHANGED <<installed, orders, old, job, deed, unwritten, tangled>>

EndInstallProcess ==
    /\ unwritten' = unwritten \cup InWork({w \in InstallTab : JobAt(w, "write")})
    /\ job' = [w \in DOMAIN job |-> NoJob]
    /\ UNCHANGED <<installed, orders, old, present, deed, tangled>>

\* The helper is removed and, some day, there again.  onUninstall removes
\* what was ticked, of what was asked about, and tells nobody: the tables
\* stay, and no row is touched.
RemoveHelper(ticked) ==
    /\ ticked \subseteq installed
    /\ Cardinality(ticked) <= QuestionLimit
    /\ \E gone \in SUBSET (ticked \cap present) :
          /\ present' = present \ gone
          /\ deed' = [p \in Package |-> IF p \in gone THEN "uninstall" ELSE deed[p]]
          /\ unwritten' = unwritten \cup gone
          /\ tangled' = tangled \cup (gone \cap InWork(InstallTab))
    /\ UNCHANGED <<installed, orders, old, job>>

InstallNext ==
    \/ \E m \in InstallModule :
          \/ \E p \in Package, a \in Doing : Raise(m, p, a)
          \/ \E o \in Order : CreateOrder(m, o)
    \/ \E w \in InstallTab :
          \/ \E o \in Order : ApproveOrder(w, o)
          \/ RunInstaller(w) \/ WriteInstalled(w) \/ SettleApproved(w)
    \/ \E o \in Order : DeclineOrder(o) \/ ExpireOrder(o) \/ GrowOld(o)
    \/ \E p \in Package : ByHand(p)
    \/ EndInstallProcess
    \/ \E ticked \in SUBSET Package : RemoveHelper(ticked)

InstallSpec == InstallInit /\ [][InstallNext]_installVars

-----------------------------------------------------------------------------
(* "Clean up what you created, never what you found": an uninstaller is    *)
(* started only for what JonDash has installed at some time, and the table *)
(* that answers for it says so exactly as long as the last thing JonDash   *)
(* did with a package was to install it, over removals of the helper too.  *)
(* Left out are packages that were removed along with the helper, or dealt *)
(* with just before a stop of the process, but only until an approval      *)
(* deals with them to the end; and packages that two dealt with at once.   *)
OnlyOwnIsRemoved ==
    /\ \A w \in InstallTab : JobAt(w, "execute") =>
          LET o == orders[job[w].order]
          IN  o.action = "uninstall" => deed[o.package] # "none"
    /\ \A p \in Package \ (tangled \cup unwritten \cup InWork(InstallTab)) :
          p \in installed <=> deed[p] = "install"
=============================================================================
