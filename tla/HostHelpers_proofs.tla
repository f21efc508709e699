------------------------- MODULE HostHelpers_proofs --------------------------
(***************************************************************************)
(* The helpers that act on the host and look at it, for any pages,         *)
(* modules, packages, containers, devices, counters, services and entries: *)
(* packages that are removed were installed by JonDash (HostInstall), a    *)
(* request that is answered done was done (DockerControl), rates are those *)
(* of the counters (HostMetrics), requests are answered once and grants    *)
(* are accounted for (HostServices).                                       *)
(***************************************************************************)
EXTENDS HostInstall, DockerControl, HostMetrics, HostServices, TLAPS

(***************************************************************************)
(* OnlyOwnIsRemoved. What makes it inductive: whoever is between approval  *)
(* and table keeps its request (JobsHaveOrders); whatever was ever in the  *)
(* table, or is asked to be removed, JonDash did something with            *)
(* (DeedsAreRecorded); and a package that was not dealt with twice at once *)
(* has one page at most at work on it, the table lagging behind the        *)
(* installer only there, or where nobody told it.                          *)
(***************************************************************************)

Working(w) == job[w].at \in {"execute", "write"}
PackageOf(w) == orders[job[w].order].package

JobsHaveOrders ==
    /\ \A w \in InstallTab : job[w].at # "raise"
    /\ \A m \in InstallModule : job[m].at \in {"none", "raise"}
    /\ \A w \in InstallTab : job[w].at # "none" =>
          job[w].order \in Order /\ orders[job[w].order] # NoOrder

DeedsAreRecorded ==
    /\ \A p \in installed : deed[p] # "none"
    /\ \A m \in InstallModule : job[m].at = "raise" /\ job[m].action = "uninstall" =>
          deed[job[m].package] # "none"
    /\ \A o \in Order : orders[o] # NoOrder /\ orders[o].action = "uninstall" =>
          deed[orders[o].package] # "none"

OnePageForEach ==
    \A v, w \in InstallTab : Working(v) /\ Working(w) /\ PackageOf(v) = PackageOf(w) =>
        v = w \/ PackageOf(w) \in tangled

WritesAreDue ==
    \A w \in InstallTab : job[w].at = "write" =>
        /\ deed[PackageOf(w)] # "none"
        /\ PackageOf(w) \notin tangled => deed[PackageOf(w)] = orders[job[w].order].action

TableIsTrue ==
    \A p \in Package \ (tangled \cup unwritten) :
        (\A w \in InstallTab : job[w].at = "write" => PackageOf(w) # p) =>
            (p \in installed <=> deed[p] = "install")

InstallIInv ==
    /\ InstallTypeOK
    /\ JobsHaveOrders
    /\ DeedsAreRecorded
    /\ OnePageForEach
    /\ WritesAreDue
    /\ TableIsTrue

OrderRow == [state : {"pending"} \cup Verdict, of : InstallModule, package : Package, action : Doing]

-----------------------------------------------------------------------------
(* The invariant says what is wanted.                                      *)

LEMMA IInvOnlyOwnIsRemoved == InstallIInv => OnlyOwnIsRemoved
<1> SUFFICES ASSUME InstallIInv PROVE OnlyOwnIsRemoved
  OBVIOUS
<1>1. ASSUME NEW w \in InstallTab, JobAt(w, "execute"), orders[job[w].order].action = "uninstall"
      PROVE  deed[orders[job[w].order].package] # "none"
  BY <1>1 DEF InstallIInv, JobAt, JobsHaveOrders, DeedsAreRecorded
<1>2. ASSUME NEW p \in Package \ (tangled \cup unwritten \cup InWork(InstallTab))
      PROVE  p \in installed <=> deed[p] = "install"
  <2>1. \A w \in InstallTab : job[w].at = "write" => PackageOf(w) # p
    BY <1>2 DEF InWork, PackageOf
  <2> QED
    BY <1>2, <2>1 DEF InstallIInv, TableIsTrue
<1> QED
  BY <1>1, <1>2 DEF OnlyOwnIsRemoved

LEMMA InstallInitIInv == InstallInit => InstallIInv
<1> SUFFICES ASSUME InstallInit PROVE InstallIInv
  OBVIOUS
<1>1. \A w \in InstallTab \cup InstallModule : job[w].at = "none"
  BY DEF InstallInit, NoJob
<1> QED
  BY <1>1 DEF InstallInit, InstallIInv, InstallTypeOK, JobsHaveOrders, DeedsAreRecorded, OnePageForEach,
     WritesAreDue, TableIsTrue, Working, PackageOf, NoJob, NoOrder

-----------------------------------------------------------------------------
(* Steps that leave pages, tables, deeds and tangles as they are.          *)

\* Settling changes the state of a row and nothing else of it.
LEMMA SettledRows ==
  ASSUME InstallTypeOK, NEW o \in Order, NEW v \in Verdict, SettleOrder(o, v)
  PROVE  /\ orders' \in [Order -> {NoOrder} \cup OrderRow]
         /\ \A x \in Order : /\ orders'[x] = NoOrder <=> orders[x] = NoOrder
                             /\ orders[x] # NoOrder => /\ orders'[x].package = orders[x].package
                                                       /\ orders'[x].action = orders[x].action
<1>1. CASE orders[o].state = "pending"
  <2>1. orders[o] \in OrderRow
    BY <1>1 DEF InstallTypeOK, NoOrder, OrderRow
  <2>2. orders' = [orders EXCEPT ![o].state = v]
    BY <1>1 DEF SettleOrder
  <2> QED
    BY <2>1, <2>2 DEF InstallTypeOK, NoOrder, OrderRow
<1>2. CASE orders[o].state # "pending"
  BY <1>2 DEF InstallTypeOK, SettleOrder, OrderRow
<1> QED
  BY <1>1, <1>2

\* Rows may be settled while pages work on.
LEMMA RowsSettle ==
  ASSUME InstallIInv, UNCHANGED <<installed, job, deed, unwritten, tangled>>, old' \subseteq Order, present' \subseteq Package,
         orders' \in [Order -> {NoOrder} \cup OrderRow],
         \A x \in Order : /\ orders'[x] = NoOrder <=> orders[x] = NoOrder
                          /\ orders[x] # NoOrder => /\ orders'[x].package = orders[x].package
                                                    /\ orders'[x].action = orders[x].action
  PROVE  InstallIInv'
<1>1. InstallTypeOK'
  BY DEF InstallIInv, InstallTypeOK, OrderRow
<1>2. \A w \in InstallTab : Working(w) =>
         /\ job'[w] = job[w]
         /\ orders'[job[w].order].package = orders[job[w].order].package
         /\ orders'[job[w].order].action = orders[job[w].order].action
  BY DEF InstallIInv, JobsHaveOrders, Working
<1>3. JobsHaveOrders'
  BY DEF InstallIInv, JobsHaveOrders
<1>4. DeedsAreRecorded'
  BY DEF InstallIInv, DeedsAreRecorded
<1>5. OnePageForEach' /\ WritesAreDue' /\ TableIsTrue'
  BY <1>2 DEF InstallIInv, OnePageForEach, WritesAreDue, TableIsTrue, Working, PackageOf
<1> QED
  BY <1>1, <1>3, <1>4, <1>5 DEF InstallIInv

\* A module asks, or the row is written: no page is concerned, and a request
\* to remove is for something JonDash has dealt with.
LEMMA ModuleAsks ==
  ASSUME InstallIInv, NEW m \in InstallModule,
         \/ \E p \in Package, a \in Doing : Raise(m, p, a)
         \/ \E o \in Order : CreateOrder(m, o)
  PROVE  InstallIInv'
<1>1. UNCHANGED <<installed, old, present, deed, unwritten, tangled>>
  BY DEF Raise, CreateOrder
<1>2. \A w \in InstallTab : /\ job'[w] = job[w]
                            /\ job[w].at # "none" => orders'[job[w].order] = orders[job[w].order]
  <2> TAKE w \in InstallTab
  <2>1. w # m
    BY InstallConstantsOK
  <2>2. job'[w] = job[w]
    BY <2>1 DEF Raise, CreateOrder, Turns, InstallIInv, InstallTypeOK
  <2>3. CASE \E p \in Package, a \in Doing : Raise(m, p, a)
    BY <2>2, <2>3 DEF Raise
  <2>4. ASSUME NEW o \in Order, CreateOrder(m, o)
        PROVE  job[w].at # "none" => orders'[job[w].order] = orders[job[w].order]
    BY <2>4 DEF CreateOrder, InstallIInv, JobsHaveOrders, InstallTypeOK
  <2> QED
    BY <2>2, <2>3, <2>4
<1>3. ASSUME NEW p \in Package, NEW a \in Doing, Raise(m, p, a)
      PROVE  /\ InstallTypeOK' /\ DeedsAreRecorded'
             /\ \A x \in InstallModule : job'[x].at \in {"none", "raise"}
  <2>1. job' = [job EXCEPT ![m] = [at |-> "raise", package |-> p, action |-> a]] /\ orders' = orders
    BY <1>3 DEF Raise, Turns
  <2>2. a = "uninstall" => deed[p] # "none"
    BY <1>3 DEF Raise, MayAsk, InstallIInv, DeedsAreRecorded
  <2>3. InstallTypeOK'
    BY <1>1, <2>1 DEF InstallIInv, InstallTypeOK
  <2>4. \A x \in InstallModule :
           job'[x] = (IF x = m THEN [at |-> "raise", package |-> p, action |-> a] ELSE job[x])
    BY <2>1 DEF InstallIInv, InstallTypeOK
  <2> QED
    BY <1>1, <2>1, <2>2, <2>3, <2>4 DEF InstallIInv, DeedsAreRecorded, JobsHaveOrders
<1>4. ASSUME NEW o \in Order, CreateOrder(m, o)
      PROVE  /\ InstallTypeOK' /\ DeedsAreRecorded'
             /\ \A x \in InstallModule : job'[x].at \in {"none", "raise"}
  <2> DEFINE row == [state |-> "pending", of |-> m, package |-> job[m].package, action |-> job[m].action]
  <2>1. job[m] \in [at : {"raise"}, package : Package, action : Doing]
    BY <1>4 DEF CreateOrder, JobAt, InstallIInv, InstallTypeOK, NoJob
  <2>2. row \in OrderRow
    BY <2>1 DEF OrderRow
  <2>3. orders' = [orders EXCEPT ![o] = row] /\ job' = [job EXCEPT ![m] = NoJob]
    BY <1>4 DEF CreateOrder, Turns
  <2>4. InstallTypeOK'
    BY <1>1, <2>2, <2>3 DEF InstallIInv, InstallTypeOK, OrderRow
  <2>5. \A x \in InstallModule : job'[x] = (IF x = m THEN NoJob ELSE job[x])
    BY <2>3 DEF InstallIInv, InstallTypeOK
  <2>6. \A x \in Order : orders'[x] = (IF x = o THEN row ELSE orders[x])
    BY <2>3 DEF InstallIInv, InstallTypeOK
  <2>7. row.action = "uninstall" => deed[row.package] # "none"
    BY <1>4, <2>1 DEF InstallIInv, DeedsAreRecorded, CreateOrder, JobAt
  <2> HIDE DEF row
  <2>8. DeedsAreRecorded'
    BY <1>1, <2>5, <2>6, <2>7 DEF InstallIInv, DeedsAreRecorded, NoJob
  <2> QED
    BY <2>4, <2>5, <2>8 DEF InstallIInv, JobsHaveOrders, NoJob
<1>5. /\ InstallTypeOK' /\ DeedsAreRecorded'
      /\ \A x \in InstallModule : job'[x].at \in {"none", "raise"}
  BY <1>3, <1>4
<1>6. JobsHaveOrders'
  BY <1>2, <1>5 DEF InstallIInv, JobsHaveOrders
<1>7. OnePageForEach' /\ WritesAreDue' /\ TableIsTrue'
  BY <1>1, <1>2 DEF InstallIInv, OnePageForEach, WritesAreDue, TableIsTrue, Working, PackageOf
<1> QED
  BY <1>5, <1>6, <1>7 DEF InstallIInv

-----------------------------------------------------------------------------
(* The four steps of an approval.                                          *)

\* What the other pages do stays as it is.
LEMMA OthersStay ==
  ASSUME InstallIInv, NEW w \in InstallTab, NEW j, Turns(w, j)
  PROVE  \A x \in InstallTab \cup InstallModule : job'[x] = IF x = w THEN j ELSE job[x]
BY DEF InstallIInv, InstallTypeOK, Turns

LEMMA Approves ==
  ASSUME InstallIInv, NEW w \in InstallTab, NEW o \in Order, ApproveOrder(w, o)
  PROVE  InstallIInv'
<1> DEFINE j == [at |-> "execute", order |-> o]
<1>1. /\ UNCHANGED <<installed, orders, old, present, deed, unwritten>>
      /\ job' = [job EXCEPT ![w] = j]
      /\ tangled' = tangled \cup ({orders[o].package} \cap InWork(InstallTab \ {w}))
      /\ job[w] = NoJob
  BY DEF ApproveOrder, Turns
<1>2. \A x \in InstallTab \cup InstallModule : job'[x] = IF x = w THEN j ELSE job[x]
  BY OthersStay DEF ApproveOrder
<1>3. orders[o] \in OrderRow /\ orders[o] # NoOrder
  BY DEF ApproveOrder, NoOrder, InstallIInv, InstallTypeOK, OrderRow
<1>4. InstallTypeOK'
  BY <1>1, <1>3 DEF InstallIInv, InstallTypeOK, OrderRow
<1>5. JobsHaveOrders'
  BY <1>1, <1>2, <1>3, InstallConstantsOK DEF InstallIInv, JobsHaveOrders
<1>6. DeedsAreRecorded'
  BY <1>1, <1>2, InstallConstantsOK DEF InstallIInv, DeedsAreRecorded
<1>7. OnePageForEach'
  <2> SUFFICES ASSUME NEW v \in InstallTab, NEW x \in InstallTab, Working(v)', Working(x)',
                      PackageOf(v)' = PackageOf(x)', v # x
               PROVE  PackageOf(x)' \in tangled'
    BY DEF OnePageForEach
  <2>1. \A y \in InstallTab \ {w} : (Working(y)' => Working(y)) /\ PackageOf(y)' = PackageOf(y)
    BY <1>1, <1>2 DEF Working, PackageOf
  <2>2. PackageOf(w)' = orders[o].package
    BY <1>1, <1>2 DEF PackageOf
  <2>3. \A y \in InstallTab \ {w} : Working(y) /\ PackageOf(y) = orders[o].package =>
           orders[o].package \in tangled'
    BY <1>1 DEF InWork, Working, PackageOf
  <2>4. CASE v # w /\ x # w
    BY <1>1, <2>1, <2>4 DEF InstallIInv, OnePageForEach
  <2>5. CASE v = w \/ x = w
    BY <2>1, <2>2, <2>3, <2>5
  <2> QED
    BY <2>4, <2>5
<1>8. \A x \in InstallTab : job'[x].at = "write" <=> job[x].at = "write"
  BY <1>1, <1>2 DEF NoJob
<1>9. \A x \in InstallTab : job[x].at = "write" => PackageOf(x)' = PackageOf(x) /\ job'[x] = job[x]
  BY <1>1, <1>2 DEF NoJob, PackageOf
<1>10. WritesAreDue' /\ TableIsTrue'
  BY <1>1, <1>8, <1>9 DEF InstallIInv, WritesAreDue, TableIsTrue
<1> QED
  BY <1>4, <1>5, <1>6, <1>7, <1>10 DEF InstallIInv

LEMMA Settles ==
  ASSUME InstallIInv, NEW w \in InstallTab, SettleApproved(w)
  PROVE  InstallIInv'
<1>1. /\ UNCHANGED <<installed, old, present, deed, unwritten, tangled>>
      /\ job' = [job EXCEPT ![w] = NoJob]
      /\ job[w].at = "settle"
      /\ SettleOrder(job[w].order, job[w].verdict)
  BY DEF SettleApproved, Turns, JobAt
<1>2. job[w].order \in Order /\ job[w].verdict \in Verdict
  BY <1>1 DEF InstallIInv, InstallTypeOK, NoJob
<1>3. /\ orders' \in [Order -> {NoOrder} \cup OrderRow]
      /\ \A x \in Order : /\ orders'[x] = NoOrder <=> orders[x] = NoOrder
                          /\ orders[x] # NoOrder => /\ orders'[x].package = orders[x].package
                                                    /\ orders'[x].action = orders[x].action
  BY <1>1, <1>2, SettledRows DEF InstallIInv
<1>4. \A x \in InstallTab \cup InstallModule : job'[x] = IF x = w THEN NoJob ELSE job[x]
  BY OthersStay DEF SettleApproved
<1>5. InstallTypeOK'
  BY <1>1, <1>3 DEF InstallIInv, InstallTypeOK, OrderRow
<1>6. JobsHaveOrders'
  BY <1>3, <1>4, InstallConstantsOK DEF InstallIInv, JobsHaveOrders, NoJob
<1>7. DeedsAreRecorded'
  BY <1>1, <1>3, <1>4, InstallConstantsOK DEF InstallIInv, DeedsAreRecorded
<1>8. \A x \in InstallTab : Working(x)' <=> Working(x)
  BY <1>1, <1>4 DEF Working, NoJob
<1>9. \A x \in InstallTab : Working(x) =>
         /\ job'[x] = job[x]
         /\ PackageOf(x)' = PackageOf(x)
         /\ orders'[job[x].order].action = orders[job[x].order].action
  BY <1>1, <1>3, <1>4 DEF InstallIInv, JobsHaveOrders, Working, PackageOf, NoJob
<1>10. \A x \in InstallTab : job'[x].at = "write" <=> job[x].at = "write"
  BY <1>1, <1>4 DEF NoJob
<1>11. OnePageForEach'
  BY <1>1, <1>8, <1>9 DEF InstallIInv, OnePageForEach
<1>12. WritesAreDue' /\ TableIsTrue'
  BY <1>1, <1>9, <1>10 DEF InstallIInv, WritesAreDue, TableIsTrue, Working
<1> QED
  BY <1>5, <1>6, <1>7, <1>11, <1>12 DEF InstallIInv

\* From the approval to the installer's end the table is as it was before; only
\* this page is to blame for what it now lags behind.
LEMMA Installs ==
  ASSUME InstallIInv, NEW w \in InstallTab, RunInstaller(w)
  PROVE  InstallIInv'
<1> DEFINE o == job[w].order
           p == orders[o].package
           a == orders[o].action
<1>1. UNCHANGED <<installed, orders, old, unwritten, tangled>> /\ job[w].at = "execute"
  BY DEF RunInstaller, JobAt
<1>2. o \in Order /\ orders[o] \in OrderRow
  BY <1>1 DEF InstallIInv, InstallTypeOK, JobsHaveOrders, OrderRow
<1>3. p \in Package /\ a \in Doing
  BY <1>2 DEF OrderRow
<1>4. CASE /\ a = "uninstall" => p \in present
           /\ present' = IF a = "install" THEN present \cup {p} ELSE present \ {p}
           /\ deed' = [deed EXCEPT ![p] = a]
           /\ Turns(w, [at |-> "write", order |-> o])
  <2> DEFINE j == [at |-> "write", order |-> o]
  <2>1. \A x \in InstallTab \cup InstallModule : job'[x] = IF x = w THEN j ELSE job[x]
    BY <1>4, OthersStay
  <2>2. \A q \in Package : deed'[q] = IF q = p THEN a ELSE deed[q]
    BY <1>4 DEF InstallIInv, InstallTypeOK
  <2>3. InstallTypeOK'
    BY <1>1, <1>2, <1>3, <1>4 DEF InstallIInv, InstallTypeOK, Turns
  <2>4. a # "none"
    BY <1>3 DEF Doing
  <2>5. JobsHaveOrders'
    BY <1>1, <1>2, <2>1, InstallConstantsOK DEF InstallIInv, JobsHaveOrders
  <2>6. DeedsAreRecorded'
    <3>1. \A q \in Package : deed[q] # "none" => deed'[q] # "none"
      BY <2>2, <2>4
    <3>2. \A q \in installed : q \in Package
      BY DEF InstallIInv, InstallTypeOK
    <3>3. \A m \in InstallModule : job'[m] = job[m]
      BY <2>1, InstallConstantsOK
    <3>4. \A m \in InstallModule : job[m].at = "raise" => job[m].package \in Package
      BY DEF InstallIInv, InstallTypeOK, NoJob
    <3>5. \A x \in Order : orders[x] # NoOrder => orders[x].package \in Package
      BY DEF InstallIInv, InstallTypeOK, OrderRow
    <3> QED
      BY <1>1, <3>1, <3>2, <3>3, <3>4, <3>5 DEF InstallIInv, DeedsAreRecorded
  <2>7. \A x \in InstallTab : (Working(x)' <=> Working(x)) /\ PackageOf(x)' = PackageOf(x)
    BY <1>1, <2>1 DEF Working, PackageOf
  <2>8. OnePageForEach'
    BY <1>1, <2>7 DEF InstallIInv, OnePageForEach
  <2>9. WritesAreDue'
    <3> SUFFICES ASSUME NEW x \in InstallTab, job'[x].at = "write"
                 PROVE  /\ deed'[PackageOf(x)'] # "none"
                        /\ PackageOf(x)' \notin tangled' => deed'[PackageOf(x)'] = orders'[job'[x].order].action
      BY DEF WritesAreDue
    <3>1. CASE x = w
      BY <1>1, <1>3, <2>1, <2>2, <2>4, <3>1 DEF PackageOf
    <3>2. CASE x # w
      <4>1. job[x].at = "write" /\ job'[x] = job[x]
        BY <2>1, <3>2
      <4>2. PackageOf(x) \in Package
        BY <4>1 DEF PackageOf, InstallIInv, JobsHaveOrders, InstallTypeOK, OrderRow
      <4>3. PackageOf(x) = p => p \in tangled
        BY <1>1, <3>2, <4>1 DEF InstallIInv, OnePageForEach, Working, PackageOf
      <4> QED
        BY <1>1, <2>2, <2>4, <2>7, <4>1, <4>2, <4>3 DEF InstallIInv, WritesAreDue
    <3> QED
      BY <3>1, <3>2
  <2>10. TableIsTrue'
    <3> SUFFICES ASSUME NEW q \in Package \ (tangled \cup unwritten), \A x \in InstallTab : job'[x].at = "write" => PackageOf(x)' # q
                 PROVE  q \in installed <=> deed'[q] = "install"
      BY <1>1 DEF TableIsTrue
    <3>1. q # p
      BY <2>1, <2>7 DEF PackageOf
    <3>2. \A x \in InstallTab : job[x].at = "write" => PackageOf(x) # q
      BY <1>1, <2>1, <2>7
    <3> QED
      BY <2>2, <3>1, <3>2 DEF InstallIInv, TableIsTrue
  <2> QED
    BY <2>3, <2>5, <2>6, <2>8, <2>9, <2>10 DEF InstallIInv
<1>5. ASSUME NEW v \in {"cancelled-at-uac", "failed"},
             Turns(w, [at |-> "settle", order |-> o, verdict |-> v]),
             UNCHANGED <<present, deed>>
      PROVE  InstallIInv'
  <2> DEFINE j == [at |-> "settle", order |-> o, verdict |-> v]
  <2>1. \A x \in InstallTab \cup InstallModule : job'[x] = IF x = w THEN j ELSE job[x]
    BY <1>5, OthersStay
  <2>2. InstallTypeOK'
    BY <1>1, <1>2, <1>5 DEF InstallIInv, InstallTypeOK, Turns, Verdict
  <2>3. JobsHaveOrders' /\ DeedsAreRecorded'
    BY <1>1, <1>2, <1>5, <2>1, InstallConstantsOK DEF InstallIInv, JobsHaveOrders, DeedsAreRecorded
  <2>4. \A x \in InstallTab : /\ Working(x)' => Working(x)
                              /\ PackageOf(x)' = PackageOf(x)
                              /\ job'[x].at = "write" <=> job[x].at = "write"
                              /\ job'[x].order = job[x].order
    BY <1>1, <2>1 DEF Working, PackageOf
  <2>5. OnePageForEach' /\ WritesAreDue' /\ TableIsTrue'
    BY <1>1, <1>5, <2>4 DEF InstallIInv, OnePageForEach, WritesAreDue, TableIsTrue
  <2> QED
    BY <2>2, <2>3, <2>5 DEF InstallIInv
<1> QED
  BY <1>4, <1>5 DEF RunInstaller

LEMMA Writes ==
  ASSUME InstallIInv, NEW w \in InstallTab, WriteInstalled(w)
  PROVE  InstallIInv'
<1> DEFINE o == job[w].order
           p == orders[o].package
           a == orders[o].action
           j == [at |-> "settle", order |-> o, verdict |-> "done"]
<1>1. /\ UNCHANGED <<orders, old, present, deed, tangled>>
      /\ job[w].at = "write"
      /\ installed' = IF a = "install" THEN installed \cup {p} ELSE installed \ {p}
      /\ unwritten' = unwritten \ {p}
      /\ Turns(w, j)
  BY DEF WriteInstalled, JobAt
<1>2. o \in Order /\ orders[o] \in OrderRow
  BY <1>1 DEF InstallIInv, InstallTypeOK, JobsHaveOrders, OrderRow
<1>3. p \in Package /\ a \in Doing
  BY <1>2 DEF OrderRow
<1>4. \A x \in InstallTab \cup InstallModule : job'[x] = IF x = w THEN j ELSE job[x]
  BY <1>1, OthersStay
<1>5. InstallTypeOK'
  BY <1>1, <1>2, <1>3 DEF InstallIInv, InstallTypeOK, Turns, Verdict
<1>6. JobsHaveOrders'
  BY <1>1, <1>2, <1>4, InstallConstantsOK DEF InstallIInv, JobsHaveOrders
<1>7. deed[p] # "none" /\ (p \notin tangled => deed[p] = a)
  BY <1>1 DEF InstallIInv, WritesAreDue, PackageOf
<1>8. DeedsAreRecorded'
  <2>1. \A m \in InstallModule : job'[m] = job[m]
    BY <1>4, InstallConstantsOK
  <2>2. installed' \subseteq installed \cup {p}
    BY <1>1
  <2> QED
    BY <1>1, <1>7, <2>1, <2>2 DEF InstallIInv, DeedsAreRecorded
<1>9. \A x \in InstallTab : /\ Working(x)' => Working(x)
                            /\ PackageOf(x)' = PackageOf(x)
                            /\ job'[x].at = "write" <=> job[x].at = "write" /\ x # w
                            /\ job'[x].order = job[x].order
  BY <1>1, <1>4 DEF Working, PackageOf
<1>10. OnePageForEach' /\ WritesAreDue'
  BY <1>1, <1>9 DEF InstallIInv, OnePageForEach, WritesAreDue
<1>11. TableIsTrue'
  <2> SUFFICES ASSUME NEW q \in Package \ (tangled \cup (unwritten \ {p})), \A x \in InstallTab : job'[x].at = "write" => PackageOf(x)' # q
               PROVE  q \in installed' <=> deed[q] = "install"
    BY <1>1 DEF TableIsTrue
  <2>1. CASE q = p
    BY <1>1, <1>3, <1>7, <2>1 DEF Doing
  <2>2. CASE q # p
    <3>1. \A x \in InstallTab : job[x].at = "write" => PackageOf(x) # q
      BY <1>9, <2>2 DEF PackageOf
    <3> QED
      BY <1>1, <2>2, <3>1 DEF InstallIInv, TableIsTrue
  <2> QED
    BY <2>1, <2>2
<1> QED
  BY <1>5, <1>6, <1>8, <1>10, <1>11 DEF InstallIInv

-----------------------------------------------------------------------------
(* The end of the process, and of the helper.                              *)

\* What was between the installer and the table is not written down.
LEMMA ProcessEnds == InstallIInv /\ EndInstallProcess => InstallIInv'
<1> SUFFICES ASSUME InstallIInv, EndInstallProcess PROVE InstallIInv'
  OBVIOUS
<1>1. UNCHANGED <<installed, orders, old, present, deed, tangled>>
  BY DEF EndInstallProcess
<1>2. \A w \in InstallTab \cup InstallModule : job'[w] = NoJob
  BY DEF EndInstallProcess, InstallIInv, InstallTypeOK
<1>3. \A w \in InstallTab : job[w].at = "write" => PackageOf(w) \in unwritten'
  BY DEF EndInstallProcess, InWork, JobAt, PackageOf
<1>4. unwritten \subseteq unwritten'
  BY DEF EndInstallProcess
<1>5. InstallTypeOK'
  <2>1. unwritten' \subseteq Package
    <3>1. \A w \in InstallTab : job[w].at = "write" => orders[job[w].order].package \in Package
      BY DEF InstallIInv, JobsHaveOrders, InstallTypeOK, OrderRow
    <3> QED
      BY <3>1 DEF EndInstallProcess, InWork, JobAt, InstallIInv, InstallTypeOK
  <2> QED
    BY <1>1, <2>1 DEF EndInstallProcess, InstallIInv, InstallTypeOK
<1>6. JobsHaveOrders' /\ DeedsAreRecorded' /\ OnePageForEach' /\ WritesAreDue'
  BY <1>1, <1>2 DEF InstallIInv, JobsHaveOrders, DeedsAreRecorded, OnePageForEach, WritesAreDue, Working, NoJob
<1>7. TableIsTrue'
  <2> SUFFICES ASSUME NEW q \in Package \ (tangled \cup unwritten') PROVE q \in installed <=> deed[q] = "install"
    BY <1>1 DEF TableIsTrue
  <2> QED
    BY <1>3, <1>4 DEF InstallIInv, TableIsTrue
<1> QED
  BY <1>5, <1>6, <1>7 DEF InstallIInv

\* What goes along with the helper was in its table, so that JonDash had dealt
\* with it; whoever is at work on it is no longer alone.
LEMMA HelperGoes ==
  ASSUME InstallIInv, NEW ticked \in SUBSET Package, RemoveHelper(ticked)
  PROVE  InstallIInv'
<1>1. PICK gone \in SUBSET (ticked \cap present) :
         /\ present' = present \ gone
         /\ deed' = [p \in Package |-> IF p \in gone THEN "uninstall" ELSE deed[p]]
         /\ unwritten' = unwritten \cup gone
         /\ tangled' = tangled \cup (gone \cap InWork(InstallTab))
  BY DEF RemoveHelper
<1>2. UNCHANGED <<installed, orders, old, job>>
  BY DEF RemoveHelper
<1>3. \A p \in Package : deed'[p] = IF p \in gone THEN "uninstall" ELSE deed[p]
  BY <1>1
<1>4. InstallTypeOK'
  BY <1>1, <1>2 DEF InstallIInv, InstallTypeOK, Doing
<1>5. \A p \in Package : deed[p] # "none" => deed'[p] # "none"
  BY <1>3
<1>6. DeedsAreRecorded'
  <2>1. \A q \in installed : q \in Package
    BY DEF InstallIInv, InstallTypeOK
  <2>2. \A m \in InstallModule : job[m].at = "raise" => job[m].package \in Package
    BY DEF InstallIInv, InstallTypeOK, NoJob
  <2>3. \A x \in Order : orders[x] # NoOrder => orders[x].package \in Package
    BY DEF InstallIInv, InstallTypeOK, OrderRow
  <2> QED
    BY <1>2, <1>5, <2>1, <2>2, <2>3 DEF InstallIInv, DeedsAreRecorded
<1>7. \A w \in InstallTab : (Working(w)' <=> Working(w)) /\ PackageOf(w)' = PackageOf(w)
  BY <1>2 DEF Working, PackageOf
<1>8. tangled \subseteq tangled'
  BY <1>1
<1>9. JobsHaveOrders' /\ OnePageForEach'
  BY <1>2, <1>7, <1>8 DEF InstallIInv, JobsHaveOrders, OnePageForEach
<1>10. WritesAreDue'
  <2> SUFFICES ASSUME NEW w \in InstallTab, job[w].at = "write"
               PROVE  /\ deed'[PackageOf(w)] # "none"
                      /\ PackageOf(w) \notin tangled' => deed'[PackageOf(w)] = orders[job[w].order].action
    BY <1>2, <1>7 DEF WritesAreDue
  <2>1. PackageOf(w) \in Package
    BY DEF PackageOf, InstallIInv, JobsHaveOrders, InstallTypeOK, OrderRow
  <2>2. PackageOf(w) \in InWork(InstallTab)
    BY DEF PackageOf, InWork
  <2> QED
    BY <1>1, <1>3, <1>5, <2>1, <2>2 DEF InstallIInv, WritesAreDue
<1>11. TableIsTrue'
  <2> SUFFICES ASSUME NEW q \in Package \ (tangled' \cup unwritten'),
                      \A w \in InstallTab : job[w].at = "write" => PackageOf(w) # q
               PROVE  q \in installed <=> deed'[q] = "install"
    BY <1>2, <1>7 DEF TableIsTrue
  <2>1. q \notin gone /\ q \in Package \ (tangled \cup unwritten)
    BY <1>1
  <2> QED
    BY <1>3, <2>1 DEF InstallIInv, TableIsTrue
<1> QED
  BY <1>4, <1>6, <1>9, <1>10, <1>11 DEF InstallIInv

-----------------------------------------------------------------------------
LEMMA NextIInv == InstallIInv /\ [InstallNext]_installVars => InstallIInv'
<1> SUFFICES ASSUME InstallIInv, [InstallNext]_installVars PROVE InstallIInv'
  OBVIOUS
<1>1. present \subseteq Package /\ old \subseteq Order /\ orders \in [Order -> {NoOrder} \cup OrderRow]
  BY DEF InstallIInv, InstallTypeOK, OrderRow
<1>2. ASSUME NEW o \in Order, DeclineOrder(o) \/ ExpireOrder(o) PROVE InstallIInv'
  <2>1. PICK v \in {"declined", "expired"} : SettleOrder(o, v)
    BY <1>2 DEF DeclineOrder, ExpireOrder
  <2>2. v \in Verdict
    BY DEF Verdict
  <2>3. UNCHANGED <<installed, old, present, job, deed, unwritten, tangled>>
    BY <1>2 DEF DeclineOrder, ExpireOrder
  <2> QED
    BY <1>1, <2>1, <2>2, <2>3, SettledRows, RowsSettle DEF InstallIInv
<1>3. ASSUME NEW o \in Order, GrowOld(o) PROVE InstallIInv'
  BY <1>1, <1>3, RowsSettle DEF GrowOld
<1>4. ASSUME NEW p \in Package, ByHand(p) PROVE InstallIInv'
  BY <1>1, <1>4, RowsSettle DEF ByHand
<1>5. CASE UNCHANGED installVars
  BY <1>1, <1>5, RowsSettle DEF installVars
<1> QED
  BY <1>2, <1>3, <1>4, <1>5, ModuleAsks, Approves, Installs, Writes, Settles, ProcessEnds, HelperGoes
     DEF InstallNext

LEMMA InstallIInvAlways == InstallSpec => []InstallIInv
BY InstallInitIInv, NextIInv, PTL DEF InstallSpec

(***************************************************************************)
(* "Clean up what you created, never what you found" (host-install,        *)
(* api.ts and lib/store.ts), for any number of pages and modules that act  *)
(* while an installer runs.                                                *)
(***************************************************************************)
THEOREM OnlyOwnIsRemovedAlways == InstallSpec => []OnlyOwnIsRemoved
BY InstallIInvAlways, IInvOnlyOwnIsRemoved, PTL

-----------------------------------------------------------------------------
(***************************************************************************)
(* DoneIsDone. It is not inductive: the engine's answer to a page must be  *)
(* to what that page asked (WorkIsAsked), and "already so" must find the   *)
(* container in a state the request has seen (SeenIsCurrent).              *)
(***************************************************************************)

\* What the engine does for a page is what the page still waits for.
WorkIsAsked ==
    \A j \in work : j.by # "nobody" =>
        /\ asking[j.by].at = "taken"
        /\ asking[j.by].of = j.of
        /\ asking[j.by].verb = j.verb

\* A request has seen the state its container is in; a restart only what
\* came after it.
SeenIsCurrent ==
    \A p \in ActionPage :
        asking[p].at # "none" /\ asking[p].verb # "restart" => container[asking[p].of] \in seen[p]

DockerIInv == DockerTypeOK /\ WorkIsAsked /\ SeenIsCurrent /\ DoneIsDone

LEMMA TargetIsState == \A verb \in Verbs : Target(verb) \in ContainerState
BY DEF Verbs, Target, ContainerState

-----------------------------------------------------------------------------
LEMMA DockerInitIInv == DockerInit => DockerIInv
<1> SUFFICES ASSUME DockerInit PROVE DockerIInv
  OBVIOUS
<1>1. \A p \in ActionPage : asking[p].at = "none"
  BY DEF DockerInit, NoRequest
<1> QED
  BY <1>1 DEF DockerInit, DockerIInv, DockerTypeOK, WorkIsAsked, SeenIsCurrent, DoneIsDone, NoRequest

LEMMA NextDockerTypeOK == DockerTypeOK /\ WorkIsAsked /\ [DockerNext]_dockerVars => DockerTypeOK'
<1> SUFFICES ASSUME DockerTypeOK, WorkIsAsked, [DockerNext]_dockerVars PROVE DockerTypeOK'
  OBVIOUS
<1> USE DEF DockerTypeOK, AskingTurns, Answers, NoRequest, Job, Says, ContainerBecomes, EngineAnswer
<1>1. ASSUME NEW p \in ActionPage, NEW c \in Container, NEW verb \in Verbs, ContainerAction(p, c, verb)
      PROVE  DockerTypeOK'
  BY <1>1 DEF ContainerAction
<1>2. ASSUME NEW p \in ActionPage, CannotReach(p) PROVE DockerTypeOK'
  BY <1>2 DEF CannotReach
<1>3. ASSUME NEW p \in ActionPage, StopWaiting(p) PROVE DockerTypeOK'
  <2>1. work' \subseteq Job
    BY <1>3 DEF StopWaiting
  <2> QED
    BY <1>3, <2>1 DEF StopWaiting
<1>4. ASSUME NEW p \in ActionPage, AnswerArrives(p) PROVE DockerTypeOK'
  BY <1>4 DEF AnswerArrives
<1>5. ASSUME NEW p \in ActionPage, EngineTakes(p) PROVE DockerTypeOK'
  <2>1. asking[p] \in [at : {"sent", "taken", "hung"}, of : Container, verb : Verbs]
    BY <1>5 DEF EngineTakes
  <2> QED
    BY <1>5, <2>1 DEF EngineTakes
<1>6. ASSUME NEW j \in work, NEW well \in BOOLEAN, EngineFinishes(j, well) PROVE DockerTypeOK'
  <2>1. j \in Job /\ Target(j.verb) \in ContainerState
    BY TargetIsState
  <2>2. /\ container' \in [Container -> ContainerState]
        /\ seen' \in [ActionPage -> SUBSET ContainerState]
    BY <1>6, <2>1 DEF EngineFinishes
  <2>3. CASE j.by = "nobody"
    BY <1>6, <2>2, <2>3 DEF EngineFinishes
  <2>4. CASE j.by # "nobody"
    <3>1. j.by \in ActionPage /\ asking[j.by].of = j.of /\ asking[j.by].verb = j.verb
      BY <2>1, <2>4 DEF WorkIsAsked
    <3> DEFINE status == IF well THEN 204 ELSE 500
               answer == [at |-> "answered", of |-> j.of, verb |-> j.verb, status |-> status]
    <3>2. answer \in [at : {"answered"}, of : Container, verb : Verbs, status : EngineAnswer]
      BY <2>1
    <3>3. asking' = [asking EXCEPT ![j.by] = answer]
      BY <1>6, <2>4, <3>1 DEF EngineFinishes
    <3>4. work' \subseteq Job /\ engineUp' = engineUp /\ lastNotice' = lastNotice
      BY <1>6 DEF EngineFinishes
    <3> HIDE DEF answer
    <3> QED
      BY ZenonT(40), <2>2, <3>2, <3>3, <3>4
  <2> QED
    BY <2>3, <2>4
<1>7. ASSUME NEW c \in Container, NEW state \in ContainerState, ElsewhereChanges(c, state)
      PROVE  DockerTypeOK'
  BY <1>7 DEF ElsewhereChanges
<1>8. CASE StopEngine
  <2> DEFINE Left == [at : {"sent", "taken", "hung"}, of : Container, verb : Verbs]
             Answered == [at : {"answered"}, of : Container, verb : Verbs, status : EngineAnswer]
             After(p) ==
                CASE asking[p].at = "taken"    -> NoRequest
                  [] asking[p].at = "answered" -> [at |-> "hung", of |-> asking[p].of, verb |-> asking[p].verb]
                  [] OTHER -> asking[p]
  <2>1. \A p \in ActionPage : After(p) \in {NoRequest} \cup Left \cup Answered
    <3> TAKE p \in ActionPage
    <3>1. CASE asking[p].at = "answered"
      <4>1. asking[p] \in Answered
        BY <3>1
      <4> QED
        BY <3>1, <4>1
    <3>2. CASE asking[p].at # "answered"
      BY <3>2
    <3> QED
      BY <3>1, <3>2
  <2>2. asking' = [p \in ActionPage |-> After(p)]
    BY <1>8 DEF StopEngine
  <2>3. asking' \in [ActionPage -> {NoRequest} \cup Left \cup Answered]
    <3> HIDE DEF Left, Answered, After
    <3> QED
      BY <2>1, <2>2
  <2>4. container' \in [Container -> ContainerState] /\ engineUp' \in BOOLEAN /\ work' \subseteq Job
    BY <1>8 DEF StopEngine, ContainerState
  <2>5. seen' \in [ActionPage -> SUBSET ContainerState]
    <3>1. \A p \in ActionPage : seen[p] \cup {"exited"} \in SUBSET ContainerState
      BY DEF ContainerState
    <3> HIDE DEF DockerTypeOK
    <3>2. seen \in [ActionPage -> SUBSET ContainerState]
      BY DEF DockerTypeOK
    <3> QED
      BY <1>8, <3>1, <3>2 DEF StopEngine
  <2>6. lastNotice' \in {"none", "ok", "bad"}
    BY <1>8 DEF StopEngine
  <2> HIDE DEF Left, Answered
  <2> QED
    BY <2>3, <2>4, <2>5, <2>6 DEF Left, Answered
<1>9. CASE StartEngine
  BY <1>9 DEF StartEngine
<1>10. CASE ForgetRequests
  BY <1>10 DEF ForgetRequests
<1>11. CASE UNCHANGED dockerVars
  BY <1>11 DEF dockerVars
<1> QED
  BY <1>1, <1>2, <1>3, <1>4, <1>5, <1>6, <1>7, <1>8, <1>9, <1>10, <1>11 DEF DockerNext

-----------------------------------------------------------------------------
LEMMA NextWorkIsAsked ==
  DockerTypeOK /\ WorkIsAsked /\ [DockerNext]_dockerVars => WorkIsAsked'
<1> SUFFICES ASSUME DockerTypeOK, WorkIsAsked, [DockerNext]_dockerVars,
                    NEW j \in work', j.by # "nobody"
             PROVE  /\ asking'[j.by].at = "taken"
                    /\ asking'[j.by].of = j.of
                    /\ asking'[j.by].verb = j.verb
  BY DEF WorkIsAsked
<1> DEFINE Kept == /\ asking'[j.by].at = "taken"
                   /\ asking'[j.by].of = j.of
                   /\ asking'[j.by].verb = j.verb
<1>1. \A i \in work : i.by # "nobody" =>
         /\ i.by \in ActionPage
         /\ asking[i.by].at = "taken"
         /\ asking[i.by].of = i.of
         /\ asking[i.by].verb = i.verb
  BY DEF DockerTypeOK, Job, WorkIsAsked
\* A page that is not waiting for the engine turns elsewhere.
<1>2. ASSUME NEW p \in ActionPage, NEW r, asking' = [asking EXCEPT ![p] = r],
             asking[p].at # "taken", work' = work
      PROVE  Kept
  BY <1>1, <1>2 DEF DockerTypeOK
<1>3. ASSUME NEW p \in ActionPage, NEW c \in Container, NEW verb \in Verbs, ContainerAction(p, c, verb)
      PROVE  Kept
  <2>1. asking[p].at # "taken" /\ work' = work
    BY <1>3 DEF ContainerAction, NoRequest
  <2>2. asking' = [asking EXCEPT ![p] = [at |-> "sent", of |-> c, verb |-> verb]]
    BY <1>3 DEF ContainerAction, AskingTurns
  <2> QED
    BY <1>2, <2>1, <2>2
<1>4. ASSUME NEW p \in ActionPage, CannotReach(p) PROVE Kept
  BY <1>2, <1>4 DEF CannotReach, Says, AskingTurns
<1>5. ASSUME NEW p \in ActionPage, StopWaiting(p) PROVE Kept
  <2>1. PICK i \in work : j = [i EXCEPT !.by = IF @ = p THEN "nobody" ELSE @]
    BY <1>5 DEF StopWaiting
  <2>2. i \in Job
    BY DEF DockerTypeOK
  <2>3. i.by # p /\ j = i
    BY <2>1, <2>2 DEF Job
  <2> QED
    BY <1>1, <1>5, <2>3 DEF StopWaiting, Says, AskingTurns, DockerTypeOK
<1>6. ASSUME NEW p \in ActionPage, AnswerArrives(p) PROVE Kept
  BY <1>2, <1>6 DEF AnswerArrives, Says, AskingTurns
<1>7. ASSUME NEW p \in ActionPage, EngineTakes(p) PROVE Kept
  <2>1. asking[p].at = "sent"
    BY <1>7 DEF EngineTakes
  <2>2. CASE work' = work
    BY <1>2, <1>7, <2>1, <2>2 DEF EngineTakes, Answers, AskingTurns
  <2>3. CASE /\ AskingTurns(p, [asking[p] EXCEPT !.at = "taken"])
             /\ work' = work \cup {[by |-> p, of |-> asking[p].of, verb |-> asking[p].verb]}
    <3>1. CASE j \in work
      BY <1>1, <2>1, <2>3, <3>1 DEF AskingTurns, DockerTypeOK
    <3>2. CASE j = [by |-> p, of |-> asking[p].of, verb |-> asking[p].verb]
      <4>1. asking[p] \in [at : {"sent", "taken", "hung"}, of : Container, verb : Verbs]
        BY <2>1 DEF DockerTypeOK, NoRequest
      <4>2. asking'[p] = [asking[p] EXCEPT !.at = "taken"]
        BY <2>3 DEF AskingTurns, DockerTypeOK
      <4> QED
        BY <3>2, <4>1, <4>2
    <3> QED
      BY <2>3, <3>1, <3>2
  <2> QED
    BY <1>7, <2>2, <2>3 DEF EngineTakes
<1>8. ASSUME NEW i \in work, NEW well \in BOOLEAN, EngineFinishes(i, well) PROVE Kept
  \* Two jobs for one page would be the same job.
  <2>1. j \in work /\ j # i
    BY <1>8 DEF EngineFinishes
  <2>2. i \in Job /\ j \in Job
    BY <2>1 DEF DockerTypeOK
  <2>3. j.by # i.by
    BY <1>1, <2>1, <2>2 DEF Job
  <2> QED
    BY <1>1, <1>8, <2>1, <2>3 DEF EngineFinishes, Answers, AskingTurns, DockerTypeOK
<1>9. ASSUME NEW c \in Container, NEW state \in ContainerState, ElsewhereChanges(c, state) PROVE Kept
  BY <1>1, <1>9 DEF ElsewhereChanges
<1>10. CASE StopEngine
  BY <1>10 DEF StopEngine
<1>11. CASE StartEngine
  BY <1>1, <1>11 DEF StartEngine
<1>12. CASE ForgetRequests
  <2>1. PICK i \in work : j = [i EXCEPT !.by = "nobody"]
    BY <1>12 DEF ForgetRequests
  <2> QED
    BY <2>1 DEF DockerTypeOK, Job
<1>13. CASE UNCHANGED dockerVars
  BY <1>1, <1>13 DEF dockerVars
<1> QED
  BY <1>3, <1>4, <1>5, <1>6, <1>7, <1>8, <1>9, <1>10, <1>11, <1>12, <1>13 DEF DockerNext

-----------------------------------------------------------------------------
\* What changes a container tells every request that waits for it.
LEMMA NextSeenIsCurrent ==
  DockerTypeOK /\ WorkIsAsked /\ SeenIsCurrent /\ [DockerNext]_dockerVars => SeenIsCurrent'
<1> SUFFICES ASSUME DockerTypeOK, WorkIsAsked, SeenIsCurrent, [DockerNext]_dockerVars,
                    NEW q \in ActionPage, asking'[q].at # "none", asking'[q].verb # "restart"
             PROVE  container'[asking'[q].of] \in seen'[q]
  BY DEF SeenIsCurrent
<1> DEFINE Goal == container'[asking'[q].of] \in seen'[q]
           Asked == asking[q].at # "none" => asking[q].of \in Container
           SameRequest == /\ asking[q].at # "none"
                          /\ asking'[q].of = asking[q].of
                          /\ asking'[q].verb = asking[q].verb
<1>1. Asked
  BY DEF DockerTypeOK, NoRequest
<1>2. ASSUME SameRequest, container' = container, seen' = seen PROVE Goal
  BY <1>2 DEF SeenIsCurrent
<1>3. ASSUME SameRequest, NEW c \in Container, NEW state, ContainerBecomes(c, state) PROVE Goal
  <2>1. asking[q] # NoRequest /\ asking[q].of \in Container
    BY <1>1, <1>3 DEF NoRequest
  <2>2. CASE asking[q].of = c
    BY <1>3, <2>1, <2>2 DEF ContainerBecomes, RequestsOn, DockerTypeOK
  <2>3. CASE asking[q].of # c
    <3>1. container'[asking[q].of] = container[asking[q].of] /\ seen'[q] = seen[q]
      BY <1>3, <2>1, <2>3 DEF ContainerBecomes, RequestsOn, DockerTypeOK
    <3> QED
      BY <1>3, <3>1 DEF SeenIsCurrent
  <2> QED
    BY <2>2, <2>3
\* Another page turns elsewhere, and nothing happens to a container.
<1>4. ASSUME NEW p \in ActionPage, p # q, NEW r, AskingTurns(p, r), container' = container, seen' = seen
      PROVE  Goal
  <2>1. asking'[q] = asking[q]
    BY <1>4 DEF AskingTurns, DockerTypeOK
  <2> QED
    BY <1>2, <1>4, <2>1
<1>5. ASSUME NEW p \in ActionPage, AskingTurns(p, NoRequest), container' = container, seen' = seen
      PROVE  Goal
  <2>1. p # q
    BY <1>5 DEF AskingTurns, DockerTypeOK, NoRequest
  <2> QED
    BY <1>4, <1>5, <2>1
<1>6. ASSUME NEW p \in ActionPage, NEW c \in Container, NEW verb \in Verbs, ContainerAction(p, c, verb)
      PROVE  Goal
  <2>1. CASE p = q
    <3>1. asking'[q] = [at |-> "sent", of |-> c, verb |-> verb]
      BY <1>6, <2>1 DEF ContainerAction, AskingTurns, DockerTypeOK
    <3>2. seen'[q] = {container[c]} /\ container' = container
      BY <1>6, <2>1, <3>1 DEF ContainerAction, DockerTypeOK
    <3> QED
      BY <3>1, <3>2
  <2>2. CASE p # q
    <3>1. asking'[q] = asking[q] /\ seen'[q] = seen[q] /\ container' = container
      BY <1>6, <2>2 DEF ContainerAction, AskingTurns, DockerTypeOK
    <3> QED
      BY <3>1 DEF SeenIsCurrent
  <2> QED
    BY <2>1, <2>2
<1>7. ASSUME NEW p \in ActionPage, CannotReach(p) \/ StopWaiting(p) \/ AnswerArrives(p) PROVE Goal
  BY <1>5, <1>7 DEF CannotReach, StopWaiting, AnswerArrives, Says
<1>8. ASSUME NEW p \in ActionPage, EngineTakes(p) PROVE Goal
  <2>1. container' = container /\ seen' = seen /\ asking[p].at = "sent"
    BY <1>8 DEF EngineTakes
  <2>2. CASE p = q
    <3>1. asking[q] \in [at : {"sent", "taken", "hung"}, of : Container, verb : Verbs]
      BY <2>1, <2>2 DEF DockerTypeOK, NoRequest
    <3>2. SameRequest
      BY <1>8, <2>2, <3>1, <2>1 DEF EngineTakes, Answers, AskingTurns, DockerTypeOK
    <3> QED
      BY <1>2, <2>1, <3>2
  <2>3. CASE p # q
    BY <1>4, <1>8, <2>1, <2>3 DEF EngineTakes, Answers
  <2> QED
    BY <2>2, <2>3
<1>9. ASSUME NEW j \in work, NEW well \in BOOLEAN, EngineFinishes(j, well) PROVE Goal
  <2>1. j \in Job
    BY DEF DockerTypeOK
  <2>2. SameRequest
    <3>1. CASE j.by = "nobody"
      BY <1>9, <3>1 DEF EngineFinishes
    <3>2. CASE j.by # "nobody"
      <4>1. j.by \in ActionPage /\ asking[j.by].at = "taken"
        BY <2>1, <3>2 DEF WorkIsAsked, Job
      <4> QED
        BY <1>9, <3>2, <4>1 DEF EngineFinishes, Answers, AskingTurns, DockerTypeOK
    <3> QED
      BY <3>1, <3>2
  <2>3. CASE well
    BY <1>3, <1>9, <2>1, <2>2, <2>3 DEF EngineFinishes, Job
  <2>4. CASE ~well
    BY <1>2, <1>9, <2>2, <2>4 DEF EngineFinishes
  <2> QED
    BY <2>3, <2>4
<1>10. ASSUME NEW c \in Container, NEW state \in ContainerState, ElsewhereChanges(c, state) PROVE Goal
  BY <1>3, <1>10 DEF ElsewhereChanges
<1>11. CASE StopEngine
  <2>1. asking[q].at # "none" /\ asking'[q].of = asking[q].of
    BY <1>11 DEF StopEngine, NoRequest, DockerTypeOK
  <2>2. asking[q] # NoRequest /\ asking[q].of \in Container
    BY <1>1, <2>1 DEF NoRequest
  <2> QED
    BY <1>11, <2>1, <2>2 DEF StopEngine
<1>12. CASE StartEngine
  BY <1>2, <1>12 DEF StartEngine
<1>13. CASE ForgetRequests
  BY <1>13 DEF ForgetRequests, NoRequest
<1>14. CASE UNCHANGED dockerVars
  BY <1>2, <1>14 DEF dockerVars
<1> QED
  BY <1>6, <1>7, <1>8, <1>9, <1>10, <1>11, <1>12, <1>13, <1>14 DEF DockerNext

-----------------------------------------------------------------------------
\* A good answer is only ever given to a request that has seen what it asks
\* for, and no state that was seen is forgotten before it is told.
LEMMA NextDoneIsDone == DockerIInv /\ [DockerNext]_dockerVars => DoneIsDone'
<1> SUFFICES ASSUME DockerTypeOK, WorkIsAsked, SeenIsCurrent, DoneIsDone, [DockerNext]_dockerVars,
                    NEW q \in ActionPage, asking'[q].at = "answered", Success(asking'[q].status)
             PROVE  Target(asking'[q].verb) \in seen'[q]
  BY DEF DockerIInv, DoneIsDone, Success
<1> DEFINE Goal == Target(asking'[q].verb) \in seen'[q]
<1>1. ASSUME asking'[q] = asking[q], seen[q] \subseteq seen'[q] PROVE Goal
  BY <1>1 DEF DoneIsDone
<1>2. ASSUME NEW c \in Container, NEW state, ContainerBecomes(c, state) PROVE seen[q] \subseteq seen'[q]
  BY <1>2 DEF ContainerBecomes
\* Turning elsewhere than to an answer.
<1>3. ASSUME NEW p \in ActionPage, NEW r, AskingTurns(p, r), r.at # "answered",
             p # q => seen'[q] = seen[q]
      PROVE  Goal
  <2>1. p # q /\ asking'[q] = asking[q]
    BY <1>3 DEF AskingTurns, DockerTypeOK
  <2> QED
    BY <1>1, <1>3, <2>1
<1>4. ASSUME NEW p \in ActionPage, NEW c \in Container, NEW verb \in Verbs, ContainerAction(p, c, verb)
      PROVE  Goal
  <2>1. p # q => seen'[q] = seen[q]
    BY <1>4 DEF ContainerAction, DockerTypeOK
  <2> QED
    BY <1>3, <1>4, <2>1 DEF ContainerAction
<1>5. ASSUME NEW p \in ActionPage, CannotReach(p) \/ StopWaiting(p) \/ AnswerArrives(p) PROVE Goal
  <2>1. AskingTurns(p, NoRequest) /\ seen' = seen
    BY <1>5 DEF CannotReach, StopWaiting, AnswerArrives, Says
  <2> QED
    BY <1>3, <2>1 DEF NoRequest
<1>6. ASSUME NEW p \in ActionPage, EngineTakes(p) PROVE Goal
  <2>1. asking[p].at = "sent" /\ seen' = seen
    BY <1>6 DEF EngineTakes
  <2>2. asking[p] \in [at : {"sent", "taken", "hung"}, of : Container, verb : Verbs]
    BY <2>1 DEF DockerTypeOK, NoRequest
  <2>3. CASE p = q
    <3>1. CASE asking[p].verb # "restart" /\ container[asking[p].of] = Target(asking[p].verb) /\ Answers(p, 304)
      BY <2>1, <2>3, <3>1 DEF Answers, AskingTurns, DockerTypeOK, SeenIsCurrent
    <3>2. CASE Answers(p, 409)
      BY <2>3, <3>2 DEF Answers, AskingTurns, DockerTypeOK, Success
    <3>3. CASE AskingTurns(p, [asking[p] EXCEPT !.at = "taken"])
      BY <1>3, <2>1, <2>2, <3>3
    <3> QED
      BY <1>6, <3>1, <3>2, <3>3 DEF EngineTakes
  <2>4. CASE p # q
    <3>1. asking'[q] = asking[q]
      BY <1>6, <2>4 DEF EngineTakes, Answers, AskingTurns, DockerTypeOK
    <3> QED
      BY <1>1, <2>1, <3>1
  <2> QED
    BY <2>3, <2>4
<1>7. ASSUME NEW j \in work, NEW well \in BOOLEAN, EngineFinishes(j, well) PROVE Goal
  <2>1. j \in Job
    BY DEF DockerTypeOK
  <2>2. seen[q] \subseteq seen'[q]
    BY <1>2, <1>7, <2>1 DEF EngineFinishes, Job
  <2>3. CASE j.by = q
    <3>1. j.by # "nobody" /\ asking[q].at = "taken" /\ asking[q].of = j.of /\ asking[q].verb = j.verb
      BY <2>3, PagesAreSomebody DEF WorkIsAsked
    <3>2. asking'[q] = [at |-> "answered", of |-> j.of, verb |-> j.verb, status |-> IF well THEN 204 ELSE 500]
      BY <1>7, <2>3, <3>1 DEF EngineFinishes, Answers, AskingTurns, DockerTypeOK
    <3>3. well /\ ContainerBecomes(j.of, Target(j.verb))
      BY <1>7, <3>2 DEF Success, EngineFinishes
    <3>4. q \in RequestsOn(j.of)
      BY <3>1 DEF RequestsOn, NoRequest
    <3> QED
      BY <3>2, <3>3, <3>4 DEF ContainerBecomes
  <2>4. CASE j.by # q
    <3>1. asking'[q] = asking[q]
      BY <1>7, <2>1, <2>4 DEF EngineFinishes, Answers, AskingTurns, DockerTypeOK, Job
    <3> QED
      BY <1>1, <2>2, <3>1
  <2> QED
    BY <2>3, <2>4
<1>8. ASSUME NEW c \in Container, NEW state \in ContainerState, ElsewhereChanges(c, state) PROVE Goal
  BY <1>1, <1>2, <1>8 DEF ElsewhereChanges
<1>9. CASE StopEngine
  <2>1. asking'[q] = asking[q] /\ seen[q] \subseteq seen'[q]
    BY <1>9 DEF StopEngine, NoRequest, DockerTypeOK
  <2> QED
    BY <1>1, <2>1
<1>10. CASE StartEngine
  BY <1>1, <1>10 DEF StartEngine
<1>11. CASE ForgetRequests
  BY <1>11 DEF ForgetRequests, NoRequest
<1>12. CASE UNCHANGED dockerVars
  BY <1>1, <1>12 DEF dockerVars
<1> QED
  BY <1>4, <1>5, <1>6, <1>7, <1>8, <1>9, <1>10, <1>11, <1>12 DEF DockerNext

-----------------------------------------------------------------------------
LEMMA DockerIInvAlways == DockerSpec => []DockerIInv
<1>1. DockerIInv /\ [DockerNext]_dockerVars => DockerIInv'
  BY NextDockerTypeOK, NextWorkIsAsked, NextSeenIsCurrent, NextDoneIsDone DEF DockerIInv
<1> QED
  BY DockerInitIInv, <1>1, PTL DEF DockerSpec

(***************************************************************************)
(* containerAction never says "done" of what was not done (actions.ts,     *)
(* api.ts: act): for any number of pages, requests given up and still      *)
(* worked on, changes made elsewhere, and ends of the engine or JonDash.   *)
(***************************************************************************)
THEOREM DoneIsDoneAlways == DockerSpec => []DoneIsDone
<1>1. DockerIInv => DoneIsDone
  BY DEF DockerIInv
<1> QED
  BY DockerIInvAlways, <1>1, PTL

-----------------------------------------------------------------------------
(***************************************************************************)
(* RatesAreHonest. Between the two readings of a device's counter, what it *)
(* has reached since the first is no more than it moved (WithinMoved); the *)
(* second readings begin when all the first are through (ReadInTurn).      *)
(***************************************************************************)

Snapshot ==
    [at : {"before", "wait", "after"}, groups : SUBSET Source, left : SUBSET Source, before : Reading, after : Reading]

MetricsType ==
    /\ counter \in Reading
    /\ rates \in Reading
    /\ moved \in [Device -> 0..CounterEnd]
    /\ sample \in {NoSample} \cup Snapshot

\* What a device has reached since its first reading is no more than it moved.
WithinMoved(d) ==
    /\ sample = NoSample /\ d \in DOMAIN rates => rates[d] <= moved[d]
    /\ sample # NoSample /\ d \in DOMAIN sample.before =>
          /\ d \in DOMAIN counter => counter[d] <= sample.before[d] + moved[d]
          /\ d \in DOMAIN sample.after => sample.after[d] <= sample.before[d] + moved[d]

\* The second readings begin when the first are through.
ReadInTurn ==
    /\ sample.at \in {"before", "wait"} => DOMAIN sample.after = {}
    /\ sample.at = "before" => \A d \in DOMAIN sample.before : SourceOf[d] \notin sample.left

MetricsIInv == MetricsType /\ ReadInTurn /\ \A d \in Device : WithinMoved(d)

-----------------------------------------------------------------------------
LEMMA Readings1 ==
    ASSUME NEW f
    PROVE  f \in Reading <=> DOMAIN f \subseteq Device /\ f \in [DOMAIN f -> 0..CounterEnd]
BY DEF Reading

LEMMA TakenTogether ==
    ASSUME NEW f \in Reading, NEW g \in Reading
    PROVE  /\ Together(f, g) \in Reading
           /\ DOMAIN Together(f, g) = DOMAIN f \cup DOMAIN g
           /\ \A d \in DOMAIN f : Together(f, g)[d] = f[d]
           /\ \A d \in DOMAIN g \ DOMAIN f : Together(f, g)[d] = g[d]
BY Readings1 DEF Together

LEMMA NoDevice == << >> \in Reading /\ DOMAIN << >> = {}
<1>1. DOMAIN << >> = {}
  OBVIOUS
<1>2. << >> \in [{} -> 0..CounterEnd]
  OBVIOUS
<1> QED
  BY <1>1, <1>2, Readings1

LEMMA ReadingsAre ==
    ASSUME counter \in Reading, NEW s \in Source, NEW reading \in Readings(s)
    PROVE  /\ reading \in Reading
           /\ \A d \in DOMAIN reading : d \in DOMAIN counter /\ SourceOf[d] = s /\ reading[d] = counter[d]
<1>1. CASE reading = << >>
  BY <1>1, NoDevice
<1>2. CASE reading = [d \in {e \in DOMAIN counter : SourceOf[e] = s} |-> counter[d]]
  BY <1>2, Readings1
<1> QED
  BY <1>1, <1>2 DEF Readings

LEMMA MetricsStays ==
    ASSUME MetricsIInv, UNCHANGED metricsVars
    PROVE  MetricsIInv'
BY DEF MetricsIInv, metricsVars, MetricsType, ReadInTurn, WithinMoved

LEMMA MoveStep ==
    ASSUME MetricsIInv, NEW d \in Device, Move(d) PROVE MetricsIInv'
<1>1. /\ counter' = [counter EXCEPT ![d] = @ + 1] /\ moved' = [moved EXCEPT ![d] = @ + 1]
      /\ d \in DOMAIN counter /\ counter[d] < CounterEnd /\ moved[d] < CounterEnd /\ UNCHANGED <<sample, rates>>
  BY DEF Move
<1>2. counter \in Reading /\ counter \in [DOMAIN counter -> 0..CounterEnd] /\ DOMAIN counter \subseteq Device
  BY Readings1 DEF MetricsIInv, MetricsType
<1>3. counter' \in [DOMAIN counter -> 0..CounterEnd] /\ moved' \in [Device -> 0..CounterEnd]
  BY <1>1, <1>2, MetricsConstantsOK DEF MetricsIInv, MetricsType
<1>4. MetricsType'
  BY <1>1, <1>2, <1>3, Readings1 DEF MetricsIInv, MetricsType
<1>5. ReadInTurn'
  BY <1>1 DEF MetricsIInv, ReadInTurn
<1>6. ASSUME NEW e \in Device PROVE WithinMoved(e)'
  <2>1. /\ moved[e] \in Nat /\ moved'[e] \in Nat /\ moved[e] <= moved'[e]
        /\ e \in DOMAIN counter => counter[e] \in Nat /\ counter'[e] - counter[e] = moved'[e] - moved[e]
    BY <1>1, <1>2, <1>3, MetricsConstantsOK DEF MetricsIInv, MetricsType
  <2>2. CASE sample = NoSample
    <3>1. e \in DOMAIN rates => rates[e] \in Nat
      BY Readings1, MetricsConstantsOK DEF MetricsIInv, MetricsType
    <3> QED
      BY <1>1, <2>1, <2>2, <3>1 DEF MetricsIInv, WithinMoved
  <2>3. CASE sample # NoSample
    <3>1. sample.before \in Reading /\ sample.after \in Reading
      BY <2>3 DEF MetricsIInv, MetricsType, Snapshot
    <3>2. /\ e \in DOMAIN sample.before => sample.before[e] \in Nat
          /\ e \in DOMAIN sample.after => sample.after[e] \in Nat
      BY <3>1, Readings1, MetricsConstantsOK
    <3>3. WithinMoved(e) /\ DOMAIN counter' = DOMAIN counter
      BY <1>1 DEF MetricsIInv
    <3> QED
      BY <1>1, <2>1, <2>3, <3>2, <3>3 DEF WithinMoved
  <2> QED
    BY <2>2, <2>3
<1> QED
  BY <1>4, <1>5, <1>6 DEF MetricsIInv

LEMMA DevicesComeAndGo ==
    ASSUME MetricsIInv, NEW d \in Device, Appear(d) \/ Vanish(d) PROVE MetricsIInv'
<1>1. UNCHANGED <<sample, rates, moved>>
  BY DEF Appear, Vanish
<1>2. /\ counter' \in Reading
      /\ \A e \in DOMAIN counter' : counter'[e] = 0 \/ (e \in DOMAIN counter /\ counter'[e] = counter[e])
  <2>1. CASE Appear(d)
    <3>1. [e \in {d} |-> 0] \in Reading
      BY Readings1, MetricsConstantsOK
    <3> PICK z : z = [e \in {d} |-> 0]
      OBVIOUS
    <3>2. z \in Reading /\ counter \in Reading
      BY <3>1 DEF MetricsIInv, MetricsType
    <3>6. DOMAIN z = {d} /\ z[d] = 0
      OBVIOUS
    <3>3. counter' = Together(z, counter)
      BY <2>1 DEF Appear
    <3> PICK h : h = Together(z, counter)
      OBVIOUS
    <3>5. /\ h \in Reading /\ DOMAIN h = DOMAIN z \cup DOMAIN counter
          /\ \A e \in DOMAIN z : h[e] = z[e]
          /\ \A e \in DOMAIN counter \ DOMAIN z : h[e] = counter[e]
      BY <3>2, TakenTogether
    <3>4. /\ counter' \in Reading /\ DOMAIN counter' = {d} \cup DOMAIN counter
          /\ counter'[d] = 0 /\ \A e \in DOMAIN counter \ {d} : counter'[e] = counter[e]
      BY <3>3, <3>5, <3>6
    <3> QED
      BY <3>4
  <2>2. CASE Vanish(d)
    BY <2>2, Readings1 DEF Vanish, MetricsIInv, MetricsType
  <2> QED
    BY <2>1, <2>2
<1>3. MetricsType' /\ ReadInTurn'
  BY <1>1, <1>2 DEF MetricsIInv, MetricsType, ReadInTurn
<1>4. ASSUME NEW e \in Device PROVE WithinMoved(e)'
  <2>1. WithinMoved(e) /\ moved[e] \in Nat
    BY MetricsConstantsOK DEF MetricsIInv, MetricsType
  <2>2. CASE sample = NoSample
    BY <1>1, <2>1, <2>2 DEF WithinMoved
  <2>3. CASE sample # NoSample
    <3>1. e \in DOMAIN sample.before => sample.before[e] \in Nat
      <4>1. sample.before \in Reading
        BY <2>3 DEF MetricsIInv, MetricsType, Snapshot
      <4> QED
        BY <4>1, Readings1, MetricsConstantsOK
    <3> QED
      BY <1>1, <1>2, <2>1, <2>3, <3>1 DEF WithinMoved
  <2> QED
    BY <2>2, <2>3
<1> QED
  BY <1>3, <1>4 DEF MetricsIInv

LEMMA BeginSnapshotStep ==
    ASSUME MetricsIInv, NEW groups \in SUBSET Source, BeginSnapshot(groups) PROVE MetricsIInv'
<1> PICK n : n = [at |-> IF groups = {} THEN "after" ELSE "before",
                  groups |-> groups, left |-> groups, before |-> << >>, after |-> << >>]
  OBVIOUS
<1>1. sample' = n /\ UNCHANGED <<counter, rates, moved>>
  BY DEF BeginSnapshot
<1>2. /\ n.at \in {"before", "after"} /\ n.left = groups /\ n.groups = groups
      /\ n.before = << >> /\ n.after = << >>
  OBVIOUS
<1>3. n \in Snapshot
  BY NoDevice DEF Snapshot
<1>4. n # NoSample
  BY <1>2 DEF NoSample
<1> QED
  BY <1>1, <1>2, <1>3, <1>4, NoDevice DEF MetricsIInv, MetricsType, ReadInTurn, WithinMoved

LEMMA ReadBeforeStep ==
    ASSUME MetricsIInv, NEW s \in Source, ReadBefore(s) PROVE MetricsIInv'
<1>1. sample \in Snapshot /\ sample.at = "before" /\ s \in sample.left /\ sample # NoSample
  <2>1. sample.at = "before"
    BY DEF ReadBefore
  <2>2. s \in sample.left
    BY DEF ReadBefore, Reads
  <2>3. sample # NoSample
    BY <2>1 DEF NoSample
  <2> QED
    BY <2>1, <2>2, <2>3 DEF MetricsIInv, MetricsType
<1>2. PICK reading \in Readings(s) :
         sample' = [sample EXCEPT !.before = Together(reading, @), !.left = @ \ {s},
                                  !.at = IF sample.left = {s} THEN "wait" ELSE @]
  BY DEF ReadBefore, Reads
<1> PICK b : b = Together(reading, sample.before)
  OBVIOUS
<1>3. /\ reading \in Reading
      /\ \A d \in DOMAIN reading : d \in DOMAIN counter /\ SourceOf[d] = s /\ reading[d] = counter[d]
  BY ReadingsAre DEF MetricsIInv, MetricsType
<1>4. /\ b \in Reading /\ DOMAIN b = DOMAIN reading \cup DOMAIN sample.before
      /\ \A d \in DOMAIN reading : b[d] = reading[d]
      /\ \A d \in DOMAIN sample.before \ DOMAIN reading : b[d] = sample.before[d]
  <2>1. sample.before \in Reading
    BY <1>1 DEF Snapshot
  <2> QED
    BY ZenonT(40), <1>3, <2>1, TakenTogether
<1>5. /\ sample'.before = b /\ sample'.after = sample.after /\ sample'.groups = sample.groups
      /\ sample'.left = sample.left \ {s} /\ sample'.at \in {"before", "wait"}
      /\ sample' \in Snapshot
  BY <1>1, <1>2, <1>4 DEF Snapshot
<1>6. /\ moved' = [d \in Device |-> IF SourceOf[d] = s THEN 0 ELSE moved[d]]
      /\ UNCHANGED <<counter, rates>>
  BY DEF ReadBefore
<1>7. MetricsType'
  BY <1>5, <1>6, MetricsConstantsOK DEF MetricsIInv, MetricsType
<1>8. ReadInTurn'
  BY <1>1, <1>3, <1>4, <1>5 DEF MetricsIInv, ReadInTurn
<1>9. ASSUME NEW d \in Device PROVE WithinMoved(d)'
  <2>0. sample' # NoSample /\ DOMAIN sample'.after = {}
    BY <1>1, <1>5 DEF MetricsIInv, ReadInTurn, NoSample
  <2>1. CASE d \in DOMAIN reading
    <3>1. moved'[d] = 0 /\ b[d] = counter[d] /\ counter[d] \in Nat
      BY <1>3, <1>4, <1>6, <2>1, Readings1, MetricsConstantsOK DEF MetricsIInv, MetricsType
    <3> QED
      BY <1>5, <1>6, <2>0, <3>1 DEF WithinMoved
  <2>2. CASE d \notin DOMAIN reading
    <3>1. d \in DOMAIN b => d \in DOMAIN sample.before /\ SourceOf[d] # s /\ b[d] = sample.before[d] /\ moved'[d] = moved[d]
      BY <1>1, <1>4, <1>6, <2>2 DEF MetricsIInv, ReadInTurn
    <3> QED
      BY <1>1, <1>5, <1>6, <2>0, <3>1 DEF MetricsIInv, WithinMoved
  <2> QED
    BY <2>1, <2>2
<1> QED
  BY <1>7, <1>8, <1>9 DEF MetricsIInv

LEMMA ReadAfterStep ==
    ASSUME MetricsIInv, NEW s \in Source, ReadAfter(s) PROVE MetricsIInv'
<1>1. sample \in Snapshot /\ sample.at = "after" /\ s \in sample.left /\ sample # NoSample
  <2>1. sample.at = "after"
    BY DEF ReadAfter
  <2>2. s \in sample.left
    BY DEF ReadAfter, Reads
  <2>3. sample # NoSample
    BY <2>1 DEF NoSample
  <2> QED
    BY <2>1, <2>2, <2>3 DEF MetricsIInv, MetricsType
<1>2. PICK reading \in Readings(s) :
         sample' = [sample EXCEPT !.after = Together(reading, @), !.left = @ \ {s}, !.at = @]
  BY DEF ReadAfter, Reads
<1> PICK a : a = Together(reading, sample.after)
  OBVIOUS
<1>3. /\ reading \in Reading
      /\ \A d \in DOMAIN reading : d \in DOMAIN counter /\ reading[d] = counter[d]
  BY ReadingsAre DEF MetricsIInv, MetricsType
<1>4. /\ a \in Reading /\ DOMAIN a = DOMAIN reading \cup DOMAIN sample.after
      /\ \A d \in DOMAIN reading : a[d] = reading[d]
      /\ \A d \in DOMAIN sample.after \ DOMAIN reading : a[d] = sample.after[d]
  <2>1. sample.after \in Reading
    BY <1>1 DEF Snapshot
  <2> QED
    BY ZenonT(40), <1>3, <2>1, TakenTogether
<1>5. /\ sample'.before = sample.before /\ sample'.after = a /\ sample'.at = "after" /\ sample' \in Snapshot
  BY <1>1, <1>2, <1>4 DEF Snapshot
<1>6. UNCHANGED <<counter, rates, moved>>
  BY DEF ReadAfter
<1>7. MetricsType' /\ ReadInTurn'
  BY <1>5, <1>6 DEF MetricsIInv, MetricsType, ReadInTurn
<1>8. ASSUME NEW d \in Device PROVE WithinMoved(d)'
  <2>1. sample' # NoSample /\ WithinMoved(d)
    BY <1>5 DEF NoSample, MetricsIInv
  <2> QED
    BY <1>1, <1>3, <1>4, <1>5, <1>6, <2>1 DEF WithinMoved
<1> QED
  BY <1>7, <1>8 DEF MetricsIInv

LEMMA WaitEndsStep ==
    ASSUME MetricsIInv, WaitEnds PROVE MetricsIInv'
<1>1. sample \in Snapshot /\ sample # NoSample
  BY DEF WaitEnds, MetricsIInv, MetricsType, NoSample
<1>2. /\ sample'.before = sample.before /\ sample'.after = sample.after /\ sample'.at = "after" /\ sample' \in Snapshot
      /\ UNCHANGED <<counter, rates, moved>>
  BY <1>1 DEF WaitEnds, Snapshot
<1>3. sample' # NoSample
  BY <1>2 DEF NoSample
<1> QED
  BY <1>1, <1>2, <1>3 DEF MetricsIInv, MetricsType, ReadInTurn, WithinMoved

LEMMA ShowRatesStep ==
    ASSUME MetricsIInv, ShowRates PROVE MetricsIInv'
<1>1. sample \in Snapshot /\ sample # NoSample
  BY DEF ShowRates, MetricsIInv, MetricsType, NoSample
<1> PICK both : both = DOMAIN sample.before \cap DOMAIN sample.after
  OBVIOUS
<1>2. /\ rates' = [d \in both |-> Difference(sample.before[d], sample.after[d])]
      /\ sample' = NoSample /\ UNCHANGED <<counter, moved>>
  BY DEF ShowRates
<1>3. ASSUME NEW d \in both
      PROVE  /\ Difference(sample.before[d], sample.after[d]) \in 0..CounterEnd
             /\ Difference(sample.before[d], sample.after[d]) <= moved[d]
  <2>1. /\ sample.before[d] \in 0..CounterEnd /\ sample.after[d] \in 0..CounterEnd /\ moved[d] \in Nat /\ d \in Device
    BY <1>1, Readings1, MetricsConstantsOK DEF Snapshot, MetricsIInv, MetricsType
  <2>2. sample.after[d] <= sample.before[d] + moved[d]
    BY <1>1, <2>1 DEF MetricsIInv, WithinMoved
  <2> QED
    BY <2>1, <2>2, MetricsConstantsOK DEF Difference
<1>4. both \subseteq Device
  BY <1>1, Readings1 DEF Snapshot
<1>5. rates' \in Reading
  BY <1>2, <1>3, <1>4, Readings1
<1>6. \A d \in Device : WithinMoved(d)'
  BY <1>2, <1>3 DEF WithinMoved
<1>7. MetricsType' /\ ReadInTurn'
  BY <1>2, <1>5 DEF MetricsIInv, MetricsType, ReadInTurn, NoSample
<1> QED
  BY <1>6, <1>7 DEF MetricsIInv

\* A rate that a snapshot shows is never invented: it is no more than the device
\* moved since its first reading, whatever came, went or started anew between.
THEOREM RatesAreHonestAlways == MetricsSpec => []RatesAreHonest
<1>1. MetricsInit => MetricsIInv
  <2> SUFFICES ASSUME MetricsInit PROVE MetricsIInv
    OBVIOUS
  <2>1. MetricsType
    BY NoDevice, MetricsConstantsOK DEF MetricsInit, MetricsType
  <2>2. ReadInTurn
    BY DEF MetricsInit, ReadInTurn, NoSample
  <2>3. \A d \in Device : WithinMoved(d)
    BY NoDevice DEF MetricsInit, WithinMoved
  <2> QED
    BY <2>1, <2>2, <2>3 DEF MetricsIInv
<1>2. MetricsIInv /\ [MetricsNext]_metricsVars => MetricsIInv'
  BY MetricsStays, MoveStep, DevicesComeAndGo, BeginSnapshotStep, ReadBeforeStep, ReadAfterStep, WaitEndsStep,
     ShowRatesStep DEF MetricsNext
<1>3. MetricsIInv => RatesAreHonest
  <2> SUFFICES ASSUME MetricsIInv, sample = NoSample, NEW d \in DOMAIN rates PROVE rates[d] <= moved[d]
    BY DEF RatesAreHonest
  <2>1. d \in Device
    BY Readings1 DEF MetricsIInv, MetricsType
  <2> QED
    BY <2>1 DEF MetricsIInv, WithinMoved
<1> QED
  BY <1>1, <1>2, <1>3, PTL DEF MetricsSpec

-----------------------------------------------------------------------------
(***************************************************************************)
(* Host services. First that requests are answered once, which needs no    *)
(* more than the types and what a step does to one handler.                *)
(***************************************************************************)

AddPlace == {"grant", "insert"}
RemovePlace == {"ungrant", "delete"}
RequestPlace == {"execute", "run", "settle"}

Handler ==
    {Resting}
    \cup [at : {"grant", "insert"}, service : Service, canControl : BOOLEAN]
    \cup [at : {"ungrant", "delete"}, entry : Entry]
    \cup [at : {"execute"}, ask : Ask]
    \cup [at : {"run"}, ask : Ask, base : Base]
    \cup [at : {"settle"}, ask : Ask, outcome : Decision]

-----------------------------------------------------------------------------
(* Types.                                                                  *)

\* One handler turns to something else.
LEMMA HandlerTurns ==
  ASSUME ServicesTypeOK, NEW w \in Worker, NEW h, Resumes(w, h)
  PROVE  \A x \in Worker : handler'[x] = IF x = w THEN h ELSE handler[x]
BY DEF ServicesTypeOK, Resumes

LEMMA HandlerTyped ==
  ASSUME ServicesTypeOK, NEW w \in Worker, NEW h \in Handler, Resumes(w, h)
  PROVE  handler' \in [Worker -> Handler]
BY DEF ServicesTypeOK, Resumes, Handler

\* The bases of a handler.
LEMMA BaseOfTyped ==
  ASSUME NEW h \in Handler
  PROVE  /\ BaseOf(h) \subseteq Base
         /\ h.at \in AddPlace => BaseOf(h) = {TaskBase[h.service]} /\ h.service \in Service
         /\ h.at \in RemovePlace => BaseOf(h) = {TaskBase[h.entry.service]} /\ h.entry \in Entry
         /\ h.at \notin AddPlace \cup RemovePlace => BaseOf(h) = {}
<1>1. CASE h.at \in AddPlace
  BY <1>1 DEF Handler, BaseOf, Base, AddPlace, RemovePlace, Resting
<1>2. CASE h.at \in RemovePlace
  BY <1>2 DEF Handler, BaseOf, Base, AddPlace, RemovePlace, Entry, Resting
<1>3. CASE h.at \notin AddPlace \cup RemovePlace
  BY <1>3 DEF BaseOf, AddPlace, RemovePlace
<1> QED
  BY <1>1, <1>2, <1>3 DEF AddPlace, RemovePlace

LEMMA InitTypeOK == ServicesInit => ServicesTypeOK
<1> SUFFICES ASSUME ServicesInit PROVE ServicesTypeOK
  OBVIOUS
<1>1. ran \in [Ask -> 0..2] /\ decided \in [Ask -> {"none"} \cup Decision]
  BY DEF ServicesInit
<1>2. asks \in [Ask -> {NoAsk} \cup [state : {"pending"} \cup Decision, entry : EntryId]]
  BY DEF ServicesInit
<1>3. handler \in [Worker -> Handler]
  BY DEF ServicesInit, Handler
<1> QED
  BY <1>1, <1>2, <1>3 DEF ServicesInit, ServicesTypeOK, Handler

\* A settled request stays a request, with its entry.
LEMMA SettleTyped ==
  ASSUME ServicesTypeOK, NEW r \in Ask, NEW d \in Decision, Settle(r, d)
  PROVE  /\ asks' \in [Ask -> {NoAsk} \cup [state : {"pending"} \cup Decision, entry : EntryId]]
         /\ decided' \in [Ask -> {"none"} \cup Decision]
<1>1. CASE asks[r].state = "pending"
  <2>1. asks[r] \in [state : {"pending"} \cup Decision, entry : EntryId]
    BY <1>1 DEF ServicesTypeOK, NoAsk
  <2> QED
    BY <1>1, <2>1 DEF Settle, ServicesTypeOK
<1>2. CASE asks[r].state # "pending"
  BY <1>2 DEF Settle, ServicesTypeOK
<1> QED
  BY <1>1, <1>2

LEMMA NextServicesTypeOK == ServicesTypeOK /\ [ServicesNext]_servicesVars => ServicesTypeOK'
<1> SUFFICES ASSUME ServicesTypeOK, [ServicesNext]_servicesVars PROVE ServicesTypeOK'
  OBVIOUS
<1> DEFINE ListTyped == /\ entries \subseteq Entry /\ grants \subseteq Base
                        /\ unbounded \in BOOLEAN /\ suggested \subseteq ServiceModule
                        /\ meddled \subseteq Base /\ cut \subseteq Base /\ withdrawn \subseteq Base
           AsksTyped == /\ asks \in [Ask -> {NoAsk} \cup [state : {"pending"} \cup Decision, entry : EntryId]]
                        /\ aged \subseteq Ask
                        /\ ran \in [Ask -> 0..2]
                        /\ decided \in [Ask -> {"none"} \cup Decision]
                        /\ disputed \subseteq Ask
           Turned == handler' \in [Worker -> Handler]
<1>1. ListTyped /\ AsksTyped /\ handler \in [Worker -> Handler]
  BY DEF ServicesTypeOK, Handler
<1>2. ASSUME ListTyped', AsksTyped', Turned PROVE ServicesTypeOK'
  BY <1>2 DEF ServicesTypeOK, Handler
<1>3. ASSUME RequestsAsTheyWere PROVE AsksTyped'
  BY <1>1, <1>3 DEF RequestsAsTheyWere
<1>4. ASSUME NEW w \in Worker, NEW h, Takes(w, h) PROVE meddled' \subseteq Base
  <2>1. BasesInHand(Worker \ {w}) \subseteq Base
    BY <1>1, BaseOfTyped DEF BasesInHand
  <2> QED
    BY <1>1, <1>4, <2>1 DEF Takes
<1>5. Resting \in Handler
  BY DEF Handler
<1>6. ASSUME NEW w \in ServiceTab PROVE w \in Worker
  BY DEF Worker
<1>7. ASSUME NEW m \in ServiceModule PROVE m \in Worker
  BY DEF Worker
<1>8. ASSUME NEW w \in ServiceTab, NEW s \in Service, NEW c \in BOOLEAN, AddEntry(w, s, c)
      PROVE  ServicesTypeOK'
  <2>1. [at |-> IF c THEN "grant" ELSE "insert", service |-> s, canControl |-> c] \in Handler
    BY DEF Handler
  <2> QED
    BY <1>1, <1>2, <1>3, <1>4, <1>6, <1>8, <2>1, HandlerTyped DEF AddEntry, Takes, ListAsItWas
<1>9. ASSUME NEW w \in ServiceTab, CreateGrants(w) PROVE ServicesTypeOK'
  <2>1. handler[w] \in [at : {"grant", "insert"}, service : Service, canControl : BOOLEAN]
    BY <1>1, <1>6, <1>9 DEF CreateGrants, AtPlace, Handler, Resting
  <2>2. [handler[w] EXCEPT !.at = "insert"] \in Handler
    BY <2>1 DEF Handler
  <2>3. BaseOf(handler[w]) \subseteq Base
    BY <1>1, <1>6, BaseOfTyped
  <2> QED
    BY <1>1, <1>2, <1>3, <1>5, <1>6, <1>9, <2>2, <2>3, HandlerTyped DEF CreateGrants, Finishes, ListAsItWas
<1>10. ASSUME NEW w \in ServiceTab, InsertEntry(w) PROVE ServicesTypeOK'
  <2>1. handler[w] \in [at : {"grant", "insert"}, service : Service, canControl : BOOLEAN]
    BY <1>1, <1>6, <1>10 DEF InsertEntry, AtPlace, Handler, Resting
  <2>2. \A id \in EntryId : [id |-> id, service |-> handler[w].service,
            canControl |-> handler[w].canControl, unattended |-> FALSE] \in Entry
    BY <2>1 DEF Entry
  <2>3. entries' \subseteq Entry
    BY <1>1, <1>10, <2>2 DEF InsertEntry
  <2> QED
    BY <1>1, <1>2, <1>3, <1>5, <1>6, <1>10, <2>3, HandlerTyped DEF InsertEntry, Finishes
<1>11. ASSUME NEW w \in ServiceTab, NEW id \in EntryId, RemoveEntry(w, id) PROVE ServicesTypeOK'
  <2>1. PICK e \in FindEntry(id) :
           Takes(w, [at |-> IF Granted(e) THEN "ungrant" ELSE "delete", entry |-> e])
    BY <1>11 DEF RemoveEntry
  <2>2. [at |-> IF Granted(e) THEN "ungrant" ELSE "delete", entry |-> e] \in Handler
    BY <1>1 DEF Handler, FindEntry
  <2> QED
    BY <1>1, <1>2, <1>3, <1>4, <1>6, <1>11, <2>1, <2>2, HandlerTyped DEF RemoveEntry, Takes, ListAsItWas
<1>12. ASSUME NEW w \in ServiceTab, RemoveGrants(w) PROVE ServicesTypeOK'
  <2>1. handler[w] \in [at : {"ungrant", "delete"}, entry : Entry]
    BY <1>1, <1>6, <1>12 DEF RemoveGrants, AtPlace, Handler, Resting
  <2>2. [handler[w] EXCEPT !.at = "delete"] \in Handler
    BY <2>1 DEF Handler
  <2> QED
    BY <1>1, <1>2, <1>3, <1>5, <1>6, <1>12, <2>2, HandlerTyped DEF RemoveGrants, Finishes, ListAsItWas
<1>13. ASSUME NEW w \in ServiceTab, DeleteEntry(w) PROVE ServicesTypeOK'
  BY <1>1, <1>2, <1>3, <1>5, <1>6, <1>13, HandlerTyped DEF DeleteEntry, Finishes
<1>14. ASSUME NEW w \in ServiceTab, NEW r \in Ask, Approve(w, r) PROVE ServicesTypeOK'
  <2>1. [at |-> "execute", ask |-> r] \in Handler
    BY DEF Handler
  <2> QED
    BY <1>1, <1>2, <1>6, <1>14, <2>1, HandlerTyped DEF Approve, GrantsAsTheyWere, ListAsItWas
<1>15. ASSUME NEW id \in EntryId, NEW on \in BOOLEAN, SetUnattended(id, on) PROVE ServicesTypeOK'
  <2>1. entries' \subseteq Entry
    BY <1>1, <1>15 DEF SetUnattended, GrantsAsTheyWere, Entry
  <2> QED
    BY <1>1, <1>2, <1>3, <1>15, <2>1 DEF SetUnattended, GrantsAsTheyWere
<1>16. ASSUME NEW on \in BOOLEAN, SetUnbounded(on) PROVE ServicesTypeOK'
  BY <1>1, <1>2, <1>3, <1>16 DEF SetUnbounded, GrantsAsTheyWere
<1>17. ASSUME NEW m \in ServiceModule, NEW r \in Ask, NEW id \in EntryId, RequestAction(m, r, id)
       PROVE  ServicesTypeOK'
  <2>1. PICK e \in FindEntry(id) :
           /\ asks' = [asks EXCEPT ![r] = [state |-> "pending", entry |-> id]]
           /\ Resumes(m, IF e.unattended THEN [at |-> "execute", ask |-> r] ELSE Resting)
    BY <1>17 DEF RequestAction, GrantsAsTheyWere
  <2>2. (IF e.unattended THEN [at |-> "execute", ask |-> r] ELSE Resting) \in Handler
    BY DEF Handler
  <2>3. Turned
    BY <1>7, <2>1, <2>2, HandlerTyped
  <2> QED
    BY <1>1, <1>2, <1>17, <2>1, <2>3 DEF RequestAction, GrantsAsTheyWere, ListAsItWas
<1>18. ASSUME NEW m \in ServiceModule, Suggest(m) PROVE ServicesTypeOK'
  BY <1>1, <1>2, <1>3, <1>18 DEF Suggest, GrantsAsTheyWere
<1>19. ASSUME NEW w \in Worker, Execute(w) PROVE ServicesTypeOK'
  <2>1. handler[w] \in [at : {"execute"}, ask : Ask]
    BY <1>1, <1>19 DEF Execute, AtPlace, Handler, Resting
  <2>2. PICK h \in Handler : Resumes(w, h)
    <3>1. [at |-> "settle", ask |-> handler[w].ask, outcome |-> "failed"] \in Handler
      BY <2>1 DEF Handler, Decision
    <3>2. \A e \in entries : [at |-> "run", ask |-> handler[w].ask, base |-> TaskBase[e.service]] \in Handler
      BY <1>1, <2>1 DEF Handler, Base, Entry
    <3> QED
      BY <1>19, <3>1, <3>2 DEF Execute, GrantsAsTheyWere, FindEntry
  <2> QED
    BY <1>1, <1>2, <1>3, <1>19, <2>2, HandlerTyped DEF Execute, GrantsAsTheyWere, ListAsItWas
<1>20. ASSUME NEW w \in Worker, RunGrant(w) PROVE ServicesTypeOK'
  <2>1. handler[w] \in [at : {"run"}, ask : Ask, base : Base]
    BY <1>1, <1>20 DEF RunGrant, AtPlace, Handler, Resting
  <2>2. \A o \in Decision : [at |-> "settle", ask |-> handler[w].ask, outcome |-> o] \in Handler
    BY <2>1 DEF Handler
  <2>3. PICK h \in Handler : Resumes(w, h)
    BY <1>20, <2>2 DEF RunGrant, GrantsAsTheyWere, Decision
  <2>4. ran' \in [Ask -> 0..2]
    BY <1>1, <1>20, <2>1 DEF RunGrant, GrantsAsTheyWere
  <2> QED
    BY <1>1, <1>2, <1>20, <2>3, <2>4, HandlerTyped DEF RunGrant, GrantsAsTheyWere, ListAsItWas
<1>21. ASSUME NEW w \in Worker, SettleOutcome(w) PROVE ServicesTypeOK'
  <2>1. handler[w] \in [at : {"settle"}, ask : Ask, outcome : Decision]
    BY <1>1, <1>21 DEF SettleOutcome, AtPlace, Handler, Resting
  <2> QED
    BY <1>1, <1>2, <1>5, <1>21, <2>1, HandlerTyped, SettleTyped DEF SettleOutcome, GrantsAsTheyWere, Finishes, ListAsItWas
<1>22. ASSUME NEW r \in Ask, Decline(r) \/ Expire(r) PROVE ServicesTypeOK'
  <2>1. PICK d \in Decision : Settle(r, d)
    BY <1>22 DEF Decline, Expire, GrantsAsTheyWere, Decision
  <2> QED
    BY <1>1, <1>2, <1>22, <2>1, SettleTyped DEF Decline, Expire, GrantsAsTheyWere, ListAsItWas
<1>23. ASSUME NEW r \in Ask, Age(r) PROVE ServicesTypeOK'
  BY <1>1, <1>2, <1>23 DEF Age, GrantsAsTheyWere, ListAsItWas
<1>24. CASE StopProcess
  <2>1. Turned
    BY <1>5, <1>24 DEF StopProcess
  <2>2. BasesInHand({w \in Worker : HalfDone(handler[w])}) \subseteq Base
    BY <1>1, BaseOfTyped DEF BasesInHand
  <2> QED
    BY <1>1, <1>2, <1>24, <2>1, <2>2 DEF StopProcess, ListAsItWas
<1>25. CASE UninstallHelper
  <2>1. BasesInHand(Worker) \subseteq Base
    BY <1>1, BaseOfTyped DEF BasesInHand
  <2> QED
    BY <1>1, <1>2, <1>3, <1>25, <2>1 DEF UninstallHelper, ListAsItWas
<1>26. CASE UNCHANGED servicesVars
  BY <1>1, <1>2, <1>26 DEF servicesVars, serviceTables
<1> QED
  BY <1>8, <1>9, <1>10, <1>11, <1>12, <1>13, <1>14, <1>15, <1>16, <1>17, <1>18, <1>19, <1>20, <1>21,
     <1>22, <1>23, <1>24, <1>25, <1>26 DEF ServicesNext

-----------------------------------------------------------------------------
(* Requests.  Not inductive by itself: a request that was not disputed has *)
(* one worker at most, is still pending as long as it has one, and what    *)
(* Windows has done for it is what that worker knows.                      *)

At(w, r) == handler[w].at \in RequestPlace /\ handler[w].ask = r

Truth(r) ==
    r \notin disputed =>
        /\ \A v, w \in Worker : At(v, r) /\ At(w, r) => v = w
        /\ \A w \in Worker : At(w, r) =>
              /\ asks[r].state = "pending"
              /\ ran[r] = IF handler[w].at = "settle" /\ handler[w].outcome = "approved" THEN 1 ELSE 0
        /\ (\A w \in Worker : ~At(w, r)) =>
              ran[r] = IF asks[r] # NoAsk /\ asks[r].state = "approved" THEN 1 ELSE 0

FirstStands(r) == asks[r] # NoAsk /\ asks[r].state # "pending" => asks[r].state = decided[r]

WorkersHaveAsks == \A w \in Worker : handler[w].at \in RequestPlace => asks[handler[w].ask] # NoAsk

AInv == WorkersHaveAsks /\ \A r \in Ask : Truth(r) /\ FirstStands(r)

LEMMA AInvAnswersOnce == AInv => RequestsAreAnsweredOnce
BY DEF AInv, Truth, FirstStands, At, RequestPlace, Busy, RequestsAreAnsweredOnce

LEMMA InitAInv == ServicesInit => AInv
<1> SUFFICES ASSUME ServicesInit PROVE AInv
  OBVIOUS
<1>1. \A w \in Worker : handler[w].at \notin RequestPlace
  BY DEF ServicesInit, Resting, RequestPlace
<1>2. \A r \in Ask : asks[r] = NoAsk /\ ran[r] = 0
  BY DEF ServicesInit
<1> QED
  BY <1>1, <1>2 DEF AInv, WorkersHaveAsks, Truth, FirstStands, At

\* Handlers that work on the list are nothing to a request.
LEMMA ListWorks ==
  ASSUME AInv, UNCHANGED <<asks, ran, decided, disputed>>,
         \A w \in Worker : \/ handler'[w] = handler[w]
                           \/ handler[w].at \notin RequestPlace /\ handler'[w].at \notin RequestPlace
  PROVE  AInv'
<1>1. \A w \in Worker : handler'[w].at \in RequestPlace \/ handler[w].at \in RequestPlace =>
         handler'[w] = handler[w]
  OBVIOUS
<1>2. \A w \in Worker, r \in Ask : At(w, r)' <=> At(w, r)
  BY <1>1 DEF At
<1>3. WorkersHaveAsks'
  BY <1>1 DEF AInv, WorkersHaveAsks
<1>4. ASSUME NEW r \in Ask PROVE Truth(r)' /\ FirstStands(r)'
  BY <1>1, <1>2 DEF AInv, Truth, FirstStands, At
<1> QED
  BY <1>3, <1>4 DEF AInv

\* Where a step does not touch a request or who works on it, all stays true of it.
LEMMA Untroubled ==
  ASSUME NEW r \in Ask, Truth(r), FirstStands(r),
         asks'[r] = asks[r], ran'[r] = ran[r], decided'[r] = decided[r],
         r \in disputed => r \in disputed',
         \A w \in Worker : At(w, r) \/ At(w, r)' => handler'[w] = handler[w]
  PROVE  Truth(r)' /\ FirstStands(r)'
<1>1. \A w \in Worker : At(w, r)' <=> At(w, r)
  BY DEF At
<1>2. \A w \in Worker : At(w, r) => handler'[w] = handler[w]
  OBVIOUS
<1> QED
  BY <1>1, <1>2 DEF Truth, FirstStands

\* A decision on a request nobody works on, or a disputed one.
LEMMA Decides ==
  ASSUME ServicesTypeOK, AInv, NEW r \in Ask, NEW d \in Decision, d # "approved",
         asks[r] # NoAsk, Settle(r, d), UNCHANGED <<ran, handler>>,
         disputed' = IF Busy(r) THEN disputed \cup {r} ELSE disputed
  PROVE  AInv'
<1>1. asks[r] \in [state : {"pending"} \cup Decision, entry : EntryId]
  BY DEF ServicesTypeOK
<1>2. asks'[r] # NoAsk
  BY SMTT(25), <1>1 DEF Settle, ServicesTypeOK, NoAsk
<1>3. \A q \in Ask \ {r} : asks'[q] = asks[q] /\ decided'[q] = decided[q]
  BY DEF Settle, ServicesTypeOK
<1>4. WorkersHaveAsks'
  <2> SUFFICES ASSUME NEW w \in Worker, handler[w].at \in RequestPlace
               PROVE  asks'[handler[w].ask] # NoAsk
    BY DEF WorkersHaveAsks
  <2>1. handler[w].ask \in Ask
    BY DEF ServicesTypeOK, RequestPlace, Resting
  <2> QED
    BY <1>2, <1>3, <2>1 DEF AInv, WorkersHaveAsks
<1>5. ASSUME NEW q \in Ask, q # r PROVE Truth(q)' /\ FirstStands(q)'
  BY <1>3, <1>5, Untroubled DEF AInv
<1>6. FirstStands(r)'
  <2>1. CASE asks[r].state = "pending"
    BY <1>1, <2>1 DEF Settle, FirstStands, ServicesTypeOK
  <2>2. CASE asks[r].state # "pending"
    BY <2>2 DEF Settle, FirstStands, AInv
  <2> QED
    BY <2>1, <2>2
<1>7. Truth(r)'
  <2> SUFFICES ASSUME r \notin disputed' PROVE Truth(r)'
    BY DEF Truth
  <2>1. r \notin disputed /\ \A w \in Worker : ~At(w, r)
    BY DEF Busy, At, RequestPlace
  <2>2. \A w \in Worker : ~At(w, r)'
    BY <2>1 DEF At
  <2>3. ran[r] = IF asks[r].state = "approved" THEN 1 ELSE 0
    BY <2>1 DEF AInv, Truth
  <2>4. asks'[r].state = "approved" <=> asks[r].state = "approved"
    BY <1>1 DEF Settle, ServicesTypeOK
  <2> QED
    BY <1>2, <2>2, <2>3, <2>4 DEF Truth
<1> QED
  BY <1>4, <1>5, <1>6, <1>7 DEF AInv

\* A module's request: a new one, with its module at work on it or nobody.
LEMMA Requests ==
  ASSUME ServicesTypeOK, AInv, NEW m \in ServiceModule, NEW r \in Ask, NEW id \in EntryId,
         RequestAction(m, r, id)
  PROVE  AInv'
<1> DEFINE new == [state |-> "pending", entry |-> id]
<1>1. PICK e \in FindEntry(id) :
         /\ asks' = [asks EXCEPT ![r] = new]
         /\ Resumes(m, IF e.unattended THEN [at |-> "execute", ask |-> r] ELSE Resting)
  BY DEF RequestAction
<1>2. /\ UNCHANGED <<ran, decided, disputed>> /\ asks[r] = NoAsk /\ handler[m] = Resting
      /\ m \in Worker
  BY DEF RequestAction, Worker
<1>3. \A w \in Worker : handler'[w] = IF w = m THEN (IF e.unattended THEN [at |-> "execute", ask |-> r] ELSE Resting)
                                                ELSE handler[w]
  BY <1>1, <1>2, HandlerTurns
<1>4. \A w \in Worker : ~At(w, r)
  BY <1>2 DEF AInv, WorkersHaveAsks, At
<1>5. \A q \in Ask : asks'[q] = IF q = r THEN new ELSE asks[q]
  BY <1>1 DEF ServicesTypeOK
<1>6. new # NoAsk
  BY DEF NoAsk
<1>7. WorkersHaveAsks'
  <2> SUFFICES ASSUME NEW w \in Worker, handler'[w].at \in RequestPlace
               PROVE  handler'[w].ask \in Ask /\ asks'[handler'[w].ask] # NoAsk
    BY DEF WorkersHaveAsks
  <2>1. CASE w = m
    BY <1>3, <1>5, <1>6, <2>1 DEF Resting, RequestPlace
  <2>2. CASE w # m
    BY <1>3, <1>5, <1>6, <2>2 DEF AInv, WorkersHaveAsks, ServicesTypeOK, Resting, RequestPlace
  <2> QED
    BY <2>1, <2>2
<1>8. ASSUME NEW q \in Ask, q # r PROVE Truth(q)' /\ FirstStands(q)'
  <2>1. \A w \in Worker : At(w, q) \/ At(w, q)' => handler'[w] = handler[w]
    BY <1>2, <1>3, <1>8 DEF At, Resting, RequestPlace
  <2> QED
    BY <1>2, <1>5, <1>8, <2>1, Untroubled DEF AInv
<1>9. FirstStands(r)'
  BY <1>5 DEF FirstStands
<1>10. Truth(r)'
  <2> SUFFICES ASSUME r \notin disputed PROVE Truth(r)'
    BY <1>2 DEF Truth
  <2>1. ran'[r] = 0 /\ asks'[r].state = "pending"
    BY <1>2, <1>4, <1>5 DEF AInv, Truth
  <2>2. \A w \in Worker : At(w, r)' => w = m /\ handler'[w].at = "execute"
    BY <1>3, <1>4 DEF At, Resting, RequestPlace
  <2> QED
    BY <2>1, <2>2 DEF Truth
<1> QED
  BY <1>7, <1>8, <1>9, <1>10 DEF AInv

\* An approval: the first worker on a request that waits, or a dispute.
LEMMA Approvals ==
  ASSUME ServicesTypeOK, AInv, NEW w \in ServiceTab, NEW r \in Ask, Approve(w, r)
  PROVE  AInv'
<1>1. /\ UNCHANGED <<asks, ran, decided>> /\ w \in Worker /\ handler[w] = Resting /\ asks[r] # NoAsk
      /\ disputed' = IF Busy(r) \/ asks[r].state # "pending" THEN disputed \cup {r} ELSE disputed
  BY DEF Approve, Worker
<1>2. \A x \in Worker : handler'[x] = IF x = w THEN [at |-> "execute", ask |-> r] ELSE handler[x]
  BY <1>1, HandlerTurns DEF Approve
<1>3. WorkersHaveAsks'
  BY <1>1, <1>2 DEF AInv, WorkersHaveAsks
<1>4. ASSUME NEW q \in Ask, q # r PROVE Truth(q)' /\ FirstStands(q)'
  <2>1. \A x \in Worker : At(x, q) \/ At(x, q)' => handler'[x] = handler[x]
    BY <1>1, <1>2, <1>4 DEF At, Resting, RequestPlace
  <2> QED
    BY <1>1, <1>4, <2>1, Untroubled DEF AInv
<1>5. FirstStands(r)'
  BY <1>1 DEF AInv, FirstStands
<1>6. Truth(r)'
  <2> SUFFICES ASSUME r \notin disputed' PROVE Truth(r)'
    BY DEF Truth
  <2>1. r \notin disputed /\ asks[r].state = "pending" /\ \A x \in Worker : ~At(x, r)
    BY <1>1 DEF Busy, At, RequestPlace
  <2>2. ran[r] = 0
    BY <2>1 DEF AInv, Truth
  <2>3. \A x \in Worker : At(x, r)' => x = w /\ handler'[x].at = "execute"
    BY <1>2, <2>1 DEF At
  <2>4. ~\A x \in Worker : ~At(x, r)'
    BY <1>1, <1>2 DEF At, RequestPlace
  <2> QED
    BY <1>1, <2>1, <2>2, <2>3, <2>4 DEF Truth
<1> QED
  BY <1>3, <1>4, <1>5, <1>6 DEF AInv

\* The worker of a request goes on: what it knows of Windows stays true.
LEMMA WorkerGoesOn ==
  ASSUME ServicesTypeOK, AInv, NEW w \in Worker, Execute(w) \/ RunGrant(w)
  PROVE  AInv'
<1>1. UNCHANGED <<asks, decided, disputed>>
  BY DEF Execute, RunGrant, RequestsAsTheyWere
<1>2. PICK r \in Ask : r = handler[w].ask /\ handler[w].at \in {"execute", "run"} /\ At(w, r)
  BY DEF Execute, RunGrant, AtPlace, ServicesTypeOK, Resting, At, RequestPlace
<1>3. PICK h \in Handler : /\ Resumes(w, h)
                           /\ h.at \in {"run", "settle"} /\ h.ask = r
                           /\ ran' = IF h.at = "settle" /\ h.outcome = "approved"
                                     THEN [ran EXCEPT ![r] = IF @ < 2 THEN @ + 1 ELSE @] ELSE ran
  <2>1. CASE Execute(w)
    <3>1. \A e \in entries : [at |-> "run", ask |-> r, base |-> TaskBase[e.service]] \in Handler
      BY <1>2 DEF Handler, Base, ServicesTypeOK, Entry
    <3>2. [at |-> "settle", ask |-> r, outcome |-> "failed"] \in Handler
      BY <1>2 DEF Handler, Decision
    <3> QED
      BY <1>2, <2>1, <3>1, <3>2 DEF Execute, FindEntry, RequestsAsTheyWere
  <2>2. CASE RunGrant(w)
    <3> DEFINE ends(o) == [at |-> "settle", ask |-> r, outcome |-> o]
    <3>1. \A o \in {"approved", "cancelled-at-uac", "failed"} :
             ends(o) \in Handler /\ ends(o).at = "settle" /\ ends(o).ask = r /\ ends(o).outcome = o
      BY <1>2 DEF Handler, Decision
    <3>2. \/ /\ Resumes(w, ends("approved"))
             /\ ran' = [ran EXCEPT ![r] = IF @ < 2 THEN @ + 1 ELSE @]
          \/ /\ ran' = ran
             /\ Resumes(w, ends("cancelled-at-uac")) \/ Resumes(w, ends("failed"))
      BY <1>2, <2>2 DEF RunGrant
    <3> HIDE DEF ends
    <3> QED
      BY <3>1, <3>2
  <2> QED
    BY <2>1, <2>2
<1>4. \A x \in Worker : handler'[x] = IF x = w THEN h ELSE handler[x]
  BY <1>3, HandlerTurns
<1>5. WorkersHaveAsks'
  BY <1>1, <1>2, <1>3, <1>4 DEF AInv, WorkersHaveAsks, At
<1>6. \A q \in Ask, x \in Worker : At(x, q)' <=> At(x, q)
  BY <1>2, <1>3, <1>4 DEF At, RequestPlace
<1>7. ASSUME NEW q \in Ask, q # r PROVE Truth(q)' /\ FirstStands(q)'
  <2>1. \A x \in Worker : At(x, q) \/ At(x, q)' => handler'[x] = handler[x]
    BY <1>2, <1>4, <1>6, <1>7 DEF At
  <2>2. ran'[q] = ran[q]
    BY <1>2, <1>3, <1>7 DEF ServicesTypeOK
  <2> QED
    BY <1>1, <1>7, <2>1, <2>2, Untroubled DEF AInv
<1>8. FirstStands(r)'
  BY <1>1, <1>2 DEF AInv, FirstStands
<1>9. Truth(r)'
  <2> SUFFICES ASSUME r \notin disputed PROVE Truth(r)'
    BY <1>1 DEF Truth
  <2>1. /\ \A x, y \in Worker : At(x, r) /\ At(y, r) => x = y
        /\ asks[r].state = "pending" /\ ran[r] = 0
    BY <1>2 DEF AInv, Truth
  <2>2. ran'[r] = IF h.at = "settle" /\ h.outcome = "approved" THEN 1 ELSE 0
    BY <1>2, <1>3, <2>1 DEF ServicesTypeOK
  <2>3. \A x \in Worker : At(x, r)' <=> x = w
    BY <1>2, <1>6, <2>1
  <2> QED
    BY <1>1, <1>4, <2>1, <2>2, <2>3 DEF Truth
<1> QED
  BY <1>5, <1>7, <1>8, <1>9 DEF AInv

\* The worker is done, and its answer is the first decision.
LEMMA WorkerSettles ==
  ASSUME ServicesTypeOK, AInv, NEW w \in Worker, SettleOutcome(w)
  PROVE  AInv'
<1>1. PICK r \in Ask : r = handler[w].ask /\ handler[w].at = "settle" /\ At(w, r)
                       /\ handler[w].outcome \in Decision
  BY DEF SettleOutcome, AtPlace, ServicesTypeOK, Resting, At, RequestPlace
<1>2. UNCHANGED <<ran, disputed>> /\ Settle(r, handler[w].outcome) /\ asks[r] # NoAsk
  BY <1>1 DEF SettleOutcome, AInv, WorkersHaveAsks, At
<1>3. \A x \in Worker : handler'[x] = IF x = w THEN Resting ELSE handler[x]
  BY HandlerTurns DEF SettleOutcome, Finishes
<1>4. asks[r] \in [state : {"pending"} \cup Decision, entry : EntryId]
  BY <1>2 DEF ServicesTypeOK
<1>5. asks'[r] # NoAsk /\ \A q \in Ask \ {r} : asks'[q] = asks[q] /\ decided'[q] = decided[q]
  <2>1. CASE asks[r].state = "pending"
    <3>1. asks'[r] = [asks[r] EXCEPT !.state = handler[w].outcome]
      BY <1>2, <2>1 DEF Settle, ServicesTypeOK
    <3>2. asks'[r] # NoAsk
      BY <1>1, <1>4, <3>1 DEF NoAsk
    <3> QED
      BY <1>2, <2>1, <3>2 DEF Settle, ServicesTypeOK
  <2>2. CASE asks[r].state # "pending"
    BY <1>2, <2>2 DEF Settle
  <2> QED
    BY <2>1, <2>2
<1>6. WorkersHaveAsks'
  <2> SUFFICES ASSUME NEW x \in Worker, handler'[x].at \in RequestPlace
               PROVE  asks'[handler'[x].ask] # NoAsk
    BY DEF WorkersHaveAsks
  <2>1. handler'[x] = handler[x] /\ handler[x].ask \in Ask
    BY <1>3 DEF ServicesTypeOK, RequestPlace, Resting
  <2> QED
    BY <1>5, <2>1 DEF AInv, WorkersHaveAsks
<1>7. ASSUME NEW q \in Ask, q # r PROVE Truth(q)' /\ FirstStands(q)'
  <2>1. \A x \in Worker : At(x, q) \/ At(x, q)' => handler'[x] = handler[x]
    BY <1>1, <1>3, <1>7 DEF At, Resting, RequestPlace
  <2> QED
    BY <1>2, <1>5, <1>7, <2>1, Untroubled DEF AInv
<1>8. FirstStands(r)'
  <2>1. CASE asks[r].state = "pending"
    BY <1>2, <1>4, <2>1 DEF Settle, FirstStands, ServicesTypeOK
  <2>2. CASE asks[r].state # "pending"
    BY <1>2, <2>2 DEF Settle, FirstStands, AInv
  <2> QED
    BY <2>1, <2>2
<1>9. Truth(r)'
  <2> SUFFICES ASSUME r \notin disputed PROVE Truth(r)'
    BY <1>2 DEF Truth
  <2>1. /\ \A x \in Worker : At(x, r) => x = w
        /\ asks[r].state = "pending"
        /\ ran[r] = IF handler[w].outcome = "approved" THEN 1 ELSE 0
    BY <1>1 DEF AInv, Truth
  <2>2. \A x \in Worker : ~At(x, r)'
    BY <1>3, <2>1 DEF At, Resting, RequestPlace
  <2>3. asks'[r].state = handler[w].outcome
    BY <1>2, <1>4, <2>1 DEF Settle, ServicesTypeOK
  <2> QED
    BY <1>2, <1>5, <2>1, <2>2, <2>3 DEF Truth
<1> QED
  BY <1>6, <1>7, <1>8, <1>9 DEF AInv

LEMMA NextAInv == ServicesTypeOK /\ AInv /\ [ServicesNext]_servicesVars => AInv'
<1> SUFFICES ASSUME ServicesTypeOK, AInv, [ServicesNext]_servicesVars PROVE AInv'
  OBVIOUS
<1>1. \A w \in ServiceTab : w \in Worker
  BY DEF Worker
\* Work on the list.
<1>2. ASSUME RequestsAsTheyWere, NEW w \in Worker, NEW h, Resumes(w, h),
             handler[w].at \notin RequestPlace, h.at \notin RequestPlace
      PROVE  AInv'
  <2>1. \A x \in Worker : handler'[x] = IF x = w THEN h ELSE handler[x]
    BY <1>2, HandlerTurns
  <2> QED
    BY <1>2, <2>1, ListWorks DEF RequestsAsTheyWere
<1>3. ASSUME RequestsAsTheyWere, handler' = handler PROVE AInv'
  BY <1>3, ListWorks DEF RequestsAsTheyWere
<1>4. ASSUME NEW w \in ServiceTab, NEW s \in Service, NEW c \in BOOLEAN, AddEntry(w, s, c) PROVE AInv'
  BY <1>1, <1>2, <1>4 DEF AddEntry, Takes, Resting, RequestPlace
<1>5. ASSUME NEW w \in ServiceTab, CreateGrants(w) PROVE AInv'
  <2>1. handler[w] \in [at : {"grant", "insert"}, service : Service, canControl : BOOLEAN]
    BY <1>1, <1>5 DEF CreateGrants, AtPlace, ServicesTypeOK, Resting
  <2>2. PICK h : Resumes(w, h) /\ h \in {Resting, [handler[w] EXCEPT !.at = "insert"]}
    BY <1>5 DEF CreateGrants, Finishes
  <2>3. h.at \notin RequestPlace
    BY <2>1, <2>2 DEF Resting, RequestPlace
  <2> QED
    BY <1>1, <1>2, <1>5, <2>1, <2>2, <2>3 DEF CreateGrants, RequestPlace
<1>6. ASSUME NEW w \in ServiceTab, InsertEntry(w) \/ DeleteEntry(w) PROVE AInv'
  BY <1>1, <1>2, <1>6 DEF InsertEntry, DeleteEntry, AtPlace, Finishes, Resting, RequestPlace
<1>7. ASSUME NEW w \in ServiceTab, NEW id \in EntryId, RemoveEntry(w, id) PROVE AInv'
  BY <1>1, <1>2, <1>7 DEF RemoveEntry, Takes, Resting, RequestPlace
<1>8. ASSUME NEW w \in ServiceTab, RemoveGrants(w) PROVE AInv'
  <2>1. handler[w] \in [at : {"ungrant", "delete"}, entry : Entry]
    BY <1>1, <1>8 DEF RemoveGrants, AtPlace, ServicesTypeOK, Resting
  <2>2. PICK h : Resumes(w, h) /\ h \in {Resting, [handler[w] EXCEPT !.at = "delete"]}
    BY <1>8 DEF RemoveGrants, Finishes
  <2>3. h.at \notin RequestPlace
    BY <2>1, <2>2 DEF Resting, RequestPlace
  <2> QED
    BY <1>1, <1>2, <1>8, <2>1, <2>2, <2>3 DEF RemoveGrants, RequestPlace
<1>9. ASSUME NEW id \in EntryId, NEW on \in BOOLEAN, SetUnattended(id, on) PROVE AInv'
  BY <1>3, <1>9 DEF SetUnattended
<1>10. ASSUME NEW on \in BOOLEAN, SetUnbounded(on) PROVE AInv'
  BY <1>3, <1>10 DEF SetUnbounded
<1>11. ASSUME NEW m \in ServiceModule, Suggest(m) PROVE AInv'
  BY <1>3, <1>11 DEF Suggest
\* What is decided from outside.
<1>12. ASSUME NEW r \in Ask, Decline(r) \/ Expire(r) PROVE AInv'
  <2>1. PICK d \in {"declined", "expired"} : Settle(r, d)
    BY <1>12 DEF Decline, Expire
  <2>2. d \in Decision /\ d # "approved"
    BY DEF Decision
  <2> QED
    BY <1>12, <2>1, <2>2, Decides DEF Decline, Expire
<1>13. ASSUME NEW r \in Ask, Age(r) PROVE AInv'
  BY <1>13, ListWorks DEF Age
<1>14. CASE StopProcess
  <2>1. \A w \in Worker : handler'[w] = Resting
    BY <1>14 DEF StopProcess
  <2>2. \A w \in Worker, r \in Ask : ~At(w, r)'
    BY <2>1 DEF At, Resting, RequestPlace
  <2>3. \A r \in Ask : r \notin disputed' => r \notin disputed /\ \A w \in Worker : ~At(w, r)
    BY <1>14 DEF StopProcess, Busy, At, RequestPlace
  <2>4. UNCHANGED <<asks, ran, decided>>
    BY <1>14 DEF StopProcess
  <2>5. WorkersHaveAsks'
    BY <2>1 DEF WorkersHaveAsks, Resting, RequestPlace
  <2>6. \A r \in Ask : Truth(r)' /\ FirstStands(r)'
    BY <2>2, <2>3, <2>4 DEF AInv, Truth, FirstStands
  <2> QED
    BY <2>5, <2>6 DEF AInv
<1>15. CASE UninstallHelper
  BY <1>3, <1>15 DEF UninstallHelper
<1>16. CASE UNCHANGED servicesVars
  BY <1>3, <1>16 DEF servicesVars, serviceTables, RequestsAsTheyWere
<1> QED
  BY <1>4, <1>5, <1>6, <1>7, <1>8, <1>9, <1>10, <1>11, <1>12, <1>13, <1>14, <1>15, <1>16,
     Requests, Approvals, WorkerGoesOn, WorkerSettles DEF ServicesNext

(***************************************************************************)
(* The tables and handlers of the helper keep their types.                 *)
(***************************************************************************)
THEOREM ServicesTypesAlways == ServicesSpec => []ServicesTypeOK
BY InitTypeOK, NextServicesTypeOK, PTL DEF ServicesSpec

(***************************************************************************)
(* A request is decided once, and its module is told what happened         *)
(* (lib/requests.ts), for any modules and pages.                           *)
(***************************************************************************)
THEOREM RequestsAreAnsweredOnceAlways == ServicesSpec => []RequestsAreAnsweredOnce
<1>1. ServicesInit => ServicesTypeOK /\ AInv
  BY InitTypeOK, InitAInv
<1>2. (ServicesTypeOK /\ AInv) /\ [ServicesNext]_servicesVars => (ServicesTypeOK /\ AInv)'
  BY NextServicesTypeOK, NextAInv
<1> QED
  BY <1>1, <1>2, AInvAnswersOnce, PTL DEF ServicesSpec

-----------------------------------------------------------------------------
(***************************************************************************)
(* GrantsAreAccountedFor. The invariant is about one task name at a time   *)
(* (Sound): as long as it was not meddled with, one handler at most is at  *)
(* work on it, what that handler has done so far is known, and when there  *)
(* is none the grants are accounted for, unless a stop came in between.    *)
(* Steps on another name leave it alone, because a row is deleted by an id *)
(* that no other row ever gets.                                            *)
(***************************************************************************)

Row(e) == [id |-> e.id, service |-> e.service, canControl |-> e.canControl]
RowsOf(es, b) == {Row(e) : e \in {x \in es : TaskBase[x.service] = b}}
Rows(b) == RowsOf(entries, b)

HasInHand(w, b) == b \in BaseOf(handler[w])

\* Accounted for, when nobody is at work
Accounted(b) ==
    LET listed == \E e \in entries : Granted(e) /\ TaskBase[e.service] = b
    IN  /\ listed => b \in grants \cup withdrawn
        /\ b \in grants => listed

\* Where a handler is with the task name b
Underway(h, b) ==
    /\ h.at = "grant"  => Rows(b) = {} /\ (b \in grants => b \in cut)
    /\ h.at = "insert" => Rows(b) = {} /\ IF h.canControl THEN b \in grants
                                          ELSE b \in grants => b \in cut
    /\ h.at = "ungrant" => Row(h.entry) \in Rows(b) /\ b \in grants \cup withdrawn \cup cut
    /\ h.at = "delete"  => Row(h.entry) \in Rows(b) /\ (b \in grants => b \in cut /\ ~Granted(h.entry))

Sound(b) ==
    b \notin meddled =>
        /\ \A v, w \in Worker : HasInHand(v, b) /\ HasInHand(w, b) => v = w
        /\ \A w \in Worker : HasInHand(w, b) => Underway(handler[w], b)
        /\ (\A w \in Worker : ~HasInHand(w, b)) => b \in cut \/ Accounted(b)

RowsAreUnique ==
    \A e, f \in entries : e.id = f.id \/ TaskBase[e.service] = TaskBase[f.service] => e = f

\* The row a handler removes is that row or gone: its id is not used again.
IdsStay ==
    \A w \in Worker : handler[w].at \in RemovePlace =>
        \A f \in entries : f.id = handler[w].entry.id => Row(f) = Row(handler[w].entry)

\* Grants are made and taken back for what may be controlled.
GrantsAreControl ==
    \A w \in Worker : /\ handler[w].at = "grant" => handler[w].canControl
                      /\ handler[w].at = "ungrant" => Granted(handler[w].entry)

GInv ==
    /\ RowsAreUnique
    /\ IdsStay
    /\ GrantsAreControl
    /\ \A b \in Base : Sound(b)

-----------------------------------------------------------------------------
LEMMA GInvAccounts == GInv => GrantsAreAccountedFor
BY DEF GInv, Sound, Accounted, HasInHand, BasesInHand, GrantsAreAccountedFor

LEMMA InitGInv == ServicesInit => GInv
<1> SUFFICES ASSUME ServicesInit PROVE GInv
  OBVIOUS
<1>1. \A w \in Worker : handler[w] = Resting /\ BaseOf(handler[w]) = {}
  BY DEF ServicesInit, Resting, BaseOf
<1>2. entries = {} /\ grants = {}
  BY DEF ServicesInit
<1> QED
  BY <1>1, <1>2 DEF GInv, RowsAreUnique, IdsStay, GrantsAreControl, Sound, HasInHand, Accounted,
     Resting, RemovePlace

\* Whether a name is listed is what its rows say.
LEMMA ListedIsInRows ==
  ASSUME NEW es, NEW b
  PROVE  (\E e \in es : e.canControl /\ TaskBase[e.service] = b) <=> (\E r \in RowsOf(es, b) : r.canControl)
<1>1. ASSUME NEW e \in es, e.canControl, TaskBase[e.service] = b
      PROVE  \E r \in RowsOf(es, b) : r.canControl
  <2>1. Row(e) \in RowsOf(es, b) /\ Row(e).canControl
    BY <1>1 DEF RowsOf, Row
  <2> QED
    BY <2>1
<1>2. ASSUME NEW r \in RowsOf(es, b), r.canControl
      PROVE  \E e \in es : e.canControl /\ TaskBase[e.service] = b
  <2>1. PICK e \in es : TaskBase[e.service] = b /\ r = Row(e)
    BY DEF RowsOf
  <2> QED
    BY <1>2, <2>1 DEF Row
<1> QED
  BY <1>1, <1>2

\* A step that is about other names.
LEMMA OtherNames ==
  ASSUME NEW b \in Base, Sound(b), Rows(b)' = Rows(b),
         b \in grants' <=> b \in grants, b \in withdrawn' <=> b \in withdrawn, b \in cut' <=> b \in cut,
         b \in meddled => b \in meddled',
         \A w \in Worker : HasInHand(w, b) \/ HasInHand(w, b)' => handler'[w] = handler[w]
  PROVE  Sound(b)'
<1> SUFFICES ASSUME b \notin meddled' PROVE Sound(b)'
  BY DEF Sound
<1>1. b \notin meddled
  OBVIOUS
<1>2. \A w \in Worker : HasInHand(w, b)' <=> HasInHand(w, b)
  BY DEF HasInHand
<1>3. \A v, w \in Worker : HasInHand(v, b)' /\ HasInHand(w, b)' => v = w
  BY <1>1, <1>2 DEF Sound
<1>4. ASSUME NEW w \in Worker, HasInHand(w, b)' PROVE Underway(handler[w], b)'
  <2>1. handler'[w] = handler[w] /\ Underway(handler[w], b)
    BY <1>1, <1>2, <1>4 DEF Sound
  <2> QED
    BY <2>1 DEF Underway, Row
<1>5. (\A w \in Worker : ~HasInHand(w, b)') => b \in cut' \/ Accounted(b)'
  <2>1. Accounted(b)' <=> Accounted(b)
    <3>1. (\E e \in entries : Granted(e) /\ TaskBase[e.service] = b)'
              <=> (\E e \in entries : Granted(e) /\ TaskBase[e.service] = b)
      <4>1. RowsOf(entries', b) = RowsOf(entries, b)
        BY DEF Rows
      <4> QED
        BY <4>1, ListedIsInRows DEF Granted
    <3> QED
      BY <3>1 DEF Accounted
  <2> QED
    BY <1>1, <1>2, <2>1 DEF Sound
<1> QED
  BY <1>3, <1>4, <1>5 DEF Sound

-----------------------------------------------------------------------------
(* Steps of a handler, in general.                                         *)

\* Handlers that work on requests are nothing to the list.
LEMMA RequestsWork ==
  ASSUME ServicesTypeOK, GInv, UNCHANGED <<entries, grants, withdrawn, cut, meddled>>,
         handler' \in [Worker -> Handler],
         \A w \in Worker : \/ handler'[w] = handler[w]
                           \/ /\ handler[w].at \notin AddPlace \cup RemovePlace
                              /\ handler'[w].at \notin AddPlace \cup RemovePlace
  PROVE  GInv'
<1>1. \A w \in Worker : handler[w] \in Handler /\ handler'[w] \in Handler
  BY DEF ServicesTypeOK, Handler
<1>2. \A w \in Worker : BaseOf(handler'[w]) # {} \/ BaseOf(handler[w]) # {} => handler'[w] = handler[w]
  BY <1>1, BaseOfTyped
<1>3. \A b \in Base : Rows(b)' = Rows(b)
  BY DEF Rows
<1>4. ASSUME NEW b \in Base PROVE Sound(b)'
  <2>1. \A w \in Worker : HasInHand(w, b) \/ HasInHand(w, b)' => handler'[w] = handler[w]
    BY <1>2 DEF HasInHand
  <2> QED
    BY <1>3, <2>1, OtherNames DEF GInv
<1>5. RowsAreUnique' /\ IdsStay' /\ GrantsAreControl'
  BY DEF GInv, RowsAreUnique, IdsStay, GrantsAreControl, AddPlace, RemovePlace
<1> QED
  BY <1>4, <1>5 DEF GInv

\* A handler takes on a change of one name.
LEMMA TakesOn ==
  ASSUME ServicesTypeOK, GInv, UNCHANGED <<entries, grants, withdrawn, cut>>,
         NEW w \in Worker, handler[w] = Resting,
         NEW h \in Handler, Takes(w, h),
         NEW c \in Base, BaseOf(h) = {c},
         c \in cut \/ Accounted(c) => Underway(h, c),
         h.at = "grant" => h.canControl,
         h.at = "ungrant" => Granted(h.entry),
         h.at \in RemovePlace => \A f \in entries : f.id = h.entry.id => Row(f) = Row(h.entry)
  PROVE  GInv'
<1>1. \A x \in Worker : handler'[x] = IF x = w THEN h ELSE handler[x]
  BY HandlerTurns DEF Takes
<1>2. meddled' = meddled \cup ({c} \cap BasesInHand(Worker \ {w}))
  BY DEF Takes
<1>3. BaseOf(Resting) = {}
  BY DEF BaseOf, Resting
<1>4. \A b \in Base : Rows(b)' = Rows(b)
  BY DEF Rows
<1>5. ASSUME NEW b \in Base, b # c PROVE Sound(b)'
  <2>1. \A x \in Worker : HasInHand(x, b) \/ HasInHand(x, b)' => handler'[x] = handler[x]
    BY <1>1, <1>3, <1>5 DEF HasInHand
  <2> QED
    BY <1>2, <1>4, <1>5, <2>1, OtherNames DEF GInv
<1>6. Sound(c)'
  <2> SUFFICES ASSUME c \notin meddled' PROVE Sound(c)'
    BY DEF Sound
  <2>1. c \notin meddled /\ \A x \in Worker : ~HasInHand(x, c)
    BY <1>2, <1>3 DEF BasesInHand, HasInHand
  <2>2. Underway(h, c)
    BY <2>1 DEF GInv, Sound
  <2>3. Underway(h, c)'
    BY <1>4, <2>2 DEF Underway
  <2>4. \A x \in Worker : HasInHand(x, c)' <=> x = w
    BY <1>1, <2>1 DEF HasInHand
  <2> QED
    BY <1>1, <2>3, <2>4 DEF Sound
<1>7. RowsAreUnique' /\ IdsStay' /\ GrantsAreControl'
  BY <1>1 DEF GInv, RowsAreUnique, IdsStay, GrantsAreControl
<1> QED
  BY <1>5, <1>6, <1>7 DEF GInv

\* A handler goes on with the name it has in hand, or is done with it.
LEMMA GoesOn ==
  ASSUME ServicesTypeOK, GInv, UNCHANGED meddled,
         NEW w \in Worker, NEW c \in Base, BaseOf(handler[w]) = {c},
         NEW h \in Handler, Resumes(w, h), BaseOf(h) = {c} \/ BaseOf(h) = {},
         \A b \in Base \ {c} : /\ Rows(b)' = Rows(b)
                               /\ b \in grants' <=> b \in grants
                               /\ b \in withdrawn' <=> b \in withdrawn
                               /\ b \in cut' <=> b \in cut,
         RowsAreUnique', IdsStay', GrantsAreControl',
         c \notin meddled /\ Underway(handler[w], c) =>
            IF BaseOf(h) = {} THEN c \in cut' \/ Accounted(c)' ELSE Underway(h, c)'
  PROVE  GInv'
<1>1. \A x \in Worker : handler'[x] = IF x = w THEN h ELSE handler[x]
  BY HandlerTurns
<1>2. ASSUME NEW b \in Base, b # c PROVE Sound(b)'
  <2>1. \A x \in Worker : HasInHand(x, b) \/ HasInHand(x, b)' => handler'[x] = handler[x]
    BY <1>1, <1>2 DEF HasInHand
  <2> QED
    BY <1>2, <2>1, OtherNames DEF GInv
<1>3. Sound(c)'
  <2> SUFFICES ASSUME c \notin meddled PROVE Sound(c)'
    BY DEF Sound
  <2>1. \A x \in Worker : HasInHand(x, c) => x = w
    BY DEF GInv, Sound, HasInHand
  <2>2. Underway(handler[w], c)
    BY DEF GInv, Sound, HasInHand
  <2>3. \A x \in Worker : HasInHand(x, c)' => x = w /\ handler'[x] = h /\ BaseOf(h) = {c}
    BY <1>1, <2>1 DEF HasInHand
  <2>4. (\A x \in Worker : ~HasInHand(x, c)') => BaseOf(h) = {}
    BY <1>1 DEF HasInHand
  <2> QED
    BY <2>2, <2>3, <2>4 DEF Sound
<1> QED
  BY <1>2, <1>3 DEF GInv

-----------------------------------------------------------------------------
(* Adding a service.                                                       *)

LEMMA Adds ==
  ASSUME ServicesTypeOK, GInv, NEW w \in ServiceTab, NEW s \in Service, NEW on \in BOOLEAN,
         AddEntry(w, s, on)
  PROVE  GInv'
<1> DEFINE h == [at |-> IF on THEN "grant" ELSE "insert", service |-> s, canControl |-> on]
           c == TaskBase[s]
<1>1. /\ w \in Worker /\ handler[w] = Resting /\ Takes(w, h)
      /\ \A e \in entries : TaskBase[e.service] # c
      /\ UNCHANGED <<entries, grants, withdrawn, cut>>
  BY DEF AddEntry, ListAsItWas, Worker
<1>2. h \in Handler /\ c \in Base /\ h.at \notin RemovePlace
  BY DEF Handler, Base, RemovePlace
<1>3. BaseOf(h) = {c}
  BY DEF BaseOf
<1>4. ASSUME c \in cut \/ Accounted(c) PROVE Underway(h, c)
  <2>1. Rows(c) = {}
    BY <1>1 DEF Rows, RowsOf
  <2>2. c \in grants => c \in cut
    BY <1>1, <1>4 DEF Accounted
  <2> QED
    BY <2>1, <2>2 DEF Underway
<1>5. h.at # "ungrant" /\ (h.at = "grant" => h.canControl)
  OBVIOUS
<1> HIDE DEF h
<1> QED
  BY <1>1, <1>2, <1>3, <1>4, <1>5, TakesOn

LEMMA MakesGrants ==
  ASSUME ServicesTypeOK, GInv, NEW w \in ServiceTab, CreateGrants(w)
  PROVE  GInv'
<1>1. /\ w \in Worker /\ handler[w].at = "grant" /\ UNCHANGED <<entries, meddled, cut>>
      /\ handler[w] \in [at : {"grant", "insert"}, service : Service, canControl : BOOLEAN]
  BY DEF CreateGrants, AtPlace, ListAsItWas, Worker, ServicesTypeOK, Resting
<1>2. PICK c \in Base : BaseOf(handler[w]) = {c}
  BY <1>1 DEF BaseOf, Base
<1>3. RowsAreUnique' /\ \A b \in Base : Rows(b)' = Rows(b)
  BY <1>1 DEF GInv, RowsAreUnique, Rows
<1>4. \A h : h.at \notin RemovePlace \cup {"grant"} /\ Resumes(w, h) => IdsStay' /\ GrantsAreControl'
  BY <1>1, HandlerTurns DEF GInv, IdsStay, GrantsAreControl, RemovePlace
<1>5. CASE /\ grants' = grants \cup BaseOf(handler[w])
           /\ withdrawn' = withdrawn \ BaseOf(handler[w])
           /\ Resumes(w, [handler[w] EXCEPT !.at = "insert"])
  <2>0. PICK h : h = [handler[w] EXCEPT !.at = "insert"]
    OBVIOUS
  <2>1. /\ h \in Handler /\ h.at = "insert" /\ BaseOf(h) = {c} /\ Resumes(w, h)
        /\ h.canControl
    BY <1>1, <1>2, <1>5, <2>0 DEF Handler, BaseOf, GInv, GrantsAreControl
  <2>2. Underway(handler[w], c) => Underway(h, c)'
    BY <1>1, <1>2, <1>3, <1>5, <2>1 DEF Underway
  <2>3. IdsStay' /\ GrantsAreControl'
    BY <1>4, <1>5, <2>1 DEF RemovePlace
  <2> QED
    BY <1>1, <1>2, <1>3, <1>5, <2>1, <2>2, <2>3, GoesOn
<1>6. CASE UNCHANGED <<grants, withdrawn>> /\ Finishes(w)
  <2>1. Resting \in Handler /\ BaseOf(Resting) = {}
    BY DEF Handler, BaseOf, Resting
  <2>2. Underway(handler[w], c) => c \in cut' \/ Accounted(c)'
    <3>1. ASSUME Rows(c) = {}, NEW e \in entries PROVE TaskBase[e.service] # c
      BY <3>1 DEF Rows, RowsOf
    <3> QED
      BY <1>1, <1>6, <3>1 DEF Underway, Accounted
  <2>3. IdsStay' /\ GrantsAreControl'
    BY <1>4, <1>6 DEF Finishes, Resting, RemovePlace
  <2> QED
    BY <1>1, <1>2, <1>3, <1>6, <2>1, <2>2, <2>3, GoesOn DEF Finishes
<1> QED
  BY <1>5, <1>6 DEF CreateGrants

\* The row is written, unless another of its name came first.
LEMMA Inserts ==
  ASSUME ServicesTypeOK, GInv, NEW w \in ServiceTab, InsertEntry(w)
  PROVE  GInv'
<1>1. /\ w \in Worker /\ handler[w].at = "insert" /\ UNCHANGED <<grants, withdrawn, meddled>>
      /\ cut' = IF handler[w].canControl THEN cut \ BaseOf(handler[w]) ELSE cut
      /\ handler[w] \in [at : {"grant", "insert"}, service : Service, canControl : BOOLEAN]
      /\ Resumes(w, Resting)
  BY DEF InsertEntry, AtPlace, Finishes, Worker, ServicesTypeOK, Resting
<1>2. PICK c \in Base : BaseOf(handler[w]) = {c} /\ c = TaskBase[handler[w].service]
  BY <1>1 DEF BaseOf, Base
<1>3. Resting \in Handler /\ BaseOf(Resting) = {} /\ Resting.at \notin RemovePlace
  BY DEF Handler, BaseOf, Resting, RemovePlace
<1>4. \A x \in Worker : handler'[x] = IF x = w THEN Resting ELSE handler[x]
  BY <1>1, HandlerTurns
<1>5. GrantsAreControl'
  BY <1>4 DEF GInv, GrantsAreControl, Resting
<1>6. CASE (\E e \in entries : TaskBase[e.service] = c) /\ entries' = entries
  <2>1. RowsAreUnique' /\ IdsStay' /\ \A b \in Base : Rows(b)' = Rows(b)
    BY <1>3, <1>4, <1>6 DEF GInv, RowsAreUnique, IdsStay, Rows
  <2>2. ~Underway(handler[w], c)
    <3>1. Rows(c) # {}
      BY <1>6 DEF Rows, RowsOf
    <3> QED
      BY <1>1, <3>1 DEF Underway
  <2> QED
    BY <1>1, <1>2, <1>3, <1>5, <2>1, <2>2, GoesOn
<1>7. ASSUME \A e \in entries : TaskBase[e.service] # c,
             NEW id \in EntryId, IsFresh(id),
             entries' = entries \cup {[id |-> id, service |-> handler[w].service,
                                       canControl |-> handler[w].canControl, unattended |-> FALSE]}
      PROVE  GInv'
  <2> DEFINE new == [id |-> id, service |-> handler[w].service,
                     canControl |-> handler[w].canControl, unattended |-> FALSE]
  <2>1. \A e \in entries : e.id # id
    BY <1>7 DEF IsFresh, FindEntry
  <2>2. new.id = id /\ TaskBase[new.service] = c /\ new.canControl = handler[w].canControl
    BY <1>2
  <2>3. entries' = entries \cup {new}
    BY <1>7
  <2>4. \A x \in Worker : handler[x].at \in RemovePlace => handler[x].entry.id # id
    BY <1>7 DEF IsFresh, RemovePlace
  <2> HIDE DEF new
  <2>5. RowsAreUnique'
    BY <1>7, <2>1, <2>2, <2>3 DEF GInv, RowsAreUnique
  <2>6. IdsStay'
    BY <1>3, <1>4, <2>2, <2>3, <2>4 DEF GInv, IdsStay
  <2>7. \A b \in Base \ {c} : Rows(b)' = Rows(b)
    BY <2>2, <2>3 DEF Rows, RowsOf
  <2>8. Underway(handler[w], c) => c \in cut' \/ Accounted(c)'
    BY <1>1, <1>7, <2>2, <2>3 DEF Underway, Accounted, Granted
  <2> QED
    BY <1>1, <1>2, <1>3, <1>5, <2>5, <2>6, <2>7, <2>8, GoesOn
<1> QED
  BY <1>2, <1>6, <1>7 DEF InsertEntry

-----------------------------------------------------------------------------
(* Removing a service.                                                     *)

LEMMA Removes ==
  ASSUME ServicesTypeOK, GInv, NEW w \in ServiceTab, NEW id \in EntryId, RemoveEntry(w, id)
  PROVE  GInv'
<1>1. PICK e \in entries : Takes(w, [at |-> IF Granted(e) THEN "ungrant" ELSE "delete", entry |-> e])
  BY DEF RemoveEntry, FindEntry
<1> DEFINE h == [at |-> IF Granted(e) THEN "ungrant" ELSE "delete", entry |-> e]
           c == TaskBase[e.service]
<1>2. w \in Worker /\ handler[w] = Resting /\ UNCHANGED <<entries, grants, withdrawn, cut>>
  BY DEF RemoveEntry, ListAsItWas, Worker
<1>3. e \in Entry
  BY DEF ServicesTypeOK
<1>4. h \in Handler /\ c \in Base /\ BaseOf(h) = {c} /\ h.entry = e
  BY <1>3 DEF Handler, Base, BaseOf, Entry
<1>5. h.at # "grant" /\ (h.at = "ungrant" => Granted(h.entry))
  OBVIOUS
<1>6. \A f \in entries : f.id = e.id => Row(f) = Row(e)
  BY DEF GInv, RowsAreUnique
<1>7. ASSUME c \in cut \/ Accounted(c) PROVE Underway(h, c)
  <2>1. Row(e) \in Rows(c)
    BY DEF Rows, RowsOf
  <2>2. CASE Granted(e)
    BY <1>7, <2>1, <2>2 DEF Accounted, Underway
  <2>3. CASE ~Granted(e)
    <3>1. \A f \in entries : TaskBase[f.service] = c => f = e
      BY DEF GInv, RowsAreUnique
    <3>2. c \in grants => c \in cut
      BY <1>7, <2>3, <3>1 DEF Accounted
    <3> QED
      BY <2>1, <2>3, <3>2 DEF Underway
  <2> QED
    BY <2>2, <2>3
<1>8. Takes(w, h)
  BY <1>1
<1> HIDE DEF h, c
<1> QED
  BY <1>2, <1>4, <1>5, <1>6, <1>7, <1>8, TakesOn

LEMMA TakesGrantsBack ==
  ASSUME ServicesTypeOK, GInv, NEW w \in ServiceTab, RemoveGrants(w)
  PROVE  GInv'
<1>1. /\ w \in Worker /\ handler[w].at = "ungrant" /\ UNCHANGED <<entries, meddled, withdrawn, cut>>
      /\ handler[w] \in [at : {"ungrant", "delete"}, entry : Entry]
  BY DEF RemoveGrants, AtPlace, ListAsItWas, Worker, ServicesTypeOK, Resting
<1>2. PICK c \in Base : BaseOf(handler[w]) = {c} /\ c = TaskBase[handler[w].entry.service]
  BY <1>1 DEF BaseOf, Base, Entry
<1>3. RowsAreUnique' /\ \A b \in Base : Rows(b)' = Rows(b)
  BY <1>1 DEF GInv, RowsAreUnique, Rows
<1>4. CASE /\ grants' = grants \ BaseOf(handler[w])
           /\ Resumes(w, [handler[w] EXCEPT !.at = "delete"])
  <2>0. PICK h : h = [handler[w] EXCEPT !.at = "delete"]
    OBVIOUS
  <2>1. /\ h \in Handler /\ h.at = "delete" /\ BaseOf(h) = {c} /\ Resumes(w, h)
        /\ h.entry = handler[w].entry
    BY <1>1, <1>2, <1>4, <2>0 DEF Handler, BaseOf
  <2>2. \A x \in Worker : handler'[x] = IF x = w THEN h ELSE handler[x]
    BY <1>1, <2>1, HandlerTurns
  <2>4. Underway(handler[w], c) => Underway(h, c)'
    BY <1>1, <1>2, <1>3, <1>4, <2>1 DEF Underway, Row
  <2>5. IdsStay' /\ GrantsAreControl'
    BY <1>1, <2>1, <2>2 DEF GInv, IdsStay, GrantsAreControl, RemovePlace, Row
  <2> QED
    BY <1>1, <1>2, <1>3, <1>4, <2>1, <2>4, <2>5, GoesOn
<1>5. CASE grants' = grants /\ Finishes(w)
  <2>1. Resting \in Handler /\ BaseOf(Resting) = {} /\ Resting.at \notin RemovePlace \cup {"grant", "ungrant"}
    BY DEF Handler, BaseOf, Resting, RemovePlace
  <2>2. \A x \in Worker : handler'[x] = IF x = w THEN Resting ELSE handler[x]
    BY <1>1, <1>5, HandlerTurns DEF Finishes
  <2>3. Underway(handler[w], c) => c \in cut' \/ Accounted(c)'
    <3>1. ASSUME Row(handler[w].entry) \in Rows(c)
          PROVE  \E e \in entries : Granted(e) /\ TaskBase[e.service] = c
      <4>1. PICK e \in entries : TaskBase[e.service] = c /\ Row(e) = Row(handler[w].entry)
        BY <3>1 DEF Rows, RowsOf
      <4>2. e.canControl = handler[w].entry.canControl
        BY <4>1 DEF Row
      <4> QED
        BY <1>1, <4>1, <4>2 DEF GInv, GrantsAreControl, Granted
    <3> QED
      BY <1>1, <1>5, <3>1 DEF Underway, Accounted
  <2>4. IdsStay' /\ GrantsAreControl'
    BY <1>1, <2>1, <2>2 DEF GInv, IdsStay, GrantsAreControl
  <2> QED
    BY <1>1, <1>2, <1>3, <1>5, <2>1, <2>3, <2>4, GoesOn DEF Finishes
<1> QED
  BY <1>4, <1>5 DEF RemoveGrants

LEMMA Deletes ==
  ASSUME ServicesTypeOK, GInv, NEW w \in ServiceTab, DeleteEntry(w)
  PROVE  GInv'
<1>1. /\ w \in Worker /\ handler[w].at = "delete" /\ UNCHANGED <<grants, meddled, withdrawn>>
      /\ cut' = IF Granted(handler[w].entry) THEN cut \ BaseOf(handler[w]) ELSE cut
      /\ handler[w] \in [at : {"ungrant", "delete"}, entry : Entry]
      /\ Resumes(w, Resting)
      /\ entries' = {e \in entries : e.id # handler[w].entry.id}
  BY DEF DeleteEntry, AtPlace, Finishes, Worker, ServicesTypeOK, Resting
<1>2. PICK c \in Base : BaseOf(handler[w]) = {c} /\ c = TaskBase[handler[w].entry.service]
  BY <1>1 DEF BaseOf, Base, Entry
<1>3. Resting \in Handler /\ BaseOf(Resting) = {} /\ Resting.at \notin RemovePlace \cup {"grant", "ungrant"}
  BY DEF Handler, BaseOf, Resting, RemovePlace
<1>4. \A x \in Worker : handler'[x] = IF x = w THEN Resting ELSE handler[x]
  BY <1>1, HandlerTurns
<1>5. RowsAreUnique' /\ IdsStay' /\ GrantsAreControl'
  BY <1>1, <1>3, <1>4 DEF GInv, RowsAreUnique, IdsStay, GrantsAreControl
\* A row of this id is a row of this name.
<1>6. \A e \in entries : e.id = handler[w].entry.id => TaskBase[e.service] = c
  <2> TAKE e \in entries
  <2>1. e.id = handler[w].entry.id => Row(e) = Row(handler[w].entry)
    BY <1>1 DEF GInv, IdsStay, RemovePlace
  <2> QED
    BY <1>2, <2>1 DEF Row
<1>7. \A b \in Base \ {c} : Rows(b)' = Rows(b)
  BY <1>1, <1>6 DEF Rows, RowsOf
<1>8. Underway(handler[w], c) => c \in cut' \/ Accounted(c)'
  <2> SUFFICES ASSUME Row(handler[w].entry) \in Rows(c), c \notin cut',
                      c \in grants => c \in cut /\ ~Granted(handler[w].entry)
               PROVE  Accounted(c)'
    BY <1>1 DEF Underway
  <2>1. PICK e \in entries : TaskBase[e.service] = c /\ Row(e) = Row(handler[w].entry)
    BY DEF Rows, RowsOf
  <2>2. e.id = handler[w].entry.id
    BY <2>1 DEF Row
  <2>3. \A f \in entries' : TaskBase[f.service] # c
    BY <1>1, <2>1, <2>2 DEF GInv, RowsAreUnique
  <2> QED
    BY <1>1, <2>3 DEF Accounted
<1> QED
  BY <1>1, <1>2, <1>3, <1>5, <1>7, <1>8, GoesOn

-----------------------------------------------------------------------------
(* The switch of a row, and the end of the process or of the helper.       *)

\* Asking or not asking is no part of what a row says about grants.
LEMMA Switches ==
  ASSUME ServicesTypeOK, GInv, NEW id \in EntryId, NEW on \in BOOLEAN, SetUnattended(id, on)
  PROVE  GInv'
<1> DEFINE new(e) == IF e.id = id THEN [e EXCEPT !.unattended = on] ELSE e
<1>1. UNCHANGED <<handler, grants, withdrawn, cut, meddled>> /\ entries' = {new(e) : e \in entries}
  BY DEF SetUnattended, GrantsAsTheyWere
<1>2. \A e \in entries : /\ new(e).id = e.id /\ new(e).service = e.service
                         /\ new(e).canControl = e.canControl /\ Row(new(e)) = Row(e)
  BY DEF ServicesTypeOK, Entry, Row
<1> HIDE DEF new
<1>3. \A b \in Base : Rows(b)' = Rows(b)
  BY <1>1, <1>2 DEF Rows, RowsOf
<1>4. \A b \in Base : Sound(b)'
  BY <1>1, <1>3, OtherNames DEF GInv
<1>5. RowsAreUnique' /\ IdsStay' /\ GrantsAreControl'
  BY <1>1, <1>2 DEF GInv, RowsAreUnique, IdsStay, GrantsAreControl
<1> QED
  BY <1>4, <1>5 DEF GInv

\* Cut short before Windows was asked, nothing was done; after it, the name
\* counts as cut.
LEMMA Stops ==
  ASSUME ServicesTypeOK, GInv, StopProcess
  PROVE  GInv'
<1>1. /\ UNCHANGED <<entries, grants, withdrawn, meddled>>
      /\ \A w \in Worker : handler'[w] = Resting
      /\ cut \subseteq cut'
  BY DEF StopProcess, ListAsItWas
<1>2. BaseOf(Resting) = {} /\ Resting.at \notin RemovePlace \cup {"grant", "ungrant"}
  BY DEF BaseOf, Resting, RemovePlace
<1>3. ASSUME NEW b \in Base PROVE Sound(b)'
  <2> SUFFICES ASSUME b \notin meddled, b \notin cut' PROVE Accounted(b)'
    BY <1>1, <1>2 DEF Sound, HasInHand
  <2>1. SUFFICES Accounted(b)
    BY <1>1 DEF Accounted
  <2>2. b \notin cut
    BY <1>1
  <2>3. CASE \A w \in Worker : ~HasInHand(w, b)
    BY <2>2, <2>3 DEF GInv, Sound
  <2>4. ASSUME NEW w \in Worker, HasInHand(w, b) PROVE Accounted(b)
    <3>1. ~HalfDone(handler[w])
      BY <2>4 DEF StopProcess, BasesInHand, HasInHand
    <3>2. handler[w] \in Handler
      BY DEF ServicesTypeOK, Handler
    <3>3. /\ handler[w].at \in AddPlace \cup RemovePlace
          /\ handler[w].at \in RemovePlace => TaskBase[handler[w].entry.service] = b
      BY <2>4, <3>2, BaseOfTyped DEF HasInHand
    <3>4. Underway(handler[w], b)
      BY <2>4 DEF GInv, Sound
    <3>5. CASE handler[w].at \in AddPlace
      <4>1. Rows(b) = {} /\ b \notin grants
        BY <2>2, <3>1, <3>4, <3>5 DEF Underway, AddPlace, HalfDone
      <4> QED
        BY <4>1 DEF Accounted, Rows, RowsOf
    <3>6. CASE handler[w].at \in RemovePlace
      <4>1. PICK e \in entries : TaskBase[e.service] = b /\ Row(e) = Row(handler[w].entry)
        BY <3>4, <3>6 DEF Underway, Rows, RowsOf, RemovePlace
      <4>2. Granted(e) <=> Granted(handler[w].entry)
        BY <4>1 DEF Granted, Row
      <4>3. CASE handler[w].at = "ungrant"
        BY <2>2, <3>4, <4>1, <4>2, <4>3 DEF Underway, Accounted, GInv, GrantsAreControl
      <4>4. CASE handler[w].at = "delete"
        <5>1. ~Granted(e) /\ b \notin grants
          BY <2>2, <3>1, <3>4, <4>2, <4>4 DEF Underway, HalfDone
        <5>2. \A f \in entries : TaskBase[f.service] = b => f = e
          BY <4>1 DEF GInv, RowsAreUnique
        <5> QED
          BY <5>1, <5>2 DEF Accounted
      <4> QED
        BY <3>6, <4>3, <4>4 DEF RemovePlace
    <3> QED
      BY <3>3, <3>5, <3>6
  <2> QED
    BY <2>3, <2>4
<1>4. RowsAreUnique' /\ IdsStay' /\ GrantsAreControl'
  BY <1>1, <1>2 DEF GInv, RowsAreUnique, IdsStay, GrantsAreControl
<1> QED
  BY <1>3, <1>4 DEF GInv

\* Whoever is at work on a name is no longer alone; of the others the rows
\* stay, and the grants that do not were withdrawn.
LEMMA Uninstalls ==
  ASSUME GInv, UninstallHelper
  PROVE  GInv'
<1>1. /\ UNCHANGED <<entries, handler, cut>>
      /\ grants' \subseteq grants /\ grants \cup withdrawn \subseteq grants' \cup withdrawn'
      /\ meddled' = meddled \cup BasesInHand(Worker)
  BY DEF UninstallHelper, ListAsItWas
<1>2. ASSUME NEW b \in Base PROVE Sound(b)'
  <2> SUFFICES ASSUME b \notin meddled' PROVE Sound(b)'
    BY DEF Sound
  <2>1. b \notin meddled /\ \A w \in Worker : ~HasInHand(w, b)
    BY <1>1 DEF BasesInHand, HasInHand
  <2>2. \A w \in Worker : ~HasInHand(w, b)'
    BY <1>1, <2>1 DEF HasInHand
  <2>3. b \in cut \/ Accounted(b)
    BY <2>1 DEF GInv, Sound
  <2>4. b \in cut' \/ Accounted(b)'
    BY <1>1, <2>3 DEF Accounted
  <2> QED
    BY <2>2, <2>4 DEF Sound
<1>3. RowsAreUnique' /\ IdsStay' /\ GrantsAreControl'
  BY <1>1 DEF GInv, RowsAreUnique, IdsStay, GrantsAreControl
<1> QED
  BY <1>2, <1>3 DEF GInv

-----------------------------------------------------------------------------
LEMMA NextGInv == ServicesTypeOK /\ GInv /\ [ServicesNext]_servicesVars => GInv'
<1> SUFFICES ASSUME ServicesTypeOK, GInv, [ServicesNext]_servicesVars PROVE GInv'
  OBVIOUS
<1>1. handler' \in [Worker -> Handler]
  BY NextServicesTypeOK DEF ServicesTypeOK, Handler
<1> DEFINE OnList == AddPlace \cup RemovePlace
\* Somebody works on a request.
<1>2. ASSUME UNCHANGED <<entries, grants, withdrawn, cut, meddled>>, NEW w \in Worker, NEW h, Resumes(w, h),
             handler[w].at \notin OnList, h.at \notin OnList
      PROVE  GInv'
  <2>1. \A x \in Worker : handler'[x] = IF x = w THEN h ELSE handler[x]
    BY <1>2, HandlerTurns
  <2> QED
    BY <1>1, <1>2, <2>1, RequestsWork
<1>3. ASSUME UNCHANGED <<entries, grants, withdrawn, cut, meddled, handler>> PROVE GInv'
  BY <1>1, <1>3, RequestsWork
<1>4. ASSUME NEW w \in ServiceTab, NEW r \in Ask, Approve(w, r) PROVE GInv'
  <2>1. w \in Worker
    BY DEF Worker
  <2> QED
    BY <1>2, <1>4, <2>1 DEF Approve, GrantsAsTheyWere, ListAsItWas, Resting, AddPlace, RemovePlace
<1>5. ASSUME NEW on \in BOOLEAN, SetUnbounded(on) PROVE GInv'
  BY <1>3, <1>5 DEF SetUnbounded, GrantsAsTheyWere
<1>6. ASSUME NEW m \in ServiceModule, NEW r \in Ask, NEW id \in EntryId, RequestAction(m, r, id) PROVE GInv'
  <2>1. m \in Worker /\ handler[m] = Resting /\ UNCHANGED <<entries, grants, withdrawn, cut, meddled>>
    BY <1>6 DEF Worker, RequestAction, GrantsAsTheyWere, ListAsItWas
  <2>2. PICK h \in {[at |-> "execute", ask |-> r], Resting} : Resumes(m, h)
    BY <1>6 DEF RequestAction
  <2> QED
    BY <1>2, <2>1, <2>2 DEF Resting, AddPlace, RemovePlace
<1>7. ASSUME NEW m \in ServiceModule, Suggest(m) PROVE GInv'
  BY <1>3, <1>7 DEF Suggest, GrantsAsTheyWere
<1>8. ASSUME NEW w \in Worker, Execute(w) PROVE GInv'
  <2> DEFINE r == handler[w].ask
             failed == [at |-> "settle", ask |-> r, outcome |-> "failed"]
             run(e) == [at |-> "run", ask |-> r, base |-> TaskBase[e.service]]
  <2>2. failed.at = "settle" /\ \A e \in entries : run(e).at = "run"
    OBVIOUS
  <2>3. Resumes(w, failed) \/ \E e \in entries : Resumes(w, run(e))
    BY <1>8 DEF Execute, GrantsAsTheyWere, FindEntry
  <2> HIDE DEF failed, run
  <2>1. PICK h : Resumes(w, h) /\ h.at \in {"run", "settle"}
    BY <2>2, <2>3
  <2> QED
    BY <1>2, <1>8, <2>1 DEF Execute, GrantsAsTheyWere, AtPlace, ListAsItWas, AddPlace, RemovePlace
<1>9. ASSUME NEW w \in Worker, RunGrant(w) PROVE GInv'
  <2>1. PICK h : Resumes(w, h) /\ h.at = "settle"
    BY <1>9 DEF RunGrant, GrantsAsTheyWere
  <2> QED
    BY <1>2, <1>9, <2>1 DEF RunGrant, GrantsAsTheyWere, AtPlace, ListAsItWas, AddPlace, RemovePlace
<1>10. ASSUME NEW w \in Worker, SettleOutcome(w) PROVE GInv'
  BY <1>2, <1>10 DEF SettleOutcome, GrantsAsTheyWere, AtPlace, Finishes, ListAsItWas, Resting, AddPlace, RemovePlace
<1>11. ASSUME NEW r \in Ask, Decline(r) \/ Expire(r) \/ Age(r) PROVE GInv'
  BY <1>3, <1>11 DEF Decline, Expire, Age, GrantsAsTheyWere, ListAsItWas
<1>12. CASE UNCHANGED servicesVars
  BY <1>3, <1>12 DEF servicesVars, serviceTables
<1> QED
  BY <1>4, <1>5, <1>6, <1>7, <1>8, <1>9, <1>10, <1>11, <1>12, Adds, MakesGrants, Inserts, Removes,
     TakesGrantsBack, Deletes, Switches, Stops, Uninstalls DEF ServicesNext

(***************************************************************************)
(* "A live OS grant that no JonDash row accounts for" does not come about  *)
(* (lib/allowlist.ts: addEntry, removeEntry; lib/grant.ts), for any        *)
(* services and any number of pages and over removals of the helper;       *)
(* except for names that two changes dealt with at once, and those a stop  *)
(* caught between Windows and the table, until they are dealt with again.  *)
(***************************************************************************)
THEOREM GrantsAreAccountedForAlways == ServicesSpec => []GrantsAreAccountedFor
<1>1. ServicesInit => ServicesTypeOK /\ GInv
  BY InitTypeOK, InitGInv
<1>2. (ServicesTypeOK /\ GInv) /\ [ServicesNext]_servicesVars => (ServicesTypeOK /\ GInv)'
  BY NextServicesTypeOK, NextGInv
<1> QED
  BY <1>1, <1>2, GInvAccounts, PTL DEF ServicesSpec
==============================================================================
