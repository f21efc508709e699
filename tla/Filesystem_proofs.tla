-------------------------- MODULE Filesystem_proofs --------------------------
(***************************************************************************)
(* The Filesystem helper, for any modules, roots, places, runs, files and  *)
(* secrets: what is reached was approved and declines are remembered       *)
(* (Locations); a log says how much of it is missing (RunLogs); secrets    *)
(* stay where they are and a run that says done left nothing out           *)
(* (CopyEngine). Each part has an inductive invariant of its own.          *)
(***************************************************************************)
EXTENDS Locations, RunLogs, CopyEngine, SequenceTheorems, TLAPS

(***************************************************************************)
(* Locations. What a call has got past rests on approvals that were in     *)
(* force since it began, and its places on where folders led since (Rests);*)
(* of requests for a path that no two handlers dealt with at once there is *)
(* one for each module (OneRequestEach).                                   *)
(***************************************************************************)

Reaching == {"find", "switch", "check", "granted", "work"}
CallUnderWay ==
    [at : Reaching, for : Errand, wanted : [1..1 -> Root] \cup [1..2 -> Root], places : Seq(Folder)]

\* A call names a root for each of its ends, and has checked as many places
\* as it is far.
Consistent(e) ==
    e.at \in Reaching =>
        /\ DOMAIN e.wanted = 1..Len(Sides(e.for))
        /\ IF e.at \in {"granted", "work"} THEN Len(e.places) = Len(Sides(e.for))
           ELSE Len(e.places) < Len(Sides(e.for))

Call == {x \in {NoErrand} \cup [at : {"suggest"}, path : Spelling] \cup CallUnderWay : Consistent(x)}

\* A page deals with a suggestion that is there.
Deals(p, w) == p \in [at : {"add", "mark"}, wish : {w}] \cup [at : {"insert"}, path : Folder, wish : {w} \ {"none"}]
PagesAreOnWishes == \A a \in AdminPage, w \in Wish : Deals(page[a], w) => wishes[w] # NoWish

\* What an end of a call rests on is among what was approved.
Approved(e, i, S) ==
    IF e.wanted[i].synthetic THEN SwitchFor(e.for, Sides(e.for)[i]) \in S ELSE e.wanted[i].path \in S

\* A place checked lies where its root led.
LiesWhereLed(e, i, L) == \E g \in Folder : <<e.wanted[i].path, g>> \in L /\ Encloses(g, e.places[i])

\* So it is for every place checked, and what is written led clear of the
\* barred folders; the root of the next place was approved once it is found,
\* and a switch is asked for a synthetic root.
Rests(e, S, L) ==
    e.at \in Reaching =>
        /\ \A i \in 1..Len(e.places) : Approved(e, i, S) /\ LiesWhereLed(e, i, L)
        /\ e.at = "work" /\ e.for \in {"start", "prune"} => ClearOfBarred(e, L)
        /\ e.at = "check" => Approved(e, Len(e.places) + 1, S)
        /\ e.at = "switch" => e.wanted[Len(e.places) + 1].synthetic

\* A request that stands, for a module and a folder.
Asks(w, m, f) == wishes[w].state \in {"open", "declined"} /\ wishes[w].by = m /\ wishes[w].path = f

\* One request at most stands for both, and none while one is to be inserted.
OneRequestEach ==
    \A v, w \in Wish \ contested : \A m \in FileModule, f \in Spelling : Asks(v, m, f) /\ Asks(w, m, f) => v = w

NoneBehindInsert ==
    \A c \in Asker : errand[c].at = "suggest" =>
        \A w \in Wish \ contested : ~Asks(w, ModuleOf[c], errand[c].path)

HistoryType ==
    inForce \in [Asker -> SUBSET (Folder \cup Verb)] /\ ledTo \in [Asker -> SUBSET (Folder \X Folder)]
LeadsNow == {<<f, leads[f]>> : f \in Folder}

CallsAreSound == errand \in [Asker -> Call] /\ \A c \in Asker : Rests(errand[c], inForce[c], ledTo[c])

LocationsIInv ==
    LocationsTypeOK /\ CallsAreSound /\ PagesAreOnWishes /\ OneRequestEach /\ NoneBehindInsert

-----------------------------------------------------------------------------
LEMMA EndsOfErrands ==
    \A e \in Errand : /\ Len(Sides(e)) \in {1, 2}
                      /\ DOMAIN Sides(e) = 1..Len(Sides(e))
                      /\ Sides(e) \in Seq({"source", "dest"})
<1> SUFFICES ASSUME NEW e \in Errand
             PROVE  /\ Len(Sides(e)) \in {1, 2}
                    /\ DOMAIN Sides(e) = 1..Len(Sides(e))
                    /\ Sides(e) \in Seq({"source", "dest"})
  OBVIOUS
<1>1. CASE e = "start"
  BY <1>1 DEF Sides
<1>2. CASE e = "browse"
  BY <1>2 DEF Sides
<1>3. CASE e \in {"listSnapshots", "prune"}
  BY <1>3 DEF Sides
<1> QED
  BY <1>1, <1>2, <1>3 DEF Errand

LEMMA KindsOfCalls ==
    ASSUME NEW e \in Call
    PROVE  /\ e = NoErrand \/ e \in [at : {"suggest"}, path : Spelling] \/ e \in CallUnderWay
           /\ e.at \in Reaching => e \in CallUnderWay /\ Consistent(e)
           /\ e.at = "suggest" => e \in [at : {"suggest"}, path : Spelling]
           /\ e.at = "none" <=> e = NoErrand
BY DEF Call, NoErrand, Reaching, CallUnderWay

LEMMA RestsOnMore ==
    ASSUME NEW e, NEW S, NEW T, S \subseteq T, NEW L, NEW M, L \subseteq M, Rests(e, S, L)
    PROVE  Rests(e, T, M)
BY DEF Rests, Approved, LiesWhereLed, ClearOfBarred

LEMMA NotUnderWay == Consistent(NoErrand) /\ NoErrand \in Call /\ \A S, L : Rests(NoErrand, S, L)
BY DEF NoErrand, Consistent, Reaching, Call, Rests

(* A call that stays where it is has what it had and more.                 *)
LEMMA NoticeKeeps ==
    ASSUME LocationsTypeOK, CallsAreSound, Notice, errand' = errand,
           roots' \subseteq Folder, everything' \subseteq Verb, leads' \in [Folder -> Folder]
    PROVE  CallsAreSound' /\ HistoryType'
<1>1. ASSUME NEW c \in Asker PROVE Rests(errand[c], inForce'[c], ledTo'[c])
  <2>1. CASE errand[c] = NoErrand
    BY <2>1, NotUnderWay
  <2>2. CASE errand[c] # NoErrand
    <3>1. inForce[c] \subseteq inForce'[c] /\ ledTo[c] \subseteq ledTo'[c]
      BY <2>2 DEF Notice
    <3> QED
      BY <3>1, RestsOnMore DEF CallsAreSound
  <2> QED
    BY <2>1, <2>2
<1>2. \A c \in Asker : Rests(errand[c], inForce[c], ledTo[c])'
  BY <1>1 DEF Rests, Approved, LiesWhereLed, ClearOfBarred, Encloses, Overlap
<1>3. HistoryType'
  <2>1. inForce' \in [Asker -> SUBSET (Folder \cup Verb)]
    BY DEF Notice, LocationsTypeOK
  <2>2. {<<f, leads'[f]>> : f \in Folder} \subseteq Folder \X Folder
    OBVIOUS
  <2>3. ledTo' \in [Asker -> SUBSET (Folder \X Folder)]
    BY <2>2 DEF Notice, LocationsTypeOK
  <2> QED
    BY <2>1, <2>3 DEF HistoryType
<1> QED
  BY <1>2, <1>3 DEF CallsAreSound

(* A call that moves on must rest on what is approved by now.              *)
LEMMA TurnKeeps ==
    ASSUME LocationsTypeOK, CallsAreSound, NEW c \in Asker, NEW e \in Call, ErrandTurns(c, e), Notice,
           UNCHANGED <<roots, everything, leads>>,
           Rests(e, inForce[c] \cup roots \cup everything, ledTo[c] \cup LeadsNow)
    PROVE  CallsAreSound' /\ HistoryType'
<1>1. errand' \in [Asker -> Call] /\ errand'[c] = e /\ \A d \in Asker \ {c} : errand'[d] = errand[d]
  BY DEF ErrandTurns, CallsAreSound
<1>2. ASSUME NEW d \in Asker PROVE Rests(errand'[d], inForce'[d], ledTo'[d])
  <2>1. CASE errand'[d] = NoErrand
    BY <2>1, NotUnderWay
  <2>2. CASE errand'[d] # NoErrand
    <3>1. inForce'[d] = inForce[d] \cup roots \cup everything /\ ledTo'[d] = ledTo[d] \cup LeadsNow
      BY <2>2 DEF Notice, LeadsNow
    <3>2. CASE d = c
      BY <3>1, <3>2, <1>1
    <3>3. CASE d # c
      <4>1. Rests(errand[d], inForce[d], ledTo[d])
        BY DEF CallsAreSound
      <4> QED
        BY <3>1, <3>3, <4>1, <1>1, RestsOnMore
    <3> QED
      BY <3>2, <3>3
  <2> QED
    BY <2>1, <2>2
<1>3. \A d \in Asker : Rests(errand[d], inForce[d], ledTo[d])'
  BY <1>2 DEF Rests, Approved, LiesWhereLed, ClearOfBarred, Encloses, Overlap
<1>4. HistoryType'
  <2>1. inForce' \in [Asker -> SUBSET (Folder \cup Verb)]
    BY DEF Notice, LocationsTypeOK
  <2>2. {<<f, leads'[f]>> : f \in Folder} \subseteq Folder \X Folder
    BY DEF LocationsTypeOK
  <2>3. ledTo' \in [Asker -> SUBSET (Folder \X Folder)]
    BY <2>2 DEF Notice, LocationsTypeOK
  <2> QED
    BY <2>1, <2>3 DEF HistoryType
<1> QED
  BY <1>1, <1>3, <1>4 DEF CallsAreSound

(* A change of place alone keeps what a call rests on.                     *)
LEMMA OnwardRests ==
    ASSUME NEW e \in CallUnderWay, NEW S, NEW T, S \subseteq T, NEW L, NEW M, L \subseteq M,
           Rests(e, S, L), NEW place \in Reaching,
           place = "check" => Approved(e, Len(e.places) + 1, T),
           place = "work" /\ e.for \in {"start", "prune"} => ClearOfBarred(e, M),
           place = "switch" => e.wanted[Len(e.places) + 1].synthetic
    PROVE  Rests([e EXCEPT !.at = place], T, M)
<1> PICK f : f = [e EXCEPT !.at = place]
  OBVIOUS
<1>1. f.at = place /\ f.for = e.for /\ f.wanted = e.wanted /\ f.places = e.places /\ e.at \in Reaching
  BY DEF CallUnderWay
<1>2. /\ \A i : Approved(f, i, T) <=> Approved(e, i, T)
      /\ \A i : LiesWhereLed(f, i, M) <=> LiesWhereLed(e, i, M)
      /\ ClearOfBarred(f, M) <=> ClearOfBarred(e, M)
  BY <1>1 DEF Approved, LiesWhereLed, ClearOfBarred
<1>3. \A i \in 1..Len(e.places) : Approved(e, i, T) /\ LiesWhereLed(e, i, M)
  BY <1>1, RestsOnMore DEF Rests
<1> QED
  BY <1>1, <1>2, <1>3 DEF Rests

LEMMA OnwardIsCall ==
    ASSUME NEW e \in CallUnderWay, Consistent(e), NEW place \in Reaching,
           (place \in {"granted", "work"}) <=> (e.at \in {"granted", "work"})
    PROVE  [e EXCEPT !.at = place] \in Call
<1> PICK f : f = [e EXCEPT !.at = place]
  OBVIOUS
<1>1. f \in CallUnderWay
  BY DEF CallUnderWay
<1>2. f.at = place /\ f.for = e.for /\ f.wanted = e.wanted /\ f.places = e.places /\ e.at \in Reaching
  BY DEF CallUnderWay
<1>3. Consistent(f)
  BY <1>2 DEF Consistent
<1> QED
  BY <1>1, <1>3 DEF Call

-----------------------------------------------------------------------------
(* The steps of a call that leave the tables alone.                        *)
LEMMA CallStep ==
    ASSUME LocationsIInv, NEW c \in Asker, NEW e \in Call, e.at # "suggest", ErrandTurns(c, e),
           Rests(e, inForce[c] \cup roots \cup everything, ledTo[c] \cup LeadsNow),
           UNCHANGED <<roots, everything, wishes, leads, page, contested>>, Notice
    PROVE  LocationsIInv'
<1> USE DEF LocationsIInv
<1>1. CallsAreSound' /\ HistoryType'
  BY TurnKeeps
<1>2. LocationsTypeOK'
  <2>1. \A d \in Asker : errand'[d].at \in {"none", "suggest", "find", "switch", "check", "granted", "work"}
    BY <1>1, KindsOfCalls DEF CallsAreSound, NoErrand, CallUnderWay, Reaching
  <2> QED
    BY <1>1, <2>1 DEF LocationsTypeOK, HistoryType
<1>3. PagesAreOnWishes' /\ OneRequestEach'
  BY DEF PagesAreOnWishes, Deals, OneRequestEach, Asks
<1>4. NoneBehindInsert'
  <2>1. \A d \in Asker : errand'[d].at = "suggest" => errand'[d] = errand[d]
    BY DEF ErrandTurns, CallsAreSound
  <2> QED
    BY <2>1 DEF NoneBehindInsert, Asks
<1> QED
  BY <1>1, <1>2, <1>3, <1>4

PageState ==
    {NoPage} \cup [at : {"add", "mark"}, wish : Wish] \cup [at : {"insert"}, path : Folder, wish : Wish \cup {"none"}]

LEMMA AdministratorStep ==
    ASSUME LocationsIInv, errand' = errand, Notice, roots' \subseteq Folder, everything' \subseteq Verb,
           leads' \in [Folder -> Folder], page' \in [AdminPage -> PageState], PagesAreOnWishes',
           contested' \subseteq Wish, contested \subseteq contested',
           wishes' \in [Wish -> {NoWish} \cup [state : {"open", "accepted", "declined"}, by : FileModule, path : Spelling]],
           \A w \in Wish \ contested', m \in FileModule, f \in Spelling : Asks(w, m, f)' => Asks(w, m, f)
    PROVE  LocationsIInv'
<1> USE DEF LocationsIInv
<1>1. CallsAreSound' /\ HistoryType'
  BY NoticeKeeps
<1>2. LocationsTypeOK'
  BY <1>1 DEF LocationsTypeOK, PageState, HistoryType
<1>3. OneRequestEach'
  BY DEF OneRequestEach
<1>4. NoneBehindInsert'
  <2> SUFFICES ASSUME NEW c \in Asker, errand[c].at = "suggest", NEW w \in Wish \ contested'
               PROVE  ~Asks(w, ModuleOf[c], errand[c].path)'
    BY DEF NoneBehindInsert, Asks
  <2>1. ModuleOf[c] \in FileModule /\ errand[c].path \in Spelling
    BY KindsOfCalls, LocationConstantsOK DEF CallsAreSound
  <2>2. ~Asks(w, ModuleOf[c], errand[c].path)
    BY DEF NoneBehindInsert
  <2>3. Asks(w, ModuleOf[c], errand[c].path)' <=> /\ wishes'[w].state \in {"open", "declined"}
                                                  /\ wishes'[w].by = ModuleOf[c] /\ wishes'[w].path = errand[c].path
    BY DEF Asks
  <2> PICK m \in FileModule, f \in Spelling : m = ModuleOf[c] /\ f = errand[c].path
    BY <2>1
  <2>4. ~Asks(w, m, f)'
    BY <2>2
  <2> QED
    BY <2>3, <2>4 DEF Asks
<1> QED
  BY <1>1, <1>2, <1>3, <1>4

LEMMA PagesStay == LocationsTypeOK => page \in [AdminPage -> PageState]
BY DEF LocationsTypeOK, PageState

LEMMA WishesStand ==
    ASSUME LocationsIInv, NEW a \in AdminPage, page[a] # NoPage, page[a].at # "insert" \/ page[a].wish # "none"
    PROVE  /\ page[a].wish \in Wish
           /\ wishes[page[a].wish] \in [state : {"open", "accepted", "declined"}, by : FileModule, path : Spelling]
<1>1. page[a] \in PageState
  BY PagesStay DEF LocationsIInv
<1>2. page[a].wish \in Wish /\ Deals(page[a], page[a].wish)
  BY <1>1 DEF PageState, NoPage, Deals
<1> QED
  BY <1>2 DEF LocationsIInv, PagesAreOnWishes, LocationsTypeOK

(* A page may be turned when no suggestion that it deals with is missing.  *)
LEMMA TurnedPages ==
    ASSUME LocationsIInv, NEW a \in AdminPage, NEW p \in PageState, PageTurns(a, p),
           \A w \in Wish : wishes'[w] = NoWish => wishes[w] = NoWish,
           \A w \in Wish : Deals(p, w) => wishes'[w] # NoWish
    PROVE  page' \in [AdminPage -> PageState] /\ PagesAreOnWishes'
<1>1. page' \in [AdminPage -> PageState] /\ page'[a] = p /\ \A b \in AdminPage \ {a} : page'[b] = page[b]
  BY PagesStay DEF LocationsIInv, PageTurns
<1>2. \A b \in AdminPage, w \in Wish : Deals(page'[b], w) => wishes'[w] # NoWish
  BY <1>1 DEF LocationsIInv, PagesAreOnWishes
<1> QED
  BY <1>1, <1>2 DEF PagesAreOnWishes, Deals

-----------------------------------------------------------------------------
LEMMA CheckPlaceStep ==
    ASSUME LocationsIInv, NEW c \in Asker, NEW place \in Folder, CheckPlace(c, place)
    PROVE  LocationsIInv'
<1> PICK e : e = errand[c]
  OBVIOUS
<1> PICK n : n = Len(Sides(e.for))
  OBVIOUS
<1> PICK places : places = Append(e.places, place)
  OBVIOUS
<1>1. e \in CallUnderWay /\ Consistent(e) /\ e.at = "check" /\ Rests(e, inForce[c], ledTo[c])
  BY KindsOfCalls DEF CheckPlace, LocationsIInv, CallsAreSound, Reaching
<1>2. UNCHANGED <<roots, everything, wishes, leads, page, contested>> /\ Notice
  BY DEF CheckPlace
<1>3. CASE ErrandTurns(c, NoErrand)
  BY <1>2, <1>3, NotUnderWay, CallStep DEF NoErrand
<1>4. ASSUME NEW at \in {"granted", "find"}, at = "granted" <=> Len(places) = n,
             ErrandTurns(c, [e EXCEPT !.at = at, !.places = places]), InRoot(Wanted(c).path, place)
      PROVE  LocationsIInv'
  <2> PICK f : f = [e EXCEPT !.at = at, !.places = places]
    OBVIOUS
  <2>1. places \in Seq(Folder) /\ Len(places) = Len(e.places) + 1 /\ Len(e.places) \in Nat
    BY <1>1 DEF CallUnderWay
  <2>2. f.at = at /\ f.for = e.for /\ f.wanted = e.wanted /\ f.places = places
    BY <1>1 DEF CallUnderWay
  <2>3. f \in CallUnderWay
    BY <1>1, <2>1 DEF CallUnderWay, Reaching
  <2>4. Len(e.places) < n /\ DOMAIN e.wanted = 1..n /\ n \in {1, 2}
    BY <1>1, EndsOfErrands DEF Consistent, Reaching, CallUnderWay
  <2>5. Consistent(f)
    BY <1>4, <2>1, <2>2, <2>4 DEF Consistent
  <2>6. \A i : Approved(f, i, inForce[c]) <=> Approved(e, i, inForce[c])
    BY <2>2 DEF Approved
  <2>7. \A i \in 1..Len(places) : Approved(f, i, inForce[c]) /\ LiesWhereLed(f, i, ledTo[c] \cup LeadsNow)
    <3> SUFFICES ASSUME NEW i \in 1..Len(places)
                 PROVE  Approved(e, i, inForce[c]) /\ LiesWhereLed(f, i, ledTo[c] \cup LeadsNow)
      BY <2>6
    <3>1. CASE i \in 1..Len(e.places)
      <4>1. Approved(e, i, inForce[c]) /\ LiesWhereLed(e, i, ledTo[c])
        BY <1>1, <3>1 DEF Rests, Reaching
      <4>2. places[i] = e.places[i]
        BY <1>1, <3>1 DEF CallUnderWay
      <4> QED
        BY <2>2, <4>1, <4>2 DEF LiesWhereLed
    <3>2. CASE i = Len(e.places) + 1
      <4>1. Approved(e, i, inForce[c])
        BY <1>1, <3>2 DEF Rests, Reaching
      <4>2. places[i] = place /\ Wanted(c) = e.wanted[i]
        BY <1>1, <3>2 DEF CallUnderWay, Wanted, EndOf
      <4>3. e.wanted[i] \in Root
        BY <1>1, <2>4, <2>1, <3>2 DEF CallUnderWay
      <4> PICK r : r = e.wanted[i].path
        OBVIOUS
      <4>4. r \in Folder /\ leads[r] \in Folder
        BY <4>3 DEF Root, LocationsIInv, LocationsTypeOK
      <4>5. <<r, leads[r]>> \in LeadsNow /\ Encloses(leads[r], place)
        BY <1>4, <4>2, <4>4 DEF LeadsNow, InRoot
      <4> QED
        BY <2>2, <4>1, <4>2, <4>4, <4>5 DEF LiesWhereLed
    <3> QED
      BY <2>1, <3>1, <3>2
  <2>8. Rests(f, inForce[c] \cup roots \cup everything, ledTo[c] \cup LeadsNow)
    <3>1. Rests(f, inForce[c], ledTo[c] \cup LeadsNow)
      BY <1>4, <2>2, <2>7 DEF Rests
    <3> QED
      BY <3>1, RestsOnMore
  <2>9. f \in Call /\ f.at # "suggest"
    BY <1>4, <2>2, <2>3, <2>5 DEF Call
  <2> QED
    BY <1>2, <1>4, <2>8, <2>9, CallStep
<1>5. \/ ErrandTurns(c, NoErrand)
      \/ /\ ErrandTurns(c, [e EXCEPT !.at = IF Len(places) = n THEN "granted" ELSE "find", !.places = places])
         /\ InRoot(Wanted(c).path, place)
  BY DEF CheckPlace, Refuse
<1> QED
  BY <1>3, <1>4, <1>5

LEMMA OnwardStep ==
    ASSUME LocationsIInv, NEW c \in Asker, errand[c].at \in Reaching, NEW place \in Reaching,
           (place \in {"granted", "work"}) <=> (errand[c].at \in {"granted", "work"}),
           place = "check" => Approved(errand[c], Len(errand[c].places) + 1, inForce[c] \cup roots \cup everything),
           place = "switch" => errand[c].wanted[Len(errand[c].places) + 1].synthetic,
           place = "work" /\ errand[c].for \in {"start", "prune"} => ClearOfBarred(errand[c], ledTo[c] \cup LeadsNow),
           \/ ErrandTurns(c, [errand[c] EXCEPT !.at = place])
           \/ ErrandTurns(c, NoErrand),
           UNCHANGED <<roots, everything, wishes, leads, page, contested>>, Notice
    PROVE  LocationsIInv'
<1> PICK e : e = errand[c]
  OBVIOUS
<1>1. e \in CallUnderWay /\ Consistent(e) /\ Rests(e, inForce[c], ledTo[c])
  BY KindsOfCalls DEF LocationsIInv, CallsAreSound
<1>2. CASE ErrandTurns(c, NoErrand)
  BY <1>2, NotUnderWay, CallStep DEF NoErrand
<1>3. CASE ErrandTurns(c, [e EXCEPT !.at = place])
  <2> PICK f : f = [e EXCEPT !.at = place]
    OBVIOUS
  <2>1. f \in Call
    BY <1>1, OnwardIsCall
  <2>2. Rests(f, inForce[c] \cup roots \cup everything, ledTo[c] \cup LeadsNow)
    BY <1>1, OnwardRests
  <2>3. f.at # "suggest"
    BY <1>1 DEF CallUnderWay, Reaching
  <2> QED
    BY <1>3, <2>1, <2>2, <2>3, CallStep
<1> QED
  BY <1>2, <1>3

LEMMA RequestStep ==
    ASSUME LocationsIInv, NEW c \in Asker, NEW e \in Errand, NEW wanted \in [DOMAIN Sides(e) -> Root],
           Request(c, e, wanted)
    PROVE  LocationsIInv'
<1> PICK f : f = [at |-> "find", for |-> e, wanted |-> wanted, places |-> <<>>]
  OBVIOUS
<1>1. f.at = "find" /\ f.for = e /\ f.wanted = wanted /\ f.places = <<>> /\ Len(f.places) = 0 /\ f.places \in Seq(Folder)
  OBVIOUS
<1>2. DOMAIN wanted = 1..Len(Sides(e)) /\ Len(Sides(e)) \in {1, 2}
  BY EndsOfErrands
<1>3. wanted \in [1..1 -> Root] \cup [1..2 -> Root]
  <2>1. wanted \in [1..Len(Sides(e)) -> Root]
    BY EndsOfErrands
  <2>2. CASE Len(Sides(e)) = 1
    BY <2>1, <2>2
  <2>3. CASE Len(Sides(e)) = 2
    BY <2>1, <2>3
  <2> QED
    BY <1>2, <2>2, <2>3
<1>4. f \in CallUnderWay
  BY <1>1, <1>3 DEF CallUnderWay, Reaching
<1>5. Consistent(f)
  BY <1>1, <1>2 DEF Consistent
<1>6. f \in Call /\ f.at # "suggest"
  BY <1>1, <1>4, <1>5 DEF Call
<1>7. Rests(f, inForce[c] \cup roots \cup everything, ledTo[c] \cup LeadsNow)
  BY <1>1 DEF Rests
<1> QED
  BY <1>6, <1>7, CallStep DEF Request

LEMMA AskedForStep ==
    ASSUME LocationsIInv, NEW c \in Asker, NEW f \in Spelling, SuggestRoot(c, f)
    PROVE  LocationsIInv'
<1> PICK e : e = [at |-> "suggest", path |-> f]
  OBVIOUS
<1>1. e \in [at : {"suggest"}, path : Spelling] /\ e.at = "suggest" /\ e.path = f
  OBVIOUS
<1>2. e \in Call /\ Rests(e, inForce[c] \cup roots \cup everything, ledTo[c] \cup LeadsNow)
  BY <1>1 DEF Call, Consistent, Reaching, Rests
<1>3. ErrandTurns(c, e) /\ Notice /\ UNCHANGED <<roots, everything, wishes, leads, page, contested>>
  BY DEF SuggestRoot
<1>4. CallsAreSound' /\ HistoryType'
  BY <1>2, <1>3, TurnKeeps DEF LocationsIInv
<1>5. LocationsTypeOK'
  <2>1. \A d \in Asker : errand'[d].at \in {"none", "suggest", "find", "switch", "check", "granted", "work"}
    BY <1>4, KindsOfCalls DEF CallsAreSound, NoErrand, CallUnderWay, Reaching
  <2> QED
    BY <1>3, <1>4, <2>1 DEF LocationsTypeOK, LocationsIInv, HistoryType
<1>6. PagesAreOnWishes' /\ OneRequestEach'
  BY <1>3 DEF LocationsIInv, PagesAreOnWishes, Deals, OneRequestEach, Asks
<1>7. NoneBehindInsert'
  <2> SUFFICES ASSUME NEW d \in Asker, errand'[d].at = "suggest", NEW w \in Wish \ contested
               PROVE  ~Asks(w, ModuleOf[d], errand'[d].path)
    BY <1>3 DEF NoneBehindInsert, Asks
  <2>1. CASE d = c
    <3>1. errand'[d] = e
      BY <1>3, <2>1 DEF LocationsIInv, CallsAreSound, ErrandTurns
    <3> QED
      BY <1>1, <2>1, <3>1 DEF SuggestRoot, Already, Asks
  <2>2. CASE d # c
    <3>1. errand'[d] = errand[d]
      BY <1>3, <2>2 DEF LocationsIInv, CallsAreSound, ErrandTurns
    <3> QED
      BY <3>1 DEF LocationsIInv, NoneBehindInsert
  <2> QED
    BY <2>1, <2>2
<1> QED
  BY <1>4, <1>5, <1>6, <1>7 DEF LocationsIInv

LEMMA InsertSuggestionStep ==
    ASSUME LocationsIInv, NEW c \in Asker, NEW w \in Wish, InsertSuggestion(c, w)
    PROVE  LocationsIInv'
<1> PICK r : r = [state |-> "open", by |-> ModuleOf[c], path |-> errand[c].path]
  OBVIOUS
<1>1. /\ ErrandTurns(c, NoErrand) /\ Notice /\ UNCHANGED <<roots, everything, leads, page>>
      /\ wishes[w] = NoWish /\ wishes' = [wishes EXCEPT ![w] = r]
      /\ contested' = contested \cup (IF AskedTwice(c) THEN {w} ELSE {})
      /\ errand[c].at = "suggest"
  BY DEF InsertSuggestion
<1>2. errand[c] \in [at : {"suggest"}, path : Spelling] /\ ModuleOf[c] \in FileModule
  BY <1>1, KindsOfCalls, LocationConstantsOK DEF LocationsIInv, CallsAreSound
<1>3. CallsAreSound' /\ HistoryType'
  BY <1>1, NotUnderWay, TurnKeeps DEF LocationsIInv
<1>4. r \in [state : {"open", "accepted", "declined"}, by : FileModule, path : Spelling]
  BY <1>2
<1>5. wishes'[w] = r /\ \A v \in Wish \ {w} : wishes'[v] = wishes[v]
  BY <1>1 DEF LocationsIInv, LocationsTypeOK
<1>6. LocationsTypeOK'
  <2>1. \A d \in Asker : errand'[d].at \in {"none", "suggest", "find", "switch", "check", "granted", "work"}
    BY <1>3, KindsOfCalls DEF CallsAreSound, NoErrand, CallUnderWay, Reaching
  <2>2. wishes' \in [Wish -> {NoWish} \cup [state : {"open", "accepted", "declined"}, by : FileModule, path : Spelling]]
    BY <1>1, <1>4 DEF LocationsIInv, LocationsTypeOK
  <2>3. contested' \subseteq Wish
    BY <1>1 DEF LocationsIInv, LocationsTypeOK
  <2> QED
    BY <1>1, <1>3, <2>1, <2>2, <2>3 DEF LocationsTypeOK, LocationsIInv, HistoryType
<1>7. PagesAreOnWishes'
  <2>1. r # NoWish
    BY DEF NoWish
  <2> QED
    BY <1>1, <1>5, <2>1 DEF LocationsIInv, PagesAreOnWishes, Deals
<1>8. \A v \in Wish \ {w} : \A m, f : Asks(v, m, f)' <=> Asks(v, m, f)
  BY <1>5 DEF Asks
<1>9. \A m, f : Asks(w, m, f)' => m = ModuleOf[c] /\ f = errand[c].path
  BY <1>5 DEF Asks
<1>10. \A v \in Wish \ contested : ~Asks(v, ModuleOf[c], errand[c].path)
  BY <1>1 DEF LocationsIInv, NoneBehindInsert
<1>11. contested \subseteq contested'
  BY <1>1
<1>12. OneRequestEach'
  <2> SUFFICES ASSUME NEW v \in Wish \ contested', NEW u \in Wish \ contested', NEW m \in FileModule, NEW f \in Spelling,
                      Asks(v, m, f)', Asks(u, m, f)'
               PROVE  v = u
    BY DEF OneRequestEach
  <2>1. CASE v # w /\ u # w
    BY <2>1, <1>8, <1>11 DEF LocationsIInv, OneRequestEach
  <2>2. CASE v = w /\ u # w
    BY <2>2, <1>8, <1>9, <1>10, <1>11
  <2>3. CASE v # w /\ u = w
    BY <2>3, <1>8, <1>9, <1>10, <1>11
  <2>4. CASE v = w /\ u = w
    BY <2>4
  <2> QED
    BY <2>1, <2>2, <2>3, <2>4
<1>13. NoneBehindInsert'
  <2> SUFFICES ASSUME NEW d \in Asker, errand'[d].at = "suggest", NEW v \in Wish \ contested',
                      Asks(v, ModuleOf[d], errand[d].path)'
               PROVE  FALSE
    BY DEF NoneBehindInsert, Asks
  <2>1. d # c /\ errand'[d] = errand[d]
    BY <1>1 DEF LocationsIInv, CallsAreSound, ErrandTurns, NoErrand
  <2>2. wishes'[v].state \in {"open", "declined"} /\ wishes'[v].by = ModuleOf[d] /\ wishes'[v].path = errand[d].path
    BY <2>1 DEF Asks
  <2>3. CASE v = w
    <3>1. ModuleOf[d] = ModuleOf[c] /\ errand[d].path = errand[c].path
      BY <1>5, <2>2, <2>3
    <3>2. errand[d] \in [at : {"suggest"}, path : Spelling]
      BY <2>1, KindsOfCalls DEF LocationsIInv, CallsAreSound
    <3>3. errand[d] = errand[c]
      BY <1>2, <3>1, <3>2
    <3> QED
      BY <1>1, <2>1, <2>3, <3>1, <3>3 DEF AskedTwice
  <2>4. CASE v # w
    BY <1>5, <1>11, <2>1, <2>2, <2>4 DEF LocationsIInv, NoneBehindInsert, Asks
  <2> QED
    BY <2>3, <2>4
<1> QED
  BY <1>3, <1>6, <1>7, <1>12, <1>13 DEF LocationsIInv

LEMMA LocationsIInvStep == LocationsIInv /\ [LocationsNext]_locationVars => LocationsIInv'
<1> SUFFICES ASSUME LocationsIInv, [LocationsNext]_locationVars PROVE LocationsIInv'
  OBVIOUS
<1>t. /\ LocationsTypeOK /\ CallsAreSound /\ PagesAreOnWishes
      /\ page \in [AdminPage -> PageState]
  BY PagesStay DEF LocationsIInv
<1>u. ASSUME UNCHANGED <<wishes, contested>>
      PROVE  /\ contested' \subseteq Wish /\ contested \subseteq contested'
             /\ wishes' \in [Wish -> {NoWish} \cup [state : {"open", "accepted", "declined"}, by : FileModule, path : Spelling]]
             /\ \A w \in Wish \ contested', m \in FileModule, f \in Spelling : Asks(w, m, f)' => Asks(w, m, f)
             /\ \A w \in Wish : wishes'[w] = NoWish => wishes[w] = NoWish
  BY <1>u, <1>t DEF LocationsTypeOK, Asks
<1>v. ASSUME page' = page, \A w \in Wish : wishes'[w] = NoWish => wishes[w] = NoWish
      PROVE  page' \in [AdminPage -> PageState] /\ PagesAreOnWishes'
  BY <1>v, <1>t DEF PagesAreOnWishes, Deals
<1>1. ASSUME NEW a \in AdminPage, NEW f \in Folder, AddRoot(a, f) PROVE LocationsIInv'
  <2> PICK p : p = [at |-> "insert", path |-> leads[f], wish |-> "none"]
    OBVIOUS
  <2>1. p \in PageState /\ \A w : ~Deals(p, w)
    BY <1>t DEF PageState, LocationsTypeOK, Deals
  <2>2. page' \in [AdminPage -> PageState] /\ PagesAreOnWishes'
    BY <1>1, <2>1, <1>u, TurnedPages DEF AddRoot
  <2> QED
    BY <1>1, <2>2, <1>u, <1>t, AdministratorStep DEF AddRoot, LocationsTypeOK
<1>2. ASSUME NEW a \in AdminPage, InsertRoot(a) PROVE LocationsIInv'
  <2>1. page[a] \in [at : {"insert"}, path : Folder, wish : Wish \cup {"none"}]
    BY <1>2, <1>t DEF InsertRoot, PageState, NoPage
  <2>2. CASE page[a].wish = "none" \/ page[a].path \in roots
    <3>1. NoPage \in PageState /\ \A w : ~Deals(NoPage, w)
      BY DEF PageState, NoPage, Deals
    <3>2. page' \in [AdminPage -> PageState] /\ PagesAreOnWishes'
      BY <1>2, <2>2, <3>1, <1>u, TurnedPages DEF InsertRoot
    <3> QED
      BY <1>2, <2>1, <3>2, <1>u, <1>t, AdministratorStep DEF InsertRoot, LocationsTypeOK
  <2>3. CASE ~(page[a].wish = "none" \/ page[a].path \in roots)
    <3> PICK p : p = [at |-> "mark", wish |-> page[a].wish]
      OBVIOUS
    <3>1. p \in PageState /\ \A w \in Wish : Deals(p, w) => Deals(page[a], w)
      BY <2>1, <2>3 DEF PageState, Deals
    <3>2. page' \in [AdminPage -> PageState] /\ PagesAreOnWishes'
      BY <1>2, <2>3, <3>1, <1>u, <1>t, TurnedPages DEF InsertRoot, PagesAreOnWishes
    <3> QED
      BY <1>2, <2>1, <3>2, <1>u, <1>t, AdministratorStep DEF InsertRoot, LocationsTypeOK
  <2> QED
    BY <2>2, <2>3
<1>3. ASSUME NEW f \in Folder, RemoveRoot(f) PROVE LocationsIInv'
  BY <1>3, <1>u, <1>v, <1>t, AdministratorStep DEF RemoveRoot, LocationsTypeOK
<1>4. ASSUME NEW v \in Verb, NEW on \in BOOLEAN, SetEverything(v, on) PROVE LocationsIInv'
  BY <1>4, <1>u, <1>v, <1>t, AdministratorStep DEF SetEverything, LocationsTypeOK
<1>5. ASSUME NEW a \in AdminPage, NEW w \in Wish, AcceptSuggestion(a, w) PROVE LocationsIInv'
  <2> PICK p : p = [at |-> "add", wish |-> w]
    OBVIOUS
  <2>1. p \in PageState /\ (\A v \in Wish : Deals(p, v) => v = w) /\ wishes[w] # NoWish
    BY <1>5 DEF PageState, Deals, AcceptSuggestion, NoWish
  <2>2. page' \in [AdminPage -> PageState] /\ PagesAreOnWishes'
    BY <1>5, <2>1, TurnedPages DEF AcceptSuggestion
  <2>3. contested' \subseteq Wish /\ contested \subseteq contested' /\ wishes' = wishes
    BY <1>5, <1>t DEF AcceptSuggestion, LocationsTypeOK
  <2>4. \A v, m, f : Asks(v, m, f)' <=> Asks(v, m, f)
    BY <2>3 DEF Asks
  <2> QED
    BY <1>5, <2>2, <2>3, <2>4, <1>t, AdministratorStep DEF AcceptSuggestion, LocationsTypeOK
<1>6. ASSUME NEW a \in AdminPage, AddSuggested(a) PROVE LocationsIInv'
  <2>1. page[a] \in [at : {"add", "mark"}, wish : Wish]
    BY <1>6, <1>t DEF AddSuggested, PageState, NoPage
  <2> PICK w \in Wish : w = page[a].wish
    BY <2>1
  <2>2. wishes[w] \in [state : {"open", "accepted", "declined"}, by : FileModule, path : Spelling]
    BY <1>6, <2>1, WishesStand DEF AddSuggested, NoPage
  <2> PICK f \in Folder : f = leads[Spells[wishes[w].path]]
    BY <2>2, <1>t, LocationConstantsOK DEF LocationsTypeOK
  <2>3. [page[a] EXCEPT !.at = "mark"] = [at |-> "mark", wish |-> w]
    BY <2>1
  <2> PICK p : p = IF f \in roots THEN [at |-> "mark", wish |-> w] ELSE [at |-> "insert", path |-> f, wish |-> w]
    OBVIOUS
  <2>4. p \in PageState /\ \A v \in Wish : Deals(p, v) => v = w
    BY DEF PageState, Deals
  <2>5. wishes[w] # NoWish
    BY <2>2 DEF NoWish
  <2>6. PageTurns(a, p)
    BY <1>6, <2>3 DEF AddSuggested
  <2>7. page' \in [AdminPage -> PageState] /\ PagesAreOnWishes'
    BY <1>6, <2>4, <2>5, <2>6, TurnedPages DEF AddSuggested
  <2> QED
    BY <1>6, <2>7, <1>u, <1>t, AdministratorStep DEF AddSuggested, LocationsTypeOK
<1>7. ASSUME NEW a \in AdminPage, MarkAccepted(a) PROVE LocationsIInv'
  <2>1. page[a] \in [at : {"add", "mark"}, wish : Wish]
    BY <1>7, <1>t DEF MarkAccepted, PageState, NoPage
  <2> PICK w \in Wish : w = page[a].wish
    BY <2>1
  <2>2. wishes[w] \in [state : {"open", "accepted", "declined"}, by : FileModule, path : Spelling]
    BY <1>7, <2>1, WishesStand DEF MarkAccepted, NoPage
  <2>3. wishes' = [wishes EXCEPT ![w] = [wishes[w] EXCEPT !.state = "accepted"]]
    BY <1>7 DEF MarkAccepted
  <2>4. /\ [wishes[w] EXCEPT !.state = "accepted"] \in [state : {"accepted"}, by : FileModule, path : Spelling]
        /\ wishes'[w] = [wishes[w] EXCEPT !.state = "accepted"]
        /\ \A v \in Wish \ {w} : wishes'[v] = wishes[v]
    BY <2>2, <2>3, <1>t DEF LocationsTypeOK
  <2>5. wishes' \in [Wish -> {NoWish} \cup [state : {"open", "accepted", "declined"}, by : FileModule, path : Spelling]]
    BY <2>3, <2>4, <1>t DEF LocationsTypeOK
  <2>6. \A v \in Wish : wishes'[v] = NoWish => wishes[v] = NoWish
    BY <2>4 DEF NoWish
  <2>7. \A v \in Wish, m \in FileModule, f \in Spelling : Asks(v, m, f)' => Asks(v, m, f)
    BY <2>4 DEF Asks
  <2>8. NoPage \in PageState /\ \A v : ~Deals(NoPage, v)
    BY DEF PageState, NoPage, Deals
  <2>9. page' \in [AdminPage -> PageState] /\ PagesAreOnWishes'
    BY <1>7, <2>6, <2>8, TurnedPages DEF MarkAccepted
  <2> QED
    BY <1>7, <2>5, <2>7, <2>9, <1>t, AdministratorStep DEF MarkAccepted, LocationsTypeOK
<1>8. ASSUME NEW w \in Wish, DeclineSuggestion(w) PROVE LocationsIInv'
  <2>1. wishes[w] \in [state : {"open", "accepted", "declined"}, by : FileModule, path : Spelling] /\ wishes[w].state = "open"
    BY <1>8, <1>t DEF DeclineSuggestion, LocationsTypeOK, NoWish
  <2>2. wishes' = [wishes EXCEPT ![w] = [wishes[w] EXCEPT !.state = "declined"]]
    BY <1>8 DEF DeclineSuggestion
  <2>3. /\ [wishes[w] EXCEPT !.state = "declined"] \in [state : {"declined"}, by : FileModule, path : Spelling]
        /\ wishes'[w] = [wishes[w] EXCEPT !.state = "declined"]
        /\ \A v \in Wish \ {w} : wishes'[v] = wishes[v]
    BY <2>1, <2>2, <1>t DEF LocationsTypeOK
  <2>4. wishes' \in [Wish -> {NoWish} \cup [state : {"open", "accepted", "declined"}, by : FileModule, path : Spelling]]
    BY <2>2, <2>3, <1>t DEF LocationsTypeOK
  <2>5. \A v \in Wish : wishes'[v] = NoWish => wishes[v] = NoWish
    BY <2>3 DEF NoWish
  <2>6. wishes'[w].by = wishes[w].by /\ wishes'[w].path = wishes[w].path
    BY <2>1, <2>3
  <2>7. \A v \in Wish, m \in FileModule, f \in Spelling : Asks(v, m, f)' => Asks(v, m, f)
    BY <2>1, <2>3, <2>6 DEF Asks
  <2>8. contested' \subseteq Wish /\ contested \subseteq contested'
    BY <1>8, <1>t DEF DeclineSuggestion, LocationsTypeOK
  <2>9. page' \in [AdminPage -> PageState] /\ PagesAreOnWishes'
    BY <1>8, <2>5, <1>v DEF DeclineSuggestion
  <2> QED
    BY <1>8, <2>4, <2>7, <2>8, <2>9, <1>t, AdministratorStep DEF DeclineSuggestion, LocationsTypeOK
<1>9. ASSUME NEW f \in Folder, NEW g \in Folder, Relink(f, g) PROVE LocationsIInv'
  BY <1>9, <1>u, <1>v, <1>t, AdministratorStep DEF Relink, LocationsTypeOK
<1>10. ASSUME NEW c \in Asker, FindRoot(c) PROVE LocationsIInv'
  <2>1. errand[c] \in CallUnderWay /\ errand[c].at = "find"
    BY <1>10, <1>t, KindsOfCalls DEF FindRoot, CallsAreSound, Reaching
  <2>2. UNCHANGED <<roots, everything, wishes, leads, page, contested>> /\ Notice
    BY <1>10 DEF FindRoot
  <2>3. EndOf(c) = Len(errand[c].places) + 1
    BY DEF EndOf
  <2>4. CASE Wanted(c).synthetic
    <3>1. ErrandTurns(c, [errand[c] EXCEPT !.at = "switch"]) \/ ErrandTurns(c, NoErrand)
      BY <1>10, <2>4 DEF FindRoot, Refuse
    <3>2. errand[c].wanted[Len(errand[c].places) + 1].synthetic
      BY <2>3, <2>4 DEF Wanted
    <3> QED
      BY <2>1, <2>2, <3>1, <3>2, OnwardStep DEF Reaching
  <2>5. CASE ~Wanted(c).synthetic
    <3>1. CASE Wanted(c).path \in roots
      <4>1. ErrandTurns(c, [errand[c] EXCEPT !.at = "check"])
        BY <1>10, <2>5, <3>1 DEF FindRoot
      <4>2. Approved(errand[c], Len(errand[c].places) + 1, inForce[c] \cup roots \cup everything)
        BY <2>3, <2>5, <3>1 DEF Approved, Wanted
      <4> QED
        BY <2>1, <2>2, <4>1, <4>2, OnwardStep DEF Reaching
    <3>2. CASE Wanted(c).path \notin roots
      <4>1. ErrandTurns(c, NoErrand)
        BY <1>10, <2>5, <3>2 DEF FindRoot, Refuse
      <4> QED
        BY <2>2, <4>1, NotUnderWay, CallStep DEF NoErrand
    <3> QED
      BY <3>1, <3>2
  <2> QED
    BY <2>4, <2>5
<1>11. ASSUME NEW c \in Asker, AskSwitch(c) PROVE LocationsIInv'
  <2>1. errand[c] \in CallUnderWay /\ errand[c].at = "switch"
    BY <1>11, <1>t, KindsOfCalls DEF AskSwitch, CallsAreSound, Reaching
  <2>2. UNCHANGED <<roots, everything, wishes, leads, page, contested>> /\ Notice
    BY <1>11 DEF AskSwitch
  <2>3. CASE SwitchIsOn(SwitchFor(errand[c].for, Side(c)))
    <3>1. ErrandTurns(c, [errand[c] EXCEPT !.at = "check"])
      BY <1>11, <2>3 DEF AskSwitch
    <3>2. errand[c].wanted[Len(errand[c].places) + 1].synthetic
      BY <2>1, <1>t DEF CallsAreSound, Rests, Reaching
    <3>3. SwitchFor(errand[c].for, Sides(errand[c].for)[Len(errand[c].places) + 1]) \in everything
      BY <2>3 DEF SwitchIsOn, Side, EndOf
    <3>4. Approved(errand[c], Len(errand[c].places) + 1, inForce[c] \cup roots \cup everything)
      BY <3>2, <3>3 DEF Approved
    <3> QED
      BY <2>1, <2>2, <3>1, <3>4, OnwardStep DEF Reaching
  <2>4. CASE ~SwitchIsOn(SwitchFor(errand[c].for, Side(c)))
    <3>1. ErrandTurns(c, NoErrand)
      BY <1>11, <2>4 DEF AskSwitch, Refuse
    <3> QED
      BY <2>2, <3>1, NotUnderWay, CallStep DEF NoErrand
  <2> QED
    BY <2>3, <2>4
<1>12. ASSUME NEW c \in Asker, BeginWork(c) PROVE LocationsIInv'
  <2>1. errand[c].at = "granted" /\ UNCHANGED <<roots, everything, wishes, leads, page, contested>> /\ Notice
    BY <1>12 DEF BeginWork
  <2>2. CASE ErrandTurns(c, NoErrand)
    BY <2>1, <2>2, NotUnderWay, CallStep DEF NoErrand
  <2>3. CASE ~ErrandTurns(c, NoErrand)
    <3>1. /\ ErrandTurns(c, [errand[c] EXCEPT !.at = "work"])
          /\ errand[c].for \in {"start", "prune"} => Usable(errand[c].places[Len(errand[c].places)], "dest")
      BY <1>12, <2>3 DEF BeginWork, Refuse
    <3>2. errand[c] \in CallUnderWay /\ Len(errand[c].places) = Len(Sides(errand[c].for))
      BY <2>1, <1>t, KindsOfCalls DEF CallsAreSound, Reaching, Consistent
    <3> PICK place : place = errand[c].places[Len(errand[c].places)]
      OBVIOUS
    <3>3. place \in Folder
      <4>1. errand[c].places \in Seq(Folder) /\ Len(errand[c].places) \in {1, 2}
        BY <3>2, EndsOfErrands DEF CallUnderWay
      <4> PICK s, n : s = errand[c].places /\ n = Len(s)
        OBVIOUS
      <4>2. s \in Seq(Folder) /\ n \in 1..Len(s)
        BY <4>1
      <4>3. s[n] \in Folder
        BY <4>2
      <4> QED
        BY <4>3
    <3>4. leads[place] \in Folder /\ <<place, leads[place]>> \in LeadsNow
      BY <1>t, <3>3 DEF LocationsTypeOK, LeadsNow
    <3>5. errand[c].for \in {"start", "prune"} => ClearOfBarred(errand[c], ledTo[c] \cup LeadsNow)
      BY <3>1, <3>4 DEF Usable, ClearOfBarred
    <3> QED
      BY <2>1, <3>1, <3>5, OnwardStep DEF Reaching
  <2> QED
    BY <2>2, <2>3
<1>13. ASSUME NEW c \in Asker, EndWork(c) PROVE LocationsIInv'
  BY <1>13, NotUnderWay, CallStep DEF EndWork, Refuse, NoErrand
<1>14. ASSUME UNCHANGED locationVars PROVE LocationsIInv'
  <2>1. LocationsTypeOK' /\ PagesAreOnWishes' /\ OneRequestEach' /\ NoneBehindInsert'
    BY <1>14 DEF locationVars, LocationsIInv, LocationsTypeOK, PagesAreOnWishes, Deals, OneRequestEach,
       NoneBehindInsert, Asks
  <2>2. CallsAreSound'
    <3>1. UNCHANGED <<errand, inForce, ledTo>>
      BY <1>14 DEF locationVars
    <3>2. \A c \in Asker : Rests(errand'[c], inForce'[c], ledTo'[c])
      BY <3>1, <1>t DEF CallsAreSound
    <3>3. \A c \in Asker : Rests(errand[c], inForce[c], ledTo[c])'
      BY <3>2 DEF Rests, Approved, LiesWhereLed, ClearOfBarred, Encloses, Overlap
    <3> QED
      BY <3>1, <3>3, <1>t DEF CallsAreSound
  <2> QED
    BY <2>1, <2>2 DEF LocationsIInv
<1> QED
  BY <1>1, <1>2, <1>3, <1>4, <1>5, <1>6, <1>7, <1>8, <1>9, <1>10, <1>11, <1>12, <1>13, <1>14,
     CheckPlaceStep, RequestStep, AskedForStep, InsertSuggestionStep DEF LocationsNext

LEMMA LocationsIInvInit == LocationsInit => LocationsIInv
<1> SUFFICES ASSUME LocationsInit PROVE LocationsIInv
  OBVIOUS
<1>1. errand \in [Asker -> Call] /\ \A c \in Asker : errand[c] = NoErrand
  BY NotUnderWay DEF LocationsInit
<1>2. CallsAreSound
  BY <1>1, NotUnderWay DEF CallsAreSound
<1>3. LocationsTypeOK
  <2>1. \A c \in Asker : errand[c].at = "none"
    BY <1>1 DEF NoErrand
  <2>2. page \in [AdminPage -> PageState] /\ leads \in [Folder -> Folder]
    BY DEF LocationsInit, PageState
  <2>3. HistoryType
    BY DEF LocationsInit, HistoryType
  <2> QED
    BY <2>1, <2>2, <2>3 DEF LocationsInit, LocationsTypeOK, PageState, HistoryType
<1>4. PagesAreOnWishes
  BY DEF LocationsInit, PagesAreOnWishes, Deals, NoPage
<1>5. OneRequestEach
  BY DEF LocationsInit, OneRequestEach, Asks, NoWish
<1>6. NoneBehindInsert
  BY <1>1 DEF NoneBehindInsert, NoErrand
<1> QED
  BY <1>2, <1>3, <1>4, <1>5, <1>6 DEF LocationsIInv

LEMMA LocationsIInvAlways == LocationsSpec => []LocationsIInv
BY LocationsIInvInit, LocationsIInvStep, PTL DEF LocationsSpec

\* A call of the filesystem helper works only on paths that lie where an
\* approved folder led at some moment of the call, or a drive that was open to
\* this very verb; and it writes only on a path that led clear of the barred
\* folders, however approvals, switches and links change under its reads.
THEOREM ReachWasApprovedAlways == LocationsSpec => []ReachWasApproved
<1>1. LocationsIInv => ReachWasApproved
  <2> SUFFICES ASSUME LocationsIInv, NEW c \in Asker, errand[c].at \in {"granted", "work"}
               PROVE  /\ \A i \in DOMAIN errand[c].wanted : ApprovedEnd(errand[c], i, inForce[c], ledTo[c])
                      /\ errand[c].at = "work" /\ errand[c].for \in {"start", "prune"} =>
                            ClearOfBarred(errand[c], ledTo[c])
    BY DEF ReachWasApproved
  <2>1. Consistent(errand[c]) /\ Rests(errand[c], inForce[c], ledTo[c]) /\ errand[c].at \in Reaching
    BY KindsOfCalls DEF LocationsIInv, CallsAreSound, Reaching
  <2>2. DOMAIN errand[c].wanted = 1..Len(errand[c].places)
    BY <2>1 DEF Consistent
  <2>3. \A i \in DOMAIN errand[c].wanted :
            Approved(errand[c], i, inForce[c]) /\ LiesWhereLed(errand[c], i, ledTo[c])
    BY <2>1, <2>2 DEF Rests
  <2>4. \A i \in DOMAIN errand[c].wanted : ApprovedEnd(errand[c], i, inForce[c], ledTo[c])
    BY <2>3 DEF ApprovedEnd, Approved, LiesWhereLed
  <2> QED
    BY <2>1, <2>4 DEF Rests
<1> QED
  BY <1>1, LocationsIInvAlways, PTL

\* A path that an administrator declined is not put before one again by the
\* same module as it was typed, but for the two cases the code leaves open (contested).
THEOREM DeclinesAreRememberedAlways == LocationsSpec => []DeclinesAreRemembered
<1>1. LocationsIInv => DeclinesAreRemembered
  <2> SUFFICES ASSUME LocationsIInv, NEW v \in Wish \ contested, NEW w \in Wish \ contested,
                      wishes[v].state = "declined", wishes[w].state = "open",
                      wishes[v].by = wishes[w].by, wishes[v].path = wishes[w].path
               PROVE  FALSE
    BY DEF DeclinesAreRemembered
  <2>1. wishes[v].by \in FileModule /\ wishes[v].path \in Spelling
    BY DEF LocationsIInv, LocationsTypeOK, NoWish
  <2>2. v = w
    BY <2>1 DEF LocationsIInv, OneRequestEach, Asks
  <2> QED
    BY <2>2
<1> QED
  BY <1>1, LocationsIInvAlways, PTL

-----------------------------------------------------------------------------
(***************************************************************************)
(* Run logs. A line is in the file, in the buffer or in a batch on its way *)
(* to the disk, or an event tells that some are missing.                   *)
(***************************************************************************)

LogsType ==
    /\ onDisk \in [LogRun -> SUBSET Line]
    /\ buffer \in [LogRun -> SUBSET Line]
    /\ flying \in [LogRun -> SUBSET SUBSET Line]
    /\ logState \in [LogRun -> {"none", "opening", "open", "stopped", "closed"}]
    /\ noted \in [LogRun -> SUBSET Event]

\* The lines of a run that are not lost: in its file, in its buffer, or in a
\* batch on its way to the disk.
Kept(r) == onDisk[r] \cup buffer[r] \cup UNION flying[r]

\* No line that a run must keep is lost, and nothing stays behind in the
\* buffer of a log that is closed.
NothingIsLost(r) ==
    /\ logState[r] # "none" => "header" \in Kept(r)
    /\ logState[r] = "closed" => "footer" \in Kept(r)
    /\ noted[r] \subseteq Kept(r)

LogSettled(r) ==
    /\ logState[r] \in {"none", "closed"} => buffer[r] = {}
    /\ logState[r] = "none" => noted[r] = {}

LogsIInv ==
    /\ LogsType
    /\ \A r \in LogRun : LogSettled(r)
    /\ \A r \in LogRun \ spoilt : NothingIsLost(r)

-----------------------------------------------------------------------------
(* push adds the lines and loses none, whether it starts a flush or not.   *)
LEMMA PushedKeeps ==
    ASSUME LogsType, NEW r \in LogRun, NEW lines \in SUBSET Line, NEW ends \in BOOLEAN, Pushed(r, lines, ends)
    PROVE  /\ buffer' \in [LogRun -> SUBSET Line]
           /\ flying' \in [LogRun -> SUBSET SUBSET Line]
           /\ buffer'[r] \cup UNION flying'[r] = buffer[r] \cup lines \cup UNION flying[r]
           /\ ends => buffer'[r] = {}
           /\ \A q \in LogRun \ {r} : buffer'[q] = buffer[q] /\ flying'[q] = flying[q]
<1> PICK all : all = buffer[r] \cup lines
  OBVIOUS
<1>1. all \in SUBSET Line
  BY DEF LogsType
<1>2. CASE ends \/ Cardinality(all) >= FlushEvery
  <2>1. /\ buffer' = [buffer EXCEPT ![r] = {}] /\ flying' = [flying EXCEPT ![r] = @ \cup {all}]
    BY <1>2 DEF Pushed
  <2> QED
    BY <1>1, <2>1 DEF LogsType
<1>3. CASE ~(ends \/ Cardinality(all) >= FlushEvery)
  <2>1. buffer' = [buffer EXCEPT ![r] = all] /\ flying' = [flying EXCEPT ![r] = @]
    BY <1>3 DEF Pushed
  <2> QED
    BY <1>1, <1>3, <2>1 DEF LogsType
<1> QED
  BY <1>2, <1>3

(* A step about the log of one run.                                        *)
LEMMA OneLogStep ==
    ASSUME LogsIInv, LogsType', NEW r \in LogRun, spoilt \subseteq spoilt',
           \A q \in LogRun \ {r} : /\ onDisk'[q] = onDisk[q] /\ buffer'[q] = buffer[q] /\ flying'[q] = flying[q]
                                   /\ logState'[q] = logState[q] /\ noted'[q] = noted[q],
           LogSettled(r)', r \notin spoilt' => NothingIsLost(r)'
    PROVE  LogsIInv'
<1>1. ASSUME NEW q \in LogRun PROVE LogSettled(q)'
  <2>1. CASE q = r
    BY <2>1
  <2>2. CASE q # r
    BY <2>2 DEF LogsIInv, LogSettled
  <2> QED
    BY <2>1, <2>2
<1>2. ASSUME NEW q \in LogRun \ spoilt' PROVE NothingIsLost(q)'
  <2>1. CASE q = r
    BY <2>1
  <2>2. CASE q # r
    BY <2>2 DEF LogsIInv, NothingIsLost, Kept
  <2> QED
    BY <2>1, <2>2
<1> QED
  BY <1>1, <1>2 DEF LogsIInv

LEMMA Lines == Event \subseteq Line /\ {"header"} \in SUBSET Line /\ {"footer"} \in SUBSET Line /\ {"limit"} \in SUBSET Line
BY DEF Line

LEMMA LogsIInvStep == LogsIInv /\ [LogsNext]_logVars => LogsIInv'
<1> SUFFICES ASSUME LogsIInv, [LogsNext]_logVars PROVE LogsIInv'
  OBVIOUS
<1>t. LogsType
  BY DEF LogsIInv
<1>i. ASSUME NEW r \in LogRun PROVE LogSettled(r) /\ (r \notin spoilt => NothingIsLost(r))
  BY DEF LogsIInv
<1>1. ASSUME NEW r \in LogRun, NEW lines \in SUBSET Line, NEW ends \in BOOLEAN, Pushed(r, lines, ends),
             UNCHANGED <<onDisk, spoilt>>,
             logState' \in [LogRun -> {"none", "opening", "open", "stopped", "closed"}], logState'[r] # "none",
             \A q \in LogRun \ {r} : logState'[q] = logState[q] /\ noted'[q] = noted[q],
             noted' \in [LogRun -> SUBSET Event], noted'[r] \subseteq noted[r] \cup lines,
             logState[r] = "none" => "header" \in lines,
             logState'[r] = "closed" => ends /\ "footer" \in lines
      PROVE  LogsIInv'
  <2>1. /\ buffer' \in [LogRun -> SUBSET Line]
        /\ flying' \in [LogRun -> SUBSET SUBSET Line]
        /\ buffer'[r] \cup UNION flying'[r] = buffer[r] \cup lines \cup UNION flying[r]
        /\ ends => buffer'[r] = {}
        /\ \A q \in LogRun \ {r} : buffer'[q] = buffer[q] /\ flying'[q] = flying[q]
    BY <1>1, <1>t, PushedKeeps
  <2>2. LogsType'
    BY <1>1, <1>t, <2>1 DEF LogsType
  <2>3. Kept(r)' = Kept(r) \cup lines
    BY <1>1, <2>1 DEF Kept
  <2>4. LogSettled(r)'
    BY <1>1, <2>1 DEF LogSettled
  <2>5. r \notin spoilt' => NothingIsLost(r)'
    BY <1>1, <1>i, <2>3 DEF NothingIsLost
  <2> QED
    BY <1>1, <2>1, <2>2, <2>4, <2>5, OneLogStep
<1>2. ASSUME NEW r \in LogRun, OpenLog(r) PROVE LogsIInv'
  BY <1>1, <1>2, <1>t, Lines DEF OpenLog, LogsType
<1>3. ASSUME NEW r \in LogRun, OpenedLog(r) PROVE LogsIInv'
  <2>1. LogsType'
    BY <1>3, <1>t DEF OpenedLog, LogsType
  <2>2. logState'[r] = "open" /\ logState[r] = "opening" /\ \A q \in LogRun \ {r} : logState'[q] = logState[q]
    BY <1>3, <1>t DEF OpenedLog, LogsType
  <2>3. UNCHANGED <<onDisk, buffer, flying, noted, spoilt>>
    BY <1>3 DEF OpenedLog
  <2> QED
    BY <1>i, <2>1, <2>2, <2>3, OneLogStep DEF LogSettled, NothingIsLost, Kept
<1>4. ASSUME NEW r \in LogRun, CloseLog(r) PROVE LogsIInv'
  BY <1>1, <1>4, <1>t, Lines DEF CloseLog, LogsType, Opened
<1>5. ASSUME NEW r \in LogRun, AppendLands(r) PROVE LogsIInv'
  <2> PICK batch \in flying[r] :
         /\ onDisk' = [onDisk EXCEPT ![r] = @ \cup batch]
         /\ flying' = [flying EXCEPT ![r] = @ \ {batch}]
         /\ buffer' = [buffer EXCEPT ![r] = buffer[r]]
         /\ UNCHANGED <<logState, noted, spoilt>>
    BY <1>5 DEF AppendLands, StillBuffered
  <2>1. LogsType'
    BY <1>t DEF LogsType
  <2>2. Kept(r)' = Kept(r) /\ buffer'[r] = buffer[r]
    BY <1>t DEF Kept, LogsType
  <2> QED
    BY <1>i, <1>t, <2>1, <2>2, OneLogStep DEF LogSettled, NothingIsLost, LogsType
<1>6. ASSUME NEW r \in LogRun, AppendFails(r) PROVE LogsIInv'
  <2>1. LogsType'
    BY <1>6, <1>t DEF AppendFails, LogsType
  <2>2. UNCHANGED <<onDisk, buffer, logState, noted>> /\ spoilt' = spoilt \cup {r}
        /\ \A q \in LogRun \ {r} : flying'[q] = flying[q]
    BY <1>6, <1>t DEF AppendFails, LogsType
  <2> QED
    BY <1>i, <2>1, <2>2, OneLogStep DEF LogSettled
<1>7. ASSUME NEW r \in LogRun, DeleteLog(r) PROVE LogsIInv'
  <2>1. LogsType'
    BY <1>7, <1>t DEF DeleteLog, LogsType
  <2>2. UNCHANGED <<buffer, flying, logState, noted>> /\ spoilt' = spoilt \cup {r}
        /\ \A q \in LogRun \ {r} : onDisk'[q] = onDisk[q]
    BY <1>7, <1>t DEF DeleteLog, LogsType
  <2> QED
    BY <1>i, <2>1, <2>2, OneLogStep DEF LogSettled
<1>8. ASSUME NEW r \in LogRun, NEW e \in Event, LogCopied(r, e) PROVE LogsIInv'
  <2>1. {e} \in SUBSET Line
    BY Lines
  <2>2. Opened(r) /\ UNCHANGED <<onDisk, noted, spoilt>>
    BY <1>8 DEF LogCopied
  <2>3. CASE logged[r] <= DetailLimit
    BY <1>1, <1>8, <1>t, <2>1, <2>2, <2>3 DEF LogCopied, LogsType, Opened
  <2>4. CASE ~(logged[r] <= DetailLimit)
    BY <1>1, <1>8, <1>t, <2>2, <2>4, Lines DEF LogCopied, LogsType
  <2> QED
    BY <2>3, <2>4
<1>9. ASSUME NEW r \in LogRun, NEW e \in Event, LogAlways(r, e) PROVE LogsIInv'
  <2>1. {e} \in SUBSET Line
    BY Lines
  <2> QED
    BY <1>1, <1>9, <1>t, <2>1 DEF LogAlways, LogsType, Opened
<1>10. ASSUME NEW young \in 0..Cardinality(LogRun), BeginPruneLogs(young) PROVE LogsIInv'
  <2>1. UNCHANGED <<onDisk, buffer, flying, logState, noted, spoilt>>
    BY <1>10 DEF BeginPruneLogs
  <2> QED
    BY <2>1 DEF LogsIInv, LogsType, LogSettled, NothingIsLost, Kept
<1>11. ASSUME StopLogging PROVE LogsIInv'
  <2>1. LogsType'
    BY <1>11, <1>t DEF StopLogging, LogsType
  <2>2. ASSUME NEW r \in LogRun PROVE LogSettled(r)'
    BY <1>11, <1>i DEF StopLogging, LogSettled
  <2>3. ASSUME NEW r \in LogRun \ spoilt' PROVE NothingIsLost(r)'
    <3>1. r \notin spoilt /\ logState[r] \in {"none", "closed"} /\ flying[r] = {}
      BY <1>11 DEF StopLogging
    <3>2. buffer[r] = {} /\ buffer'[r] = {} /\ flying'[r] = {} /\ logState'[r] = logState[r]
      BY <1>11, <1>i, <3>1 DEF StopLogging, LogSettled
    <3>3. onDisk' = onDisk /\ noted' = noted
      BY <1>11 DEF StopLogging
    <3> QED
      BY <1>i, <3>1, <3>2, <3>3 DEF NothingIsLost, Kept
  <2> QED
    BY <2>1, <2>2, <2>3 DEF LogsIInv
<1>12. ASSUME UNCHANGED logVars PROVE LogsIInv'
  BY <1>12 DEF logVars, LogsIInv, LogsType, LogSettled, NothingIsLost, Kept
<1> QED
  BY <1>2, <1>3, <1>4, <1>5, <1>6, <1>7, <1>8, <1>9, <1>10, <1>11, <1>12 DEF LogsNext

\* What a run skipped, removed or failed on is in its log file once the log is
\* closed and the appends are through, however reports and flushes overlapped,
\* unless the disk refused a batch or retention deleted the file.
THEOREM SkipsAreOnRecordAlways == LogsSpec => []SkipsAreOnRecord
<1>1. LogsInit => LogsIInv
  BY DEF LogsInit, LogsIInv, LogsType, LogSettled, NothingIsLost
<1>2. LogsIInv => SkipsAreOnRecord
  <2> SUFFICES ASSUME LogsIInv, NEW r \in LogRun \ spoilt, logState[r] = "closed", flying[r] = {}
               PROVE  {"header", "footer"} \cup noted[r] \subseteq onDisk[r]
    BY DEF SkipsAreOnRecord
  <2>1. LogSettled(r) /\ NothingIsLost(r)
    BY DEF LogsIInv
  <2> QED
    BY <2>1 DEF LogSettled, NothingIsLost, Kept
<1> QED
  BY <1>1, <1>2, LogsIInvStep, PTL DEF LogsSpec

-----------------------------------------------------------------------------
(***************************************************************************)
(* The copy engine.  How far a walk is, and what it may still come to.     *)
(***************************************************************************)
CopyMode == {"sync", "snapshot"}
Place == Subfolder \cup {"top"}
Walk == [at : {"list", "walk"}, mode : CopyMode, folder : Place, left : SUBSET (File \cup Subfolder),
         above : SUBSET (File \cup Subfolder)]
Body == [at : {"same", "search", "write"}, file : File, met : Content, back : Walk, mode : CopyMode]
Start == [at : {"identities", "contents", "switch"}, mode : CopyMode]
End == [at : {"ended"}, result : CopyState]

CopyTypes ==
    /\ CopyTypeOK
    /\ tree \in [File -> {NoFile} \cup [id : Ident, has : Content]]
    /\ copying \in {NoRun} \cup Start \cup Walk \cup Body \cup End

OnWalk == copying.at \in {"list", "walk"}
InBody == copying.at \in {"same", "search", "write"}
Way == IF InBody THEN copying.back ELSE copying

\* What the registry knows of secrets left alone since the run began, unless
\* the switch was off meanwhile; and that it was off is remembered.
KnownSecret(s) == Quietly(s) /\ s \notin unreadable \cup hidden /\ tree[s].has \in Small
KnowsIdentities ==
    exposed \/ /\ \A d \in SecretFolder : d \in disturbed \cup hidden \/ d \in registry.identities
               /\ \A s \in SecretPath : Quietly(s) /\ s \notin hidden => tree[s].id \in registry.identities
KnowsContents == exposed \/ \A s \in SecretPath : KnownSecret(s) => tree[s].has \in registry.contents
RegistryKnows ==
    /\ copying.at \in {"contents", "switch", "list", "walk", "same", "search", "write", "ended"} => KnowsIdentities
    /\ copying.at \in {"switch", "list", "walk", "same", "search", "write", "ended"} => KnowsContents
    /\ copying # NoRun => exclusion \/ exposed

\* A walk is inside one folder, which is not protected, or was not all the
\* while.
Open(d) == d \in SecretFolder => exposed \/ d \in disturbed
WalkIsSound ==
    OnWalk \/ InBody =>
        /\ Way.folder = "top" => Way.above = {}
        /\ Open(Way.folder)
        /\ Way.at = "list" => Way.left = {}
        /\ Way.folder # "top" => Way.left \subseteq File
        /\ \A f \in File : f \in Way.left => Inside[f] = Way.folder
        /\ \A f \in File : f \in Way.above => Inside[f] = "top"
        /\ InBody => Way.at = "walk"

\* A file in hand is not a secret one, and is what it was when it was met.
Harmless(f) == exposed \/ (f \notin SecretPath /\ Inside[f] \notin SecretFolder)
SafeInHand(k) ==
    Quietly(k.file) =>
        /\ Harmless(k.file)
        /\ k.met = tree[k.file].has
        /\ k.at = "write" /\ k.met \in Small /\ k.file \notin unreadable => k.met \notin registry.contents
FileIsSound == InBody => SafeInHand(copying)

CopiesAreSound ==
    /\ copying.at \in {"identities", "contents", "switch"} => told = Untold
    /\ copying # NoRun => \A f \in told.copied : Quietly(f) =>
         Harmless(f) /\ (tree[f].has \in Small => tree[f].has \notin registry.contents)

\* Every file is dealt with, in hand, or still to come.
Accounted(f) ==
    \/ {f, Inside[f], "top"} \cap (told.skipped \cup told.failed) # {}
    \/ {f, Inside[f]} \cap hidden # {}
    \/ Same(target[f], tree[f].has)
    \/ target[f].has = tree[f].has
Comes(f, k) ==
    \/ {f, Inside[f]} \cap (k.left \cup k.above) # {}
    \/ k.at = "list" /\ k.folder \in {"top", Inside[f]}
NoneIsLeftOut ==
    \A f \in File : Quietly(f) =>
        /\ OnWalk \/ InBody => Accounted(f) \/ Comes(f, Way) \/ (InBody /\ f = copying.file)
        /\ copying.at = "ended" /\ copying.result = "done" => Accounted(f)
        /\ runRow = "done" => Accounted(f)
RowIsSettled == runRow = "done" => copying = NoRun

CopyIInv ==
    /\ CopyTypes /\ RegistryKnows /\ WalkIsSound /\ FileIsSound /\ CopiesAreSound
    /\ NoneIsLeftOut /\ RowIsSettled

-----------------------------------------------------------------------------
LEMMA CopyKinds ==
    ASSUME CopyTypes
    PROVE  /\ copying.at = "off" <=> copying = NoRun
           /\ copying.at \in {"identities", "contents", "switch"} => copying \in Start
           /\ OnWalk => copying \in Walk
           /\ InBody => copying \in Body
           /\ copying.at = "ended" => copying \in End
           /\ OnWalk \/ InBody => Way \in Walk
           /\ InBody => Way = copying.back
           /\ OnWalk => Way = copying
BY DEF CopyTypes, NoRun, Start, Walk, Body, End, OnWalk, InBody, Way

LEMMA PlacesApart == "top" \notin Subfolder /\ "top" \notin File /\ File \cap Subfolder = {} /\ \A f \in File : Inside[f] \in Place
BY CopyConstantsOK DEF Place

\* A step that leaves the tree alone leaves quiet files quiet.
LEMMA QuietKept ==
    ASSUME TreeAsItIs
    PROVE  /\ tree' = tree /\ unreadable' = unreadable /\ hidden' = hidden
           /\ disturbed' = disturbed /\ exposed' = exposed /\ exclusion' = exclusion
           /\ \A f : Quietly(f)' <=> Quietly(f)
           /\ \A s : KnownSecret(s)' <=> KnownSecret(s)
BY DEF TreeAsItIs, Quietly, KnownSecret, Present

\* What is accounted for stays so, as the report only grows.
LEMMA AccountedKept ==
    ASSUME NEW f, tree'[f] = tree[f], target'[f] = target[f], Accounted(f),
           {f, Inside[f]} \cap hidden \subseteq hidden',
           told.skipped \subseteq told'.skipped, told.failed \subseteq told'.failed
    PROVE  Accounted(f)'
BY DEF Accounted, Same

\* The registry stays as it is while a run goes on.
LEMMA RegistryKept ==
    ASSUME RegistryKnows, TreeAsItIs, UNCHANGED registry,
           copying # NoRun, copying.at \in {"list", "walk", "same", "search", "write", "ended"}
    PROVE  RegistryKnows'
<1>1. KnowsIdentities => KnowsIdentities'
  BY QuietKept DEF KnowsIdentities
<1>2. KnowsContents => KnowsContents'
  BY QuietKept DEF KnowsContents, KnownSecret
<1>3. copying # NoRun => exclusion' \/ exposed'
  BY QuietKept DEF RegistryKnows
<1>. QED BY <1>1, <1>2, <1>3 DEF RegistryKnows

\* So do the files copied so far, when none is added.
LEMMA CopiesKept ==
    ASSUME CopiesAreSound, TreeAsItIs, UNCHANGED registry, told'.copied = told.copied,
           copying # NoRun, copying'.at \notin {"identities", "contents", "switch"}
    PROVE  CopiesAreSound'
BY QuietKept DEF CopiesAreSound, Harmless

-----------------------------------------------------------------------------
(* The tree changes beside the run. *)

TreeMoved ==
    /\ tree' \in [File -> {NoFile} \cup [id : Ident, has : Content]]
    /\ unreadable' \subseteq SourcePath /\ disturbed' \subseteq SourcePath /\ hidden' \subseteq File \cup Subfolder
    /\ disturbed \subseteq disturbed' /\ RunAsItIs
    /\ \A d : d \notin disturbed' => (d \in hidden' <=> d \in hidden)
    /\ \A f \in File : Quietly(f)' => /\ Quietly(f) /\ tree'[f] = tree[f]
                                      /\ (f \in unreadable' <=> f \in unreadable) /\ (f \in hidden' <=> f \in hidden)
                                      /\ (Inside[f] \in hidden' <=> Inside[f] \in hidden)

LEMMA TreeStep ==
    ASSUME CopyTypes, TreeSteps
    PROVE  TreeMoved
<1>1. tree \in [File -> {NoFile} \cup [id : Ident, has : Content]] /\ disturbed \subseteq SourcePath
      /\ unreadable \subseteq SourcePath /\ hidden \subseteq File \cup Subfolder
  BY DEF CopyTypes, CopyTypeOK
<1>s. File \subseteq SourcePath /\ Subfolder \subseteq SourcePath
  BY DEF SourcePath
<1>2. ASSUME NEW T \in SUBSET SourcePath, disturbed' = disturbed \cup T,
             tree' \in [File -> {NoFile} \cup [id : Ident, has : Content]],
             \A f \in File : f \notin T => tree'[f] = tree[f],
             unreadable' \subseteq SourcePath, \A f : f \notin T => (f \in unreadable' <=> f \in unreadable),
             hidden' \subseteq File \cup Subfolder, \A f : f \notin T => (f \in hidden' <=> f \in hidden),
             RunAsItIs
      PROVE  TreeMoved
  <2>1. disturbed' \subseteq SourcePath /\ disturbed \subseteq disturbed'
    BY <1>1, <1>2
  <2>2. \A d : d \notin disturbed' => (d \in hidden' <=> d \in hidden)
    BY <1>2
  <2>3. ASSUME NEW f \in File, Quietly(f)'
        PROVE  /\ Quietly(f) /\ tree'[f] = tree[f]
               /\ (f \in unreadable' <=> f \in unreadable) /\ (f \in hidden' <=> f \in hidden)
               /\ (Inside[f] \in hidden' <=> Inside[f] \in hidden)
    <3>1. f \notin T /\ Inside[f] \notin T /\ {f, Inside[f]} \cap disturbed = {} /\ tree'[f] # NoFile
      BY <1>2, <2>3 DEF Quietly, Present
    <3>2. tree'[f] = tree[f]
      BY <3>1, <1>2
    <3>. QED BY <3>1, <3>2, <1>2 DEF Quietly, Present
  <2>. QED BY <1>2, <2>1, <2>2, <2>3 DEF TreeMoved
<1>3. ASSUME NEW f \in File, NEW c \in Content, WriteFile(f, c) PROVE TreeMoved
  <2>1. tree' \in [File -> {NoFile} \cup [id : Ident, has : Content]] /\ \A g \in File : g \notin {f} => tree'[g] = tree[g]
    BY <1>1, <1>3 DEF WriteFile
  <2>2. disturbed' = disturbed \cup {f} /\ unreadable' = unreadable /\ hidden' = hidden /\ RunAsItIs
    BY <1>3 DEF WriteFile
  <2>. QED BY <2>1, <2>2, <1>s, <1>1, <1>2
<1>4. ASSUME NEW f \in File, NEW c \in Content, NEW i \in Ident, ReplaceFile(f, i, c) PROVE TreeMoved
  <2>1. tree' \in [File -> {NoFile} \cup [id : Ident, has : Content]] /\ \A g \in File : g \notin {f} => tree'[g] = tree[g]
    BY <1>1, <1>4 DEF ReplaceFile
  <2>2. disturbed' = disturbed \cup {f} /\ unreadable' = unreadable /\ hidden' = hidden /\ RunAsItIs
    BY <1>4 DEF ReplaceFile
  <2>. QED BY <2>1, <2>2, <1>s, <1>1, <1>2
<1>5. ASSUME NEW f \in File, DeleteFile(f) PROVE TreeMoved
  <2>1. tree' \in [File -> {NoFile} \cup [id : Ident, has : Content]] /\ \A g \in File : g \notin {f} => tree'[g] = tree[g]
    BY <1>1, <1>5 DEF DeleteFile
  <2>2. disturbed' = disturbed \cup {f} /\ unreadable' = unreadable /\ hidden' = hidden /\ RunAsItIs
    BY <1>5 DEF DeleteFile
  <2>. QED BY <2>1, <2>2, <1>s, <1>1, <1>2
<1>6. ASSUME NEW f \in File, NEW g \in File, MoveFile(f, g) PROVE TreeMoved
  <2>1. tree' \in [File -> {NoFile} \cup [id : Ident, has : Content]] /\ \A h \in File : h \notin {f, g} => tree'[h] = tree[h]
    BY <1>1, <1>6 DEF MoveFile
  <2>2. disturbed' = disturbed \cup {f, g} /\ unreadable' = unreadable /\ hidden' = hidden /\ RunAsItIs
    BY <1>6 DEF MoveFile
  <2>. QED BY <2>1, <2>2, <1>s, <1>1, <1>2
<1>7. ASSUME NEW x \in SourcePath, ChangeAccess(x) PROVE TreeMoved
  <2>1. unreadable' \subseteq SourcePath /\ \A f : f \notin {x} => (f \in unreadable' <=> f \in unreadable)
    BY <1>1, <1>7 DEF ChangeAccess
  <2>2. disturbed' = disturbed \cup {x} /\ tree' = tree /\ hidden' = hidden /\ RunAsItIs
    BY <1>7 DEF ChangeAccess
  <2>3. {x} \in SUBSET SourcePath
    OBVIOUS
  <2>. QED BY ZenonT(40), <2>1, <2>2, <2>3, <1>1, <1>2
<1>8. ASSUME NEW x \in File \cup Subfolder, ChangeStat(x) PROVE TreeMoved
  <2>1. hidden' \subseteq File \cup Subfolder /\ \A f : f \notin {x} => (f \in hidden' <=> f \in hidden)
    BY <1>1, <1>8 DEF ChangeStat
  <2>2. disturbed' = disturbed \cup {x} /\ tree' = tree /\ unreadable' = unreadable /\ RunAsItIs
    BY <1>8 DEF ChangeStat
  <2>3. {x} \in SUBSET SourcePath
    BY <1>s
  <2>. QED BY ZenonT(40), <2>1, <2>2, <2>3, <1>1, <1>2
<1>. QED BY <1>3, <1>4, <1>5, <1>6, <1>7, <1>8 DEF TreeSteps

\* What the tree does to a file, it does to a file that is quiet no more.
LEMMA TreeSound ==
    ASSUME CopyIInv, TreeSteps
    PROVE  CopyIInv'
<1>1. TreeMoved
  BY TreeStep DEF CopyIInv
<1>2. UNCHANGED <<exclusion, target, registry, copying, told, runRow, aborted, exposed>>
  BY <1>1 DEF TreeMoved, RunAsItIs
<1>3. \A f \in File : Quietly(f)' => /\ Quietly(f) /\ tree'[f] = tree[f]
                                    /\ (f \in unreadable' <=> f \in unreadable) /\ (f \in hidden' <=> f \in hidden)
                                    /\ (Inside[f] \in hidden' <=> Inside[f] \in hidden)
  BY <1>1 DEF TreeMoved
<1>d. disturbed \subseteq disturbed' /\ \A d : d \notin disturbed' => (d \in hidden' <=> d \in hidden)
  BY <1>1 DEF TreeMoved
<1>4. CopyTypes'
  BY <1>1, <1>2 DEF TreeMoved, CopyIInv, CopyTypes, CopyTypeOK
<1>5. RegistryKnows'
  <2>1. SecretPath \subseteq File
    BY CopyConstantsOK
  <2>2. KnowsIdentities => KnowsIdentities'
    BY <2>1, <1>2, <1>3, <1>d DEF KnowsIdentities
  <2>3. KnowsContents => KnowsContents'
    BY <2>1, <1>2, <1>3 DEF KnowsContents, KnownSecret
  <2>. QED BY <2>2, <2>3, <1>2 DEF CopyIInv, RegistryKnows
<1>6. WalkIsSound'
  <2>1. \A d : Open(d) => Open(d)'
    BY <1>2, <1>d DEF Open
  <2>. QED BY <2>1, <1>2 DEF CopyIInv, WalkIsSound, OnWalk, InBody, Way
<1>7. FileIsSound'
  <2>1. InBody => copying.file \in File
    BY CopyKinds DEF CopyIInv, Body
  <2>. QED BY <2>1, <1>2, <1>3 DEF CopyIInv, FileIsSound, SafeInHand, InBody, Harmless
<1>8. CopiesAreSound'
  <2>1. told.copied \subseteq File
    BY DEF CopyIInv, CopyTypes, CopyTypeOK
  <2>. QED BY <2>1, <1>2, <1>3 DEF CopyIInv, CopiesAreSound, Harmless
<1>9. NoneIsLeftOut'
  <2>. SUFFICES ASSUME NEW f \in File, Quietly(f)'
                PROVE  (/\ OnWalk \/ InBody => Accounted(f) \/ Comes(f, Way) \/ (InBody /\ f = copying.file)
                        /\ copying.at = "ended" /\ copying.result = "done" => Accounted(f)
                        /\ runRow = "done" => Accounted(f))'
    BY DEF NoneIsLeftOut
  <2>1. Quietly(f) /\ tree'[f] = tree[f] /\ {f, Inside[f]} \cap hidden \subseteq hidden'
    BY <1>3
  <2>2. Accounted(f) => Accounted(f)'
    BY <2>1, <1>2, AccountedKept
  <2>3. Comes(f, Way)' <=> Comes(f, Way)
    BY <1>2 DEF Comes, Way, InBody
  <2>. QED BY <2>1, <2>2, <2>3, <1>2 DEF CopyIInv, NoneIsLeftOut, OnWalk, InBody
<1>10. RowIsSettled'
  BY <1>2 DEF CopyIInv, RowIsSettled
<1>. QED BY <1>4, <1>5, <1>6, <1>7, <1>8, <1>9, <1>10 DEF CopyIInv

-----------------------------------------------------------------------------
(* The steps of a run that is under way. *)

Telling == [copied : SUBSET File, skipped : SUBSET SourcePath, failed : SUBSET File]
Targets == [File -> [size : Nat, time : Nat, has : Content \cup {"nothing"}]]
DealtWith(f) ==
    /\ OnWalk \/ InBody => Accounted(f) \/ Comes(f, Way) \/ (InBody /\ f = copying.file)
    /\ copying.at = "ended" /\ copying.result = "done" => Accounted(f)

LEMMA RunUnderWay ==
    ASSUME CopyIInv, OnWalk \/ InBody
    PROVE  /\ runRow # "done" /\ copying # NoRun
           /\ told \in Telling /\ target \in Targets
           /\ \A f \in File : Quietly(f) => DealtWith(f)
           /\ KnowsIdentities /\ KnowsContents
BY CopyKinds DEF CopyIInv, CopyTypes, CopyTypeOK, RowIsSettled, NoneIsLeftOut, DealtWith, OnWalk, InBody, NoRun,
                 Telling, Targets, RegistryKnows

LEMMA Progress ==
    ASSUME CopyIInv, OnWalk \/ InBody, TreeAsItIs, UNCHANGED <<registry, runRow, aborted>>,
           copying' \in Walk \cup Body \cup End, told' \in Telling, target' \in Targets,
           WalkIsSound', FileIsSound', CopiesAreSound',
           \A f \in File : Quietly(f) => DealtWith(f)'
    PROVE  CopyIInv'
<1>1. copying'.at \in {"list", "walk", "same", "search", "write", "ended"} /\ copying' # NoRun
  BY DEF Walk, Body, End, NoRun
<1>2. CopyTypes'
  BY <1>1 DEF CopyIInv, CopyTypes, CopyTypeOK, TreeAsItIs, Telling, Targets
<1>3. RegistryKnows'
  <2>1. copying.at \in {"list", "walk", "same", "search", "write", "ended"}
    BY DEF OnWalk, InBody
  <2>2. RegistryKnows /\ UNCHANGED registry
    BY DEF CopyIInv
  <2>. QED BY <2>1, <2>2, RunUnderWay, RegistryKept
<1>4. RowIsSettled' /\ runRow' # "done"
  BY RunUnderWay DEF RowIsSettled
<1>5. NoneIsLeftOut'
  <2>1. \A f \in File : Quietly(f)' => DealtWith(f)'
    BY QuietKept
  <2>. QED BY <2>1, <1>4 DEF NoneIsLeftOut, DealtWith
<1>. QED BY <1>2, <1>3, <1>4, <1>5 DEF CopyIInv

\* ... and as most steps copy nothing and leave what is there:
LEMMA ProgressCopyingNone ==
    ASSUME CopyIInv, OnWalk \/ InBody, TreeAsItIs, UNCHANGED <<registry, runRow, aborted, target>>,
           copying' \in Walk \cup Body \cup End, told' \in Telling, told'.copied = told.copied,
           WalkIsSound', FileIsSound',
           \A f \in File : Quietly(f) => DealtWith(f)'
    PROVE  CopyIInv'
<1>1. CopiesAreSound'
  <2>1. copying'.at \notin {"identities", "contents", "switch"}
    BY DEF Walk, Body, End
  <2>. QED BY <2>1, RunUnderWay, CopiesKept DEF CopyIInv
<1>. QED BY <1>1, RunUnderWay, Progress

LEMMA RefuseSound == ASSUME CopyIInv, RefuseCopy PROVE CopyIInv'
<1>1. copying' = [at |-> "ended", result |-> "failed"] /\ OnWalk /\ TreeAsItIs /\ UNCHANGED <<target, registry, told, runRow, aborted>>
  BY DEF RefuseCopy, RunTurns, OnWalk
<1>2. copying' \in End /\ copying'.at = "ended" /\ copying'.result = "failed"
  BY <1>1 DEF End, CopyState
<1>3. WalkIsSound' /\ FileIsSound' /\ \A f \in File : DealtWith(f)'
  BY <1>2 DEF WalkIsSound, FileIsSound, DealtWith, OnWalk, InBody
<1>. QED BY <1>1, <1>2, <1>3, RunUnderWay, ProgressCopyingNone

LEMMA FinishSound == ASSUME CopyIInv, FinishWalk PROVE CopyIInv'
<1>1. /\ copying' = [at |-> "ended", result |-> "done"] /\ OnWalk /\ TreeAsItIs /\ UNCHANGED <<target, registry, told, runRow, aborted>>
      /\ copying.at = "walk" /\ copying.left = {} /\ copying.folder = "top"
  BY DEF FinishWalk, RunTurns, OnWalk
<1>2. copying' \in End /\ copying'.at = "ended" /\ copying'.result = "done"
  BY <1>1 DEF End, CopyState
<1>3. WalkIsSound' /\ FileIsSound'
  BY <1>2 DEF WalkIsSound, FileIsSound, OnWalk, InBody
<1>4. ASSUME NEW f \in File, Quietly(f) PROVE DealtWith(f)'
  <2>1. Accounted(f) \/ Comes(f, copying)
    BY <1>1, <1>4, RunUnderWay, CopyKinds DEF DealtWith, CopyIInv, InBody
  <2>2. copying.above = {}
    BY <1>1, CopyKinds DEF CopyIInv, WalkIsSound
  <2>3. Accounted(f)
    BY <2>1, <2>2, <1>1 DEF Comes
  <2>4. Accounted(f)'
    BY <2>3, <1>1, AccountedKept, QuietKept
  <2>. QED BY <2>4, <1>2 DEF DealtWith, OnWalk, InBody
<1>. QED BY <1>1, <1>2, <1>3, <1>4, RunUnderWay, ProgressCopyingNone

\* A walk goes on, to another place of it.
LEMMA WalkOn ==
    ASSUME NEW k \in Walk, copying' = k, TreeAsItIs
    PROVE  OnWalk' /\ ~InBody' /\ Way' = k /\ (k.at = "list" \/ k.at = "walk")
           /\ FileIsSound'
           /\ (WalkIsSound' <=> /\ k.folder = "top" => k.above = {}
                                /\ Open(k.folder)
                                /\ k.at = "list" => k.left = {}
                                /\ k.folder # "top" => k.left \subseteq File
                                /\ \A f \in File : f \in k.left => Inside[f] = k.folder
                                /\ \A f \in File : f \in k.above => Inside[f] = "top")
           /\ \A f : DealtWith(f)' <=> Accounted(f)' \/ Comes(f, k)
<1>1. k.at \in {"list", "walk"}
  BY DEF Walk
<1>2. OnWalk' /\ ~InBody' /\ Way' = k
  BY <1>1 DEF OnWalk, InBody, Way
<1>3. \A d : Open(d)' <=> Open(d)
  BY QuietKept DEF Open
<1>. QED BY <1>1, <1>2, <1>3 DEF FileIsSound, WalkIsSound, DealtWith, Comes, InBody, OnWalk

LEMMA LeaveSound == ASSUME CopyIInv, LeaveFolder PROVE CopyIInv'
<1>1. /\ copying' = [copying EXCEPT !.folder = "top", !.left = copying.above, !.above = {}]
      /\ OnWalk /\ TreeAsItIs /\ UNCHANGED <<target, registry, told, runRow, aborted>>
      /\ copying.at = "walk" /\ copying.left = {} /\ copying.folder # "top"
  BY DEF LeaveFolder, RunTurns, OnWalk
<1>2. copying \in Walk /\ Way = copying
  BY <1>1, CopyKinds DEF CopyIInv
<1>3. PICK k : k = [copying EXCEPT !.folder = "top", !.left = copying.above, !.above = {}]
  OBVIOUS
<1>4. k \in Walk /\ k.at = "walk" /\ k.folder = "top" /\ k.left = copying.above /\ k.above = {}
  BY <1>1, <1>2, <1>3 DEF Walk, Place
<1>5. WalkIsSound' /\ FileIsSound'
  <2>1. \A f \in File : f \in k.left => Inside[f] = k.folder
    BY <1>1, <1>2, <1>4 DEF CopyIInv, WalkIsSound
  <2>2. Open("top")
    BY CopyConstantsOK DEF Open
  <2>. QED BY <1>1, <1>3, <1>4, <2>1, <2>2, WalkOn
<1>6. ASSUME NEW f \in File, Quietly(f) PROVE DealtWith(f)'
  <2>1. Accounted(f) \/ Comes(f, copying)
    BY <1>1, <1>2, <1>6, RunUnderWay DEF DealtWith, InBody
  <2>2. Accounted(f) => Accounted(f)'
    BY <1>1, AccountedKept, QuietKept
  <2>3. Comes(f, copying) => Comes(f, k)
    BY <1>1, <1>4 DEF Comes
  <2>. QED BY <2>1, <2>2, <2>3, <1>1, <1>3, <1>4, WalkOn
<1>. QED BY <1>1, <1>3, <1>4, <1>5, <1>6, RunUnderWay, ProgressCopyingNone

LEMMA ListSound == ASSUME CopyIInv, ListFolder PROVE CopyIInv'
<1>1. copying.at = "list" /\ OnWalk /\ TreeAsItIs /\ UNCHANGED <<target, registry, runRow, aborted>>
  BY DEF ListFolder, OnWalk
<1>2. copying \in Walk /\ Way = copying
  BY <1>1, CopyKinds DEF CopyIInv
<1>3. copying.left = {} /\ (\A f \in File : f \in copying.above => Inside[f] = "top") /\ Open(copying.folder)
  BY <1>1, <1>2 DEF CopyIInv, WalkIsSound
<1>4. told \in Telling
  BY <1>1, RunUnderWay
<1>5. \A f \in File : Quietly(f) => Accounted(f) \/ Comes(f, copying)
  BY <1>1, <1>2, RunUnderWay DEF DealtWith, InBody
<1>6. CASE copying.folder \in unreadable
  <2>1. copying.folder \in SourcePath
    BY <1>2 DEF Walk, Place, SourcePath
  <2>2. PICK k : k = [copying EXCEPT !.at = "walk", !.folder = "top", !.left = copying.above, !.above = {}]
    OBVIOUS
  <2>3. PICK t : t = [told EXCEPT !.skipped = told.skipped \cup {copying.folder}]
    OBVIOUS
  <2>4. copying' = k /\ told' = t
    BY <1>6, <2>2, <2>3 DEF ListFolder, RunTurns
  <2>5. k \in Walk /\ k.at = "walk" /\ k.folder = "top" /\ k.left = copying.above /\ k.above = {}
    BY <1>2, <2>2 DEF Walk, Place
  <2>6. t \in Telling /\ t.copied = told.copied /\ t.skipped = told.skipped \cup {copying.folder} /\ t.failed = told.failed
    BY <1>4, <2>1, <2>3 DEF Telling
  <2>7. WalkIsSound' /\ FileIsSound'
    <3>1. Open("top")
      BY CopyConstantsOK DEF Open
    <3>. QED BY <1>1, <1>3, <2>4, <2>5, <3>1, WalkOn
  <2>8. ASSUME NEW f \in File, Quietly(f) PROVE DealtWith(f)'
    <3>1. Accounted(f) => Accounted(f)'
      BY <1>1, <2>4, <2>6, AccountedKept, QuietKept
    <3>2. Comes(f, copying) => Comes(f, k) \/ copying.folder \in {"top", Inside[f]}
      BY <1>3, <2>5 DEF Comes
    <3>3. copying.folder \in {"top", Inside[f]} => Accounted(f)'
      BY <2>4, <2>6 DEF Accounted
    <3>. QED BY <1>1, <1>5, <2>4, <2>5, <2>8, <3>1, <3>2, <3>3, WalkOn
  <2>. QED BY <1>1, <2>4, <2>5, <2>6, <2>7, <2>8, ProgressCopyingNone
<1>7. CASE copying.folder \notin unreadable
  <2>1. PICK k : k = [copying EXCEPT !.at = "walk", !.left = Entries(copying.folder)]
    OBVIOUS
  <2>2. copying' = k /\ told' = told
    BY <1>7, <2>1 DEF ListFolder, RunTurns
  <2>3. Entries(copying.folder) \subseteq File \cup Subfolder
    BY DEF Entries, Present
  <2>4. /\ k \in Walk /\ k.at = "walk" /\ k.folder = copying.folder /\ k.left = Entries(copying.folder)
        /\ k.above = copying.above
    BY <1>2, <2>1, <2>3 DEF Walk, Place
  <2>5. WalkIsSound' /\ FileIsSound'
    <3>1. \A f \in File : f \in Entries(copying.folder) => Inside[f] = copying.folder
      BY PlacesApart DEF Entries
    <3>2. copying.folder = "top" => copying.above = {}
      BY <1>1, <1>2 DEF CopyIInv, WalkIsSound
    <3>3. copying.folder # "top" => Entries(copying.folder) \subseteq File
      BY DEF Entries, Present
    <3>. QED BY <1>1, <1>3, <2>2, <2>4, <3>1, <3>2, <3>3, WalkOn
  <2>6. ASSUME NEW f \in File, Quietly(f) PROVE DealtWith(f)'
    <3>1. Accounted(f) => Accounted(f)'
      BY <1>1, <2>2, AccountedKept, QuietKept
    <3>2. copying.folder = "top" => Comes(f, k)
      BY <2>4, <2>6, PlacesApart DEF Comes, Entries, Quietly, Place
    <3>3. copying.folder = Inside[f] => Comes(f, k)
      BY <2>4, <2>6 DEF Comes, Entries, Quietly
    <3>4. Comes(f, copying) => Comes(f, k)
      BY <1>3, <2>4, <3>2, <3>3 DEF Comes
    <3>. QED BY <1>1, <1>5, <2>2, <2>4, <2>6, <3>1, <3>4, WalkOn
  <2>. QED BY <1>1, <1>4, <2>2, <2>4, <2>5, <2>6, ProgressCopyingNone
<1>. QED BY <1>6, <1>7

LEMMA EnterSound == ASSUME CopyIInv, NEW d \in Subfolder, EnterFolder(d) PROVE CopyIInv'
<1>1. /\ copying.at = "walk" /\ d \in copying.left /\ OnWalk /\ TreeAsItIs
      /\ UNCHANGED <<target, registry, runRow, aborted>>
  BY DEF EnterFolder, OnWalk
<1>2. copying \in Walk /\ Way = copying
  BY <1>1, CopyKinds DEF CopyIInv
<1>3. /\ copying.folder = "top" => copying.above = {}
      /\ Open(copying.folder)
      /\ copying.folder # "top" => copying.left \subseteq File
      /\ \A f \in File : f \in copying.left => Inside[f] = copying.folder
      /\ \A f \in File : f \in copying.above => Inside[f] = "top"
  BY <1>1, <1>2 DEF CopyIInv, WalkIsSound
<1>4. told \in Telling /\ KnowsIdentities
  BY <1>1, RunUnderWay
<1>5. \A f \in File : Quietly(f) => Accounted(f) \/ Comes(f, copying)
  BY <1>1, <1>2, RunUnderWay DEF DealtWith, InBody
<1>8. CASE d \in hidden
  <2>1. PICK k : k = [copying EXCEPT !.left = copying.left \ {d}]
    OBVIOUS
  <2>2. copying' = k /\ told' = told
    BY <1>8, <2>1, <1>2 DEF EnterFolder, RunTurns, Walk
  <2>3. /\ k \in Walk /\ k.at = "walk" /\ k.folder = copying.folder /\ k.left = copying.left \ {d}
        /\ k.above = copying.above
    BY <1>1, <1>2, <2>1 DEF Walk
  <2>4. WalkIsSound' /\ FileIsSound'
    BY <1>1, <1>3, <2>2, <2>3, WalkOn
  <2>5. ASSUME NEW f \in File, Quietly(f) PROVE DealtWith(f)'
    <3>1. Accounted(f) => Accounted(f)'
      BY <1>1, <2>2, AccountedKept, QuietKept
    <3>2. Comes(f, copying) => Comes(f, k) \/ Inside[f] = d
      BY <1>1, <2>3, PlacesApart DEF Comes
    <3>3. Inside[f] = d => Accounted(f)'
      BY <1>1, <1>8, QuietKept DEF Accounted
    <3>. QED BY <1>1, <1>5, <2>2, <2>3, <2>5, <3>1, <3>2, <3>3, WalkOn
  <2>. QED BY <1>1, <1>4, <2>2, <2>3, <2>4, <2>5, ProgressCopyingNone
<1>6. CASE d \notin hidden /\ d \in registry.identities
  <2>1. PICK k : k = [copying EXCEPT !.left = copying.left \ {d}]
    OBVIOUS
  <2>2. PICK t : t = [told EXCEPT !.skipped = told.skipped \cup {d}]
    OBVIOUS
  <2>3. copying' = k /\ told' = t
    BY <1>6, <2>1, <2>2, <1>2, <1>4 DEF EnterFolder, RunTurns, Walk, Telling
  <2>4. /\ k \in Walk /\ k.at = "walk" /\ k.folder = copying.folder /\ k.left = copying.left \ {d}
        /\ k.above = copying.above
    BY <1>1, <1>2, <2>1 DEF Walk
  <2>5. t \in Telling /\ t.copied = told.copied /\ t.skipped = told.skipped \cup {d} /\ t.failed = told.failed
    BY <1>4, <2>2 DEF Telling, SourcePath
  <2>6. WalkIsSound' /\ FileIsSound'
    BY <1>1, <1>3, <2>3, <2>4, WalkOn
  <2>7. ASSUME NEW f \in File, Quietly(f) PROVE DealtWith(f)'
    <3>1. Accounted(f) => Accounted(f)'
      BY <1>1, <2>3, <2>5, AccountedKept, QuietKept
    <3>2. Comes(f, copying) => Comes(f, k) \/ Inside[f] = d
      BY <1>1, <2>4, PlacesApart DEF Comes
    <3>3. Inside[f] = d => Accounted(f)'
      BY <2>3, <2>5 DEF Accounted
    <3>. QED BY <1>1, <1>5, <2>3, <2>4, <2>7, <3>1, <3>2, <3>3, WalkOn
  <2>. QED BY <1>1, <2>3, <2>4, <2>5, <2>6, <2>7, ProgressCopyingNone
<1>7. CASE d \notin hidden /\ d \notin registry.identities
  <2>1. PICK k : k = [copying EXCEPT !.at = "list", !.folder = d, !.left = {}, !.above = copying.left \ {d}]
    OBVIOUS
  <2>2. copying' = k /\ told' = told
    BY <1>7, <2>1 DEF EnterFolder, RunTurns
  <2>3. /\ k \in Walk /\ k.at = "list" /\ k.folder = d /\ k.left = {}
        /\ k.above = copying.left \ {d}
    BY <1>2, <2>1 DEF Walk, Place
  <2>4. copying.folder = "top" /\ copying.above = {}
    BY <1>1, <1>3, PlacesApart
  <2>5. WalkIsSound' /\ FileIsSound'
    <3>1. d # "top" /\ Open(d)
      BY <1>4, <1>7, PlacesApart DEF KnowsIdentities, Open
    <3>2. \A f \in File : f \in k.above => Inside[f] = "top"
      BY <1>3, <2>3, <2>4
    <3>. QED BY <1>1, <2>2, <2>3, <3>1, <3>2, WalkOn
  <2>6. ASSUME NEW f \in File, Quietly(f) PROVE DealtWith(f)'
    <3>1. Accounted(f) => Accounted(f)'
      BY <1>1, <2>2, AccountedKept, QuietKept
    <3>2. Comes(f, copying) => Comes(f, k)
      BY <1>1, <2>3, <2>4, PlacesApart DEF Comes
    <3>. QED BY <1>1, <1>5, <2>2, <2>3, <2>6, <3>1, <3>2, WalkOn
  <2>. QED BY <1>1, <1>4, <2>2, <2>3, <2>5, <2>6, ProgressCopyingNone
<1>. QED BY <1>6, <1>7, <1>8

\* A walk and what WalkIsSound says of it.
GoodWalk(k) ==
    /\ k.folder = "top" => k.above = {}
    /\ Open(k.folder)
    /\ k.folder # "top" => k.left \subseteq File
    /\ \A f \in File : f \in k.left => Inside[f] = k.folder
    /\ \A f \in File : f \in k.above => Inside[f] = "top"

LEMMA WayIsGood ==
    ASSUME CopyIInv, OnWalk \/ InBody
    PROVE  GoodWalk(Way) /\ Way \in Walk /\ (InBody => Way.at = "walk")
BY CopyKinds DEF CopyIInv, WalkIsSound, GoodWalk

LEMMA BackOnWalk ==
    ASSUME NEW k \in Walk, copying' = k, k.at = "walk", GoodWalk(k), TreeAsItIs
    PROVE  /\ WalkIsSound' /\ FileIsSound'
           /\ \A f : DealtWith(f)' <=> Accounted(f)' \/ Comes(f, k)
BY WalkOn DEF GoodWalk

LEMMA IntoBody ==
    ASSUME NEW k \in Body, copying' = k, k.back.at = "walk", GoodWalk(k.back), TreeAsItIs
    PROVE  /\ WalkIsSound'
           /\ \A f : DealtWith(f)' <=> Accounted(f)' \/ Comes(f, k.back) \/ f = k.file
           /\ SafeInHand(k)' => FileIsSound'
<1>1. k.at \in {"same", "search", "write"}
  BY DEF Body
<1>2. ~OnWalk' /\ InBody' /\ Way' = k.back
  BY <1>1 DEF OnWalk, InBody, Way
<1>3. WalkIsSound'
  BY <1>2, QuietKept DEF WalkIsSound, GoodWalk, Open
<1>4. \A f : DealtWith(f)' <=> Accounted(f)' \/ Comes(f, k.back) \/ f = k.file
  <2>1. copying'.file = k.file /\ copying'.at # "ended"
    BY <1>1
  <2>2. \A f : Comes(f, Way)' <=> Comes(f, k.back)
    BY <1>2 DEF Comes
  <2>. QED BY <1>2, <2>1, <2>2 DEF DealtWith
<1>5. SafeInHand(k)' => FileIsSound'
  BY DEF FileIsSound, SafeInHand, Quietly, Present, Harmless
<1>. QED BY <1>3, <1>4, <1>5

LEMMA MeetSound == ASSUME CopyIInv, NEW f \in File, MeetFile(f) PROVE CopyIInv'
<1>1. /\ copying.at = "walk" /\ f \in copying.left /\ OnWalk /\ TreeAsItIs
      /\ UNCHANGED <<target, registry, runRow, aborted>>
  BY DEF MeetFile, OnWalk
<1>2. copying \in Walk /\ Way = copying /\ GoodWalk(copying)
  BY <1>1, CopyKinds, WayIsGood DEF CopyIInv
<1>3. told \in Telling /\ KnowsIdentities
  BY <1>1, RunUnderWay
<1>4. \A g \in File : Quietly(g) => Accounted(g) \/ Comes(g, copying)
  BY <1>1, <1>2, RunUnderWay DEF DealtWith, InBody
<1>5. PICK on : on = [copying EXCEPT !.left = copying.left \ {f}]
  OBVIOUS
<1>6. on \in Walk /\ on.at = "walk" /\ on.folder = copying.folder /\ on.left = copying.left \ {f} /\ on.above = copying.above
      /\ on.mode = copying.mode
  BY <1>1, <1>2, <1>5 DEF Walk
<1>7. GoodWalk(on)
  BY <1>2, <1>6 DEF GoodWalk
<1>8. on = [copying EXCEPT !.left = @ \ {f}]
  BY <1>2, <1>5 DEF Walk
<1>9. \A g \in File : Comes(g, copying) => Comes(g, on) \/ g = f
  <2>1. \A g \in File : Inside[g] # f
    BY PlacesApart DEF Place
  <2>2. copying.at # "list"
    BY <1>1
  <2>. QED BY <1>6, <2>1, <2>2 DEF Comes
<1>10. CASE f \notin Present \ hidden
  <2>1. copying' = on /\ told' = told
    BY <1>8, <1>10, Zenon DEF MeetFile, RunTurns
  <2>2. ASSUME NEW g \in File, Quietly(g) PROVE DealtWith(g)'
    <3>1. Accounted(g) => Accounted(g)'
      BY <1>1, <2>1, AccountedKept, QuietKept
    <3>2. g = f => Accounted(g)'
      BY <1>1, <1>10, <2>2, QuietKept DEF Quietly, Accounted
    <3>. QED BY <1>1, <1>4, <1>6, <1>7, <1>9, <2>1, <2>2, <3>1, <3>2, BackOnWalk
  <2>. QED BY <1>1, <1>3, <1>6, <1>7, <2>1, <2>2, BackOnWalk, ProgressCopyingNone
<1>11. CASE f \in Present \ hidden /\ tree[f].id \in registry.identities
  <2>1. PICK t : t = [told EXCEPT !.skipped = told.skipped \cup {f}]
    OBVIOUS
  <2>2. t = [told EXCEPT !.skipped = @ \cup {f}]
    BY <1>3, <2>1 DEF Telling
  <2>3. copying' = on /\ told' = t
    BY <1>8, <1>11, <2>2, Zenon DEF MeetFile, RunTurns
  <2>4. t \in Telling /\ t.copied = told.copied /\ t.skipped = told.skipped \cup {f} /\ t.failed = told.failed
    BY <1>3, <2>1 DEF Telling, SourcePath
  <2>5. ASSUME NEW g \in File, Quietly(g) PROVE DealtWith(g)'
    <3>1. Accounted(g) => Accounted(g)'
      BY <1>1, <2>3, <2>4, AccountedKept, QuietKept
    <3>2. Accounted(f)'
      BY <2>3, <2>4 DEF Accounted
    <3>. QED BY <1>1, <1>4, <1>6, <1>7, <1>9, <2>3, <2>5, <3>1, <3>2, BackOnWalk
  <2>. QED BY <1>1, <1>6, <1>7, <2>3, <2>4, <2>5, BackOnWalk, ProgressCopyingNone
<1>12. CASE f \in Present \ hidden /\ tree[f].id \notin registry.identities /\ aborted
  <2>1. copying' = [at |-> "ended", result |-> "cancelled"] /\ told' = told
    BY <1>12, Zenon DEF MeetFile, RunTurns
  <2>2. copying' \in End /\ copying'.at = "ended" /\ copying'.result = "cancelled"
    BY <2>1 DEF End, CopyState
  <2>3. WalkIsSound' /\ FileIsSound' /\ \A g \in File : DealtWith(g)'
    BY <2>2 DEF WalkIsSound, FileIsSound, DealtWith, OnWalk, InBody
  <2>. QED BY <1>1, <1>3, <2>1, <2>2, <2>3, ProgressCopyingNone
<1>13. CASE f \in Present \ hidden /\ tree[f].id \notin registry.identities /\ ~aborted
  <2>1. PICK place : place = IF copying.mode = "sync" THEN "same" ELSE "search"
    OBVIOUS
  <2>2. PICK k : k = [at |-> place, file |-> f, met |-> tree[f].has, back |-> on, mode |-> copying.mode]
    OBVIOUS
  <2>3. copying' = k /\ told' = told
    BY <1>8, <1>13, <2>1, <2>2, Zenon DEF MeetFile, RunTurns
  <2>4. tree[f].has \in Content
    BY <1>13 DEF CopyIInv, CopyTypes, Present
  <2>5. k \in Body /\ k.file = f /\ k.back = on /\ k.met = tree[f].has /\ k.at \in {"same", "search"}
    BY <1>2, <1>6, <2>1, <2>2, <2>4 DEF Body, Walk
  <2>6. Quietly(f) => Harmless(f)
    <3>1. Quietly(f) => exposed \/ Inside[f] \notin SecretFolder
      BY <1>1, <1>2 DEF GoodWalk, Open, Quietly
    <3>. QED BY <3>1, <1>3, <1>13 DEF Harmless, KnowsIdentities
  <2>7. WalkIsSound' /\ FileIsSound'
    <3>1. SafeInHand(k)'
      BY <1>1, <2>5, <2>6, QuietKept DEF SafeInHand, Harmless
    <3>. QED BY <1>1, <1>6, <1>7, <2>3, <2>5, <3>1, IntoBody
  <2>8. ASSUME NEW g \in File, Quietly(g) PROVE DealtWith(g)'
    <3>1. Accounted(g) => Accounted(g)'
      BY <1>1, <2>3, AccountedKept, QuietKept
    <3>. QED BY <1>1, <1>4, <1>6, <1>7, <1>9, <2>3, <2>5, <2>8, <3>1, IntoBody
  <2>. QED BY <1>1, <1>3, <2>3, <2>5, <2>7, <2>8, ProgressCopyingNone
<1>. QED BY <1>10, <1>11, <1>12, <1>13

\* What the body of the loop knows.
LEMMA InHand ==
    ASSUME CopyIInv, InBody
    PROVE  /\ copying \in Body /\ copying.file \in File /\ copying.met \in Content
           /\ copying.back \in Walk /\ copying.back.at = "walk" /\ GoodWalk(copying.back)
           /\ SafeInHand(copying)
           /\ \A f \in File : Quietly(f) => Accounted(f) \/ Comes(f, copying.back) \/ f = copying.file
           /\ told \in Telling /\ target \in Targets
<1>1. copying \in Body /\ Way = copying.back
  BY CopyKinds DEF CopyIInv
<1>2. copying.file \in File /\ copying.met \in Content
  BY <1>1 DEF Body
<1>. QED BY <1>1, <1>2, WayIsGood, RunUnderWay DEF CopyIInv, FileIsSound, DealtWith

LEMMA CompareSound == ASSUME CopyIInv, CompareFile PROVE CopyIInv'
<1>1. copying.at = "same" /\ InBody /\ TreeAsItIs /\ UNCHANGED <<target, registry, told, runRow, aborted>>
  BY DEF CompareFile, InBody
<1>2. PICK k : k = [copying EXCEPT !.at = "search"]
  OBVIOUS
<1>3. CASE Same(target[copying.file], copying.met)
  <2>1. copying' = copying.back
    BY <1>3 DEF CompareFile, RunTurns
  <2>2. ASSUME NEW f \in File, Quietly(f) PROVE DealtWith(f)'
    <3>1. Accounted(f) => Accounted(f)'
      BY <1>1, AccountedKept, QuietKept
    <3>2. Quietly(copying.file) => Accounted(copying.file)
      BY <1>1, <1>3, InHand DEF Accounted, SafeInHand
    <3>. QED BY <1>1, <2>1, <2>2, <3>1, <3>2, InHand, BackOnWalk
  <2>. QED BY <1>1, <2>1, <2>2, InHand, BackOnWalk, ProgressCopyingNone
<1>4. CASE ~Same(target[copying.file], copying.met)
  <2>1. copying' = k
    BY <1>4, <1>2 DEF CompareFile, RunTurns
  <2>2. k \in Body /\ k.file = copying.file /\ k.met = copying.met /\ k.back = copying.back /\ k.at = "search"
    BY <1>1, <1>2, InHand DEF Body
  <2>3. WalkIsSound' /\ FileIsSound'
    <3>1. SafeInHand(k)'
      BY <1>1, <2>2, InHand, QuietKept DEF SafeInHand, Harmless
    <3>. QED BY <1>1, <2>1, <2>2, <3>1, InHand, IntoBody
  <2>4. ASSUME NEW f \in File, Quietly(f) PROVE DealtWith(f)'
    <3>1. Accounted(f) => Accounted(f)'
      BY <1>1, AccountedKept, QuietKept
    <3>. QED BY <1>1, <2>1, <2>2, <2>4, <3>1, InHand, IntoBody
  <2>. QED BY <1>1, <2>1, <2>2, <2>3, <2>4, InHand, ProgressCopyingNone
<1>. QED BY <1>3, <1>4

LEMMA SearchSound == ASSUME CopyIInv, SearchFile PROVE CopyIInv'
<1>1. copying.at = "search" /\ InBody /\ TreeAsItIs /\ UNCHANGED <<target, registry, runRow, aborted>>
  BY DEF SearchFile, InBody
<1>2. PICK f : f = copying.file
  OBVIOUS
<1>3. PICK found \in BOOLEAN :
        found = (copying.met \in Small /\ f \in Present \ unreadable /\ tree[f].has \in registry.contents)
  OBVIOUS
<1>4. CASE found
  <2>1. PICK t : t = [told EXCEPT !.skipped = told.skipped \cup {f}]
    OBVIOUS
  <2>2. t \in Telling /\ t.copied = told.copied /\ t.skipped = told.skipped \cup {f} /\ t.failed = told.failed
    BY <1>1, <1>2, <2>1, InHand DEF Telling, SourcePath
  <2>3. copying' = copying.back /\ told' = t
    BY <1>2, <1>3, <1>4, <2>1 DEF SearchFile, RunTurns
  <2>4. ASSUME NEW g \in File, Quietly(g) PROVE DealtWith(g)'
    <3>1. Accounted(g) => Accounted(g)'
      BY <1>1, <2>2, <2>3, AccountedKept, QuietKept
    <3>2. Accounted(f)'
      BY <2>2, <2>3 DEF Accounted
    <3>. QED BY <1>1, <1>2, <2>3, <2>4, <3>1, <3>2, InHand, BackOnWalk
  <2>. QED BY <1>1, <2>2, <2>3, <2>4, InHand, BackOnWalk, ProgressCopyingNone
<1>5. CASE ~found
  <2>1. PICK k : k = [copying EXCEPT !.at = "write"]
    OBVIOUS
  <2>2. copying' = k /\ told' = told
    BY <1>2, <1>3, <1>5, <2>1 DEF SearchFile, RunTurns
  <2>3. k \in Body /\ k.file = f /\ k.met = copying.met /\ k.back = copying.back /\ k.at = "write"
    BY <1>1, <1>2, <2>1, InHand DEF Body
  <2>4. Quietly(f) /\ copying.met \in Small /\ f \notin unreadable => copying.met \notin registry.contents
    BY <1>1, <1>2, <1>3, <1>5, InHand DEF Quietly, SafeInHand
  <2>5. WalkIsSound' /\ FileIsSound'
    <3>1. SafeInHand(k)'
      BY <1>1, <1>2, <2>3, <2>4, InHand, QuietKept DEF SafeInHand, Harmless
    <3>. QED BY <1>1, <2>2, <2>3, <3>1, InHand, IntoBody
  <2>6. ASSUME NEW g \in File, Quietly(g) PROVE DealtWith(g)'
    <3>1. Accounted(g) => Accounted(g)'
      BY <1>1, <2>2, AccountedKept, QuietKept
    <3>. QED BY <1>1, <1>2, <2>2, <2>3, <2>6, <3>1, InHand, IntoBody
  <2>. QED BY <1>1, <2>2, <2>3, <2>5, <2>6, InHand, ProgressCopyingNone
<1>. QED BY <1>4, <1>5

\* What the destination is given is not what a secret file holds.
LEMMA WriteSound == ASSUME CopyIInv, NEW timed \in BOOLEAN, WriteCopy(timed) PROVE CopyIInv'
<1>1. PICK f \in File : f = copying.file
  BY InHand DEF WriteCopy, InBody
<1>2. copying.at = "write" /\ InBody /\ TreeAsItIs /\ UNCHANGED <<registry, runRow, aborted>> /\ f \in Present \ unreadable
  BY <1>1 DEF WriteCopy, InBody
<1>3. PICK t : t = [told EXCEPT !.copied = told.copied \cup {f}]
  OBVIOUS
<1>4. t \in Telling /\ t.copied = told.copied \cup {f} /\ t.skipped = told.skipped /\ t.failed = told.failed
  BY <1>2, <1>3, InHand DEF Telling
<1>5. PICK e : e = [size |-> SizeOf[tree[f].has], has |-> tree[f].has, time |-> IF timed THEN TimeOf[copying.met] ELSE 0]
  OBVIOUS
<1>6. e \in [size : Nat, time : Nat, has : Content \cup {"nothing"}] /\ e.has = tree[f].has
  <2>1. tree[f].has \in Content
    BY <1>2 DEF CopyIInv, CopyTypes, Present
  <2>2. SizeOf[tree[f].has] \in Nat /\ TimeOf[copying.met] \in Nat
    BY <1>2, <2>1, InHand, CopyConstantsOK
  <2>. QED BY <1>5, <2>1, <2>2
<1>7. target' = [target EXCEPT ![f] = e] /\ told' = t /\ copying' = copying.back
  BY <1>1, <1>2, <1>3, <1>4, <1>5 DEF WriteCopy, RunTurns
<1>8. target \in Targets
  BY <1>2, InHand
<1>9. target' \in Targets /\ target'[f].has = tree[f].has /\ \A g \in File \ {f} : target'[g] = target[g]
  BY <1>6, <1>7, <1>8 DEF Targets
<1>10. ASSUME NEW g \in File, Quietly(g) PROVE DealtWith(g)'
  <2>1. g # f /\ Accounted(g) => Accounted(g)'
    BY <1>2, <1>4, <1>7, <1>9, AccountedKept, QuietKept
  <2>2. Accounted(f)'
    BY <1>2, <1>9, QuietKept DEF Accounted
  <2>. QED BY <1>1, <1>2, <1>7, <1>10, <2>1, <2>2, InHand, BackOnWalk
<1>11. CopiesAreSound'
  <2>1. copying'.at \notin {"identities", "contents", "switch"}
    BY <1>2, <1>7, InHand
  <2>2. Quietly(f) => Harmless(f) /\ (tree[f].has \in Small => tree[f].has \notin registry.contents)
    BY <1>1, <1>2, InHand DEF SafeInHand
  <2>3. \A g \in told.copied : Quietly(g) => Harmless(g) /\ (tree[g].has \in Small => tree[g].has \notin registry.contents)
    BY <1>2, RunUnderWay DEF CopyIInv, CopiesAreSound
  <2>. QED BY <1>2, <1>4, <1>7, <2>1, <2>2, <2>3, QuietKept DEF CopiesAreSound, Harmless
<1>12. WalkIsSound' /\ FileIsSound'
  BY <1>2, <1>7, InHand, BackOnWalk
<1>. QED BY <1>2, <1>4, <1>7, <1>9, <1>10, <1>11, <1>12, InHand, Progress

LEMMA FailSound == ASSUME CopyIInv, NEW lost \in BOOLEAN, FailCopy(lost) PROVE CopyIInv'
<1>1. PICK f \in File : f = copying.file
  BY InHand DEF FailCopy, InBody
<1>2. copying.at = "write" /\ InBody /\ TreeAsItIs /\ UNCHANGED <<registry, runRow, aborted>>
  BY <1>1 DEF FailCopy, InBody
<1>3. PICK t : t = [told EXCEPT !.failed = told.failed \cup {f}]
  OBVIOUS
<1>4. t \in Telling /\ t.copied = told.copied /\ t.skipped = told.skipped /\ t.failed = told.failed \cup {f}
  BY <1>2, <1>3, InHand DEF Telling
<1>5. target \in Targets
  BY <1>2, InHand
<1>6. PICK e : e = IF lost THEN NotThere ELSE target[f]
  OBVIOUS
<1>7. e \in [size : Nat, time : Nat, has : Content \cup {"nothing"}]
  BY <1>5, <1>6 DEF Targets, NotThere
<1>8. target' = [target EXCEPT ![f] = e] /\ told' = t /\ copying' = copying.back
  BY <1>1, <1>2, <1>3, <1>4, <1>5, <1>6 DEF FailCopy, RunTurns, Targets
<1>9. target' \in Targets /\ \A g \in File \ {f} : target'[g] = target[g]
  BY <1>5, <1>7, <1>8 DEF Targets
<1>10. ASSUME NEW g \in File, Quietly(g) PROVE DealtWith(g)'
  <2>1. g # f /\ Accounted(g) => Accounted(g)'
    BY <1>2, <1>4, <1>8, <1>9, AccountedKept, QuietKept
  <2>2. Accounted(f)'
    BY <1>4, <1>8 DEF Accounted
  <2>. QED BY <1>1, <1>2, <1>8, <1>10, <2>1, <2>2, InHand, BackOnWalk
<1>11. CopiesAreSound'
  <2>1. copying'.at \notin {"identities", "contents", "switch"}
    BY <1>2, <1>8, InHand
  <2>. QED BY <1>2, <1>4, <1>8, <2>1, RunUnderWay, CopiesKept DEF CopyIInv
<1>12. WalkIsSound' /\ FileIsSound'
  BY <1>2, <1>8, InHand, BackOnWalk
<1>. QED BY <1>2, <1>4, <1>8, <1>9, <1>10, <1>11, <1>12, InHand, Progress

-----------------------------------------------------------------------------
(* Before the walk, and after it. *)

LEMMA StartSound == ASSUME CopyIInv, NEW mode \in CopyMode, StartCopy(mode) PROVE CopyIInv'
<1>1. PICK k : k = [at |-> "identities", mode |-> mode]
  OBVIOUS
<1>2. copying' = k /\ told' = Untold /\ disturbed' = {} /\ runRow' = "none" /\ exposed' = ~exclusion
      /\ UNCHANGED <<tree, unreadable, hidden, exclusion, registry, aborted>>
  BY <1>1 DEF StartCopy, RunTurns
<1>3. k \in Start /\ k.at = "identities"
  BY <1>1 DEF Start
<1>4. target' \in Targets
  <2>1. target \in Targets
    BY DEF CopyIInv, CopyTypes, CopyTypeOK, Targets
  <2>2. NotThere \in [size : Nat, time : Nat, has : Content \cup {"nothing"}]
    BY DEF NotThere
  <2>. QED BY <2>1, <2>2 DEF StartCopy, Targets
<1>5. Untold \in Telling
  BY DEF Untold, Telling
<1>e. exposed' \in BOOLEAN /\ (exclusion' \/ exposed')
  BY <1>2 DEF CopyIInv, CopyTypes, CopyTypeOK
<1>6. CopyTypes'
  BY <1>2, <1>3, <1>4, <1>5, <1>e DEF CopyIInv, CopyTypes, CopyTypeOK, Telling, Targets
<1>7. RegistryKnows' /\ WalkIsSound' /\ FileIsSound'
  BY <1>2, <1>3, <1>e DEF RegistryKnows, WalkIsSound, FileIsSound, OnWalk, InBody
<1>8. CopiesAreSound'
  BY <1>2, <1>3 DEF CopiesAreSound, Untold
<1>9. NoneIsLeftOut' /\ RowIsSettled'
  BY <1>2, <1>3 DEF NoneIsLeftOut, RowIsSettled, OnWalk, InBody
<1>. QED BY <1>6, <1>7, <1>8, <1>9 DEF CopyIInv

LEMMA IdentitiesSound == ASSUME CopyIInv, LoadIdentities PROVE CopyIInv'
<1>1. copying.at = "identities" /\ copying \in Start /\ TreeAsItIs /\ UNCHANGED <<target, told, runRow, aborted>>
  BY CopyKinds DEF LoadIdentities, CopyIInv
<1>2. PICK k : k = [copying EXCEPT !.at = "contents"]
  OBVIOUS
<1>3. copying' = k /\ k \in Start /\ k.at = "contents"
  BY <1>1, <1>2 DEF LoadIdentities, RunTurns, Start
<1>4. registry' = [registry EXCEPT !.identities = Identities]
  BY DEF LoadIdentities
<1>5. Identities \subseteq Ident \cup SecretFolder
  <2>1. \A f \in Present : tree[f].id \in Ident
    BY DEF CopyIInv, CopyTypes, Present
  <2>. QED BY <2>1 DEF Identities
<1>6. CopyTypes'
  <2>1. registry'.identities \subseteq Ident \cup SecretFolder /\ registry'.contents \subseteq Content
    BY <1>4, <1>5 DEF CopyIInv, CopyTypes, CopyTypeOK
  <2>. QED BY <2>1, <1>1, <1>3 DEF CopyIInv, CopyTypes, CopyTypeOK, TreeAsItIs
<1>7. RegistryKnows'
  <2>1. registry'.identities = Identities
    BY <1>4 DEF CopyIInv, CopyTypes, CopyTypeOK
  <2>2. /\ SecretFolder \ hidden \subseteq Identities
        /\ \A s \in SecretPath : Quietly(s) /\ s \notin hidden => tree[s].id \in Identities
    BY DEF Identities, Quietly
  <2>3. KnowsIdentities'
    BY <1>1, <2>1, <2>2, QuietKept DEF KnowsIdentities
  <2>4. exclusion \/ exposed
    BY <1>1 DEF CopyIInv, RegistryKnows, NoRun
  <2>. QED BY <1>1, <1>3, <2>3, <2>4, QuietKept DEF RegistryKnows
<1>8. WalkIsSound' /\ FileIsSound'
  BY <1>3 DEF WalkIsSound, FileIsSound, OnWalk, InBody
<1>9. CopiesAreSound'
  BY <1>1, <1>3 DEF CopyIInv, CopiesAreSound, Untold
<1>10. runRow # "done"
  BY <1>1 DEF CopyIInv, RowIsSettled, NoRun
<1>11. NoneIsLeftOut' /\ RowIsSettled'
  BY <1>1, <1>3, <1>10 DEF NoneIsLeftOut, RowIsSettled, OnWalk, InBody
<1>. QED BY <1>6, <1>7, <1>8, <1>9, <1>11 DEF CopyIInv

LEMMA ContentsSound == ASSUME CopyIInv, LoadContents PROVE CopyIInv'
<1>1. copying.at = "contents" /\ copying \in Start /\ TreeAsItIs /\ UNCHANGED <<target, told, runRow, aborted>>
  BY CopyKinds DEF LoadContents, CopyIInv
<1>2. PICK k : k = [copying EXCEPT !.at = "switch"]
  OBVIOUS
<1>3. copying' = k /\ k \in Start /\ k.at = "switch"
  BY <1>1, <1>2 DEF LoadContents, RunTurns, Start
<1>4. registry' = [registry EXCEPT !.contents = Contents]
  BY DEF LoadContents
<1>5. Contents \subseteq Content
  BY CopyConstantsOK DEF Contents
<1>6. CopyTypes'
  <2>1. registry'.identities \subseteq Ident \cup SecretFolder /\ registry'.contents \subseteq Content
    BY <1>4, <1>5 DEF CopyIInv, CopyTypes, CopyTypeOK
  <2>. QED BY <2>1, <1>1, <1>3 DEF CopyIInv, CopyTypes, CopyTypeOK, TreeAsItIs
<1>7. RegistryKnows'
  <2>1. KnowsIdentities'
    <3>1. KnowsIdentities
      BY <1>1 DEF CopyIInv, RegistryKnows
    <3>2. registry'.identities = registry.identities
      BY <1>4
    <3>. QED BY <3>1, <3>2, <1>1, QuietKept DEF KnowsIdentities
  <2>2. KnowsContents'
    <3>1. \A s \in SecretPath : KnownSecret(s) => tree[s].has \in Contents
      BY DEF KnownSecret, Contents, Quietly
    <3>2. registry'.contents = Contents \/ registry' = registry
      BY <1>4
    <3>3. "contents" \in DOMAIN registry => registry'.contents = Contents
      BY <1>4
    <3>. QED BY <3>1, <3>2, <3>3, <1>1, <1>4, QuietKept DEF KnowsContents
  <2>3. exclusion \/ exposed
    BY <1>1 DEF CopyIInv, RegistryKnows, NoRun
  <2>. QED BY <1>1, <1>3, <2>1, <2>2, <2>3, QuietKept DEF RegistryKnows
<1>8. WalkIsSound' /\ FileIsSound'
  BY <1>3 DEF WalkIsSound, FileIsSound, OnWalk, InBody
<1>9. CopiesAreSound'
  BY <1>1, <1>3 DEF CopyIInv, CopiesAreSound, Untold
<1>10. runRow # "done"
  BY <1>1 DEF CopyIInv, RowIsSettled, NoRun
<1>11. NoneIsLeftOut' /\ RowIsSettled'
  BY <1>1, <1>3, <1>10 DEF NoneIsLeftOut, RowIsSettled, OnWalk, InBody
<1>. QED BY <1>6, <1>7, <1>8, <1>9, <1>11 DEF CopyIInv

\* The walk begins at the top of the source, with everything still to come,
\* and with a registry that is whole unless the switch was off.
LEMMA ExclusionSound == ASSUME CopyIInv, AskExclusion PROVE CopyIInv'
<1>1. copying.at = "switch" /\ copying \in Start /\ TreeAsItIs /\ UNCHANGED <<target, told, aborted>>
  BY CopyKinds DEF AskExclusion, CopyIInv
<1>2. PICK k : k = [at |-> "list", mode |-> copying.mode, folder |-> "top", left |-> {}, above |-> {}]
  OBVIOUS
<1>3. copying' = k /\ runRow' = "running"
  BY <1>2 DEF AskExclusion, RunTurns
<1>4. k \in Walk /\ k.at = "list" /\ k.folder = "top" /\ k.left = {} /\ k.above = {}
  BY <1>1, <1>2 DEF Walk, Start, Place
<1>5. registry' = NoRegistry \/ registry' = registry
  BY DEF AskExclusion
<1>6. exclusion => registry' = registry
  BY DEF AskExclusion
<1>7. CopyTypes'
  <2>1. registry'.identities \subseteq Ident \cup SecretFolder /\ registry'.contents \subseteq Content
    BY <1>5 DEF CopyIInv, CopyTypes, CopyTypeOK, NoRegistry
  <2>2. copying'.at \in {"off", "identities", "contents", "switch", "list", "walk", "same", "search", "write", "ended"}
    BY <1>3, <1>4
  <2>3. runRow' \in {"none", "running", "interrupted"} \cup CopyState
    BY <1>3
  <2>. QED BY <2>1, <2>2, <2>3, <1>1, <1>3, <1>4 DEF CopyIInv, CopyTypes, CopyTypeOK, TreeAsItIs
<1>8. RegistryKnows'
  <2>1. KnowsIdentities /\ KnowsContents /\ (exclusion \/ exposed)
    BY <1>1 DEF CopyIInv, RegistryKnows, NoRun
  <2>2. CASE exposed
    <3>1. exposed'
      BY <1>1, <2>2, QuietKept
    <3>. QED BY <3>1 DEF RegistryKnows, KnowsIdentities, KnowsContents
  <2>3. CASE exclusion
    <3>1. KnowsIdentities'
      BY <1>1, <1>6, <2>1, <2>3, QuietKept DEF KnowsIdentities
    <3>2. KnowsContents'
      BY <1>1, <1>6, <2>1, <2>3, QuietKept DEF KnowsContents
    <3>. QED BY <3>1, <3>2, <1>1, <2>3, QuietKept DEF RegistryKnows
  <2>. QED BY <2>1, <2>2, <2>3
<1>9. WalkIsSound' /\ FileIsSound'
  <2>1. Open("top")
    BY CopyConstantsOK DEF Open
  <2>. QED BY <1>1, <1>3, <1>4, <2>1, WalkOn
<1>10. CopiesAreSound'
  BY <1>1, <1>3, <1>4 DEF CopyIInv, CopiesAreSound, Untold
<1>11. NoneIsLeftOut' /\ RowIsSettled'
  <2>1. \A f \in File : Comes(f, k)
    BY <1>4 DEF Comes
  <2>2. \A f \in File : DealtWith(f)'
    BY <1>1, <1>3, <1>4, <2>1, WalkOn
  <2>. QED BY <1>3, <2>2 DEF NoneIsLeftOut, RowIsSettled, DealtWith
<1>. QED BY <1>7, <1>8, <1>9, <1>10, <1>11 DEF CopyIInv

\* The switch says nothing about what a run has done so far, but that its
\* secrets may not be kept.
LEMMA SwitchSound == ASSUME CopyIInv, NEW on \in BOOLEAN, SetExclusion(on) PROVE CopyIInv'
<1>1. /\ exclusion' = on /\ exposed' = (exposed \/ ~on)
      /\ UNCHANGED <<tree, unreadable, hidden, disturbed, target, registry, copying, told, runRow, aborted>>
  BY DEF SetExclusion
<1>2. CopyTypes'
  BY <1>1 DEF CopyIInv, CopyTypes, CopyTypeOK
<1>3. exposed => exposed'
  BY <1>1
<1>4. RegistryKnows'
  <2>1. KnowsIdentities => KnowsIdentities'
    BY <1>1, <1>3 DEF KnowsIdentities, Quietly, Present
  <2>2. KnowsContents => KnowsContents'
    BY <1>1, <1>3 DEF KnowsContents, KnownSecret, Quietly, Present
  <2>3. exclusion' \/ exposed'
    BY <1>1
  <2>. QED BY <1>1, <2>1, <2>2, <2>3 DEF CopyIInv, RegistryKnows
<1>5. WalkIsSound' /\ RowIsSettled'
  BY <1>1, <1>3 DEF CopyIInv, WalkIsSound, RowIsSettled, OnWalk, InBody, Way, Open
<1>6. FileIsSound' /\ CopiesAreSound'
  BY <1>1, <1>3 DEF CopyIInv, FileIsSound, CopiesAreSound, SafeInHand, Harmless, InBody, Quietly, Present
<1>7. NoneIsLeftOut'
  BY <1>1 DEF CopyIInv, NoneIsLeftOut, Accounted, Comes, Quietly, Present, OnWalk, InBody, Way, Same
<1>. QED BY <1>2, <1>4, <1>5, <1>6, <1>7 DEF CopyIInv

LEMMA CancelSound == ASSUME CopyIInv, CancelCopy PROVE CopyIInv'
<1>1. TreeAsItIs /\ UNCHANGED <<target, registry, copying, told, runRow>> /\ aborted' = TRUE
  BY DEF CancelCopy
<1>2. UNCHANGED <<tree, unreadable, hidden, exclusion, disturbed, exposed, target, registry, copying, told, runRow>>
  BY <1>1 DEF TreeAsItIs
<1>3. CopyTypes'
  BY <1>1, <1>2 DEF CopyIInv, CopyTypes, CopyTypeOK
<1>4. RegistryKnows' /\ CopiesAreSound' /\ RowIsSettled' /\ WalkIsSound' /\ FileIsSound'
  BY <1>2 DEF CopyIInv, RegistryKnows, CopiesAreSound, RowIsSettled, WalkIsSound, FileIsSound, KnowsIdentities, KnowsContents,
              KnownSecret, Quietly, Present, SafeInHand, Harmless, Open, OnWalk, InBody, Way
<1>5. NoneIsLeftOut'
  BY <1>2 DEF CopyIInv, NoneIsLeftOut, Accounted, Comes, Quietly, Present, OnWalk, InBody, Way, Same
<1>. QED BY <1>3, <1>4, <1>5 DEF CopyIInv

\* A run that is over leaves the report and the row behind.
LEMMA OverSound ==
    ASSUME CopyIInv, TreeAsItIs, UNCHANGED <<target, told>>, copying' = NoRun, registry' = NoRegistry, aborted' = FALSE,
           runRow' \in {"none", "running", "interrupted"} \cup CopyState,
           runRow' = "done" => runRow = "done" \/ (copying.at = "ended" /\ copying.result = "done")
    PROVE  CopyIInv'
<1>1. CopyTypes'
  BY DEF CopyIInv, CopyTypes, CopyTypeOK, TreeAsItIs, NoRun, NoRegistry
<1>2. RegistryKnows' /\ CopiesAreSound' /\ WalkIsSound' /\ FileIsSound' /\ RowIsSettled'
  BY DEF RegistryKnows, CopiesAreSound, WalkIsSound, FileIsSound, RowIsSettled, OnWalk, InBody, NoRun
<1>3. NoneIsLeftOut'
  <2>. SUFFICES ASSUME NEW f \in File, Quietly(f)', runRow' = "done"
                PROVE  Accounted(f)'
    BY DEF NoneIsLeftOut, OnWalk, InBody, NoRun
  <2>1. Quietly(f)
    BY QuietKept
  <2>2. Accounted(f)
    BY <2>1 DEF CopyIInv, NoneIsLeftOut
  <2>. QED BY <2>2, AccountedKept, QuietKept
<1>. QED BY <1>1, <1>2, <1>3 DEF CopyIInv

LEMMA SettleSound == ASSUME CopyIInv, SettleCopy PROVE CopyIInv'
<1>1. copying.at = "ended" /\ copying.result \in CopyState
  BY CopyKinds DEF SettleCopy, CopyIInv, End
<1>. QED BY <1>1, OverSound DEF SettleCopy, Settled, RunTurns, CopyState

LEMMA RestartSound == ASSUME CopyIInv, RestartCopying PROVE CopyIInv'
<1>1. runRow \in {"none", "running", "interrupted"} \cup CopyState
  BY DEF CopyIInv, CopyTypes, CopyTypeOK
<1>. QED BY <1>1, OverSound DEF RestartCopying, RunTurns

LEMMA CopyStart == CopyInit => CopyIInv
<1>. SUFFICES ASSUME CopyInit PROVE CopyIInv
  OBVIOUS
<1>1. CopyTypes
  BY DEF CopyInit, CopyTypes, CopyTypeOK, NotThere, NoRun, NoRegistry, Untold
<1>. QED BY <1>1 DEF CopyInit, CopyIInv, RegistryKnows, WalkIsSound, FileIsSound, CopiesAreSound, NoneIsLeftOut, RowIsSettled,
                     OnWalk, InBody, NoRun

LEMMA CopyInvariant == CopySpec => []CopyIInv
<1>1. CopyIInv /\ [CopyNext]_copyVars => CopyIInv'
  <2>. SUFFICES ASSUME CopyIInv, [CopyNext]_copyVars PROVE CopyIInv'
    OBVIOUS
  <2>1. CASE CopySteps
    BY <2>1, StartSound, IdentitiesSound, ContentsSound, ExclusionSound, RefuseSound, ListSound, LeaveSound, FinishSound, EnterSound, MeetSound,
       CompareSound, SearchSound, WriteSound, FailSound, CancelSound, SettleSound, RestartSound DEF CopySteps, CopyMode
  <2>2. CASE TreeSteps
    BY <2>2, TreeSound
  <2>3. CASE UNCHANGED copyVars
    <3>1. UNCHANGED <<tree, unreadable, hidden, exclusion, target, registry, copying, told, runRow, aborted, disturbed, exposed>>
      BY <2>3 DEF copyVars
    <3>2. CopyTypes'
      BY <3>1 DEF CopyIInv, CopyTypes, CopyTypeOK
    <3>3. RegistryKnows' /\ CopiesAreSound' /\ RowIsSettled' /\ WalkIsSound' /\ FileIsSound'
      BY <3>1 DEF CopyIInv, RegistryKnows, CopiesAreSound, RowIsSettled, WalkIsSound, FileIsSound, KnowsIdentities, KnowsContents,
                  KnownSecret, Quietly, Present, SafeInHand, Harmless, Open, OnWalk, InBody, Way
    <3>4. NoneIsLeftOut'
      BY <3>1 DEF CopyIInv, NoneIsLeftOut, Accounted, Comes, Quietly, Present, OnWalk, InBody, Way, Same
    <3>. QED BY <3>2, <3>3, <3>4 DEF CopyIInv
  <2>4. CASE \E on \in BOOLEAN : SetExclusion(on)
    BY <2>4, SwitchSound
  <2>. QED BY <2>1, <2>2, <2>3, <2>4 DEF CopyNext
<1>. QED BY <1>1, CopyStart, PTL DEF CopySpec

(***************************************************************************)
(* Whatever the tree does meanwhile, however runs are cancelled, refused,  *)
(* cut off by a restart or begun one after the other, a run during which   *)
(* JonDash's own data was excluded all the while never copies a secret     *)
(* file, nor a small file with the content of one that could be looked at  *)
(* (SecretRegistry in secrets.ts, asked by walkFiles and runCopy, and      *)
(* emptied by activeRegistry in api.ts when the exclusion is off).         *)
(***************************************************************************)
THEOREM SecretsStayAlways == CopySpec => []SecretsStay
<1>1. CopyIInv => SecretsStay
  <2>. SUFFICES ASSUME CopyIInv, copying # NoRun, ~exposed, NEW f \in told.copied, Quietly(f)
                PROVE  /\ f \notin SecretPath
                       /\ Inside[f] \notin SecretFolder
                       /\ \A s \in SecretPath :
                             Quietly(s) /\ s \notin unreadable \cup hidden /\ tree[s].has \in Small =>
                                tree[f].has # tree[s].has
    BY DEF SecretsStay
  <2>1. Harmless(f) /\ (tree[f].has \in Small => tree[f].has \notin registry.contents)
    BY DEF CopyIInv, CopiesAreSound
  <2>2. copying.at \notin {"identities", "contents", "switch"}
    BY DEF CopyIInv, CopiesAreSound, Untold
  <2>3. KnowsContents
    BY <2>2, CopyKinds DEF CopyIInv, RegistryKnows, CopyTypes, CopyTypeOK
  <2>. QED BY <2>1, <2>3 DEF Harmless, KnowsContents, KnownSecret
<1>. QED BY <1>1, CopyInvariant, PTL

(***************************************************************************)
(* A run whose row says done left out no file that was there and left      *)
(* alone all the while (runCopy and start: report and row): it is at the   *)
(* destination, or the report names it, its folder or the whole source, or *)
(* it, or its folder, could not be looked at.                              *)
(***************************************************************************)
THEOREM DoneMeansAccountedForAlways == CopySpec => []DoneMeansAccountedFor
<1>1. CopyIInv => DoneMeansAccountedFor
  BY DEF CopyIInv, NoneIsLeftOut, Accounted, DoneMeansAccountedFor
<1>. QED BY <1>1, CopyInvariant, PTL
==============================================================================
