-------------------------- MODULE BleScanProxProofs --------------------------
(***************************************************************************)
(* Theorems about the proximity scanner (BleScanProx), for any table, tags *)
(* and kinds, any number of repeats, and any space in the uplink set.      *)
(*                                                                         *)
(* A list is told of from the first entries of a set of them; how many     *)
(* plays no part here.  The beacons are picked by a recursive function,    *)
(* slot by slot; that it picks the best of those in the first n slots is   *)
(* shown by induction on n (Recursion).                                    *)
(***************************************************************************)
EXTENDS BleScanProx, FiniteSetTheorems, SequenceTheorems, Recursion, TLAPS

\* What ProxTypeOK says of the table.
TableOK ==
  /\ proxList \in [ProxSlots -> Entry]
  /\ \A i, j \in ProxSlots : proxList[i].tag = proxList[j].tag =>
                               i = j \/ proxList[i].tag = NoCard

IInv == ProxTypeOK /\ KnownWasTold

----------------------------------------------------------------------------
(* The operators on one entry. *)

LEMMA FreedEntry ==
  ASSUME ProxAssumption, NEW e, e.cnt \in 0 .. nbULRepeats
  PROVE  Freed(e) \in Entry /\ Freed(e).tag = NoCard
  BY DEF Freed, Entry

LEMMA AnnouncedEntry ==
  ASSUME ProxAssumption, NEW e \in Entry
  PROVE  Announced(e) \in Entry /\ Announced(e).tag = e.tag
<1>1. nbULRepeats \in Nat /\ e.cnt \in Nat /\ e.cnt <= nbULRepeats
  BY DEF ProxAssumption, Entry
<1>2. CASE e.cnt + 1 > nbULRepeats
  <2>1. Announced(e) = [e EXCEPT !.new = FALSE, !.cnt = 0]
    BY <1>2 DEF Announced
  <2>2. [e EXCEPT !.new = FALSE] \in Entry
    BY DEF Entry
  <2>3. 0 \in 0 .. nbULRepeats
    BY <1>1
  <2>4. [[e EXCEPT !.new = FALSE] EXCEPT !.cnt = 0] \in Entry
    BY <2>2, <2>3 DEF Entry
  <2>5. [e EXCEPT !.new = FALSE, !.cnt = 0] = [[e EXCEPT !.new = FALSE] EXCEPT !.cnt = 0]
    OBVIOUS
  <2>6. Announced(e).tag = e.tag
    BY <2>1 DEF Entry
  <2> QED
    BY <2>1, <2>4, <2>5, <2>6
<1>3. CASE ~(e.cnt + 1 > nbULRepeats)
  <2>1. Announced(e) = [e EXCEPT !.cnt = @ + 1]
    BY <1>3 DEF Announced
  <2>2. e.cnt + 1 \in 0 .. nbULRepeats
    BY <1>1, <1>3
  <2> QED
    BY <2>1, <2>2 DEF Entry
<1> QED
  BY <1>2, <1>3

LEMMA EndedEntry ==
  ASSUME ProxAssumption, NEW e \in Entry
  PROVE  /\ Ended(e) \in Entry
         /\ Ended(e).tag = NoCard \/ (Ended(e).tag = e.tag /\ Ended(e).new = e.new)
<1>1. nbULRepeats \in Nat /\ e.cnt \in Nat /\ e.cnt <= nbULRepeats
  BY DEF ProxAssumption, Entry
<1>2. CASE e.cnt + 1 > nbULRepeats
  <2>1. Ended(e) = Freed([e EXCEPT !.cnt = 0])
    BY <1>2 DEF Ended
  <2>2. [e EXCEPT !.cnt = 0].cnt \in 0 .. nbULRepeats
    BY <1>1 DEF Entry
  <2> QED
    BY <2>1, <2>2, FreedEntry
<1>3. CASE ~(e.cnt + 1 > nbULRepeats)
  <2>1. Ended(e) = [e EXCEPT !.cnt = @ + 1]
    BY <1>3 DEF Ended
  <2>2. e.cnt + 1 \in 0 .. nbULRepeats
    BY <1>1, <1>3
  <2> QED
    BY <2>1, <2>2 DEF Entry
<1> QED
  BY <1>2, <1>3

(* What getData makes of an entry: it is freed, when dropped or told of as  *)
(* over, or keeps its tag; and it stays new unless it was told of as begun. *)
LEMMA AfterEntry ==
  ASSUME ProxAssumption, TableOK, NEW i \in ProxSlots, NEW entered, NEW exited
  PROVE  /\ After(i, entered, exited) \in Entry
         /\ \/ After(i, entered, exited).tag = NoCard /\ (i \in ProxDropped \/ i \in exited)
            \/ /\ After(i, entered, exited).tag = proxList[i].tag
               /\ i \in entered \/ After(i, entered, exited).new = proxList[i].new
<1> DEFINE a == IF i \in entered THEN Announced(proxList[i]) ELSE proxList[i]
<1>1. proxList[i] \in Entry
  BY DEF TableOK
<1>2. /\ a \in Entry /\ a.tag = proxList[i].tag
      /\ i \in entered \/ a.new = proxList[i].new
  BY <1>1, AnnouncedEntry
<1>3. After(i, entered, exited)
        = IF i \in ProxDropped THEN Freed(proxList[i]) ELSE IF i \in exited THEN Ended(a) ELSE a
  BY DEF After
<1> HIDE DEF a
<1>4. CASE i \in ProxDropped
  <2>1. proxList[i].cnt \in 0 .. nbULRepeats
    BY <1>1 DEF Entry
  <2> QED
    BY <1>3, <1>4, <2>1, FreedEntry
<1>5. CASE i \notin ProxDropped /\ i \in exited
  <2>1. After(i, entered, exited) = Ended(a)
    BY <1>3, <1>5
  <2>2. /\ Ended(a) \in Entry
        /\ Ended(a).tag = NoCard \/ (Ended(a).tag = a.tag /\ Ended(a).new = a.new)
    BY <1>2, EndedEntry
  <2> QED
    BY <1>2, <1>5, <2>1, <2>2
<1>6. CASE i \notin ProxDropped /\ i \notin exited
  BY <1>2, <1>3, <1>6
<1> QED
  BY <1>4, <1>5, <1>6

----------------------------------------------------------------------------
(* The steps. *)

LEMMA FirstOfSubset ==
  ASSUME NEW S, NEW n
  PROVE  FirstOf(S, n) \subseteq S
  BY DEF FirstOf

LEMMA TypeOKIs == ProxTypeOK => TableOK
  BY DEF ProxTypeOK, TableOK

LEMMA TagsOfTags ==
  ASSUME TableOK, NEW S \in SUBSET ProxActive
  PROVE  CardsIn(S) \subseteq Cards
  BY DEF TableOK, CardsIn, ProxActive, Entry

(* What getData does to the state the properties speak of. *)
LEMMA GetDataTells ==
  ASSUME ProxGetData
  PROVE  \E entered \in SUBSET Beginning : \E exited \in SUBSET Ending :
           /\ proxList' = [i \in ProxSlots |-> After(i, entered, exited)]
           /\ proxReport'.enters = CardsIn(entered) /\ proxReport'.exits = CardsIn(exited)
           /\ begun' = (begun \cup CardsIn(entered))
                         \ {proxList[i].tag : i \in {j \in ProxSlots : proxList'[j].tag = NoCard}}
<1>1. PICK u \in Fills : ProxGetDataFrom(u)
  BY DEF ProxGetData
<1> DEFINE nav == NavBest[PROX_MAX_TRACKED]
           c == Added(Added(u, NAV_UL_SZ * Len(nav)), PROX_COUNT_UL_SZ)
           e == Pack(c, nbContactNew, Cardinality(Beginning), PROX_ENTER_UL_SZ)
           x == Pack(e.u, nbContactEnd, Cardinality(Ending), PROX_EXIT_UL_SZ)
           entered == FirstOf(Beginning, e.reserved)
           exited  == FirstOf(Ending, x.reserved)
<1>2. entered \in SUBSET Beginning /\ exited \in SUBSET Ending
  BY FirstOfSubset
<1>3. /\ proxList' = [i \in ProxSlots |-> After(i, entered, exited)]
      /\ proxReport' = [nav |-> nav, enters |-> CardsIn(entered), exits |-> CardsIn(exited)]
      /\ begun' = (begun \cup CardsIn(entered))
                    \ {proxList[i].tag : i \in {j \in ProxSlots : proxList'[j].tag = NoCard}}
  BY <1>1 DEF ProxGetDataFrom
<1> HIDE DEF entered, exited, nav
<1>4. proxReport'.enters = CardsIn(entered) /\ proxReport'.exits = CardsIn(exited)
  BY <1>3
<1> QED
  BY <1>2, <1>3, <1>4

LEMMA GetDataInv ==
  ASSUME ProxAssumption, IInv, ProxGetData
  PROVE  IInv'
<1>1. TableOK
  BY TypeOKIs DEF IInv
<1>2. PICK entered \in SUBSET Beginning : \E exited \in SUBSET Ending :
           /\ proxList' = [i \in ProxSlots |-> After(i, entered, exited)]
           /\ proxReport'.enters = CardsIn(entered) /\ proxReport'.exits = CardsIn(exited)
           /\ begun' = (begun \cup CardsIn(entered))
                         \ {proxList[i].tag : i \in {j \in ProxSlots : proxList'[j].tag = NoCard}}
  BY GetDataTells
<1>3. PICK exited \in SUBSET Ending :
           /\ proxList' = [i \in ProxSlots |-> After(i, entered, exited)]
           /\ proxReport'.enters = CardsIn(entered) /\ proxReport'.exits = CardsIn(exited)
           /\ begun' = (begun \cup CardsIn(entered))
                         \ {proxList[i].tag : i \in {j \in ProxSlots : proxList'[j].tag = NoCard}}
  BY <1>2
<1>4. entered \in SUBSET ProxActive /\ exited \in SUBSET ProxActive
  BY DEF Beginning, Ending, Contacts, ProxOf
<1>5. \A i \in ProxSlots :
        /\ proxList'[i] \in Entry
        /\ \/ proxList'[i].tag = NoCard
           \/ /\ proxList'[i].tag = proxList[i].tag
              /\ (i \in entered \/ proxList'[i].new = proxList[i].new)
  BY <1>1, <1>3, AfterEntry
<1>6. ProxTypeOK'
  <2>1. proxList' \in [ProxSlots -> Entry]
    BY <1>3, <1>5
  <2>2. \A i, j \in ProxSlots : proxList'[i].tag = proxList'[j].tag =>
                                  i = j \/ proxList'[i].tag = NoCard
    BY <1>1, <1>5 DEF TableOK
  <2>3. CardsIn(entered) \subseteq Cards /\ CardsIn(exited) \subseteq Cards
    BY <1>1, <1>4, TagsOfTags
  <2>4. begun' \subseteq Cards
    BY <1>3, <2>3 DEF IInv, ProxTypeOK
  <2>5. proxScanning' \in BOOLEAN
    BY DEF ProxGetData, ProxGetDataFrom
  <2> QED
    BY <1>3, <2>1, <2>2, <2>3, <2>4, <2>5 DEF ProxTypeOK
<1>7. KnownWasTold'
  <2> SUFFICES ASSUME NEW i \in ProxSlots, proxList'[i].tag # NoCard,
                      CardKind[proxList'[i].tag] = "proximity", ~proxList'[i].new
               PROVE  proxList'[i].tag \in begun'
    BY DEF KnownWasTold, Contacts, ProxOf, ProxActive
  <2>1. /\ proxList'[i].tag = proxList[i].tag
        /\ (i \in entered \/ proxList'[i].new = proxList[i].new)
    BY <1>5
  <2>2. proxList[i].tag \in begun \cup CardsIn(entered)
    <3>1. CASE i \in entered
      BY <3>1 DEF CardsIn
    <3>2. CASE i \notin entered
      BY <2>1, <3>2 DEF IInv, KnownWasTold, Contacts, ProxOf, ProxActive
    <3> QED
      BY <3>1, <3>2
  <2>3. ASSUME NEW j \in ProxSlots, proxList'[j].tag = NoCard
        PROVE  proxList[j].tag # proxList[i].tag
    BY <1>1, <2>1, <2>3 DEF TableOK
  <2> QED
    BY <1>3, <2>1, <2>2, <2>3
<1> QED
  BY <1>6, <1>7 DEF IInv

(* One slot is written, by another than getData: it keeps its tag and being  *)
(* new, or a free one is filled with a new tag.                              *)
LEMMA OneSlot ==
  ASSUME ProxAssumption, IInv, NEW i \in ProxSlots, NEW ib \in Entry,
         proxList' = [proxList EXCEPT ![i] = ib],
         \/ ib.tag = proxList[i].tag /\ ib.new = proxList[i].new
         \/ /\ proxList[i].tag = NoCard
            /\ ib.new = TRUE
            /\ \A j \in ProxSlots : proxList[j].tag # ib.tag,
         UNCHANGED <<proxScanning, proxReport, begun>>
  PROVE  IInv'
<1>1. TableOK
  BY TypeOKIs DEF IInv
<1>2. \A j \in ProxSlots : proxList'[j] = IF j = i THEN ib ELSE proxList[j]
  BY <1>1 DEF TableOK
<1>3. proxList' \in [ProxSlots -> Entry]
  BY <1>1 DEF TableOK
<1>4. \A j, k \in ProxSlots : proxList'[j].tag = proxList'[k].tag =>
                                j = k \/ proxList'[j].tag = NoCard
  BY <1>1, <1>2 DEF TableOK
<1>5. ProxTypeOK'
  BY <1>3, <1>4 DEF IInv, ProxTypeOK
<1>6. KnownWasTold'
  <2> SUFFICES ASSUME NEW j \in ProxSlots, proxList'[j].tag # NoCard,
                      CardKind[proxList'[j].tag] = "proximity", ~proxList'[j].new
               PROVE  proxList'[j].tag \in begun'
    BY DEF KnownWasTold, Contacts, ProxOf, ProxActive
  <2>1. proxList[j].tag = proxList'[j].tag /\ ~proxList[j].new
    BY <1>2
  <2> QED
    BY <2>1 DEF IInv, KnownWasTold, Contacts, ProxOf, ProxActive
<1> QED
  BY <1>5, <1>6 DEF IInv

(* What See does: it renews an entry, or fills a free slot. *)
LEMMA SeeSlot ==
  ASSUME ProxAssumption, TableOK, NEW t \in Cards, ProxSee(t)
  PROVE  \E i \in ProxSlots : \E ib \in Entry :
           /\ proxList' = [proxList EXCEPT ![i] = ib]
           /\ \/ ib.tag = proxList[i].tag /\ ib.new = proxList[i].new
              \/ /\ proxList[i].tag = NoCard /\ ib.new = TRUE
                 /\ \A j \in ProxSlots : proxList[j].tag # ib.tag
<1>1. ASSUME NEW i \in ProxSlots, proxList' = [proxList EXCEPT ![i].old = FALSE]
      PROVE  \E ib \in Entry : /\ proxList' = [proxList EXCEPT ![i] = ib]
                               /\ ib.tag = proxList[i].tag /\ ib.new = proxList[i].new
  <2> DEFINE ib == [proxList[i] EXCEPT !.old = FALSE]
  <2>1. proxList[i] \in Entry
    BY DEF TableOK
  <2>2. ib \in Entry /\ ib.tag = proxList[i].tag /\ ib.new = proxList[i].new
    BY <2>1 DEF Entry
  <2>3. proxList' = [proxList EXCEPT ![i] = ib]
    BY <1>1
  <2> HIDE DEF ib
  <2> QED
    BY <2>2, <2>3
<1>2. ASSUME NEW i \in ProxSlots \ ProxActive, NEW c \in {0, proxList[i].cnt},
             \A j \in ProxSlots : proxList[j].tag # t,
             proxList' = [proxList EXCEPT ![i] = [tag |-> t, new |-> TRUE, signif |-> FALSE,
                                              old |-> FALSE, cnt |-> c]]
      PROVE  \E ib \in Entry : /\ proxList' = [proxList EXCEPT ![i] = ib]
                               /\ proxList[i].tag = NoCard /\ ib.new = TRUE
                               /\ \A j \in ProxSlots : proxList[j].tag # ib.tag
  <2> DEFINE ib == [tag |-> t, new |-> TRUE, signif |-> FALSE, old |-> FALSE, cnt |-> c]
  <2>1. proxList[i] \in Entry
    BY DEF TableOK
  <2>2. c \in 0 .. nbULRepeats
    BY <2>1 DEF Entry, ProxAssumption
  <2>3. ib \in Entry /\ ib.tag = t /\ ib.new = TRUE
    BY <2>2 DEF Entry
  <2>4. proxList' = [proxList EXCEPT ![i] = ib]
    BY <1>2
  <2> HIDE DEF ib
  <2>5. proxList[i].tag = NoCard
    BY <1>2 DEF ProxActive
  <2> QED
    BY <1>2, <2>3, <2>4, <2>5
<1>3. CASE \E i \in ProxSlots : /\ proxList[i].tag = t
                                /\ proxList' = [proxList EXCEPT ![i].old = FALSE]
  <2>1. PICK i \in ProxSlots : proxList' = [proxList EXCEPT ![i].old = FALSE]
    BY <1>3
  <2>2. PICK ib \in Entry : /\ proxList' = [proxList EXCEPT ![i] = ib]
                            /\ ib.tag = proxList[i].tag /\ ib.new = proxList[i].new
    BY <1>1, <2>1
  <2> QED
    BY <2>2
<1>4. CASE /\ \A i \in ProxSlots : proxList[i].tag # t
           /\ \E i \in ProxSlots \ ProxActive : \E c \in {0, proxList[i].cnt} :
                proxList' = [proxList EXCEPT ![i] = [tag |-> t, new |-> TRUE, signif |-> FALSE,
                                                 old |-> FALSE, cnt |-> c]]
  <2>1. PICK i \in ProxSlots \ ProxActive : \E c \in {0, proxList[i].cnt} :
          proxList' = [proxList EXCEPT ![i] = [tag |-> t, new |-> TRUE, signif |-> FALSE,
                                           old |-> FALSE, cnt |-> c]]
    BY <1>4
  <2>2. PICK ib \in Entry : /\ proxList' = [proxList EXCEPT ![i] = ib]
                            /\ proxList[i].tag = NoCard /\ ib.new = TRUE
                            /\ \A j \in ProxSlots : proxList[j].tag # ib.tag
    BY <1>2, <1>4, <2>1
  <2> QED
    BY <2>2
<1> QED
  BY <1>3, <1>4 DEF ProxSee

LEMMA InitInv == ProxAssumption /\ ProxInit => IInv
<1> SUFFICES ASSUME ProxAssumption, ProxInit PROVE IInv
  OBVIOUS
<1>1. Freed([cnt |-> 0]) \in Entry /\ Freed([cnt |-> 0]).tag = NoCard
  BY FreedEntry DEF ProxAssumption
<1>2. proxList = [i \in ProxSlots |-> Freed([cnt |-> 0])]
  BY DEF ProxInit
<1>3. proxList \in [ProxSlots -> Entry] /\ \A i \in ProxSlots : proxList[i].tag = NoCard
  BY <1>1, <1>2
<1> QED
  BY <1>3 DEF ProxInit, IInv, ProxTypeOK, KnownWasTold, Contacts, ProxOf, ProxActive, NoProxReport

LEMMA StepInv == ProxAssumption /\ IInv /\ [ProxNext]_proxVars => IInv'
<1> SUFFICES ASSUME ProxAssumption, IInv, [ProxNext]_proxVars PROVE IInv'
  OBVIOUS
<1>0. TableOK
  BY TypeOKIs DEF IInv
<1>1. ASSUME proxScanning' \in BOOLEAN, UNCHANGED <<proxList, begun>>,
             proxReport' \in {proxReport, NoProxReport}
      PROVE  IInv'
  <2>1. ProxTypeOK'
    BY <1>1 DEF IInv, ProxTypeOK, NoProxReport
  <2>2. KnownWasTold'
    BY <1>1 DEF IInv, KnownWasTold, Contacts, ProxOf, ProxActive
  <2> QED
    BY <2>1, <2>2 DEF IInv
<1>2. CASE ProxStart
  BY <1>1, <1>2 DEF ProxStart
<1>3. CASE ProxGetData
  BY <1>3, GetDataInv
<1>4. CASE ProxTurnLost
  BY <1>1, <1>4 DEF ProxTurnLost
<1>5. ASSUME NEW t \in Cards, ProxSee(t) PROVE IInv'
  <2>1. PICK i \in ProxSlots : \E ib \in Entry :
           /\ proxList' = [proxList EXCEPT ![i] = ib]
           /\ \/ ib.tag = proxList[i].tag /\ ib.new = proxList[i].new
              \/ /\ proxList[i].tag = NoCard /\ ib.new = TRUE
                 /\ \A j \in ProxSlots : proxList[j].tag # ib.tag
    BY <1>0, <1>5, SeeSlot
  <2>2. UNCHANGED <<proxScanning, proxReport, begun>>
    BY <1>5 DEF ProxSee
  <2> QED
    BY <2>1, <2>2, OneSlot
<1>6. ASSUME NEW i \in ProxSlots, ProxTimeout(i) \/ ProxSignif(i) PROVE IInv'
  <2>1. proxList[i] \in Entry
    BY <1>0 DEF TableOK
  <2>2. UNCHANGED <<proxScanning, proxReport, begun>>
    BY <1>6 DEF ProxTimeout, ProxSignif
  <2>3. CASE ProxTimeout(i)
    <3> DEFINE ib == [proxList[i] EXCEPT !.old = TRUE]
    <3>1. ib \in Entry /\ ib.tag = proxList[i].tag /\ ib.new = proxList[i].new
      BY <2>1 DEF Entry
    <3>2. proxList' = [proxList EXCEPT ![i] = ib]
      BY <2>3 DEF ProxTimeout
    <3> HIDE DEF ib
    <3> QED
      BY <2>2, <3>1, <3>2, OneSlot
  <2>4. CASE ProxSignif(i)
    <3> DEFINE ib == [proxList[i] EXCEPT !.signif = TRUE]
    <3>1. ib \in Entry /\ ib.tag = proxList[i].tag /\ ib.new = proxList[i].new
      BY <2>1 DEF Entry
    <3>2. proxList' = [proxList EXCEPT ![i] = ib]
      BY <2>4 DEF ProxSignif
    <3> HIDE DEF ib
    <3> QED
      BY <2>2, <3>1, <3>2, OneSlot
  <2> QED
    BY <1>6, <2>3, <2>4
<1>7. CASE UNCHANGED proxVars
  BY <1>1, <1>7 DEF proxVars, IInv, ProxTypeOK
<1> QED
  BY <1>2, <1>3, <1>4, <1>5, <1>6, <1>7 DEF ProxNext

----------------------------------------------------------------------------
(* The beacons picked. *)

(* A list of integers has a first of the least. *)
LEMMA FirstLeast ==
  ASSUME NEW N \in Nat \ {0}, NEW r \in [1 .. N -> Int]
  PROVE  \E k \in 1 .. N : \A m \in 1 .. N : r[k] < r[m] \/ (r[k] = r[m] /\ k <= m)
<1> DEFINE First(k, n) == \A m \in 1 .. n : r[k] < r[m] \/ (r[k] = r[m] /\ k <= m)
           S == {n \in Nat : n \in 1 .. N => \E k \in 1 .. n : First(k, n)}
<1>1. 0 \in S
  OBVIOUS
<1>2. \A n \in Nat : n \in S => n + 1 \in S
  <2> SUFFICES ASSUME NEW n \in Nat, n \in S, n + 1 \in 1 .. N
               PROVE  \E k \in 1 .. n + 1 : First(k, n + 1)
    OBVIOUS
  <2>1. CASE n = 0
    <3>1. First(1, 1)
      OBVIOUS
    <3> QED
      BY <2>1, <3>1
  <2>2. CASE n # 0
    <3>1. PICK k \in 1 .. n : First(k, n)
      BY <2>2
    <3>2. r[k] \in Int /\ r[n + 1] \in Int /\ \A m \in 1 .. n : r[m] \in Int
      OBVIOUS
    <3>3. CASE r[n + 1] < r[k]
      <4>1. ASSUME NEW m \in 1 .. n + 1
            PROVE  r[n + 1] < r[m] \/ (r[n + 1] = r[m] /\ n + 1 <= m)
        <5>1. m = n + 1 \/ m \in 1 .. n
          OBVIOUS
        <5> QED
          BY <3>1, <3>2, <3>3, <5>1
      <4>2. n + 1 \in 1 .. n + 1 /\ First(n + 1, n + 1)
        BY <4>1
      <4> HIDE DEF First
      <4> QED
        BY <4>2
    <3>4. CASE ~(r[n + 1] < r[k])
      <4>1. ASSUME NEW m \in 1 .. n + 1
            PROVE  r[k] < r[m] \/ (r[k] = r[m] /\ k <= m)
        <5>1. m = n + 1 \/ m \in 1 .. n
          OBVIOUS
        <5> QED
          BY <3>1, <3>2, <3>4, <5>1
      <4>2. k \in 1 .. n + 1 /\ First(k, n + 1)
        BY <4>1
      <4> HIDE DEF First
      <4> QED
        BY <4>2
    <3> QED
      BY <3>3, <3>4
  <2> QED
    BY <2>1, <2>2
<1>3. Nat \subseteq S
  <2> HIDE DEF S
  <2> QED
    BY <1>1, <1>2, Induction
<1>4. N \in Nat /\ N \in 1 .. N
  OBVIOUS
<1> HIDE DEF First
<1>5. \E k \in 1 .. N : First(k, N)
  BY <1>3, <1>4
<1> QED
  BY <1>5 DEF First

\* One turn of the loop that picks the beacons.
Pick(n, l) ==
  LET t == proxList[n].tag
  IN  IF n \notin ProxOf("nav") THEN l
      ELSE IF Len(l) < MAX_NAV THEN Append(l, t)
      ELSE [k \in DOMAIN l |-> IF k \in Weakest(l, t) THEN t ELSE l[k]]

LEMMA NavTag ==
  ASSUME TableOK, NEW n \in ProxOf("nav")
  PROVE  n \in ProxSlots /\ proxList[n].tag \in Cards
  BY DEF TableOK, ProxOf, ProxActive, Entry

LEMMA PickType ==
  ASSUME TableOK, NEW n, NEW l \in Seq(Cards)
  PROVE  Pick(n, l) \in Seq(Cards)
<1> DEFINE t == proxList[n].tag
           r == [k \in DOMAIN l |-> IF k \in Weakest(l, t) THEN t ELSE l[k]]
<1>1. CASE n \in ProxOf("nav")
  <2>1. t \in Cards
    BY <1>1, NavTag
  <2> HIDE DEF t
  <2>2. Append(l, t) \in Seq(Cards)
    BY <2>1
  <2>3. r \in Seq(Cards)
    <3>1. Len(l) \in Nat /\ DOMAIN l = 1 .. Len(l) /\ \A k \in 1 .. Len(l) : l[k] \in Cards
      BY LenProperties, ElementOfSeq
    <3>2. r \in [1 .. Len(l) -> Cards]
      BY <2>1, <3>1
    <3> HIDE DEF r
    <3> QED
      BY <3>1, <3>2, SeqDef
  <2> QED
    BY <2>2, <2>3 DEF Pick, t
<1> QED
  BY <1>1 DEF Pick

(* NavBest takes these turns. *)
LEMMA NavTurns ==
  ASSUME ProxAssumption, TableOK
  PROVE  /\ NavBest[0] = <<>>
         /\ \A n \in ProxSlots : NavBest[n + 1] = Pick(n, NavBest[n])
         /\ \A n \in 0 .. PROX_MAX_TRACKED : NavBest[n] \in Seq(Cards)
<1> DEFINE S == Seq(Cards)
           a == <<>>
           step == [p \in Nat \X S |-> Pick(p[1] - 1, p[2])]
           D == 0 .. PROX_MAX_TRACKED
<1>1. a \in S /\ step \in [Nat \X S -> S]
  BY PickType
<1>2. PICK f \in [Nat -> S] : Steps(f, a, step, Nat)
  <2> HIDE DEF S, a, step
  <2> QED
    BY <1>1, StepsExist
<1>3. f[0] = <<>> /\ \A n \in Nat \ {0} : f[n] = Pick(n - 1, f[n - 1])
  <2>1. \A n \in Nat \ {0} : n - 1 \in Nat /\ f[n - 1] \in S
    OBVIOUS
  <2> HIDE DEF S
  <2> QED
    BY <1>2, <2>1 DEF Steps
<1>4. PROX_MAX_TRACKED \in Nat /\ \A n \in D : n \in Nat /\ (n # 0 => n - 1 \in D)
  BY DEF ProxAssumption
<1> DEFINE g == [n \in D |-> f[n]]
           nav[n \in D] == IF n = 0 THEN <<>> ELSE Pick(n - 1, nav[n - 1])
<1>5. g = [n \in D |-> IF n = 0 THEN <<>> ELSE Pick(n - 1, g[n - 1])]
  <2> HIDE DEF D, S
  <2> QED
    BY <1>3, <1>4
<1>6. NavBest = nav
  BY DEF NavBest, Pick
<1>7. nav = [n \in D |-> IF n = 0 THEN <<>> ELSE Pick(n - 1, nav[n - 1])]
  <2> HIDE DEF g, D
  <2> QED
    BY <1>5
<1> HIDE DEF nav, g
<1>8. nav[0] = <<>> /\ \A n \in ProxSlots : nav[n + 1] = Pick(n, nav[n])
  <2>1. 0 \in D /\ \A n \in ProxSlots : n + 1 \in D /\ n + 1 # 0 /\ (n + 1) - 1 = n
    BY <1>4 DEF ProxSlots
  <2> HIDE DEF D
  <2> QED
    BY <1>7, <2>1
<1> DEFINE N == {n \in Nat : n \in D => nav[n] \in S}
<1>9. 0 \in N
  BY <1>1, <1>8
<1>10. \A n \in Nat : n \in N => n + 1 \in N
  <2> SUFFICES ASSUME NEW n \in Nat, n \in N, n + 1 \in D PROVE nav[n + 1] \in S
    OBVIOUS
  <2>1. n \in D /\ n \in ProxSlots
    BY <1>4 DEF ProxSlots
  <2>2. nav[n + 1] = Pick(n, nav[n]) /\ nav[n] \in Seq(Cards)
    BY <1>8, <2>1
  <2> QED
    BY <2>2, PickType
<1>11. Nat \subseteq N
  <2> HIDE DEF N
  <2> QED
    BY <1>9, <1>10, Induction
<1> QED
  BY <1>4, <1>6, <1>8, <1>11

\* The beacons in the first n slots.
BeaconsBelow(n) == CardsIn({i \in ProxOf("nav") : i < n})

\* l lists the best of the beacons in B, as many as there is place for.
Best(l, B) ==
  /\ l \in Seq(Cards)
  /\ Len(l) <= MAX_NAV
  /\ \A k \in 1 .. Len(l) : l[k] \in B
  /\ \A j, k \in 1 .. Len(l) : l[j] = l[k] => j = k
  /\ \A b \in B : \/ \E k \in 1 .. Len(l) : l[k] = b
                  \/ Len(l) = MAX_NAV /\ \A k \in 1 .. Len(l) : Rssi[b] <= Rssi[l[k]]

(* A turn goes on from the best of some beacons to the best with one more. *)
LEMMA PickBest ==
  ASSUME ProxAssumption, TableOK, NEW B \in SUBSET Cards, NEW l, Best(l, B),
         NEW n \in ProxOf("nav"), proxList[n].tag \notin B
  PROVE  Best(Pick(n, l), B \cup {proxList[n].tag})
<1> DEFINE t == proxList[n].tag
           p == Pick(n, l)
<1>1. t \in Cards /\ t \notin B
  BY NavTag
<1>2. /\ l \in Seq(Cards) /\ Len(l) \in Nat /\ DOMAIN l = 1 .. Len(l)
      /\ \A k \in 1 .. Len(l) : l[k] \in B /\ l[k] # t
      /\ MAX_NAV \in Nat \ {0} /\ Len(l) <= MAX_NAV
  BY <1>1, LenProperties DEF Best, ProxAssumption
<1>3. p = IF Len(l) < MAX_NAV THEN Append(l, t)
          ELSE [k \in 1 .. Len(l) |-> IF k \in Weakest(l, t) THEN t ELSE l[k]]
  BY <1>2 DEF Pick
<1>4. p \in Seq(Cards)
  BY <1>2, PickType
<1>5. \A c \in Cards : Rssi[c] \in Int
  BY DEF ProxAssumption
<1>8. \A j, k \in 1 .. Len(l) : l[j] = l[k] => j = k
  BY DEF Best
<1>9. \A b \in B : \/ \E k \in 1 .. Len(l) : l[k] = b
                   \/ Len(l) = MAX_NAV /\ \A k \in 1 .. Len(l) : Rssi[b] <= Rssi[l[k]]
  BY DEF Best
<1>10. Len(l) \in Int /\ MAX_NAV \in Int /\ Len(l) <= MAX_NAV
  BY <1>2
<1> SUFFICES Best(p, B \cup {t})
  OBVIOUS
<1> HIDE DEF t, p
<1>6. CASE Len(l) < MAX_NAV
  <2>1. /\ p = Append(l, t) /\ Len(p) = Len(l) + 1 /\ p[Len(l) + 1] = t
        /\ \A k \in 1 .. Len(l) : p[k] = l[k]
    BY <1>1, <1>2, <1>3, <1>6
  <2>2. \A k \in 1 .. Len(p) : k \in 1 .. Len(l) \/ k = Len(l) + 1
    BY <1>2, <2>1
  <2>3. \A k \in 1 .. Len(p) : p[k] \in B \cup {t}
    BY <1>2, <2>1, <2>2
  <2>4. \A j, k \in 1 .. Len(p) : p[j] = p[k] => j = k
    <3> SUFFICES ASSUME NEW j \in 1 .. Len(p), NEW k \in 1 .. Len(p), p[j] = p[k]
                 PROVE  j = k
      OBVIOUS
    <3>1. CASE j \in 1 .. Len(l) /\ k \in 1 .. Len(l)
      BY <1>8, <2>1, <3>1
    <3>2. CASE j \in 1 .. Len(l) /\ k = Len(l) + 1
      BY <1>2, <2>1, <3>2
    <3>3. CASE j = Len(l) + 1 /\ k \in 1 .. Len(l)
      BY <1>2, <2>1, <3>3
    <3> QED
      BY <2>2, <3>1, <3>2, <3>3
  <2>5. \A b \in B \cup {t} : \E k \in 1 .. Len(p) : p[k] = b
    <3>1. \A b \in B : \E k \in 1 .. Len(l) : l[k] = b
      <4>1. Len(l) # MAX_NAV
        BY <1>6, <1>10
      <4> QED
        BY <1>9, <4>1
    <3>2. \A k \in 1 .. Len(l) + 1 : k \in 1 .. Len(p)
      BY <2>1
    <3>3. Len(l) + 1 \in 1 .. Len(l) + 1 /\ \A k \in 1 .. Len(l) : k \in 1 .. Len(l) + 1
      BY <1>2
    <3> QED
      BY <2>1, <3>1, <3>2, <3>3
  <2>6. Len(p) <= MAX_NAV
    BY <1>2, <1>6, <2>1
  <2> QED
    BY <1>4, <2>3, <2>4, <2>5, <2>6 DEF Best
<1>7. CASE Len(l) = MAX_NAV
  <2>1. /\ DOMAIN p = 1 .. Len(l)
        /\ \A k \in 1 .. Len(l) : p[k] = IF k \in Weakest(l, t) THEN t ELSE l[k]
    BY <1>2, <1>3, <1>7
  <2>2. Len(p) = Len(l)
    BY <1>2, <1>4, <2>1, LenProperties
  <2> DEFINE r == [k \in 1 .. Len(l) |-> Rssi[l[k]]]
  <2>3. r \in [1 .. Len(l) -> Int] /\ Len(l) \in Nat \ {0} /\ Rssi[t] \in Int
    BY <1>1, <1>2, <1>5, <1>7
  <2>4. PICK w \in 1 .. Len(l) : \A m \in 1 .. Len(l) : r[w] < r[m] \/ (r[w] = r[m] /\ w <= m)
    <3> HIDE DEF r
    <3> QED
      BY <2>3, FirstLeast
  <2>5. Weakest(l, t) = {k \in 1 .. Len(l) :
                           /\ r[k] < Rssi[t]
                           /\ \A m \in 1 .. Len(l) : r[k] < r[m] \/ (r[k] = r[m] /\ k <= m)}
    BY <1>2 DEF Weakest
  <2>6. \A k \in 1 .. Len(l) : Rssi[l[k]] = r[k]
    OBVIOUS
  <2> HIDE DEF r
  <2>7. Weakest(l, t) = IF r[w] < Rssi[t] THEN {w} ELSE {}
    <3>1. \A k \in 1 .. Len(l) : (\A m \in 1 .. Len(l) : r[k] < r[m] \/ (r[k] = r[m] /\ k <= m))
                                   => k = w
      <4> TAKE k \in 1 .. Len(l)
      <4> HAVE \A m \in 1 .. Len(l) : r[k] < r[m] \/ (r[k] = r[m] /\ k <= m)
      <4>1. r[k] \in Int /\ r[w] \in Int /\ k \in Int /\ w \in Int
        BY <1>2, <2>3
      <4>2. r[k] < r[w] \/ (r[k] = r[w] /\ k <= w)
        OBVIOUS
      <4>3. r[w] < r[k] \/ (r[w] = r[k] /\ w <= k)
        BY <2>4
      <4> QED
        BY <4>1, <4>2, <4>3
    <3> QED
      BY <2>4, <2>5, <3>1
  <2>8. \A k \in 1 .. Len(l) : r[w] <= r[k]
    BY <2>3, <2>4
  <2>9. \A b \in B : (\E k \in 1 .. Len(l) : l[k] = b) \/ (\A k \in 1 .. Len(l) : Rssi[b] <= r[k])
    BY <2>6 DEF Best
  <2>10. \A b \in B : Rssi[b] \in Int
    BY <1>5
  <2>11. CASE ~(r[w] < Rssi[t])
    <3>1. \A k \in 1 .. Len(l) : p[k] = l[k]
      BY <2>1, <2>7, <2>11
    <3>2. \A k \in 1 .. Len(l) : Rssi[t] <= r[k]
      BY <2>3, <2>8, <2>11
    <3>3. \A b \in B \cup {t} : \/ \E k \in 1 .. Len(p) : p[k] = b
                                \/ \A k \in 1 .. Len(p) : Rssi[b] <= Rssi[p[k]]
      BY <2>2, <2>6, <2>9, <3>1, <3>2
    <3>4. /\ \A k \in 1 .. Len(p) : p[k] \in B \cup {t}
          /\ \A j, k \in 1 .. Len(p) : p[j] = p[k] => j = k
      BY <1>2, <2>2, <3>1 DEF Best
    <3> QED
      BY <1>4, <1>7, <2>2, <3>3, <3>4 DEF Best
  <2>12. CASE r[w] < Rssi[t]
    <3>1. /\ p[w] = t
          /\ \A k \in (1 .. Len(l)) \ {w} : p[k] = l[k]
      BY <2>1, <2>7, <2>12
    <3>2. \A k \in 1 .. Len(l) : Rssi[p[k]] \in Int /\ r[w] <= Rssi[p[k]]
      BY <2>3, <2>6, <2>8, <2>12, <3>1
    <3>3. \A b \in B \cup {t} : \/ \E k \in 1 .. Len(p) : p[k] = b
                                \/ \A k \in 1 .. Len(p) : Rssi[b] <= Rssi[p[k]]
      <4> SUFFICES ASSUME NEW b \in B \cup {t}, \A k \in 1 .. Len(p) : p[k] # b
                   PROVE  \A k \in 1 .. Len(p) : Rssi[b] <= Rssi[p[k]]
        OBVIOUS
      <4>1. b \in B /\ \A k \in (1 .. Len(l)) \ {w} : l[k] # b
        BY <2>2, <3>1
      <4>2. Rssi[b] <= r[w] /\ Rssi[b] \in Int /\ r[w] \in Int
        <5>1. CASE l[w] = b
          BY <2>3, <2>6, <5>1
        <5>2. CASE l[w] # b
          BY <2>3, <2>9, <2>10, <4>1, <5>2
        <5> QED
          BY <5>1, <5>2
      <4> QED
        BY <2>2, <3>2, <4>2
    <3>4. /\ \A k \in 1 .. Len(p) : p[k] \in B \cup {t}
          /\ \A j, k \in 1 .. Len(p) : p[j] = p[k] => j = k
      BY <1>2, <2>2, <3>1 DEF Best
    <3> QED
      BY <1>4, <1>7, <2>2, <3>3, <3>4 DEF Best
  <2> QED
    BY <2>11, <2>12
<1>11. Len(l) < MAX_NAV \/ Len(l) = MAX_NAV
  BY <1>10
<1> QED
  BY <1>6, <1>7, <1>11

(* Induction over the slots. *)
LEMMA NavIsBest ==
  ASSUME ProxAssumption, TableOK
  PROVE  Best(NavBest[PROX_MAX_TRACKED], CardsIn(ProxOf("nav")))
<1> DEFINE N == {n \in Nat : n <= PROX_MAX_TRACKED => Best(NavBest[n], BeaconsBelow(n))}
<1>1. PROX_MAX_TRACKED \in Nat
  BY DEF ProxAssumption
<1>2. 0 \in N
  <2>1. BeaconsBelow(0) = {}
    BY DEF BeaconsBelow, CardsIn, ProxOf, ProxActive, ProxSlots
  <2>2. NavBest[0] = <<>> /\ <<>> \in Seq(Cards) /\ Len(<<>>) = 0 /\ MAX_NAV \in Nat
    BY NavTurns, EmptySeq DEF ProxAssumption
  <2>3. 1 .. Len(<<>>) = {} /\ Len(<<>>) <= MAX_NAV
    BY <2>2
  <2>4. Best(<<>>, {})
    BY <2>2, <2>3 DEF Best
  <2> QED
    BY <2>1, <2>2, <2>4
<1>3. \A n \in Nat : n \in N => n + 1 \in N
  <2> SUFFICES ASSUME NEW n \in Nat, n \in N, n + 1 <= PROX_MAX_TRACKED
               PROVE  Best(NavBest[n + 1], BeaconsBelow(n + 1))
    OBVIOUS
  <2>1. n \in ProxSlots /\ Best(NavBest[n], BeaconsBelow(n))
    BY <1>1 DEF ProxSlots
  <2>2. NavBest[n + 1] = Pick(n, NavBest[n])
    BY <2>1, NavTurns
  <2>3. \A i \in ProxOf("nav") : i \in Int /\ (i < n + 1 <=> i < n \/ i = n)
    BY <1>1 DEF ProxOf, ProxActive, ProxSlots
  <2>4. CASE n \in ProxOf("nav")
    <3> DEFINE t == proxList[n].tag
               B == BeaconsBelow(n)
               l == NavBest[n]
    <3>1. BeaconsBelow(n + 1) = B \cup {t}
      BY <2>3, <2>4 DEF BeaconsBelow, CardsIn
    <3>2. t \notin B
      <4>1. ASSUME NEW i \in ProxOf("nav"), i < n, proxList[i].tag = t PROVE FALSE
        <5>1. i \in ProxSlots /\ n \in ProxSlots /\ t # NoCard /\ i # n
          BY <2>4, <4>1 DEF ProxOf, ProxActive
        <5> QED
          BY <4>1, <5>1 DEF TableOK
      <4> QED
        BY <4>1 DEF BeaconsBelow, CardsIn
    <3>3. B \in SUBSET Cards
      BY NavTag DEF BeaconsBelow, CardsIn
    <3>4. Best(l, B)
      BY <2>1
    <3> HIDE DEF B, l
    <3>5. Best(Pick(n, l), B \cup {t})
      BY <2>4, <3>2, <3>3, <3>4, PickBest
    <3> QED
      BY <2>2, <3>1, <3>5 DEF l
  <2>5. CASE n \notin ProxOf("nav")
    <3>1. BeaconsBelow(n + 1) = BeaconsBelow(n)
      BY <2>3, <2>5 DEF BeaconsBelow
    <3>2. Pick(n, NavBest[n]) = NavBest[n]
      BY <2>5 DEF Pick
    <3> QED
      BY <2>1, <2>2, <3>1, <3>2
  <2> QED
    BY <2>4, <2>5
<1>4. Nat \subseteq N
  <2> HIDE DEF N
  <2> QED
    BY <1>2, <1>3, Induction
<1>5. BeaconsBelow(PROX_MAX_TRACKED) = CardsIn(ProxOf("nav"))
  <2>1. \A i \in ProxOf("nav") : i < PROX_MAX_TRACKED
    BY <1>1 DEF ProxOf, ProxActive, ProxSlots
  <2> QED
    BY <2>1 DEF BeaconsBelow
<1> QED
  BY <1>1, <1>4, <1>5

(* As many different beacons as the list is long. *)
LEMMA NavCounts ==
  ASSUME NEW l \in Seq(Cards), \A j, k \in 1 .. Len(l) : l[j] = l[k] => j = k
  PROVE  LET S == {l[k] : k \in DOMAIN l} IN IsFiniteSet(S) /\ Cardinality(S) = Len(l)
<1> DEFINE S == {l[k] : k \in DOMAIN l}
<1>1. Len(l) \in Nat /\ DOMAIN l = 1 .. Len(l) /\ l \in [1 .. Len(l) -> S]
  <2>1. Len(l) \in Nat /\ DOMAIN l = 1 .. Len(l) /\ l \in [1 .. Len(l) -> Cards]
    BY LenProperties
  <2> QED
    BY <2>1
<1>2. l \in Bijection(1 .. Len(l), S)
  <2>1. l \in Surjection(1 .. Len(l), S)
    BY <1>1 DEF Surjection
  <2>2. l \in Injection(1 .. Len(l), S)
    BY <1>1 DEF Injection, IsInjective
  <2> QED
    BY <2>1, <2>2 DEF Bijection
<1>3. IsFiniteSet(1 .. Len(l)) /\ Cardinality(1 .. Len(l)) = Len(l)
  <2>1. 1 \in Int /\ Len(l) \in Int /\ (1 > Len(l) => Len(l) = 0) /\ Len(l) - 1 + 1 = Len(l)
    BY <1>1
  <2> QED
    BY <2>1, FS_Interval
<1> HIDE DEF S
<1>4. IsFiniteSet(S) /\ Cardinality(S) = Cardinality(1 .. Len(l))
  BY <1>2, <1>3, FS_Bijection DEF ExistsBijection
<1> QED
  BY <1>3, <1>4 DEF S

LEMMA BeaconsFinite ==
  ASSUME ProxAssumption
  PROVE  IsFiniteSet(CardsIn(ProxOf("nav")))
<1> DEFINE S == ProxOf("nav")
           f == [i \in S |-> proxList[i].tag]
<1>1. PROX_MAX_TRACKED \in Nat
  BY DEF ProxAssumption
<1>2. IsFiniteSet(ProxSlots)
  BY <1>1, FS_Interval DEF ProxSlots
<1>3. IsFiniteSet(S)
  BY <1>2, FS_Subset DEF ProxOf, ProxActive
<1>4. f \in Surjection(S, CardsIn(S))
  BY DEF Surjection, CardsIn
<1> HIDE DEF S, f
<1>5. IsFiniteSet(CardsIn(S))
  BY <1>3, <1>4, FS_Surjection
<1> QED
  BY <1>5 DEF S

(* The beacons told of are the best, and as many as there is place for. *)
LEMMA BestTold ==
  ASSUME ProxAssumption, TableOK,
         NEW l, l = NavBest[PROX_MAX_TRACKED],
         NEW beacons, beacons = CardsIn(ProxOf("nav")),
         NEW picked, picked = {l[k] : k \in DOMAIN l}
  PROVE  /\ picked \subseteq beacons
         /\ Cardinality(picked) = Smaller(MAX_NAV, Cardinality(beacons))
         /\ \A b \in beacons \ picked, p \in picked : Rssi[b] <= Rssi[p]
<1>1. Best(l, beacons)
  BY NavIsBest
<1>2. l \in Seq(Cards) /\ Len(l) \in Nat /\ DOMAIN l = 1 .. Len(l)
  BY <1>1, LenProperties DEF Best
<1>3. picked \subseteq beacons
  BY <1>1, <1>2 DEF Best
<1>4. \A b \in beacons \ picked : Len(l) = MAX_NAV /\ \A k \in 1 .. Len(l) : Rssi[b] <= Rssi[l[k]]
  BY <1>1, <1>2 DEF Best
<1>5. \A b \in beacons \ picked, p \in picked : Rssi[b] <= Rssi[p]
  BY <1>2, <1>4
<1>6. IsFiniteSet(picked) /\ Cardinality(picked) = Len(l)
  <2>1. \A j, k \in 1 .. Len(l) : l[j] = l[k] => j = k
    BY <1>1 DEF Best
  <2> QED
    BY <1>2, <2>1, NavCounts
<1>7. /\ IsFiniteSet(beacons) /\ Cardinality(beacons) \in Nat
      /\ Cardinality(picked) <= Cardinality(beacons)
  BY <1>3, BeaconsFinite, FS_CardinalityType, FS_Subset
<1>8. MAX_NAV \in Nat /\ Len(l) <= MAX_NAV
  BY <1>1 DEF Best, ProxAssumption
<1>9. Cardinality(picked) = Smaller(MAX_NAV, Cardinality(beacons))
  <2>1. CASE beacons \subseteq picked
    <3>1. picked = beacons
      BY <1>3, <2>1
    <3>2. Cardinality(beacons) = Len(l)
      BY <1>6, <3>1
    <3>3. Len(l) \in Int /\ MAX_NAV \in Int /\ Len(l) <= MAX_NAV
      BY <1>2, <1>8
    <3>4. Len(l) = Smaller(MAX_NAV, Len(l))
      BY <3>3 DEF Smaller
    <3> QED
      BY <1>6, <3>2, <3>4
  <2>2. CASE ~(beacons \subseteq picked)
    <3>1. Len(l) = MAX_NAV
      BY <1>4, <2>2
    <3> QED
      BY <1>6, <1>7, <1>8, <3>1 DEF Smaller
  <2> QED
    BY <2>1, <2>2
<1> QED
  BY <1>3, <1>5, <1>9

----------------------------------------------------------------------------
(* The inductive invariant is the conjunction of the two invariants. *)
THEOREM Invariance == ProxSpec => []IInv
<1>1. IInv /\ [ProxNext]_proxVars => IInv'
  BY StepInv, ProxAssumption
<1>2. ProxInit => IInv
  BY InitInv, ProxAssumption
<1> QED
  BY <1>1, <1>2, PTL DEF ProxSpec

(* No tag holds two slots, and a count never passes the number of repeats,  *)
(* whether it is the count of this contact or one left by an earlier one.   *)
THEOREM TypeCorrect == ProxSpec => []ProxTypeOK
<1>1. IInv => ProxTypeOK
  BY DEF IInv
<1> QED
  BY <1>1, Invariance, PTL

(* A contact stops being new only once getData has told of it as begun. *)
THEOREM KnownTold == ProxSpec => []KnownWasTold
<1>1. IInv => KnownWasTold
  BY DEF IInv
<1> QED
  BY <1>1, Invariance, PTL

(* A contact that lasted leaves the table only in a getData that tells of its *)
(* end.                                                                       *)
THEOREM ContactKept == ProxSpec => ContactKeptUntilTold
<1>1. ASSUME IInv, [ProxNext]_proxVars, NEW i \in Contacts, proxList[i].signif,
             proxList'[i].tag # proxList[i].tag
      PROVE  proxList[i].tag \in proxReport'.exits
  <2>1. i \in ProxSlots /\ proxList[i].tag # NoCard /\ CardKind[proxList[i].tag] = "proximity"
    BY DEF Contacts, ProxOf, ProxActive
  <2>2. TableOK
    BY <1>1, TypeOKIs DEF IInv
  <2>3. CASE ProxGetData
    <3>1. PICK entered \in SUBSET Beginning : \E exited \in SUBSET Ending :
             /\ proxList' = [k \in ProxSlots |-> After(k, entered, exited)]
             /\ proxReport'.exits = CardsIn(exited)
      BY <2>3, GetDataTells
    <3>2. PICK exited \in SUBSET Ending :
             /\ proxList' = [k \in ProxSlots |-> After(k, entered, exited)]
             /\ proxReport'.exits = CardsIn(exited)
      BY <3>1
    <3>3. i \notin ProxDropped
      BY <1>1, <2>1 DEF ProxDropped, ProxOf
    <3>4. proxList'[i] = After(i, entered, exited)
      BY <2>1, <3>2
    <3>5. i \in exited
      BY <1>1, <2>1, <2>2, <3>3, <3>4, AfterEntry, ProxAssumption
    <3> QED
      BY <3>2, <3>5 DEF CardsIn
  <2>4. ASSUME NEW t \in Cards, ProxSee(t) PROVE FALSE
    <3>1. PICK k \in ProxSlots : \E ib \in Entry :
             /\ proxList' = [proxList EXCEPT ![k] = ib]
             /\ ib.tag = proxList[k].tag \/ proxList[k].tag = NoCard
      BY <2>2, <2>4, SeeSlot, ProxAssumption
    <3> QED
      BY <1>1, <2>1, <2>2, <3>1 DEF TableOK
  <2>5. ASSUME NEW k \in ProxSlots, ProxTimeout(k) \/ ProxSignif(k) PROVE FALSE
    <3>1. proxList[k] \in Entry /\ proxList[i] \in Entry
      BY <2>1, <2>2 DEF TableOK
    <3>2. proxList'[i].tag = proxList[i].tag
      BY <2>1, <2>2, <2>5, <3>1 DEF ProxTimeout, ProxSignif, TableOK, Entry
    <3> QED
      BY <1>1, <3>2
  <2>6. CASE UNCHANGED proxList
    BY <1>1, <2>6
  <2> QED
    BY <1>1, <2>3, <2>4, <2>5, <2>6 DEF ProxNext, proxVars, ProxStart, ProxTurnLost
<1>2. IInv /\ [ProxNext]_proxVars =>
        [\A i \in Contacts :
           proxList[i].signif /\ proxList'[i].tag # proxList[i].tag =>
             proxList[i].tag \in proxReport'.exits]_proxVars
  BY <1>1
<1> QED
  BY <1>2, Invariance, PTL DEF ProxSpec, ContactKeptUntilTold

(* The beacons told of are as many as there is place for, and none that was   *)
(* left out is received better: the loop over the table keeps the best.       *)
THEOREM BestBeaconsTold == ProxSpec => NavAreBest
<1>1. ASSUME IInv, [ProxNext]_proxVars, ProxGetData
      PROVE  LET beacons == CardsIn(ProxOf("nav"))
                 picked  == {proxReport'.nav[k] : k \in DOMAIN proxReport'.nav}
             IN  /\ picked \subseteq beacons
                 /\ Cardinality(picked) = Smaller(MAX_NAV, Cardinality(beacons))
                 /\ \A b \in beacons \ picked, p \in picked : Rssi[b] <= Rssi[p]
  <2>1. TableOK
    BY <1>1, TypeOKIs DEF IInv
  <2>2. proxReport'.nav = NavBest[PROX_MAX_TRACKED]
    BY <1>1 DEF ProxGetData, ProxGetDataFrom
  <2>3. PICK l : l = NavBest[PROX_MAX_TRACKED]
    OBVIOUS
  <2>4. PICK beacons : beacons = CardsIn(ProxOf("nav"))
    OBVIOUS
  <2>5. PICK picked : picked = {l[k] : k \in DOMAIN l}
    OBVIOUS
  <2>6. /\ picked \subseteq beacons
        /\ Cardinality(picked) = Smaller(MAX_NAV, Cardinality(beacons))
        /\ \A b \in beacons \ picked, p \in picked : Rssi[b] <= Rssi[p]
    BY <2>1, <2>3, <2>4, <2>5, BestTold, ProxAssumption
  <2> QED
    BY <2>2, <2>3, <2>4, <2>5, <2>6
<1>2. IInv /\ [ProxNext]_proxVars =>
        [ProxGetData =>
           LET beacons == CardsIn(ProxOf("nav"))
               picked  == {proxReport'.nav[k] : k \in DOMAIN proxReport'.nav}
           IN  /\ picked \subseteq beacons
               /\ Cardinality(picked) = Smaller(MAX_NAV, Cardinality(beacons))
               /\ \A b \in beacons \ picked, p \in picked : Rssi[b] <= Rssi[p]]_proxVars
  BY <1>1
<1> QED
  BY <1>2, Invariance, PTL DEF ProxSpec, NavAreBest
=============================================================================
