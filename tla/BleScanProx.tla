---------------------------- MODULE BleScanProx ----------------------------
(***************************************************************************)
(* The proximity scanner, mod_ble_scan_prox.c: a serial module that tells  *)
(* the backend which other cards came near for long enough to count as a   *)
(* contact, which of these contacts are over, and the best navigation      *)
(* beacons in range.                                                       *)
(*                                                                         *)
(* Each contact is told of several times, as begun and as over, counted in *)
(* its slot of the table by one counter for both.  A slot that is freed    *)
(* keeps its count, except after the last telling of an end; whether the   *)
(* BLE manager, which is not in this repository, clears the count of a     *)
(* slot it fills is left open.                                             *)
(*                                                                         *)
(* Time is abstract and passes between scans: a scan lasts a minute at     *)
(* most, the least value of either delay.  The error mask is told and not  *)
(* read, and left out, as are the bytes of the lists.                      *)
(*                                                                         *)
(* Names carry Prox where the tag scanners have the same, so that a module *)
(* can extend both.  One named X_slip is X with a plausible programming    *)
(* error; it is used by no other, and shows that the properties notice it. *)
(***************************************************************************)
EXTENDS UplinkSpace, Sequences

CONSTANTS
  PROX_MAX_TRACKED, MAX_NAV,
  Cards, NoCard,
  CardKind,                      \* the type in the major a card sends
  Rssi,                          \* how well each card is received
  nbULRepeats, maxContactsPerUL

PROX_ENTER_UL_SZ == 5
PROX_EXIT_UL_SZ  == 4
NAV_UL_SZ        == 5
PROX_COUNT_UL_SZ == 2

ProxSlots == 0 .. PROX_MAX_TRACKED - 1

ASSUME ProxAssumption ==
  /\ PROX_MAX_TRACKED \in Nat /\ MAX_NAV \in Nat \ {0}
  /\ NoCard \notin Cards
  /\ CardKind \in [Cards -> {"proximity", "nav", "other"}]
  /\ Rssi \in [Cards -> Int]
  /\ nbULRepeats \in 1 .. 10 /\ maxContactsPerUL \in 1 .. 255

VARIABLES
  proxList,      \* per slot: the tag, not yet told of (new), there for long
                 \* enough (signif), away for too long (old), inULCnt
  proxScanning,  \* between start and stop
  proxReport,    \* what getData told of since the last start, with the best
                 \* navigation beacons (navIBList)
  begun          \* the tags told of as begun since they are in the table

proxVars == <<proxList, proxScanning, proxReport, begun>>

Freed(e) == [tag |-> NoCard, new |-> FALSE, signif |-> FALSE, old |-> FALSE, cnt |-> e.cnt]
NoProxReport == [nav |-> <<>>, enters |-> {}, exits |-> {}]

ProxActive == {i \in ProxSlots : proxList[i].tag # NoCard}
ProxOf(kind) == {i \in ProxActive : CardKind[proxList[i].tag] = kind}
CardsIn(S) == {proxList[i].tag : i \in S}

----------------------------------------------------------------------------
(* The first pass of getData. *)

Contacts == ProxOf("proximity")

\* Who is gone before he was a contact is forgotten; navigation beacons and
\* what was not looked for are removed each time.
ProxDropped_early == {i \in Contacts : proxList[i].old /\ proxList[i].new}
                       \cup ProxOf("nav") \cup ProxOf("other")
ProxDropped_newOnly ==
  {i \in Contacts : proxList[i].old /\ proxList[i].new /\ ~proxList[i].signif}
    \cup ProxOf("nav") \cup ProxOf("other")
ProxDropped == {i \in Contacts : proxList[i].old /\ ~proxList[i].signif}
                 \cup ProxOf("nav") \cup ProxOf("other")

nbContactNew == Smaller(Cardinality({i \in Contacts : proxList[i].new /\ proxList[i].signif}),
                        maxContactsPerUL)
nbContactEnd == Smaller(Cardinality({i \in Contacts : /\ proxList[i].old /\ proxList[i].signif
                                                      /\ ~proxList[i].new}),
                        maxContactsPerUL)

\* The beacons picked from the first n slots: the list fills up, then a better
\* one takes the place of the first of the weakest.
Weakest_newerWins(l, t) ==
  {k \in DOMAIN l : \A m \in DOMAIN l : \/ Rssi[l[k]] < Rssi[l[m]]
                                        \/ Rssi[l[k]] = Rssi[l[m]] /\ k <= m}

Weakest(l, t) ==
  {k \in DOMAIN l : /\ Rssi[l[k]] < Rssi[t]
                    /\ \A m \in DOMAIN l : \/ Rssi[l[k]] < Rssi[l[m]]
                                           \/ Rssi[l[k]] = Rssi[l[m]] /\ k <= m}

NavBest[n \in 0 .. PROX_MAX_TRACKED] ==
  IF n = 0 THEN <<>>
  ELSE LET l == NavBest[n - 1]
           t == proxList[n - 1].tag
       IN  IF n - 1 \notin ProxOf("nav") THEN l
           ELSE IF Len(l) < MAX_NAV THEN Append(l, t)
           ELSE [k \in DOMAIN l |-> IF k \in Weakest(l, t) THEN t ELSE l[k]]

----------------------------------------------------------------------------
(* The second pass: the lists, in the order of the table. *)

\* Not only those that were counted: whoever is new, whoever is away.
Beginning == {i \in Contacts \ ProxDropped : proxList[i].new}
Ending  == {i \in Contacts \ ProxDropped : proxList[i].old}

Announced_noReset(e) == IF e.cnt + 1 > nbULRepeats THEN [e EXCEPT !.new = FALSE, !.cnt = @ + 1]
                        ELSE [e EXCEPT !.cnt = @ + 1]
Announced(e) == IF e.cnt + 1 > nbULRepeats THEN [e EXCEPT !.new = FALSE, !.cnt = 0]
                ELSE [e EXCEPT !.cnt = @ + 1]
Ended(e) == IF e.cnt + 1 > nbULRepeats THEN Freed([e EXCEPT !.cnt = 0])
            ELSE [e EXCEPT !.cnt = @ + 1]

After_allAnnounced(i, entered, exited) ==
  LET a == IF i \in Beginning THEN Announced(proxList[i]) ELSE proxList[i]
  IN  IF i \in ProxDropped THEN Freed(proxList[i]) ELSE IF i \in exited THEN Ended(a) ELSE a

After(i, entered, exited) ==
  LET a == IF i \in entered THEN Announced(proxList[i]) ELSE proxList[i]
  IN  IF i \in ProxDropped THEN Freed(proxList[i]) ELSE IF i \in exited THEN Ended(a) ELSE a

\* getData, and the stop that follows: the beacons picked or an empty block,
\* how many cards are near, then the two lists.
ProxGetDataFrom(u) ==
  LET nav == NavBest[PROX_MAX_TRACKED]
      c == Added(Added(u, NAV_UL_SZ * Len(nav)), PROX_COUNT_UL_SZ)
      e == Pack(c, nbContactNew, Cardinality(Beginning), PROX_ENTER_UL_SZ)
      x == Pack(e.u, nbContactEnd, Cardinality(Ending), PROX_EXIT_UL_SZ)
      entered == FirstOf(Beginning, e.reserved)
      exited  == FirstOf(Ending, x.reserved)
  IN  /\ proxScanning
      /\ proxScanning' = FALSE
      /\ proxList' = [i \in ProxSlots |-> After(i, entered, exited)]
      /\ proxReport' = [nav |-> nav, enters |-> CardsIn(entered), exits |-> CardsIn(exited)]
      /\ begun' = (begun \cup CardsIn(entered))
                    \ {proxList[i].tag : i \in {j \in ProxSlots : proxList'[j].tag = NoCard}}

ProxGetData == \E u \in Fills : ProxGetDataFrom(u)

\* The core takes the turn away, or the device has become inactive.
ProxTurnLost ==
  /\ proxScanning
  /\ proxScanning' = FALSE
  /\ UNCHANGED <<proxList, proxReport, begun>>

ProxStart ==
  /\ ~proxScanning
  /\ proxScanning' = TRUE
  /\ proxReport' = NoProxReport
  /\ UNCHANGED <<proxList, begun>>

----------------------------------------------------------------------------
(* The BLE manager, and time. *)

\* A tag is seen: its entry is renewed, or made in the first free slot.
ProxSee(t) ==
  /\ proxScanning
  /\ \/ \E i \in ProxSlots : proxList[i].tag = t /\ proxList' = [proxList EXCEPT ![i].old = FALSE]
     \/ /\ \A i \in ProxSlots : proxList[i].tag # t
        /\ \E i \in ProxSlots \ ProxActive : \E c \in {0, proxList[i].cnt} :
             /\ \A j \in ProxSlots \ ProxActive : i <= j
             /\ proxList' = [proxList EXCEPT ![i] = [tag |-> t, new |-> TRUE, signif |-> FALSE,
                                                     old |-> FALSE, cnt |-> c]]
  /\ UNCHANGED <<proxScanning, proxReport, begun>>

\* Not seen for the exit timeout; there for the time of a contact.
ProxTimeout(i) ==
  /\ ~proxScanning /\ i \in Contacts /\ ~proxList[i].old
  /\ proxList' = [proxList EXCEPT ![i].old = TRUE]
  /\ UNCHANGED <<proxScanning, proxReport, begun>>

ProxSignif(i) ==
  /\ ~proxScanning /\ i \in Contacts /\ ~proxList[i].signif
  /\ proxList' = [proxList EXCEPT ![i].signif = TRUE]
  /\ UNCHANGED <<proxScanning, proxReport, begun>>

ProxInit ==
  /\ proxList = [i \in ProxSlots |-> Freed([cnt |-> 0])]
  /\ proxScanning = FALSE
  /\ proxReport = NoProxReport
  /\ begun = {}

ProxNext ==
  \/ ProxStart \/ ProxGetData \/ ProxTurnLost
  \/ \E t \in Cards : ProxSee(t)
  \/ \E i \in ProxSlots : ProxTimeout(i) \/ ProxSignif(i)

ProxSpec == ProxInit /\ [][ProxNext]_proxVars

----------------------------------------------------------------------------
(* Properties. *)

Entry == [tag : Cards \cup {NoCard}, new : BOOLEAN, signif : BOOLEAN, old : BOOLEAN,
          cnt : 0 .. nbULRepeats]

\* Type invariant: among others, no tag holds two slots, and a count never passes
\* the number of repeats (what proxReport.nav holds is the subject of NavAreBest).
ProxTypeOK ==
  /\ proxList \in [ProxSlots -> Entry]
  /\ \A i, j \in ProxSlots : proxList[i].tag = proxList[j].tag =>
                               i = j \/ proxList[i].tag = NoCard
  /\ proxScanning \in BOOLEAN
  /\ proxReport.enters \subseteq Cards /\ proxReport.exits \subseteq Cards
  /\ begun \subseteq Cards

\* "Yes, and now he's not present (and we'll 'delete' him by resetting his
\* lastSeenAt once sent up)" (mod_ble_scan_prox.c:191): a contact that lasted
\* leaves the table only when a report tells that it is over.
ContactKeptUntilTold ==
  [][\A i \in Contacts :
       proxList[i].signif /\ proxList'[i].tag # proxList[i].tag =>
         proxList[i].tag \in proxReport'.exits]_proxVars

\* A contact that is no longer marked as new has been told of as begun, in spite
\* of lists cut for want of space and of a count that an earlier contact left.
KnownWasTold == \A i \in Contacts : ~proxList[i].new => proxList[i].tag \in begun

\* The beacons told of are as many as there is place for, and none that was
\* left out is received better (mod_ble_scan_prox.c:204, "pick the best").
NavAreBest ==
  [][ProxGetData =>
       LET beacons == CardsIn(ProxOf("nav"))
           picked  == {proxReport'.nav[k] : k \in DOMAIN proxReport'.nav}
       IN  /\ picked \subseteq beacons
           /\ Cardinality(picked) = Smaller(MAX_NAV, Cardinality(beacons))
           /\ \A b \in beacons \ picked, p \in picked : Rssi[b] <= Rssi[p]]_proxVars

\* Fairness: the core wakes up and starts the module, and lets it report again
\* and again into a set that nothing else has filled.
ProxLiveSpec == ProxSpec /\ WF_proxVars(ProxStart) /\ SF_proxVars(ProxGetDataFrom(EmptySet))

\* When no more cards come, those that went away do not stay in the table: each
\* is forgotten, or told of as often as it takes, whatever the counts and the
\* space.  (With cards that come for a moment it can take for ever: the list of
\* ends names the first in the table, counted or not.)
Away(i) == i \in Contacts /\ proxList[i].old
AwayIsForgotten ==
  (<>[][\A t \in Cards : ~ProxSee(t)]_proxVars) => \A i \in ProxSlots : Away(i) ~> ~Away(i)
=============================================================================
