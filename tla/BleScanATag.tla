---------------------------- MODULE BleScanATag ----------------------------
(***************************************************************************)
(* The tag scanner for scanA hardware, mod_ble_scanA_tag.c.  It does what  *)
(* the tag scanner does, except that a proximity card is of no type it     *)
(* expects, although its scan asks for them, and that it does not test for *)
(* an inactive device.                                                     *)
(*                                                                         *)
(* BleScanTag takes getData as one step.  Here each pass over the table is *)
(* a step, and the BLE manager, whose scan still runs, may write the table *)
(* between them; what a pass counted may no longer be so in the next.  The *)
(* clock is read once, at the beginning: an entry renewed in a later       *)
(* second is `ahead' of it, the unsigned difference of the times           *)
(* underflows, and the tag looks away until getData returns.  Whether the  *)
(* manager can run between the passes is not known from this repository;   *)
(* what holds here holds if it cannot.                                     *)
(***************************************************************************)
EXTENDS BleScanTag

VARIABLES
  pc,       \* the pass of getData that comes next
  ul,       \* the uplink set of this getData
  toAdd,    \* what the first pass allows each list
  ahead     \* the slots renewed after the clock was read

scanAVars == <<iblist, scanning, bleErrorMask, report, told, missed, pc, ul, toAdd, ahead>>

Nothing  == [exit |-> 0, enter |-> 0, types |-> 0]

\* The table without some entries, and with some no longer new.
Without(S) == [i \in Slots |-> IF i \in S THEN Empty ELSE iblist[i]]

Known_all(S) == [i \in Slots |-> [iblist[i] EXCEPT !.new = FALSE]]
Known(S) == [i \in Slots |-> IF i \in S THEN [iblist[i] EXCEPT !.new = FALSE] ELSE iblist[i]]

\* The first pass: what was not expected goes, too.
DroppedA_timedOut == Dropped \cup {i \in Active : iblist[i].old}
DroppedA == Dropped \cup Of({"proximity"})
BadMajor == IF Of({"proximity"}) # {} THEN {"RX_BADMAJ"} ELSE {}

nbEnterA == Smaller(Cardinality(Entering), maxEnterPerUL)
nbExitA  == Smaller(Cardinality({i \in Leaving : ~iblist[i].new}), maxExitPerUL)

\* Everyone gets the same share of the space.
ShareA(n, u) ==
  LET bytesRequired == nbEnterA * ENTER_UL_SZ + nbExitA * EXIT_UL_SZ
                         + nbTypes * COUNT_UL_SZ + TL_HDR_UL_SZ * 6
      percentReduc == IF TotalSpace(u) > bytesRequired THEN 100
                      ELSE (TotalSpace(u) * 100) \div bytesRequired
  IN  (n * percentReduc) \div 100

CountPass ==
  /\ scanning /\ pc = "idle"
  /\ pc' = "exits"
  /\ \E u \in Fills :
       /\ ul' = u
       /\ toAdd' = [exit |-> ShareA(nbExitA, u), enter |-> ShareA(nbEnterA, u),
                    types |-> ShareA(nbTypes, u)]
  /\ iblist' = Without(DroppedA)
  /\ bleErrorMask' = bleErrorMask \cup FullError \cup BadMajor
  /\ UNCHANGED <<scanning, report, told, missed, ahead>>

NoNext(p, n, c) == IF p.reserved < Smaller(n, c) THEN {"NONEXTUL"} ELSE {}

\* Whoever looks away now is told of as gone, and his slot is free.
LeavingA == {i \in Of({"enterexit"}) : iblist[i].old \/ i \in ahead}

ExitPass ==
  LET p == Pack(ul, toAdd.exit, Cardinality(LeavingA), EXIT_UL_SZ)
      exited == FirstOf(LeavingA, p.reserved)
  IN  /\ pc = "exits"
      /\ pc' = "enters"
      /\ iblist' = Without(exited)
      /\ report' = [report EXCEPT !.exits = TagsOf(exited)]
      /\ told' = told \ TagsOf(exited)
      /\ ul' = p.u
      /\ bleErrorMask' = bleErrorMask \cup NoNext(p, toAdd.exit, Cardinality(LeavingA))
      /\ UNCHANGED <<scanning, missed, toAdd, ahead>>

EnterPass ==
  LET p == Pack(ul, toAdd.enter, Cardinality(Entering), ENTER_UL_SZ)
      entered == FirstOf(Entering, p.reserved)
  IN  /\ pc = "enters"
      /\ pc' = "counts"
      /\ iblist' = Known(entered)
      /\ report' = [report EXCEPT !.enters = TagsOf(entered)]
      /\ told' = told \cup TagsOf(entered)
      /\ ul' = p.u
      /\ bleErrorMask' = bleErrorMask \cup NoNext(p, toAdd.enter, Cardinality(Entering))
      /\ UNCHANGED <<scanning, missed, toAdd, ahead>>

\* The counts of the first pass, the presence block, the error mask; then the
\* core calls stop.
LastPass ==
  LET p == Pack(ul, toAdd.types, toAdd.types, COUNT_UL_SZ)
  IN  /\ pc = "counts"
      /\ pc' = "idle"
      /\ scanning' = FALSE
      /\ bleErrorMask' = bleErrorMask \cup NoNext(p, toAdd.types, toAdd.types)
      /\ ul' = EmptySet
      /\ toAdd' = Nothing
      /\ ahead' = {}
      /\ UNCHANGED <<iblist, report, told, missed>>

----------------------------------------------------------------------------
(* Between the passes: the manager.  Out of getData: also the core, and time. *)

\* In a later second than the one getData read, or not.
SeeA(t) ==
  /\ See(t)
  /\ ahead' \in {ahead} \cup (IF pc = "idle" THEN {}
                              ELSE {ahead \cup {i \in Slots : iblist'[i].tag = t}})
  /\ UNCHANGED <<pc, ul, toAdd>>

CommFailA == CommFail /\ UNCHANGED <<pc, ul, toAdd, ahead>>

Outside == pc = "idle" /\ UNCHANGED <<pc, ul, toAdd, ahead>>

InitA == Init /\ pc = "idle" /\ ul = EmptySet /\ toAdd = Nothing /\ ahead = {}

NextA ==
  \/ CountPass \/ ExitPass \/ EnterPass \/ LastPass \/ CommFailA
  \/ \E t \in Tags : SeeA(t)
  \/ Outside /\ (Start \/ TurnLost \/ \E i \in Slots : Timeout(i))

SpecA == InitA /\ [][NextA]_scanAVars

----------------------------------------------------------------------------
(* Properties.  Also BackendInSync, of BleScanTag: in every state, between *)
(* the passes too, the tags told of are those the table holds as known.    *)

\* Type invariant: among others, every pass leaves a set the uplink can be in,
\* no list is allowed more than its maximum, and there is something ahead of the
\* clock only while getData runs.
TypeOKA ==
  /\ iblist \in [Slots -> [tag : Tags \cup {NoTag}, new : BOOLEAN, old : BOOLEAN]]
  /\ \A i, j \in Slots : iblist[i].tag = iblist[j].tag => i = j \/ iblist[i].tag = NoTag
  /\ scanning \in BOOLEAN
  /\ bleErrorMask \subseteq Errors \cup {"RX_BADMAJ"}
  /\ report \in [enters : SUBSET Tags, exits : SUBSET Tags]
  /\ told \subseteq Tags
  /\ pc \in {"idle", "exits", "enters", "counts"}
  /\ (pc # "idle" => scanning)
  /\ ul \in ULs
  /\ toAdd \in [exit : 0 .. maxExitPerUL, enter : 0 .. maxEnterPerUL, types : Nat]
  /\ ahead \subseteq Slots /\ (pc = "idle" => ahead = {})

\* "Note for enter/exits we only remove them when we have managed to send their
\* id in the UL" (mod_ble_scanA_tag.c:204), whatever the manager writes between
\* the passes.
KeptUntilSentA ==
  [][\A i \in Of({"enterexit"}) :
       iblist'[i].tag # iblist[i].tag => iblist[i].tag \in report'.exits]_scanAVars
=============================================================================
