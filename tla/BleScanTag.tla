----------------------------- MODULE BleScanTag -----------------------------
(***************************************************************************)
(* The tag scanner of mod-ble-scan-tag/src/mod_ble_scan_tag.c: a serial    *)
(* module that lets the BLE manager keep a table of the tags in range and  *)
(* tells the backend which entered, which left, how many there are of each *)
(* countable type and which of a wanted group are present.                 *)
(*                                                                         *)
(* The manager writes the table while the scan runs; getData reads and     *)
(* cleans it, and shares the space left in the uplink set out between the  *)
(* lists.  Time is abstract: an entry is `old' once it has not been seen   *)
(* for the exit timeout.  Advertisements the scan does not ask for are     *)
(* left out.                                                               *)
(*                                                                         *)
(* A definition named X_slip is X with a plausible programming error; it   *)
(* is used by no other, and shows that the properties notice the error.    *)
(***************************************************************************)
EXTENDS UplinkSpace

CONSTANTS
  MAX_BLE_TRACKED,
  Tags, NoTag,     \* what can be in a slot of the table
  Kind,            \* the kind of each tag, from the major it sends
  Class,           \* the countable types: the class of each tag
  maxEnterPerUL, maxExitPerUL

ENTER_UL_SZ  == 5
EXIT_UL_SZ   == 4
COUNT_UL_SZ  == 2
TL_HDR_UL_SZ == TL

Slots == 0 .. MAX_BLE_TRACKED - 1
Kinds == {"enterexit", "proximity", "countable", "presence", "otherPresence"}

ASSUME TagAssumption ==
  /\ MAX_BLE_TRACKED \in Nat
  /\ NoTag \notin Tags
  /\ Kind \in [Tags -> Kinds]
  /\ maxEnterPerUL \in 1 .. 255 /\ maxExitPerUL \in 1 .. 255

VARIABLES
  iblist,        \* per slot: the tag, is it new, is it old
  scanning,      \* between start and stop
  bleErrorMask,
  report,        \* what getData told of since the last start
  told,          \* the tags that entered and did not leave, as told since boot
  missed         \* was a tag seen for which there was no slot, this scan?

vars == <<iblist, scanning, bleErrorMask, report, told, missed>>

Empty == [tag |-> NoTag, new |-> FALSE, old |-> FALSE]
NoReport == [enters |-> {}, exits |-> {}]

Active == {i \in Slots : iblist[i].tag # NoTag}
Of(kinds) == {i \in Active : Kind[iblist[i].tag] \in kinds}

----------------------------------------------------------------------------
(* The first pass of getData: what is there, and what is forgotten. *)

\* Countable and presence entries go when they are old or not wanted; the
\* others stay until they have been told of.
Dropped == {i \in Of({"countable", "presence"}) : iblist[i].old} \cup Of({"otherPresence"})

EnterExit == Of({"enterexit", "proximity"})
nbEnter == Smaller(Cardinality({i \in EnterExit : iblist[i].new}), maxEnterPerUL)
nbExit  == Smaller(Cardinality({i \in EnterExit : ~iblist[i].new /\ iblist[i].old}), maxExitPerUL)
nbTypes == Cardinality({Class[iblist[i].tag] : i \in Of({"countable"}) \ Dropped})

\* Everyone gets the same share of the space.
PercentReduc(u) ==
  LET bytesRequired == nbEnter * ENTER_UL_SZ + nbExit * EXIT_UL_SZ
                         + nbTypes * COUNT_UL_SZ + TL_HDR_UL_SZ * 6
  IN  IF TotalSpace(u) > bytesRequired THEN 100 ELSE (TotalSpace(u) * 100) \div bytesRequired

Share(n, u) == (n * PercentReduc(u)) \div 100

----------------------------------------------------------------------------
(* The second pass: the lists, in the order of the table. *)

\* In the table for longer than the timeout; new ones are not excluded.
Leaving  == {i \in Of({"enterexit"}) : iblist[i].old}
Entering == {i \in Of({"enterexit"}) : iblist[i].new}

\* What is written is what was found and has its place reserved.
Exits(p)    == FirstOf(Leaving, p.reserved)
Enters(p, gone) == FirstOf(Entering \ gone, p.reserved)

TagsOf(S) == {iblist[i].tag : i \in S}

TableAfter_exitsKept(entered, exited) ==
  [i \in Slots |-> IF i \in Dropped THEN Empty
                   ELSE IF i \in entered THEN [iblist[i] EXCEPT !.new = FALSE]
                   ELSE iblist[i]]

TableAfter_allOldFreed(entered, exited) ==
  [i \in Slots |-> IF i \in Dropped \cup Leaving THEN Empty
                   ELSE IF i \in entered THEN [iblist[i] EXCEPT !.new = FALSE]
                   ELSE iblist[i]]

TableAfter(entered, exited) ==
  [i \in Slots |-> IF i \in Dropped \cup exited THEN Empty
                   ELSE IF i \in entered THEN [iblist[i] EXCEPT !.new = FALSE]
                   ELSE iblist[i]]

FullError_afterCleaning == IF Active \ Dropped = Slots THEN {"TABLE_FULL"} ELSE {}
FullError == IF Active = Slots THEN {"TABLE_FULL"} ELSE {}

\* The list of leavers, that of enterers and the counts one after the other; a
\* list that found fewer elements than it reserved place for leaves the rest of
\* its block empty.  The presence block and the error mask come last.
GetData ==
  /\ scanning
  /\ scanning' = FALSE
  /\ \E u \in Fills :
       LET x == Pack(u, Share(nbExit, u), Cardinality(Leaving), EXIT_UL_SZ)
           exited == Exits(x)
           e == Pack(x.u, Share(nbEnter, u), Cardinality(Entering \ exited), ENTER_UL_SZ)
           entered == Enters(e, exited)
           t == Pack(e.u, Share(nbTypes, u), nbTypes, COUNT_UL_SZ)
           spaceErr == IF \/ x.reserved < Smaller(Share(nbExit, u), Cardinality(Leaving))
                          \/ e.reserved < Smaller(Share(nbEnter, u), Cardinality(Entering \ exited))
                          \/ t.reserved < Smaller(Share(nbTypes, u), nbTypes)
                       THEN {"NONEXTUL"} ELSE {}
       IN  /\ iblist' = TableAfter(entered, exited)
           /\ report' = [enters |-> TagsOf(entered), exits |-> TagsOf(exited)]
           /\ told' = (told \cup TagsOf(entered)) \ TagsOf(exited)
           /\ bleErrorMask' = bleErrorMask \cup FullError \cup spaceErr
  /\ UNCHANGED missed

\* The core takes the turn away, or the device has become inactive.
TurnLost ==
  /\ scanning
  /\ scanning' = FALSE
  /\ UNCHANGED <<iblist, bleErrorMask, report, told, missed>>

Start ==
  /\ ~scanning
  /\ scanning' = TRUE
  /\ bleErrorMask' = {}
  /\ missed' = FALSE
  /\ report' = NoReport
  /\ UNCHANGED <<iblist, told>>

CommFail ==
  /\ scanning
  /\ bleErrorMask' = bleErrorMask \cup {"COMM_FAIL"}
  /\ UNCHANGED <<iblist, scanning, report, told, missed>>

----------------------------------------------------------------------------
(* The BLE manager, and time. *)

Tracks(i, t) == iblist[i].tag = t
FirstFree(i) == i \in Slots \ Active /\ \A j \in Slots \ Active : i <= j

See_alwaysInserts(t) ==
  /\ scanning
  /\ \E i \in Slots :
       /\ FirstFree(i)
       /\ iblist' = [iblist EXCEPT ![i] = [tag |-> t, new |-> TRUE, old |-> FALSE]]
  /\ UNCHANGED <<scanning, bleErrorMask, report, told, missed>>

\* A tag is seen: its entry is renewed, or made in the first free slot.
See(t) ==
  /\ scanning
  /\ \/ \E i \in Slots : Tracks(i, t) /\ iblist' = [iblist EXCEPT ![i].old = FALSE]
     \/ /\ \A i \in Slots : ~Tracks(i, t)
        /\ \E i \in Slots :
             /\ FirstFree(i)
             /\ iblist' = [iblist EXCEPT ![i] = [tag |-> t, new |-> TRUE, old |-> FALSE]]
  /\ UNCHANGED <<scanning, bleErrorMask, report, told, missed>>

Miss(t) ==
  /\ scanning
  /\ Active = Slots
  /\ \A i \in Slots : ~Tracks(i, t)
  /\ missed' = TRUE
  /\ UNCHANGED <<iblist, scanning, bleErrorMask, report, told>>

Timeout(i) ==
  /\ i \in Active /\ ~iblist[i].old
  /\ iblist' = [iblist EXCEPT ![i].old = TRUE]
  /\ UNCHANGED <<scanning, bleErrorMask, report, told, missed>>

Init ==
  /\ iblist = [i \in Slots |-> Empty]
  /\ scanning = FALSE
  /\ bleErrorMask = {}
  /\ report = NoReport
  /\ told = {}
  /\ missed = FALSE

Next ==
  \/ Start \/ CommFail \/ GetData \/ TurnLost
  \/ \E t \in Tags : See(t) \/ Miss(t)
  \/ \E i \in Slots : Timeout(i)

Spec == Init /\ [][Next]_vars

----------------------------------------------------------------------------
(* Properties. *)

Errors == {"COMM_FAIL", "TABLE_FULL", "NONEXTUL"}

\* Type invariant: among others, no tag holds two slots.
TypeOK ==
  /\ iblist \in [Slots -> [tag : Tags \cup {NoTag}, new : BOOLEAN, old : BOOLEAN]]
  /\ \A i, j \in Slots : iblist[i].tag = iblist[j].tag => i = j \/ iblist[i].tag = NoTag
  /\ scanning \in BOOLEAN
  /\ bleErrorMask \subseteq Errors
  /\ report \in [enters : SUBSET Tags, exits : SUBSET Tags]
  /\ told \subseteq Tags
  /\ missed \in BOOLEAN

\* The backend's picture is the device's: the tags it was told of as entered
\* and not left are those the table holds as known, however the space cut
\* the lists, and whichever left and came back between two reports.
BackendInSync == told = TagsOf({i \in Of({"enterexit"}) : ~iblist[i].new})

\* "Note for enter/exits we only remove them when we have managed to send
\* their id in the UL" (mod_ble_scan_tag.c:376).
KeptUntilSent ==
  [][\A i \in EnterExit :
       iblist'[i].tag # iblist[i].tag => iblist[i].tag \in report'.exits]_vars

\* A tag for which there was no slot is never passed over in silence: the
\* report of that scan has the table-full error.
MissedIsFlagged == [][GetData /\ missed => "TABLE_FULL" \in bleErrorMask']_vars

\* "exit/enter type : if new, we want to put in enter list in the outgoing
\* message" (mod_ble_scan_tag.c:368): a new tag is not told of as leaving.
NewIsEntered ==
  [][GetData => \A i \in Entering : iblist[i].tag \notin report'.exits]_vars
=============================================================================
