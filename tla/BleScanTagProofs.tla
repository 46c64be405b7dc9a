-------------------------- MODULE BleScanTagProofs --------------------------
(***************************************************************************)
(* Theorems about the tag scanner (BleScanTag) and the one for scanA       *)
(* hardware (BleScanATag), for any table, tags, kinds and uplink sets.     *)
(* Both keep the same table, so what a step does to the table and to the   *)
(* backend's picture of it is stated once.                                 *)
(*                                                                         *)
(* For the picture it does not matter how the space of the set is shared   *)
(* out: a list is some of the entries it was made from, however many had   *)
(* room.  Only that every step leaves a set the uplink can be in needs     *)
(* what Pack does, and with it induction.                                  *)
(***************************************************************************)
EXTENDS BleScanATag, FiniteSetTheorems, Recursion, TLAPS

Entry == [tag : Tags \cup {NoTag}, new : BOOLEAN, old : BOOLEAN]

\* What TypeOK and TypeOKA say of the table.
TableOK ==
  /\ iblist \in [Slots -> Entry]
  /\ \A i, j \in Slots : iblist[i].tag = iblist[j].tag => i = j \/ iblist[i].tag = NoTag

\* An entry the backend was told of.
KnownAt(ib) == ib.tag # NoTag /\ Kind[ib.tag] = "enterexit" /\ ib.new = FALSE

\* A tag was missed only because the table was full, and during the scan
\* nothing leaves the table.
FullIfMissed == scanning /\ missed => Active = Slots

IInv == TypeOK /\ BackendInSync /\ FullIfMissed

AInv == TypeOKA /\ BackendInSync

----------------------------------------------------------------------------
(* The table, and the backend's picture of it. *)

LEMMA EmptyIsEntry == Empty \in Entry /\ Empty.tag = NoTag
  BY DEF Empty, Entry

(* A first part of a list is a part of it. *)
LEMMA FirstOfSubset ==
  ASSUME NEW S, NEW n
  PROVE  FirstOf(S, n) \subseteq S
  BY DEF FirstOf

LEMMA TagsOfTags ==
  ASSUME TableOK, NEW S \in SUBSET Active
  PROVE  TagsOf(S) \subseteq Tags
  BY DEF TableOK, TagsOf, Active, Entry

(* Told of are the tags of the known entries. *)
LEMMA ToldOfKnown ==
  ASSUME TableOK, BackendInSync, NEW t
  PROVE  t \in told <=> \E j \in Slots : KnownAt(iblist[j]) /\ iblist[j].tag = t
<1>1. \A j \in Slots : iblist[j].new \in BOOLEAN
  BY DEF TableOK, Entry
<1> QED
  BY <1>1 DEF BackendInSync, TagsOf, Of, Active, KnownAt

(* A step that takes some entries out of the table, or makes some known, and *)
(* tells of both, leaves the picture right.                                  *)
LEMMA SyncStep ==
  ASSUME TableOK, BackendInSync, iblist' \in [Slots -> Entry],
         NEW gone \in SUBSET Slots, NEW entered \in SUBSET (Slots \ gone),
         told' = (told \cup TagsOf(entered)) \ TagsOf(gone),
         \A j \in entered : iblist[j].tag # NoTag,
         \A j \in Slots : KnownAt(iblist'[j]) <=> j \notin gone /\ (KnownAt(iblist[j]) \/ j \in entered),
         \A j \in Slots : KnownAt(iblist'[j]) => iblist'[j].tag = iblist[j].tag
  PROVE  BackendInSync'
<1>1. \A j, k \in Slots : iblist[j].tag = iblist[k].tag /\ iblist[j].tag # NoTag => j = k
  BY DEF TableOK
<1>2. \A t : t \in told' <=> \E j \in Slots : KnownAt(iblist'[j]) /\ iblist'[j].tag = t
  <2> SUFFICES ASSUME NEW t
               PROVE  t \in told' <=> \E j \in Slots : KnownAt(iblist'[j]) /\ iblist'[j].tag = t
    OBVIOUS
  <2>1. t \in TagsOf(gone) <=> \E j \in gone : iblist[j].tag = t
    BY DEF TagsOf
  <2>2. t \in TagsOf(entered) <=> \E j \in entered : iblist[j].tag = t
    BY DEF TagsOf
  <2>3. ASSUME t \in told' PROVE \E j \in Slots : KnownAt(iblist'[j]) /\ iblist'[j].tag = t
    <3>1. PICK j \in Slots : (KnownAt(iblist[j]) \/ j \in entered) /\ iblist[j].tag = t
      BY <2>2, <2>3, ToldOfKnown
    <3>2. j \notin gone
      BY <2>1, <2>3, <3>1
    <3> QED
      BY <3>1, <3>2
  <2>4. ASSUME NEW j \in Slots, KnownAt(iblist'[j]), iblist'[j].tag = t PROVE t \in told'
    <3>1. /\ iblist[j].tag = t /\ j \notin gone
          /\ KnownAt(iblist[j]) \/ j \in entered
      BY <2>4
    <3>2. t # NoTag
      BY <2>4 DEF KnownAt
    <3>3. t \in told \cup TagsOf(entered)
      BY <2>2, <3>1, ToldOfKnown
    <3>4. t \notin TagsOf(gone)
      BY <1>1, <2>1, <3>1, <3>2
    <3> QED
      BY <3>3, <3>4
  <2> QED
    BY <2>3, <2>4
<1>3. \A j \in Slots : iblist'[j].new \in BOOLEAN
  BY DEF Entry
<1>4. {i \in Of({"enterexit"}) : ~iblist[i].new}' = {j \in Slots : KnownAt(iblist'[j])}
  BY <1>3 DEF Of, Active, KnownAt
<1>5. TagsOf({i \in Of({"enterexit"}) : ~iblist[i].new})'
        = {iblist'[j].tag : j \in {k \in Slots : KnownAt(iblist'[k])}}
  BY <1>4 DEF TagsOf
<1>6. told' = {iblist'[j].tag : j \in {k \in Slots : KnownAt(iblist'[k])}}
  BY <1>2
<1> QED
  BY <1>5, <1>6 DEF BackendInSync

(* The same when nothing is told of, and an entry that changes its tag was *)
(* not known and will not be.                                              *)
LEMMA SameKnown ==
  ASSUME TableOK, BackendInSync, iblist' \in [Slots -> Entry], told' = told,
         \A j \in Slots : \/ KnownAt(iblist'[j]) = KnownAt(iblist[j]) /\ iblist'[j].tag = iblist[j].tag
                          \/ ~KnownAt(iblist'[j]) /\ ~KnownAt(iblist[j])
  PROVE  BackendInSync'
<1>1. TagsOf({}) = {}
  BY DEF TagsOf
<1>2. told' = (told \cup TagsOf({})) \ TagsOf({})
  BY <1>1
<1>3. \A j \in Slots : KnownAt(iblist'[j]) <=> j \notin {} /\ (KnownAt(iblist[j]) \/ j \in {})
  OBVIOUS
<1>4. \A j \in Slots : KnownAt(iblist'[j]) => iblist'[j].tag = iblist[j].tag
  OBVIOUS
<1> QED
  BY <1>2, <1>3, <1>4, SyncStep

(* What See does to the table: one entry is renewed, or made. *)
LEMMA SeeTable ==
  ASSUME TagAssumption, TableOK, NEW t \in Tags, See(t)
  PROVE  /\ TableOK'
         /\ \A j \in Slots : /\ iblist'[j].tag = iblist[j].tag \/ iblist[j].tag = NoTag
                             /\ iblist'[j].tag = iblist[j].tag => iblist'[j].new = iblist[j].new
                             /\ iblist'[j].tag # iblist[j].tag => iblist'[j].new = TRUE
<1>1. \A j \in Slots : iblist[j] \in Entry
  BY DEF TableOK
<1>2. ASSUME NEW i \in Slots, Tracks(i, t), iblist' = [iblist EXCEPT ![i].old = FALSE]
      PROVE  /\ TableOK'
             /\ \A j \in Slots : iblist'[j].tag = iblist[j].tag /\ iblist'[j].new = iblist[j].new
  <2> DEFINE ib == [iblist[i] EXCEPT !.old = FALSE]
  <2>1. ib \in Entry /\ ib.tag = iblist[i].tag /\ ib.new = iblist[i].new
    BY <1>1 DEF Entry
  <2>2. iblist' = [iblist EXCEPT ![i] = ib]
    BY <1>2
  <2> HIDE DEF ib
  <2>3. \A j \in Slots : iblist'[j].tag = iblist[j].tag /\ iblist'[j].new = iblist[j].new
    BY <2>1, <2>2 DEF TableOK
  <2> QED
    BY <2>1, <2>2, <2>3 DEF TableOK
<1>3. ASSUME \A i \in Slots : ~Tracks(i, t), NEW i \in Slots, FirstFree(i),
             iblist' = [iblist EXCEPT ![i] = [tag |-> t, new |-> TRUE, old |-> FALSE]]
      PROVE  /\ TableOK'
             /\ iblist[i].tag = NoTag /\ iblist'[i].tag = t /\ iblist'[i].new = TRUE
             /\ \A j \in Slots \ {i} : iblist'[j] = iblist[j]
  <2> DEFINE ib == [tag |-> t, new |-> TRUE, old |-> FALSE]
  <2>1. ib \in Entry /\ ib.tag = t /\ ib.new = TRUE
    BY DEF Entry
  <2>2. iblist' = [iblist EXCEPT ![i] = ib]
    BY <1>3
  <2> HIDE DEF ib
  <2>3. \A j \in Slots : iblist'[j] = IF j = i THEN ib ELSE iblist[j]
    BY <2>2 DEF TableOK
  <2>4. iblist[i].tag = NoTag
    BY <1>3 DEF FirstFree, Active
  <2>5. iblist' \in [Slots -> Entry]
    BY <2>1, <2>2 DEF TableOK
  <2>6. \A j, k \in Slots : iblist'[j].tag = iblist'[k].tag => j = k \/ iblist'[j].tag = NoTag
    BY <1>3, <2>1, <2>3 DEF TableOK, Tracks
  <2> QED
    BY <2>1, <2>3, <2>4, <2>5, <2>6 DEF TableOK
<1>4. t # NoTag
  BY DEF TagAssumption
<1>5. CASE \E i \in Slots : Tracks(i, t) /\ iblist' = [iblist EXCEPT ![i].old = FALSE]
  BY <1>2, <1>5
<1>6. CASE /\ \A i \in Slots : ~Tracks(i, t)
           /\ \E i \in Slots :
                /\ FirstFree(i)
                /\ iblist' = [iblist EXCEPT ![i] = [tag |-> t, new |-> TRUE, old |-> FALSE]]
  <2>1. PICK i \in Slots : /\ FirstFree(i)
                           /\ iblist' = [iblist EXCEPT ![i] = [tag |-> t, new |-> TRUE, old |-> FALSE]]
    BY <1>6
  <2>2. /\ TableOK'
        /\ iblist[i].tag = NoTag /\ iblist'[i].tag = t /\ iblist'[i].new = TRUE
        /\ \A j \in Slots \ {i} : iblist'[j] = iblist[j]
    BY <1>3, <1>6, <2>1
  <2> QED
    BY <1>4, <2>2
<1> QED
  BY <1>5, <1>6 DEF See

LEMMA TimeoutTable ==
  ASSUME TableOK, NEW i \in Slots, Timeout(i)
  PROVE  /\ TableOK'
         /\ \A j \in Slots : iblist'[j].tag = iblist[j].tag /\ iblist'[j].new = iblist[j].new
<1> DEFINE ib == [iblist[i] EXCEPT !.old = TRUE]
<1>1. iblist[i] \in Entry
  BY DEF TableOK
<1>2. ib \in Entry /\ ib.tag = iblist[i].tag /\ ib.new = iblist[i].new
  BY <1>1 DEF Entry
<1>3. iblist' = [iblist EXCEPT ![i] = ib]
  BY DEF Timeout
<1> HIDE DEF ib
<1>4. \A j \in Slots : iblist'[j].tag = iblist[j].tag /\ iblist'[j].new = iblist[j].new
  BY <1>2, <1>3 DEF TableOK
<1> QED
  BY <1>2, <1>3, <1>4 DEF TableOK

----------------------------------------------------------------------------
(* The tag scanner: getData is one step. *)

LEMMA TypeOKIs == TypeOK => TableOK
  BY DEF TypeOK, TableOK, Entry

(* Cleaning the table: an entry loses its tag or keeps it. *)
LEMMA CleanTable ==
  ASSUME TableOK, NEW entered, NEW exited, iblist' = TableAfter(entered, exited)
  PROVE  /\ TableOK'
         /\ \A j \in Slots : IF j \in Dropped \cup exited THEN iblist'[j].tag = NoTag
                             ELSE /\ iblist'[j].tag = iblist[j].tag
                                  /\ iblist'[j].new = (iblist[j].new /\ j \notin entered)
<1>1. \A i \in Slots : iblist[i] \in Entry
  BY DEF TableOK
<1>2. \A i \in Slots : [iblist[i] EXCEPT !.new = FALSE] \in Entry
  BY <1>1 DEF Entry
<1>3. \A j \in Slots :
         /\ j \in Dropped \cup exited => iblist'[j] = Empty
         /\ j \notin Dropped \cup exited /\ j \in entered =>
              iblist'[j] = [iblist[j] EXCEPT !.new = FALSE]
         /\ j \notin Dropped \cup exited /\ j \notin entered => iblist'[j] = iblist[j]
  BY DEF TableAfter
<1>4. iblist' \in [Slots -> Entry]
  <2>1. \A i \in Slots : iblist'[i] \in Entry
    BY <1>1, <1>2, <1>3, EmptyIsEntry
  <2> QED
    BY <2>1 DEF TableAfter
<1>5. \A j \in Slots : IF j \in Dropped \cup exited THEN iblist'[j].tag = NoTag
                       ELSE /\ iblist'[j].tag = iblist[j].tag
                            /\ iblist'[j].new = (iblist[j].new /\ j \notin entered)
  BY <1>1, <1>3, EmptyIsEntry DEF Entry
<1>6. \A i, j \in Slots : iblist'[i].tag = iblist'[j].tag => i = j \/ iblist'[i].tag = NoTag
  BY <1>5 DEF TableOK
<1> QED
  BY <1>4, <1>5, <1>6 DEF TableOK

(* The picture of the backend stays right when the table is cleaned and the *)
(* lists are told of, whatever parts of them had room.                      *)
LEMMA TellKeepsSync ==
  ASSUME TableOK, BackendInSync,
         NEW exited \in SUBSET Leaving, NEW entered \in SUBSET (Entering \ exited),
         iblist' = TableAfter(entered, exited),
         told' = (told \cup TagsOf(entered)) \ TagsOf(exited)
  PROVE  BackendInSync'
<1>1. \A j \in exited \cup entered :
         j \in Slots /\ iblist[j].tag # NoTag /\ Kind[iblist[j].tag] = "enterexit"
  BY DEF Leaving, Entering, Of, Active
<1>2. \A j \in Dropped : Kind[iblist[j].tag] # "enterexit"
  BY DEF Dropped, Of
<1>3. /\ TableOK'
      /\ \A j \in Slots : IF j \in Dropped \cup exited THEN iblist'[j].tag = NoTag
                          ELSE /\ iblist'[j].tag = iblist[j].tag
                               /\ iblist'[j].new = (iblist[j].new /\ j \notin entered)
  BY CleanTable
<1>4. \A j \in Slots : iblist[j].new \in BOOLEAN
  BY DEF TableOK, Entry
<1>5. \A j \in Slots :
         KnownAt(iblist'[j]) <=> j \notin exited /\ (KnownAt(iblist[j]) \/ j \in entered)
  <2> SUFFICES ASSUME NEW j \in Slots
               PROVE  KnownAt(iblist'[j]) <=>
                        j \notin exited /\ (KnownAt(iblist[j]) \/ j \in entered)
    OBVIOUS
  <2>1. CASE j \in Dropped \cup exited
    BY <1>1, <1>2, <1>3, <2>1 DEF KnownAt
  <2>2. CASE j \notin Dropped \cup exited
    BY <1>1, <1>3, <1>4, <2>2 DEF KnownAt
  <2> QED
    BY <2>1, <2>2
<1>6. \A j \in Slots : KnownAt(iblist'[j]) => iblist'[j].tag = iblist[j].tag
  BY <1>3 DEF KnownAt
<1>7. iblist' \in [Slots -> Entry] /\ exited \in SUBSET Slots
        /\ entered \in SUBSET (Slots \ exited)
  BY <1>1, <1>3 DEF TableOK
<1> QED
  BY <1>1, <1>5, <1>6, <1>7, SyncStep

(* What getData does to the state the properties speak of. *)
LEMMA GetDataTells ==
  ASSUME GetData
  PROVE  \E exited \in SUBSET Leaving : \E entered \in SUBSET (Entering \ exited) :
           /\ iblist' = TableAfter(entered, exited)
           /\ report' = [enters |-> TagsOf(entered), exits |-> TagsOf(exited)]
           /\ told' = (told \cup TagsOf(entered)) \ TagsOf(exited)
<1>1. PICK u \in Fills :
        LET x == Pack(u, Share(nbExit, u), Cardinality(Leaving), EXIT_UL_SZ)
            exited == Exits(x)
            e == Pack(x.u, Share(nbEnter, u), Cardinality(Entering \ exited), ENTER_UL_SZ)
            entered == Enters(e, exited)
        IN  /\ iblist' = TableAfter(entered, exited)
            /\ report' = [enters |-> TagsOf(entered), exits |-> TagsOf(exited)]
            /\ told' = (told \cup TagsOf(entered)) \ TagsOf(exited)
  BY DEF GetData
<1> DEFINE x == Pack(u, Share(nbExit, u), Cardinality(Leaving), EXIT_UL_SZ)
           exited == Exits(x)
           e == Pack(x.u, Share(nbEnter, u), Cardinality(Entering \ exited), ENTER_UL_SZ)
           entered == Enters(e, exited)
<1>2. exited \in SUBSET Leaving
  BY FirstOfSubset DEF Exits
<1>3. entered \in SUBSET (Entering \ exited)
  BY FirstOfSubset DEF Enters
<1>4. /\ iblist' = TableAfter(entered, exited)
      /\ report' = [enters |-> TagsOf(entered), exits |-> TagsOf(exited)]
      /\ told' = (told \cup TagsOf(entered)) \ TagsOf(exited)
  BY <1>1
<1> HIDE DEF exited, entered
<1> QED
  BY <1>2, <1>3, <1>4

LEMMA GetDataInv ==
  ASSUME TagAssumption, IInv, GetData
  PROVE  IInv'
<1> USE DEF IInv
<1>0. PICK exited \in SUBSET Leaving : \E entered \in SUBSET (Entering \ exited) :
        /\ iblist' = TableAfter(entered, exited)
        /\ report' = [enters |-> TagsOf(entered), exits |-> TagsOf(exited)]
        /\ told' = (told \cup TagsOf(entered)) \ TagsOf(exited)
  BY GetDataTells
<1>1. PICK entered \in SUBSET (Entering \ exited) :
        /\ iblist' = TableAfter(entered, exited)
        /\ report' = [enters |-> TagsOf(entered), exits |-> TagsOf(exited)]
        /\ told' = (told \cup TagsOf(entered)) \ TagsOf(exited)
  BY <1>0
<1>t. TableOK
  BY TypeOKIs
<1>2. TypeOK'
  <2>1. TagsOf(entered) \subseteq Tags /\ TagsOf(exited) \subseteq Tags
    <3>1. entered \in SUBSET Active /\ exited \in SUBSET Active
      BY DEF Leaving, Entering, Of
    <3> QED
      BY <1>t, <3>1, TagsOfTags
  <2>2. report' \in [enters : SUBSET Tags, exits : SUBSET Tags] /\ told' \subseteq Tags
    BY <1>1, <2>1 DEF TypeOK
  <2>3. TableOK'
    BY <1>t, <1>1, CleanTable
  <2>4. scanning' = FALSE /\ missed' = missed /\ bleErrorMask' \subseteq Errors
    <3>1. scanning' = FALSE /\ missed' = missed
      BY DEF GetData
    <3>2. bleErrorMask' \subseteq bleErrorMask \cup FullError \cup {"NONEXTUL"}
      BY DEF GetData
    <3>3. FullError \subseteq Errors
      BY DEF FullError, Errors
    <3> QED
      BY <3>1, <3>2, <3>3 DEF TypeOK, Errors
  <2> QED
    BY <2>2, <2>3, <2>4 DEF TypeOK, TableOK, Entry
<1>3. BackendInSync'
  BY <1>t, <1>1, TellKeepsSync
<1>4. FullIfMissed'
  BY DEF GetData, FullIfMissed
<1> QED
  BY <1>2, <1>3, <1>4

LEMMA SeeInv ==
  ASSUME TagAssumption, IInv, NEW t \in Tags, See(t)
  PROVE  IInv'
<1>1. TableOK
  BY TypeOKIs DEF IInv
<1>2. /\ TableOK'
      /\ \A j \in Slots : /\ iblist'[j].tag = iblist[j].tag \/ iblist[j].tag = NoTag
                          /\ iblist'[j].tag = iblist[j].tag => iblist'[j].new = iblist[j].new
                          /\ iblist'[j].tag # iblist[j].tag => iblist'[j].new = TRUE
  BY <1>1, SeeTable
<1>3. UNCHANGED <<scanning, bleErrorMask, report, told, missed>>
  BY DEF See
<1>4. \A j \in Slots : \/ KnownAt(iblist'[j]) = KnownAt(iblist[j]) /\ iblist'[j].tag = iblist[j].tag
                       \/ ~KnownAt(iblist'[j]) /\ ~KnownAt(iblist[j])
  BY <1>2 DEF KnownAt
<1>5. BackendInSync'
  BY <1>1, <1>2, <1>3, <1>4, SameKnown DEF IInv, TableOK
<1>6. TypeOK'
  BY <1>2, <1>3 DEF IInv, TypeOK, TableOK, Entry
<1>7. FullIfMissed'
  BY <1>2, <1>3 DEF IInv, FullIfMissed, Active
<1> QED
  BY <1>5, <1>6, <1>7 DEF IInv

LEMMA TimeoutInv ==
  ASSUME TagAssumption, IInv, NEW i \in Slots, Timeout(i)
  PROVE  IInv'
<1>1. TableOK
  BY TypeOKIs DEF IInv
<1>2. /\ TableOK'
      /\ \A j \in Slots : iblist'[j].tag = iblist[j].tag /\ iblist'[j].new = iblist[j].new
  BY <1>1, TimeoutTable
<1>3. UNCHANGED <<scanning, bleErrorMask, report, told, missed>>
  BY DEF Timeout
<1>4. \A j \in Slots : KnownAt(iblist'[j]) = KnownAt(iblist[j]) /\ iblist'[j].tag = iblist[j].tag
  BY <1>2 DEF KnownAt
<1>5. BackendInSync'
  BY <1>1, <1>2, <1>3, <1>4, SameKnown DEF IInv, TableOK
<1>6. TypeOK'
  BY <1>2, <1>3 DEF IInv, TypeOK, TableOK, Entry
<1>7. FullIfMissed'
  BY <1>2, <1>3 DEF IInv, FullIfMissed, Active
<1> QED
  BY <1>5, <1>6, <1>7 DEF IInv

LEMMA InitInv == TagAssumption /\ Init => IInv
<1> SUFFICES ASSUME TagAssumption, Init PROVE IInv
  OBVIOUS
<1>1. \A i \in Slots : iblist[i].tag = NoTag
  BY EmptyIsEntry DEF Init
<1>2. iblist \in [Slots -> Entry]
  BY EmptyIsEntry DEF Init
<1>3. TypeOK
  BY <1>1, <1>2 DEF Init, TypeOK, Entry, NoReport
<1>4. BackendInSync
  BY <1>1 DEF Init, BackendInSync, TagsOf, Of, Active
<1> QED
  BY <1>3, <1>4 DEF Init, IInv, FullIfMissed

LEMMA StepInv == TagAssumption /\ IInv /\ [Next]_vars => IInv'
<1> SUFFICES ASSUME TagAssumption, IInv, [Next]_vars PROVE IInv'
  OBVIOUS
<1>1. ASSUME scanning' \in BOOLEAN, missed' \in BOOLEAN, bleErrorMask' \subseteq Errors,
             report' \in {report, NoReport}, UNCHANGED <<iblist, told>>,
             scanning' /\ missed' => Active = Slots
      PROVE  IInv'
  <2>1. report' \in [enters : SUBSET Tags, exits : SUBSET Tags]
    BY <1>1 DEF IInv, TypeOK, NoReport
  <2>2. TypeOK'
    BY <1>1, <2>1 DEF IInv, TypeOK
  <2>3. BackendInSync'
    BY <1>1 DEF IInv, BackendInSync, TagsOf, Of, Active
  <2>4. FullIfMissed'
    BY <1>1 DEF FullIfMissed, Active
  <2> QED
    BY <2>2, <2>3, <2>4 DEF IInv
<1>2. CASE Start
  BY <1>1, <1>2 DEF Start, IInv, TypeOK
<1>3. CASE CommFail
  <2>1. bleErrorMask' \subseteq Errors
    BY <1>3 DEF CommFail, IInv, TypeOK, Errors
  <2>2. scanning' = scanning /\ missed' = missed /\ report' = report
          /\ UNCHANGED <<iblist, told>>
    BY <1>3 DEF CommFail
  <2>3. scanning' \in BOOLEAN /\ missed' \in BOOLEAN
    BY <2>2 DEF IInv, TypeOK
  <2>4. scanning' /\ missed' => Active = Slots
    BY <2>2 DEF IInv, FullIfMissed
  <2> QED
    BY <1>1, <2>1, <2>2, <2>3, <2>4
<1>4. CASE GetData
  BY <1>4, GetDataInv
<1>5. CASE TurnLost
  BY <1>1, <1>5 DEF TurnLost, IInv, TypeOK
<1>6. ASSUME NEW t \in Tags, See(t) PROVE IInv'
  BY <1>6, SeeInv
<1>7. ASSUME NEW t \in Tags, Miss(t) PROVE IInv'
  BY <1>1, <1>7 DEF Miss, IInv, TypeOK
<1>8. ASSUME NEW i \in Slots, Timeout(i) PROVE IInv'
  BY <1>8, TimeoutInv
<1>9. CASE UNCHANGED vars
  BY <1>1, <1>9 DEF vars, IInv, TypeOK, FullIfMissed
<1> QED
  BY <1>2, <1>3, <1>4, <1>5, <1>6, <1>7, <1>8, <1>9 DEF Next

(* The inductive invariant: the types, the picture of the backend, and that *)
(* a tag is missed only for want of a slot.                                 *)
THEOREM Invariance == Spec => []IInv
<1>1. IInv /\ [Next]_vars => IInv'
  BY StepInv, TagAssumption
<1>2. Init => IInv
  BY InitInv, TagAssumption
<1> QED
  BY <1>1, <1>2, PTL DEF Spec

(* No tag holds two slots, whatever is seen, told of and timed out. *)
THEOREM TypeCorrect == Spec => []TypeOK
<1>1. IInv => TypeOK
  BY DEF IInv
<1> QED
  BY <1>1, Invariance, PTL

(* What the backend was told is what the table knows (getData), however the *)
(* space in the uplink set cut the lists.                                   *)
THEOREM InSync == Spec => []BackendInSync
<1>1. IInv => BackendInSync
  BY DEF IInv
<1> QED
  BY <1>1, Invariance, PTL

(* An enter/exit or proximity entry leaves the table only when getData has  *)
(* told of it as gone.                                                      *)
THEOREM KeptTillTold == Spec => KeptUntilSent
<1>1. ASSUME IInv, IInv', [Next]_vars, NEW i \in EnterExit, iblist'[i].tag # iblist[i].tag
      PROVE  iblist[i].tag \in report'.exits
  <2>1. i \in Slots /\ iblist[i].tag # NoTag /\ Kind[iblist[i].tag] \in {"enterexit", "proximity"}
    BY <1>1 DEF EnterExit, Of, Active
  <2>2. CASE GetData
    <3>0. PICK exited \in SUBSET Leaving : \E entered \in SUBSET (Entering \ exited) :
            /\ iblist' = TableAfter(entered, exited)
            /\ report' = [enters |-> TagsOf(entered), exits |-> TagsOf(exited)]
            /\ told' = (told \cup TagsOf(entered)) \ TagsOf(exited)
      BY <2>2, GetDataTells
    <3>1. PICK entered \in SUBSET (Entering \ exited) :
            /\ iblist' = TableAfter(entered, exited)
            /\ report' = [enters |-> TagsOf(entered), exits |-> TagsOf(exited)]
      BY <3>0
    <3>2. i \notin Dropped
      BY <2>1 DEF Dropped, Of
    <3>3. i \in exited
      BY <1>1, <2>1, <3>1, <3>2, TypeOKIs, CleanTable DEF IInv
    <3> QED
      BY <3>1, <3>3 DEF TagsOf
  <2>3. ASSUME NEW t \in Tags, See(t) PROVE FALSE
    BY <1>1, <2>1, <2>3, TypeOKIs, SeeTable, TagAssumption DEF IInv
  <2>4. ASSUME NEW j \in Slots, Timeout(j) PROVE FALSE
    BY <1>1, <2>1, <2>4, TypeOKIs, TimeoutTable DEF IInv
  <2>5. CASE UNCHANGED iblist
    BY <1>1, <2>5
  <2> QED
    BY <1>1, <2>2, <2>3, <2>4, <2>5 DEF Next, vars, Start, CommFail, TurnLost, Miss
<1>2. IInv /\ IInv' /\ [Next]_vars =>
        [\A i \in EnterExit :
           iblist'[i].tag # iblist[i].tag => iblist[i].tag \in report'.exits]_vars
  BY <1>1
<1> QED
  BY <1>2, Invariance, PTL DEF Spec, KeptUntilSent

(* A scan in which a tag found no slot reports a full table (getData). *)
THEOREM MissedFlagged == Spec => MissedIsFlagged
<1>1. ASSUME IInv, GetData, missed PROVE "TABLE_FULL" \in bleErrorMask'
  <2>1. Active = Slots
    BY <1>1 DEF GetData, IInv, FullIfMissed
  <2> QED
    BY <1>1, <2>1 DEF GetData, FullError
<1>2. IInv /\ [Next]_vars => [GetData /\ missed => "TABLE_FULL" \in bleErrorMask']_vars
  BY <1>1
<1> QED
  BY <1>2, Invariance, PTL DEF Spec, MissedIsFlagged

----------------------------------------------------------------------------
(* The space of the uplink set. *)

(* What a whole division says. *)
LEMMA DivBound ==
  ASSUME NEW a \in Nat, NEW b \in Nat \ {0}
  PROVE  a \div b \in Nat /\ b * (a \div b) <= a /\ a < b * (a \div b) + b
OBVIOUS

(* A block fits the message it goes to, and is not empty. *)
LEMMA RoomFits ==
  ASSUME NEW l \in Nat, NEW s \in 1 .. 5, NEW k \in Nat \ {0}, l >= TL + s
  PROVE  LET room == Smaller((l - TL) \div s, k)
         IN  room \in 1 .. k /\ TL + room * s <= l
<1> DEFINE a == l - TL
           d == a \div s
<1>1. a \in Nat /\ a >= s /\ s \in Nat \ {0} /\ a + TL = l /\ TL = 2
  BY DEF TL
<1> HIDE DEF a
<1>2. d \in Nat /\ s * d <= a /\ a < s * d + s
  BY <1>1, DivBound
<1> HIDE DEF d
<1>3. d >= 1
  <2>1. d = 0 => s * d = 0
    BY <1>1
  <2> QED
    BY <1>1, <1>2, <2>1
<1>4. \A r \in 0 .. d : r * s <= a
  <2> SUFFICES ASSUME NEW r \in 0 .. d PROVE r * s <= a
    OBVIOUS
  <2>1. s \in {1, 2, 3, 4, 5}
    BY <1>1
  <2>2. r * s <= s * d
    BY <1>2, <2>1
  <2> QED
    BY <1>1, <1>2, <2>2
<1>5. Smaller(d, k) \in 1 .. k /\ Smaller(d, k) \in 0 .. d
  BY <1>2, <1>3 DEF Smaller
<1>6. TL + Smaller(d, k) * s <= l
  <2> DEFINE r == Smaller(d, k)
  <2>1. r * s <= a /\ r * s \in Int
    BY <1>4, <1>5
  <2> QED
    BY <1>1, <2>1
<1> QED
  BY <1>5, <1>6 DEF a, d

(* The block that a list reserves goes where its size was taken from: it is   *)
(* not empty, and addTLgetVP neither refuses it nor puts it in another        *)
(* message.  ("this should not happen if the previous calculations were       *)
(* correct", mod_ble_scan_tag.c:600, and assert(nbThisUL>0), line 586.)       *)
THEOREM BlockTaken ==
  ASSUME SpaceAssumption, NEW u \in ULs, NEW s \in 1 .. 5, NEW k \in Nat \ {0},
         Left(u) >= TL + s
  PROVE  LET room == Smaller((Left(u) - TL) \div s, k)
         IN  /\ room \in 1 .. k
             /\ Fits(u, room * s)
             /\ Added(u, room * s) = [u EXCEPT !.sz = @ + TL + room * s]
             /\ Added(u, room * s) \in ULs
<1> DEFINE room == Smaller((Left(u) - TL) \div s, k)
           l == room * s
<1>1. /\ Left(u) \in Nat /\ Left(u) <= MAX_SZ - HDR /\ u.sz \in Nat /\ MAX_SZ \in Nat
      /\ u \in [filling : 0 .. MAX_NB - 1, sz : HDR .. MAX_SZ]
  BY DEF SpaceAssumption, ULs, Left, HDR
<1>2. room \in 1 .. k /\ TL + l <= Left(u)
  BY <1>1, RoomFits
<1>3. l \in Nat
  BY <1>2
<1> HIDE DEF room, l
<1>4. Fits(u, l)
  BY <1>1, <1>2, <1>3 DEF Fits, HDR, TL
<1>5. Added(u, l) = [u EXCEPT !.sz = @ + TL + l]
  BY <1>1, <1>2, <1>3, <1>4 DEF Added, TL
<1>6. [u EXCEPT !.sz = @ + TL + l] \in ULs
  <2>1. u.sz + TL + l \in HDR .. MAX_SZ
    BY <1>1, <1>2, <1>3 DEF Left, HDR, TL
  <2> QED
    BY <1>1, <2>1 DEF ULs
<1> QED
  BY <1>2, <1>4, <1>5, <1>6 DEF room, l

(* Whatever the set, the list and the size of its elements, the blocks       *)
(* reserved for a list (mod_ble_scan_tag.c, getData) fit their messages; no  *)
(* more elements are reserved than allowed, and fewer than were found only   *)
(* when the last message has no room for another.                            *)
THEOREM PackFits ==
  ASSUME SpaceAssumption, NEW u0 \in ULs, NEW n \in Nat, NEW c \in Nat, NEW s \in 1 .. 5
  PROVE  LET p == Pack(u0, n, c, s)
         IN  /\ p.u \in ULs
             /\ p.reserved \in 0 .. n
             /\ p.reserved < Smaller(n, c) => Left(p.u) < TL + s /\ ~HasNextUL(p.u)
<1> DEFINE D == [u : ULs, reserved : 0 .. n]
           into(v) == IF Left(v.u) < TL + s THEN NextUL(v.u) ELSE v.u
           room(v) == Smaller((Left(into(v)) - TL) \div s, n - v.reserved)
           done(v) == \/ v.reserved >= Smaller(n, c)
                      \/ Left(v.u) < TL + s /\ ~HasNextUL(v.u)
           then(v) == [u |-> Added(into(v), room(v) * s), reserved |-> v.reserved + room(v)]
           stop == {v \in D : done(v)}
           next == [v \in D |-> IF v \in stop THEN v ELSE then(v)]
           rank == [v \in D |-> n - v.reserved]
           pack[v \in D] == IF done(v) THEN v ELSE pack[then(v)]
           v0 == [u |-> u0, reserved |-> 0]
<1>1. Pack(u0, n, c, s) = pack[v0]
  BY DEF Pack
<1>2. v0 \in D
  OBVIOUS
<1>3. ASSUME NEW v \in D, v \notin stop
      PROVE  then(v) \in D /\ then(v).reserved > v.reserved
  <2>1. into(v) \in ULs /\ Left(into(v)) \in Nat /\ Left(into(v)) >= TL + s
    BY <1>3 DEF ULs, Left, NextUL, HasNextUL, SpaceAssumption, HDR, TL
  <2>2. n - v.reserved \in Nat \ {0}
    BY <1>3 DEF Smaller
  <2>3. room(v) \in 1 .. n - v.reserved /\ Added(into(v), room(v) * s) \in ULs
    BY <2>1, <2>2, BlockTaken
  <2> DEFINE r == room(v)
             i == Added(into(v), r * s)
  <2>4. then(v) = [u |-> i, reserved |-> v.reserved + r]
    OBVIOUS
  <2>5. r \in 1 .. n - v.reserved /\ i \in ULs /\ v.reserved \in 0 .. n
    BY <2>3
  <2> HIDE DEF i, r, then
  <2> QED
    BY <2>4, <2>5
<1>4. Ends(D, stop, next, rank)
  <2>1. next \in [D -> D] /\ rank \in [D -> Nat]
    <3> HIDE DEF then, stop
    <3> QED
      BY <1>3
  <2>2. ASSUME NEW v \in D \ stop PROVE rank[next[v]] < rank[v]
    <3>1. next[v] = then(v) /\ then(v) \in D /\ then(v).reserved > v.reserved
      BY <1>3
    <3> HIDE DEF then, stop, next
    <3> QED
      BY <3>1
  <2> HIDE DEF D, stop, next, rank
  <2> QED
    BY <2>1, <2>2 DEF Ends
<1>5. Keeps(D, D, stop, next)
  BY <1>4 DEF Ends, Keeps
<1> HIDE DEF rank
<1>6. PICK g \in [D -> D] : Loop(g, D, stop, next)
  <2> HIDE DEF D, stop, next
  <2> QED
    BY <1>4, LoopExists
<1>7. g = [v \in D |-> IF done(v) THEN v ELSE g[then(v)]]
  BY <1>6 DEF Loop
<1>8. pack = [v \in D |-> IF done(v) THEN v ELSE pack[then(v)]]
  <2> HIDE DEF D, done, then
  <2> QED
    BY <1>7
<1>9. Loop(pack, D, stop, next)
  <2> SUFFICES ASSUME NEW v \in D PROVE pack[v] = IF v \in stop THEN v ELSE pack[next[v]]
    BY DEF Loop
  <2> HIDE DEF pack
  <2>1. pack[v] = IF done(v) THEN v ELSE pack[then(v)]
    BY <1>8
  <2>2. v \notin stop => next[v] = then(v)
    OBVIOUS
  <2>3. v \in stop <=> done(v)
    OBVIOUS
  <2> HIDE DEF done, then, stop, next
  <2> QED
    BY <2>1, <2>2, <2>3
<1>10. \A v \in D : pack[v] \in D \cap stop
  <2> HIDE DEF stop, next, D, pack
  <2> QED
    BY <1>4, <1>5, <1>9, LoopInvariant
<1> DEFINE p == pack[v0]
<1>11. p \in D /\ done(p)
  <2>1. p \in D \cap stop
    <3> HIDE DEF stop, next, D, pack, v0
    <3> QED
      BY <1>2, <1>10
  <2> HIDE DEF D, pack, v0, done
  <2> QED
    BY <2>1
<1>12. Pack(u0, n, c, s) = p
  BY <1>1
<1> HIDE DEF p
<1>13. p.u \in ULs /\ p.reserved \in 0 .. n
  BY <1>11
<1>14. Smaller(n, c) \in Nat
  BY DEF Smaller
<1> HIDE DEF D
<1> QED
  BY <1>11, <1>12, <1>13, <1>14

(* A share is not more than what is shared. *)
LEMMA ShareABound ==
  ASSUME SpaceAssumption, NEW n \in Nat, NEW u \in ULs, nbEnterA \in Nat, nbExitA \in Nat,
         nbTypes \in Nat
  PROVE  ShareA(n, u) \in 0 .. n
<1> DEFINE req == nbEnterA * ENTER_UL_SZ + nbExitA * EXIT_UL_SZ
                    + nbTypes * COUNT_UL_SZ + TL_HDR_UL_SZ * 6
           space == TotalSpace(u)
           percent == IF space > req THEN 100 ELSE (space * 100) \div req
<1>1. req \in Nat \ {0}
  BY DEF ENTER_UL_SZ, EXIT_UL_SZ, COUNT_UL_SZ, TL_HDR_UL_SZ, TL
<1>2. space \in Nat
  <2>1. Left(u) \in Nat /\ MAX_NB - (u.filling + 1) \in Nat /\ MAX_SZ - HDR \in Nat
    BY DEF SpaceAssumption, ULs, Left, HDR, TL
  <2>2. \A x, y \in Nat : x * y \in Nat
    OBVIOUS
  <2>3. (MAX_NB - (u.filling + 1)) * (MAX_SZ - HDR) \in Nat
    BY <2>1, <2>2
  <2> QED
    BY <2>1, <2>3 DEF TotalSpace
<1> HIDE DEF req, space
<1>3. percent \in 0 .. 100
  <2>1. CASE space > req
    BY <2>1
  <2>2. CASE ~(space > req)
    <3> DEFINE q == (space * 100) \div req
    <3>1. space * 100 \in Nat /\ space * 100 <= req * 100
      BY <1>1, <1>2, <2>2
    <3>2. q \in Nat /\ req * q <= space * 100
      BY <1>1, <3>1, DivBound
    <3> HIDE DEF q
    <3>3. req * q <= req * 100
      BY <1>1, <3>1, <3>2
    <3>4. q <= 100
      BY <1>1, <3>2, <3>3
    <3> QED
      BY <2>2, <3>2, <3>4 DEF q
  <2> QED
    BY <2>1, <2>2
<1> HIDE DEF percent
<1>4. n * percent \in Nat /\ n * percent <= n * 100
  BY <1>3
<1>5. (n * percent) \div 100 \in Nat /\ 100 * ((n * percent) \div 100) <= n * percent
  BY <1>4, DivBound
<1>6. (n * percent) \div 100 \in 0 .. n
  BY <1>4, <1>5
<1> QED
  BY <1>6 DEF ShareA, percent, req, space

(* How many slots hold something is a number, as the lists are finite. *)
LEMMA SlotsFinite ==
  ASSUME TagAssumption
  PROVE  \A S \in SUBSET Slots : IsFiniteSet(S) /\ Cardinality(S) \in Nat
<1>1. IsFiniteSet(Slots)
  BY FS_Interval DEF TagAssumption, Slots
<1> QED
  BY <1>1, FS_Subset, FS_CardinalityType

LEMMA CountsAreNumbers ==
  ASSUME TagAssumption
  PROVE  /\ nbEnterA \in 0 .. maxEnterPerUL /\ nbExitA \in 0 .. maxExitPerUL /\ nbTypes \in Nat
         /\ Cardinality(LeavingA) \in Nat /\ Cardinality(Entering) \in Nat
<1> DEFINE n == Cardinality({i \in Leaving : ~iblist[i].new})
<1>1. Cardinality(LeavingA) \in Nat /\ Cardinality(Entering) \in Nat /\ n \in Nat
  <2>1. /\ LeavingA \in SUBSET Slots /\ Entering \in SUBSET Slots
        /\ {i \in Leaving : ~iblist[i].new} \in SUBSET Slots
    BY DEF LeavingA, Entering, Leaving, Of, Active
  <2> QED
    BY <2>1, SlotsFinite
<1>2. nbTypes \in Nat
  <2> DEFINE S == Of({"countable"}) \ Dropped
             class == [i \in S |-> Class[iblist[i].tag]]
  <2>1. IsFiniteSet(S)
    BY SlotsFinite DEF Of, Active
  <2>2. {Class[iblist[i].tag] : i \in S} = {class[i] : i \in S}
    OBVIOUS
  <2> DEFINE T == {class[i] : i \in S}
  <2>3. class \in Surjection(S, T)
    BY DEF Surjection
  <2>4. IsFiniteSet(T)
    <3> HIDE DEF S, class, T
    <3> QED
      BY <2>1, <2>3, FS_Surjection DEF ExistsSurjection
  <2>5. Cardinality(T) \in Nat
    BY <2>4, FS_CardinalityType
  <2> HIDE DEF class
  <2> QED
    BY <2>2, <2>5 DEF nbTypes
<1> HIDE DEF n
<1>3. \A a \in Nat, b \in 1 .. 255 : Smaller(a, b) \in 0 .. b
  BY DEF Smaller
<1> QED
  BY <1>1, <1>2, <1>3 DEF nbEnterA, nbExitA, TagAssumption, n

----------------------------------------------------------------------------
(* The scanner for scanA hardware: getData, cut into its passes, with the    *)
(* BLE manager writing the table between them and entries that look away     *)
(* because the clock was read too early.                                     *)

LEMMA WithoutTable ==
  ASSUME TableOK, NEW S, iblist' = Without(S)
  PROVE  /\ TableOK'
         /\ \A i \in Slots : IF i \in S THEN iblist'[i].tag = NoTag ELSE iblist'[i] = iblist[i]
<1>1. \A i \in Slots : iblist'[i] = IF i \in S THEN Empty ELSE iblist[i]
  BY DEF Without
<1>2. iblist' \in [Slots -> Entry]
  BY EmptyIsEntry DEF TableOK, Without
<1>3. \A i \in Slots : IF i \in S THEN iblist'[i].tag = NoTag ELSE iblist'[i] = iblist[i]
  BY <1>1, EmptyIsEntry
<1>4. \A i, j \in Slots : iblist'[i].tag = iblist'[j].tag => i = j \/ iblist'[i].tag = NoTag
  BY <1>3 DEF TableOK
<1> QED
  BY <1>2, <1>3, <1>4 DEF TableOK

LEMMA KnownTable ==
  ASSUME TableOK, NEW S, iblist' = Known(S)
  PROVE  /\ TableOK'
         /\ \A i \in Slots : /\ iblist'[i].tag = iblist[i].tag
                             /\ iblist'[i].new = IF i \in S THEN FALSE ELSE iblist[i].new
<1>1. \A i \in Slots : iblist[i] \in Entry
  BY DEF TableOK
<1>2. \A i \in Slots : [iblist[i] EXCEPT !.new = FALSE] \in Entry
  BY <1>1 DEF Entry
<1>3. iblist' \in [Slots -> Entry]
  BY <1>1, <1>2 DEF Known
<1>4. \A i \in Slots : /\ iblist'[i].tag = iblist[i].tag
                       /\ iblist'[i].new = IF i \in S THEN FALSE ELSE iblist[i].new
  BY <1>1 DEF Known, Entry
<1>5. \A i, j \in Slots : iblist'[i].tag = iblist'[j].tag => i = j \/ iblist'[i].tag = NoTag
  BY <1>4 DEF TableOK
<1> QED
  BY <1>3, <1>4, <1>5 DEF TableOK

(* The errors of a list that had no room. *)
LEMMA NoNextErrors ==
  ASSUME NEW p, NEW n, NEW c
  PROVE  NoNext(p, n, c) \subseteq Errors
  BY DEF NoNext, Errors

LEMMA TypeOKAIs == TypeOKA => TableOK
  BY DEF TypeOKA, TableOK, Entry

(* The types of what the passes hand on. *)
LEMMA StartsEmpty ==
  ASSUME TagAssumption
  PROVE  /\ EmptySet \in ULs
         /\ Nothing \in [exit : 0 .. maxExitPerUL, enter : 0 .. maxEnterPerUL, types : Nat]
  BY SpaceAssumption DEF SpaceAssumption, TagAssumption, EmptySet, ULs, Nothing, HDR, TL

LEMMA SpaceKept ==
  ASSUME TagAssumption, TypeOKA
  PROVE  /\ Pack(ul, toAdd.exit, Cardinality(LeavingA), EXIT_UL_SZ).u \in ULs
         /\ Pack(ul, toAdd.enter, Cardinality(Entering), ENTER_UL_SZ).u \in ULs
<1>1. ul \in ULs /\ toAdd.exit \in Nat /\ toAdd.enter \in Nat
  BY DEF TypeOKA, TagAssumption
<1>2. EXIT_UL_SZ \in 1 .. 5 /\ ENTER_UL_SZ \in 1 .. 5
  BY DEF EXIT_UL_SZ, ENTER_UL_SZ
<1> QED
  BY <1>1, <1>2, CountsAreNumbers, SpaceAssumption, PackFits

LEMMA CountPassInv ==
  ASSUME TagAssumption, AInv, CountPass
  PROVE  AInv'
<1>1. TableOK
  BY TypeOKAIs DEF AInv
<1>2. /\ TableOK'
      /\ \A i \in Slots : IF i \in DroppedA THEN iblist'[i].tag = NoTag ELSE iblist'[i] = iblist[i]
  BY <1>1, WithoutTable DEF CountPass
<1>3. \A i \in DroppedA : Kind[iblist[i].tag] # "enterexit"
  BY DEF DroppedA, Dropped, Of
<1>4. \A i \in Slots : \/ KnownAt(iblist'[i]) = KnownAt(iblist[i]) /\ iblist'[i].tag = iblist[i].tag
                       \/ ~KnownAt(iblist'[i]) /\ ~KnownAt(iblist[i])
  BY <1>2, <1>3 DEF KnownAt
<1>5. told' = told
  BY DEF CountPass
<1>6. BackendInSync'
  BY <1>1, <1>2, <1>4, <1>5, SameKnown DEF AInv, TableOK
<1>7. bleErrorMask' \subseteq Errors \cup {"RX_BADMAJ"}
  <2>1. FullError \subseteq Errors /\ BadMajor \subseteq {"RX_BADMAJ"}
    BY DEF FullError, BadMajor, Errors
  <2>2. bleErrorMask' = bleErrorMask \cup FullError \cup BadMajor
    BY DEF CountPass
  <2> QED
    BY <2>1, <2>2 DEF AInv, TypeOKA
<1>8. UNCHANGED <<scanning, report, told, ahead>> /\ scanning /\ pc = "idle" /\ pc' = "exits"
  BY DEF CountPass
<1>9. /\ ul' \in ULs
      /\ toAdd' \in [exit : 0 .. maxExitPerUL, enter : 0 .. maxEnterPerUL, types : Nat]
  <2>1. PICK u \in Fills :
          /\ ul' = u
          /\ toAdd' = [exit |-> ShareA(nbExitA, u), enter |-> ShareA(nbEnterA, u),
                       types |-> ShareA(nbTypes, u)]
    BY DEF CountPass
  <2>2. u \in ULs
    BY SpaceAssumption DEF SpaceAssumption
  <2>3. /\ nbEnterA \in 0 .. maxEnterPerUL /\ nbExitA \in 0 .. maxExitPerUL /\ nbTypes \in Nat
        /\ nbEnterA \in Nat /\ nbExitA \in Nat
    BY CountsAreNumbers
  <2>4. /\ ShareA(nbExitA, u) \in 0 .. nbExitA /\ ShareA(nbEnterA, u) \in 0 .. nbEnterA
        /\ ShareA(nbTypes, u) \in 0 .. nbTypes
    BY <2>2, <2>3, ShareABound, SpaceAssumption
  <2>5. maxExitPerUL \in Nat /\ maxEnterPerUL \in Nat
    BY DEF TagAssumption
  <2>6. /\ ShareA(nbExitA, u) \in 0 .. maxExitPerUL /\ ShareA(nbEnterA, u) \in 0 .. maxEnterPerUL
        /\ ShareA(nbTypes, u) \in Nat
    BY <2>3, <2>4, <2>5
  <2> QED
    BY <2>1, <2>2, <2>6
<1>10. TypeOKA'
  BY <1>2, <1>7, <1>8, <1>9 DEF AInv, TypeOKA, TableOK, Entry
<1> QED
  BY <1>6, <1>10 DEF AInv

LEMMA ExitPassInv ==
  ASSUME TagAssumption, AInv, ExitPass
  PROVE  AInv'
<1>1. TableOK
  BY TypeOKAIs DEF AInv
<1>2. PICK p : /\ iblist' = Without(FirstOf(LeavingA, p.reserved))
               /\ report' = [report EXCEPT !.exits = TagsOf(FirstOf(LeavingA, p.reserved))]
               /\ told' = told \ TagsOf(FirstOf(LeavingA, p.reserved))
               /\ bleErrorMask' =
                    bleErrorMask \cup NoNext(p, toAdd.exit, Cardinality(LeavingA))
  BY DEF ExitPass
<1> DEFINE exited == FirstOf(LeavingA, p.reserved)
<1>3. exited \subseteq LeavingA
  BY FirstOfSubset
<1>4. /\ iblist' = Without(exited)
      /\ report' = [report EXCEPT !.exits = TagsOf(exited)]
      /\ told' = told \ TagsOf(exited)
  BY <1>2
<1> HIDE DEF exited
<1>5. exited \in SUBSET Active /\ exited \in SUBSET Slots
  BY <1>3 DEF LeavingA, Of, Active
<1>6. /\ TableOK'
      /\ \A i \in Slots : IF i \in exited THEN iblist'[i].tag = NoTag ELSE iblist'[i] = iblist[i]
  BY <1>1, <1>4, WithoutTable
<1>7. BackendInSync'
  <2>1. TagsOf({}) = {}
    BY DEF TagsOf
  <2>2. told' = (told \cup TagsOf({})) \ TagsOf(exited)
    BY <1>4, <2>1
  <2>3. \A j \in Slots : KnownAt(iblist'[j]) <=> j \notin exited /\ (KnownAt(iblist[j]) \/ j \in {})
    BY <1>6 DEF KnownAt
  <2>4. \A j \in Slots : KnownAt(iblist'[j]) => iblist'[j].tag = iblist[j].tag
    BY <1>6 DEF KnownAt
  <2>5. iblist' \in [Slots -> Entry] /\ {} \in SUBSET (Slots \ exited)
    BY <1>6 DEF TableOK
  <2>6. BackendInSync
    BY DEF AInv
  <2> QED
    BY <1>1, <1>5, <2>2, <2>3, <2>4, <2>5, <2>6, SyncStep
<1>8. bleErrorMask' \subseteq Errors \cup {"RX_BADMAJ"}
  BY <1>2, NoNextErrors DEF AInv, TypeOKA
<1>9. report' \in [enters : SUBSET Tags, exits : SUBSET Tags] /\ told' \subseteq Tags
  <2>1. TagsOf(exited) \subseteq Tags
    BY <1>1, <1>5, TagsOfTags
  <2> QED
    BY <1>4, <2>1 DEF AInv, TypeOKA
<1>10. UNCHANGED <<scanning, ahead>> /\ pc = "exits" /\ pc' = "enters"
  BY DEF ExitPass
<1>11. ul' \in ULs /\ toAdd' = toAdd
  <2>1. ul' = Pack(ul, toAdd.exit, Cardinality(LeavingA), EXIT_UL_SZ).u /\ toAdd' = toAdd
    BY DEF ExitPass
  <2> QED
    BY <2>1, SpaceKept DEF AInv
<1>12. TypeOKA'
  BY <1>6, <1>8, <1>9, <1>10, <1>11 DEF AInv, TypeOKA, TableOK, Entry
<1> QED
  BY <1>7, <1>12 DEF AInv

LEMMA EnterPassInv ==
  ASSUME TagAssumption, AInv, EnterPass
  PROVE  AInv'
<1>1. TableOK
  BY TypeOKAIs DEF AInv
<1>2. PICK p : /\ iblist' = Known(FirstOf(Entering, p.reserved))
               /\ report' = [report EXCEPT !.enters = TagsOf(FirstOf(Entering, p.reserved))]
               /\ told' = told \cup TagsOf(FirstOf(Entering, p.reserved))
               /\ bleErrorMask' =
                    bleErrorMask \cup NoNext(p, toAdd.enter, Cardinality(Entering))
  BY DEF EnterPass
<1> DEFINE entered == FirstOf(Entering, p.reserved)
<1>3. entered \subseteq Entering
  BY FirstOfSubset
<1>4. /\ iblist' = Known(entered)
      /\ report' = [report EXCEPT !.enters = TagsOf(entered)]
      /\ told' = told \cup TagsOf(entered)
  BY <1>2
<1> HIDE DEF entered
<1>5. entered \in SUBSET Active /\ entered \in SUBSET Slots
  BY <1>3 DEF Entering, Of, Active
<1>6. \A i \in entered : iblist[i].tag # NoTag /\ Kind[iblist[i].tag] = "enterexit"
  BY <1>3 DEF Entering, Of, Active
<1>7. /\ TableOK'
      /\ \A i \in Slots : /\ iblist'[i].tag = iblist[i].tag
                          /\ iblist'[i].new = IF i \in entered THEN FALSE ELSE iblist[i].new
  BY <1>1, <1>4, KnownTable
<1>8. BackendInSync'
  <2>1. TagsOf({}) = {}
    BY DEF TagsOf
  <2>2. told' = (told \cup TagsOf(entered)) \ TagsOf({})
    BY <1>4, <2>1
  <2>3. \A j \in Slots : KnownAt(iblist'[j]) <=> j \notin {} /\ (KnownAt(iblist[j]) \/ j \in entered)
    BY <1>6, <1>7 DEF KnownAt
  <2>4. \A j \in Slots : KnownAt(iblist'[j]) => iblist'[j].tag = iblist[j].tag
    BY <1>7
  <2>5. iblist' \in [Slots -> Entry] /\ entered \in SUBSET (Slots \ {}) /\ {} \in SUBSET Slots
    BY <1>5, <1>7 DEF TableOK
  <2>6. BackendInSync
    BY DEF AInv
  <2> QED
    BY <1>1, <1>6, <2>2, <2>3, <2>4, <2>5, <2>6, SyncStep
<1>9. bleErrorMask' \subseteq Errors \cup {"RX_BADMAJ"}
  BY <1>2, NoNextErrors DEF AInv, TypeOKA
<1>10. report' \in [enters : SUBSET Tags, exits : SUBSET Tags] /\ told' \subseteq Tags
  <2>1. TagsOf(entered) \subseteq Tags
    BY <1>1, <1>5, TagsOfTags
  <2> QED
    BY <1>4, <2>1 DEF AInv, TypeOKA
<1>11. UNCHANGED <<scanning, ahead>> /\ pc = "enters" /\ pc' = "counts"
  BY DEF EnterPass
<1>12. ul' \in ULs /\ toAdd' = toAdd
  <2>1. ul' = Pack(ul, toAdd.enter, Cardinality(Entering), ENTER_UL_SZ).u /\ toAdd' = toAdd
    BY DEF EnterPass
  <2> QED
    BY <2>1, SpaceKept DEF AInv
<1>13. TypeOKA'
  BY <1>7, <1>9, <1>10, <1>11, <1>12 DEF AInv, TypeOKA, TableOK, Entry
<1> QED
  BY <1>8, <1>13 DEF AInv

(* A step that leaves the table and what was told of it as they are. *)
LEMMA SameTable ==
  ASSUME AInv, UNCHANGED <<iblist, told>>
  PROVE  BackendInSync'
  BY DEF AInv, BackendInSync, TagsOf, Of, Active

LEMMA LastPassInv ==
  ASSUME TagAssumption, AInv, LastPass
  PROVE  AInv'
<1>1. BackendInSync'
  BY SameTable DEF LastPass
<1>2. bleErrorMask' \subseteq Errors \cup {"RX_BADMAJ"}
  <2>1. PICK p : bleErrorMask' = bleErrorMask \cup NoNext(p, toAdd.types, toAdd.types)
    BY DEF LastPass
  <2> QED
    BY <2>1, NoNextErrors DEF AInv, TypeOKA
<1>3. UNCHANGED <<iblist, report, told>> /\ scanning' = FALSE /\ pc' = "idle" /\ ahead' = {}
  BY DEF LastPass
<1>4. /\ ul' \in ULs
      /\ toAdd' \in [exit : 0 .. maxExitPerUL, enter : 0 .. maxEnterPerUL, types : Nat]
  BY StartsEmpty DEF LastPass
<1>5. TypeOKA'
  BY <1>2, <1>3, <1>4 DEF AInv, TypeOKA
<1> QED
  BY <1>1, <1>5 DEF AInv

LEMMA SeeAInv ==
  ASSUME TagAssumption, AInv, NEW t \in Tags, SeeA(t)
  PROVE  AInv'
<1>1. TableOK
  BY TypeOKAIs DEF AInv
<1>2. See(t)
  BY DEF SeeA
<1>3. /\ TableOK'
      /\ \A j \in Slots : /\ iblist'[j].tag = iblist[j].tag \/ iblist[j].tag = NoTag
                          /\ iblist'[j].tag = iblist[j].tag => iblist'[j].new = iblist[j].new
                          /\ iblist'[j].tag # iblist[j].tag => iblist'[j].new = TRUE
  BY <1>1, <1>2, SeeTable
<1>4. UNCHANGED <<scanning, bleErrorMask, report, told, pc>>
  BY DEF See, SeeA
<1>5. \A j \in Slots : \/ KnownAt(iblist'[j]) = KnownAt(iblist[j]) /\ iblist'[j].tag = iblist[j].tag
                       \/ ~KnownAt(iblist'[j]) /\ ~KnownAt(iblist[j])
  BY <1>3 DEF KnownAt
<1>6. BackendInSync'
  BY <1>1, <1>3, <1>4, <1>5, SameKnown DEF AInv, TableOK
<1>7. /\ ahead' \subseteq Slots /\ (pc' = "idle" => ahead' = {})
      /\ UNCHANGED <<ul, toAdd>>
  BY <1>4 DEF SeeA, AInv, TypeOKA
<1>8. TypeOKA'
  BY <1>3, <1>4, <1>7 DEF AInv, TypeOKA, TableOK, Entry
<1> QED
  BY <1>6, <1>8 DEF AInv

LEMMA InitAInv == TagAssumption /\ InitA => AInv
<1> SUFFICES ASSUME TagAssumption, InitA PROVE AInv
  OBVIOUS
<1>1. \A i \in Slots : iblist[i].tag = NoTag
  BY EmptyIsEntry DEF InitA, Init
<1>2. iblist \in [Slots -> Entry]
  BY EmptyIsEntry DEF InitA, Init
<1>3. TypeOKA
  BY <1>1, <1>2, StartsEmpty DEF InitA, Init, TypeOKA, Entry, NoReport
<1>4. BackendInSync
  BY <1>1 DEF InitA, Init, BackendInSync, TagsOf, Of, Active
<1> QED
  BY <1>3, <1>4 DEF AInv

LEMMA StepAInv == TagAssumption /\ AInv /\ [NextA]_scanAVars => AInv'
<1> SUFFICES ASSUME TagAssumption, AInv, [NextA]_scanAVars PROVE AInv'
  OBVIOUS
<1>1. ASSUME scanning' \in BOOLEAN, pc' = pc, ahead' = ahead, pc # "idle" => scanning',
             bleErrorMask' \subseteq Errors \cup {"RX_BADMAJ"},
             report' \in {report, NoReport}, UNCHANGED <<iblist, told, ul, toAdd>>
      PROVE  AInv'
  <2>1. report' \in [enters : SUBSET Tags, exits : SUBSET Tags]
    BY <1>1 DEF AInv, TypeOKA, NoReport
  <2>2. TypeOKA'
    BY <1>1, <2>1 DEF AInv, TypeOKA
  <2> QED
    BY <1>1, <2>2, SameTable DEF AInv
<1>2. CASE CountPass
  BY <1>2, CountPassInv
<1>3. CASE ExitPass
  BY <1>3, ExitPassInv
<1>4. CASE EnterPass
  BY <1>4, EnterPassInv
<1>5. CASE LastPass
  BY <1>5, LastPassInv
<1>6. CASE CommFailA
  <2>1. bleErrorMask' \subseteq Errors \cup {"RX_BADMAJ"}
    BY <1>6 DEF CommFailA, CommFail, AInv, TypeOKA, Errors
  <2> QED
    BY <1>1, <1>6, <2>1 DEF CommFailA, CommFail, AInv, TypeOKA
<1>7. ASSUME NEW t \in Tags, SeeA(t) PROVE AInv'
  BY <1>7, SeeAInv
<1>8. CASE Outside /\ Start
  BY <1>1, <1>8 DEF Outside, Start, AInv, TypeOKA
<1>9. CASE Outside /\ TurnLost
  BY <1>1, <1>9 DEF Outside, TurnLost, AInv, TypeOKA
<1>10. ASSUME Outside, NEW i \in Slots, Timeout(i) PROVE AInv'
  <2>1. TableOK
    BY TypeOKAIs DEF AInv
  <2>2. /\ TableOK'
        /\ \A j \in Slots : iblist'[j].tag = iblist[j].tag /\ iblist'[j].new = iblist[j].new
    BY <1>10, <2>1, TimeoutTable
  <2>3. UNCHANGED <<scanning, bleErrorMask, report, told, pc, ul, toAdd, ahead>>
    BY <1>10 DEF Timeout, Outside
  <2>4. \A j \in Slots : KnownAt(iblist'[j]) = KnownAt(iblist[j]) /\ iblist'[j].tag = iblist[j].tag
    BY <2>2 DEF KnownAt
  <2>5. BackendInSync'
    BY <2>1, <2>2, <2>3, <2>4, SameKnown DEF AInv, TableOK
  <2>6. TypeOKA'
    BY <2>2, <2>3 DEF AInv, TypeOKA, TableOK, Entry
  <2> QED
    BY <2>5, <2>6 DEF AInv
<1>11. CASE UNCHANGED scanAVars
  BY <1>1, <1>11 DEF scanAVars, AInv, TypeOKA
<1> QED
  BY <1>2, <1>3, <1>4, <1>5, <1>6, <1>7, <1>8, <1>9, <1>10, <1>11 DEF NextA

(* The inductive invariant is the conjunction of the two invariants. *)
THEOREM InvarianceA == SpecA => []AInv
<1>1. AInv /\ [NextA]_scanAVars => AInv'
  BY StepAInv, TagAssumption
<1>2. InitA => AInv
  BY InitAInv, TagAssumption
<1> QED
  BY <1>1, <1>2, PTL DEF SpecA

(* No tag holds two slots, in and between the passes of getData. *)
THEOREM TypeCorrectA == SpecA => []TypeOKA
<1>1. AInv => TypeOKA
  BY DEF AInv
<1> QED
  BY <1>1, InvarianceA, PTL

(* In and between the passes of getData, what the backend was told is what *)
(* the table knows, although the manager changes what a pass has counted.  *)
THEOREM InSyncA == SpecA => []BackendInSync
<1>1. AInv => BackendInSync
  BY DEF AInv
<1> QED
  BY <1>1, InvarianceA, PTL

(* An enter/exit entry leaves the table only in the pass that tells of it as *)
(* gone.                                                                     *)
THEOREM KeptTillToldA == SpecA => KeptUntilSentA
<1>1. ASSUME AInv, [NextA]_scanAVars, NEW i \in Of({"enterexit"}), iblist'[i].tag # iblist[i].tag
      PROVE  iblist[i].tag \in report'.exits
  <2>1. i \in Slots /\ iblist[i].tag # NoTag /\ Kind[iblist[i].tag] = "enterexit"
    BY <1>1 DEF Of, Active
  <2>2. TableOK
    BY <1>1, TypeOKAIs DEF AInv
  <2>3. CASE CountPass
    <3>1. i \notin DroppedA
      BY <2>1 DEF DroppedA, Dropped, Of
    <3>2. iblist'[i] = iblist[i]
      BY <2>1, <2>2, <2>3, <3>1, WithoutTable DEF CountPass
    <3> QED
      BY <1>1, <3>2
  <2>4. CASE ExitPass
    <3>1. PICK p : /\ iblist' = Without(FirstOf(LeavingA, p.reserved))
                   /\ report' = [report EXCEPT !.exits = TagsOf(FirstOf(LeavingA, p.reserved))]
      BY <2>4 DEF ExitPass
    <3>2. i \in FirstOf(LeavingA, p.reserved)
      BY <1>1, <2>1, <2>2, <3>1, WithoutTable
    <3>3. report'.exits = TagsOf(FirstOf(LeavingA, p.reserved))
      BY <1>1, <3>1 DEF AInv, TypeOKA
    <3> QED
      BY <3>2, <3>3 DEF TagsOf
  <2>5. CASE EnterPass
    <3>1. PICK p : iblist' = Known(FirstOf(Entering, p.reserved))
      BY <2>5 DEF EnterPass
    <3> QED
      BY <1>1, <2>1, <2>2, <3>1, KnownTable
  <2>6. ASSUME NEW t \in Tags, SeeA(t) PROVE FALSE
    BY <1>1, <2>1, <2>2, <2>6, SeeTable, TagAssumption DEF SeeA
  <2>7. ASSUME NEW j \in Slots, Timeout(j) PROVE FALSE
    BY <1>1, <2>1, <2>2, <2>7, TimeoutTable
  <2>8. CASE UNCHANGED iblist
    BY <1>1, <2>8
  <2> QED
    BY <1>1, <2>3, <2>4, <2>5, <2>6, <2>7, <2>8
       DEF NextA, scanAVars, LastPass, CommFailA, CommFail, Start, TurnLost
<1>2. AInv /\ [NextA]_scanAVars =>
        [\A i \in Of({"enterexit"}) :
           iblist'[i].tag # iblist[i].tag => iblist[i].tag \in report'.exits]_scanAVars
  BY <1>1
<1> QED
  BY <1>2, InvarianceA, PTL DEF SpecA, KeptUntilSentA
=============================================================================
