---------------------------- MODULE AppMsgProofs ----------------------------
(***************************************************************************)
(* The builder's invariants for every message size, number of messages and *)
(* set of block lengths, and that it keeps the promise UplinkSet states.   *)
(***************************************************************************)
EXTENDS AppMsg, TLAPS

\* The inductive invariant: the types need FilledPrefix (a message that is
\* opened was empty), SentWhole needs both.
Inv == TypeOK /\ FilledPrefix /\ SentWhole

\* After ul_init, at boot or later, the invariant holds whatever was there.
LEMMA InitInv == Init => Inv
  BY SizeAssumption DEF Init, Inv, TypeOK, FilledPrefix, SentWhole, Msgs, HDR, TL

LEMMA UlInitInv == UlInit => Inv'
  BY SizeAssumption DEF UlInit, Inv, TypeOK, FilledPrefix, SentWhole, Msgs, HDR, TL

\* A block that is taken lands below the end of its message.
LEMMA AddTLVInv ==
  ASSUME Inv, NEW l \in TLVLens, AddTLV(l)
  PROVE  Inv'
<1> USE SizeAssumption DEF Msgs, HDR, TL
<1> DEFINE add == (IF Overflows(l) THEN HDR ELSE sz[filling']) + TL + l
<1>1. l \in 0 .. 255
  OBVIOUS
<1>2. filling' \in Msgs /\ filling <= filling' /\ filling' <= filling + 1
  BY DEF AddTLV, Accepts, OnLastMessage, Inv, TypeOK
<1>3. add \in HDR .. MAX_SZ
  BY <1>1, <1>2 DEF AddTLV, Accepts, NeverFits, Overflows, Inv, TypeOK, FilledPrefix
<1>4. sz' = [sz EXCEPT ![filling'] = add]
  BY DEF AddTLV
<1> HIDE DEF add
<1>5. TypeOK'
  BY <1>2, <1>3, <1>4 DEF AddTLV, Inv, TypeOK
<1>6. FilledPrefix'
  BY <1>2, <1>3, <1>4 DEF Inv, TypeOK, FilledPrefix
<1>7. SentWhole'
  <2> SUFFICES ASSUME NEW i \in Msgs, i <= txing, i <= filling', i \notin late'
               PROVE  sent[i] = sz'[i]
    BY DEF AddTLV, SentWhole
  <2>1. i # filling' /\ i \notin late
    BY <1>2 DEF AddTLV
  <2>2. i <= filling
    BY <1>2, <2>1 DEF Inv, TypeOK
  <2> QED
    BY <1>2, <1>4, <2>1, <2>2 DEF Inv, TypeOK, SentWhole
<1> QED
  BY <1>5, <1>6, <1>7 DEF Inv

LEMMA RequestNextULInv == Inv /\ RequestNextUL => Inv'
<1> USE SizeAssumption DEF Msgs, HDR, TL
<1> SUFFICES ASSUME Inv, RequestNextUL
             PROVE  Inv'
  OBVIOUS
<1>1. filling' \in Msgs /\ filling' = filling + 1
  BY DEF RequestNextUL, OnLastMessage, Inv, TypeOK
<1>2. TypeOK' /\ FilledPrefix'
  BY <1>1 DEF RequestNextUL, Inv, TypeOK, FilledPrefix
<1>3. SentWhole'
  BY <1>1 DEF RequestNextUL, Inv, TypeOK, SentWhole
<1> QED
  BY <1>2, <1>3 DEF Inv

LEMMA PrepareNextTxInv == Inv /\ PrepareNextTx => Inv'
<1> USE SizeAssumption DEF Msgs, HDR, TL
<1> SUFFICES ASSUME Inv, PrepareNextTx
             PROVE  Inv'
  OBVIOUS
<1>1. txing' = txing + 1 /\ txing' \in 0 .. MAX_NB
  BY DEF PrepareNextTx, Inv, TypeOK
<1>2. TypeOK' /\ FilledPrefix'
  BY <1>1 DEF PrepareNextTx, Inv, TypeOK, FilledPrefix
<1>3. SentWhole'
  <2> SUFFICES ASSUME NEW i \in Msgs, i <= txing', i <= filling, i \notin late
               PROVE  sent'[i] = sz[i]
    BY DEF PrepareNextTx, SentWhole
  <2>1. CASE i = txing'
    BY <1>1, <2>1 DEF PrepareNextTx, Inv, TypeOK
  <2>2. CASE i # txing'
    <3>1. i <= txing
      BY <1>1, <2>2 DEF Inv, TypeOK
    <3>2. sent[i] = sz[i]
      BY <3>1 DEF Inv, SentWhole
    <3> QED
      BY <1>1, <2>2, <3>2 DEF PrepareNextTx, Inv, TypeOK
  <2> QED
    BY <2>1, <2>2
<1> QED
  BY <1>2, <1>3 DEF Inv

LEMMA RetryInv == Inv /\ Retry => Inv'
  BY SizeAssumption DEF Retry, Inv, TypeOK, FilledPrefix, SentWhole, Msgs

LEMMA NextInv == Inv /\ [Next]_vars => Inv'
<1> SUFFICES ASSUME Inv, [Next]_vars
             PROVE  Inv'
  OBVIOUS
<1>1. CASE UlInit
  BY <1>1, UlInitInv
<1>2. CASE \E l \in TLVLens : AddTLV(l)
  BY <1>2, AddTLVInv
<1>3. CASE RequestNextUL
  BY <1>3, RequestNextULInv
<1>4. CASE PrepareNextTx
  BY <1>4, PrepareNextTxInv
<1>5. CASE Retry
  BY <1>5, RetryInv
<1>6. CASE UNCHANGED vars
  BY <1>6 DEF vars, Inv, TypeOK, FilledPrefix, SentWhole
<1> QED
  BY <1>1, <1>2, <1>3, <1>4, <1>5, <1>6 DEF Next

THEOREM Invariance == Spec => []Inv
  BY InitInv, NextInv, PTL DEF Spec

\* Sizes and indices stay inside the C arrays of APP_CORE_UL_t, for any
\* message size and count and any block lengths callers ask for.
THEOREM TypeCorrect == Spec => []TypeOK
<1>1. Inv => TypeOK
  BY DEF Inv
<1> QED
  BY <1>1, Invariance, PTL

\* The messages with a size are exactly those that were opened: the end of
\* the set that prepareNextTx finds is the right one.
THEOREM EndOfSetFound == Spec => []FilledPrefix
<1>1. Inv => FilledPrefix
  BY DEF Inv
<1> QED
  BY <1>1, Invariance, PTL

\* A message is given to the radio whole, unless it grew afterwards.
THEOREM NothingCutOff == Spec => []SentWhole
<1>1. Inv => SentWhole
  BY DEF Inv
<1> QED
  BY <1>1, Invariance, PTL

----------------------------------------------------------------------------
(* The promise to the rest of the application. *)

LEMMA StepRefines ==
  ASSUME Inv, [Next]_vars
  PROVE  [Uplinks!Next]_(Uplinks!vars)
<1> USE SizeAssumption DEF Uplinks!vars, Uplinks!Next, Inv, TypeOK, Msgs
<1>1. CASE UlInit
  BY <1>1 DEF UlInit, Uplinks!Reset
<1>2. ASSUME NEW l \in TLVLens, AddTLV(l)
      PROVE  Uplinks!Fill
  BY <1>2 DEF AddTLV, Accepts, OnLastMessage, Uplinks!Fill
<1>3. CASE RequestNextUL
  BY <1>3 DEF RequestNextUL, OnLastMessage, Uplinks!Fill
<1>4. CASE PrepareNextTx
  BY <1>4 DEF PrepareNextTx, Uplinks!HandOver
<1>5. CASE Retry
  BY <1>5 DEF Retry, Uplinks!StepBack
<1>6. CASE UNCHANGED vars
  BY <1>6 DEF vars
<1> QED
  BY <1>1, <1>2, <1>3, <1>4, <1>5, <1>6 DEF Next

\* Every run of the builder is a run of the message set app_core.c relies
\* on: filled upwards, handed over one by one in order, emptied by ul_init.
THEOREM Refinement == Spec => ImplementsUplinkSet
<1>1. Init => Uplinks!Init
  BY DEF Init, Uplinks!Init
<1> QED
  BY <1>1, StepRefines, Invariance, PTL DEF Spec, ImplementsUplinkSet, Uplinks!Spec

----------------------------------------------------------------------------
(* The space callers are told of. *)

\* Bytes left in the messages after the one being filled: not negative, and
\* small enough for the sum to fit a uint8_t.
LEMMA LaterSpaceBounded ==
  ASSUME NEW f \in Msgs
  PROVE  /\ (MAX_NB - (f + 1)) * MaxBlockSz \in Nat
         /\ MAX_SZ + (MAX_NB - (f + 1)) * MaxBlockSz < 256
<1> DEFINE n == MAX_NB - (f + 1)
<1>1. n \in Nat /\ n + 1 <= MAX_NB /\ MaxBlockSz \in Nat /\ MaxBlockSz <= MAX_SZ
  BY SizeAssumption DEF Msgs, MaxBlockSz, HDR, TL
<1> HIDE DEF n
<1>2. n * MaxBlockSz \in Nat /\ n * MaxBlockSz <= n * MAX_SZ
  BY <1>1, SizeAssumption
<1>3. MAX_SZ + n * MAX_SZ <= MAX_NB * MAX_SZ
  <2>1. MAX_SZ + n * MAX_SZ = (n + 1) * MAX_SZ
    BY <1>1, SizeAssumption
  <2>2. (n + 1) * MAX_SZ <= MAX_NB * MAX_SZ
    BY <1>1, SizeAssumption
  <2> QED
    BY <2>1, <2>2
<1>4. MAX_NB * MAX_SZ < 256 /\ MAX_NB * MAX_SZ \in Nat
  BY SizeAssumption
<1>5. n * MAX_SZ \in Nat
  BY <1>1, SizeAssumption
<1>6. MAX_SZ + n * MaxBlockSz < 256
  BY <1>2, <1>3, <1>4, <1>5, <1>1, SizeAssumption
<1> QED
  BY <1>2, <1>6 DEF n

\* The sum is not cut by its type.
SumWhole ==
  /\ TotalSpace = RemainingSz + (MAX_NB - (filling + 1)) * MaxBlockSz
  /\ RemainingSz \in 0 .. MAX_SZ - HDR

LEMMA SpaceIsSum == Inv => SumWhole
<1> SUFFICES ASSUME Inv PROVE SumWhole  OBVIOUS
<1> DEFINE rest == (MAX_NB - (filling + 1)) * MaxBlockSz
<1>1. rest \in Nat /\ MAX_SZ + rest < 256
  BY LaterSpaceBounded DEF Inv, TypeOK
<1>2. TotalSpace = (RemainingSz + rest) % 256
  BY DEF TotalSpace, Uint8
<1>3. RemainingSz \in 0 .. MAX_SZ - HDR
  BY SizeAssumption DEF Inv, TypeOK, FilledPrefix, RemainingSz, Msgs, HDR, TL
<1> HIDE DEF rest
<1>4. RemainingSz + rest \in 0 .. 255
  BY <1>1, <1>3, SizeAssumption DEF HDR
<1>5. TotalSpace = RemainingSz + rest
  BY <1>2, <1>4
<1> QED
  BY <1>3, <1>5 DEF rest, SumWhole

\* A block within the space a caller was told of is taken where it was told,
\* and the cumulated figure never wraps below what the current message has.
THEOREM SpaceIsHonest == Spec => []SpaceHonest
<1>1. Inv => SpaceHonest
  <2> SUFFICES ASSUME Inv
               PROVE  SpaceHonest
    OBVIOUS
  <2>1. RemainingSz \in 0 .. MAX_SZ - HDR
    BY SizeAssumption DEF Inv, TypeOK, FilledPrefix, RemainingSz, Msgs, HDR, TL
  <2>2. ASSUME NEW l \in 0 .. 255, l + TL <= RemainingSz
        PROVE  Accepts(l) /\ ~Overflows(l)
    BY <2>2, SizeAssumption
    DEF Inv, TypeOK, FilledPrefix, RemainingSz, Accepts, NeverFits, Overflows, Msgs, HDR, TL
  <2>3. RemainingSz <= TotalSpace
    BY <2>1, LaterSpaceBounded, SpaceIsSum, SizeAssumption DEF SumWhole, Inv, TypeOK
  <2> QED
    BY <2>2, <2>3 DEF SpaceHonest
<1> QED
  BY <1>1, Invariance, PTL

\* Opening the next message costs what was left in the current one.
LEMMA StepNeverGrows ==
  ASSUME Inv, Inv', SumWhole, SumWhole', [Next]_vars
  PROVE  TotalSpace' <= TotalSpace \/ UlInit
<1> DEFINE later(f) == (MAX_NB - (f + 1)) * MaxBlockSz
<1>1. TotalSpace = RemainingSz + later(filling) /\ RemainingSz \in 0 .. MAX_SZ - HDR
  BY DEF SumWhole
<1>2. TotalSpace' = RemainingSz' + later(filling') /\ RemainingSz' \in 0 .. MAX_SZ - HDR
  BY DEF SumWhole, MaxBlockSz
<1>3. later(filling) \in Nat
  BY LaterSpaceBounded DEF Inv, TypeOK
<1> HIDE DEF later
<1>4. ASSUME filling' = filling, RemainingSz' <= RemainingSz
      PROVE  TotalSpace' <= TotalSpace
  BY <1>1, <1>2, <1>3, <1>4
<1>5. ASSUME filling' = filling + 1
      PROVE  TotalSpace' <= TotalSpace
  <2>1. later(filling') + MaxBlockSz = later(filling)
    <3>1. MaxBlockSz \in Int  BY SizeAssumption DEF MaxBlockSz, HDR
    <3>2. filling \in Int /\ MAX_NB \in Int  BY SizeAssumption DEF Inv, TypeOK, Msgs
    <3>3. MAX_NB - (filling + 1) = (MAX_NB - (filling' + 1)) + 1  BY <1>5, <3>2
    <3> QED  BY <1>5, <3>1, <3>2, <3>3 DEF later
  <2>2. RemainingSz' <= MaxBlockSz
    BY <1>2 DEF MaxBlockSz
  <2>3. later(filling') \in Nat
    BY LaterSpaceBounded DEF later, Inv, TypeOK
  <2> QED
    BY <1>1, <1>2, <1>3, <2>1, <2>2, <2>3, SizeAssumption DEF MaxBlockSz, HDR
<1>6. CASE UlInit
  BY <1>6
<1>7. CASE PrepareNextTx \/ Retry \/ UNCHANGED vars
  <2>1. filling' = filling /\ RemainingSz' = RemainingSz
    BY <1>7 DEF PrepareNextTx, Retry, vars, RemainingSz
  <2>2. RemainingSz \in Int
    BY SizeAssumption DEF RemainingSz, Inv, TypeOK
  <2> QED  BY <1>4, <2>1, <2>2
<1>8. CASE RequestNextUL
  BY <1>5, <1>8 DEF RequestNextUL
<1>9. ASSUME NEW l \in TLVLens, AddTLV(l)
      PROVE  TotalSpace' <= TotalSpace
  <2>1. CASE Overflows(l)
    BY <1>5, <1>9, <2>1 DEF AddTLV
  <2>2. CASE ~Overflows(l)
    <3>1. filling' = filling /\ sz'[filling] = sz[filling] + TL + l
      BY <1>9, <2>2 DEF AddTLV, Inv, TypeOK
    <3>2. RemainingSz' = MAX_SZ - (sz[filling] + TL + l)
      BY <3>1 DEF RemainingSz
    <3>3. l \in Nat /\ sz[filling] \in Nat /\ MAX_SZ \in Nat
      BY SizeAssumption DEF Inv, TypeOK
    <3>4. RemainingSz' <= RemainingSz
      BY <3>2, <3>3 DEF RemainingSz, TL
    <3> QED  BY <1>4, <3>1, <3>4
  <2> QED  BY <2>1, <2>2
<1> QED
  BY <1>6, <1>7, <1>8, <1>9 DEF Next

\* The cumulated space a budget is taken from only shrinks until ul_init.
THEOREM SpaceOnlyShrinks == Spec => SpaceNeverGrows
<1>1. Inv /\ Inv' /\ SumWhole /\ SumWhole' /\ [Next]_vars =>
        [TotalSpace' <= TotalSpace \/ UlInit]_vars
  BY StepNeverGrows
<1> QED
  BY <1>1, SpaceIsSum, Invariance, PTL DEF Spec, SpaceNeverGrows

----------------------------------------------------------------------------
(* The set as the modules see it. *)

LEMMA ViewAnswers ==
  ASSUME Inv
  PROVE  /\ RemainingSz = Space!Left(View)
         /\ TotalSpace = Space!TotalSpace(View)
         /\ \A l \in TLVLens : Accepts(l) <=> Space!Fits(View, l)
<1>1. RemainingSz = Space!Left(View)
  BY DEF RemainingSz, Space!Left, View
<1>2. TotalSpace = Space!TotalSpace(View)
  BY <1>1, SpaceIsSum DEF SumWhole, Space!TotalSpace, View, MaxBlockSz, HDR, Space!HDR
<1>3. ASSUME NEW l \in TLVLens PROVE Accepts(l) <=> Space!Fits(View, l)
  <2>1. l \in Int /\ sz[filling] \in Int /\ filling \in Int /\ MAX_SZ \in Int /\ MAX_NB \in Int
    BY SizeAssumption DEF Inv, TypeOK, Msgs
  <2> QED
    BY <2>1
    DEF Accepts, NeverFits, Overflows, OnLastMessage, View, HDR, TL,
        Space!Fits, Space!Left, Space!HasNextUL, Space!HDR, Space!TL
<1> QED
  BY <1>1, <1>2, <1>3

LEMMA ViewAdded ==
  ASSUME Inv, NEW l \in TLVLens, AddTLV(l)
  PROVE  View' = Space!Added(View, l)
<1>1. /\ l \in Int /\ sz[filling] \in Int /\ filling \in Int /\ MAX_SZ \in Int
      /\ sz \in [Msgs -> 0 .. MAX_SZ] /\ filling' \in Msgs
  BY SizeAssumption DEF Inv, TypeOK, Msgs, AddTLV, Accepts, OnLastMessage
<1>2. Space!Fits(View, l)
  BY ViewAnswers DEF AddTLV
<1>3. sz'[filling'] = (IF Overflows(l) THEN HDR ELSE sz[filling']) + TL + l
  BY <1>1 DEF AddTLV
<1>4. l + Space!TL <= Space!Left(View) <=> ~Overflows(l)
  BY <1>1 DEF Space!Left, Space!TL, View, Overflows, TL
<1>5. CASE Overflows(l)
  <2>1. filling' = filling + 1 /\ sz'[filling'] = HDR + TL + l
    BY <1>3, <1>5 DEF AddTLV
  <2>2. Space!Added(View, l) = [filling |-> filling + 1, sz |-> HDR + TL + l]
    BY <1>2, <1>4, <1>5 DEF Space!Added, Space!NextUL, Space!HDR, Space!TL, View, HDR, TL
  <2> QED
    BY <2>1, <2>2 DEF View
<1>6. CASE ~Overflows(l)
  <2>1. filling' = filling /\ sz'[filling'] = sz[filling] + TL + l
    BY <1>3, <1>6 DEF AddTLV
  <2>2. Space!Added(View, l) = [filling |-> filling, sz |-> sz[filling] + TL + l]
    BY <1>2, <1>4, <1>6 DEF Space!Added, Space!TL, View, TL
  <2> QED
    BY <2>1, <2>2 DEF View
<1> QED
  BY <1>5, <1>6

LEMMA ViewSwitched ==
  ASSUME Inv, RequestNextUL
  PROVE  Space!HasNextUL(View) /\ View' = Space!NextUL(View)
<1>1. filling' = filling + 1 /\ filling' \in Msgs /\ sz' = [sz EXCEPT ![filling'] = HDR]
  BY SizeAssumption DEF RequestNextUL, OnLastMessage, Inv, TypeOK, Msgs
<1>2. sz'[filling'] = HDR
  BY <1>1 DEF Inv, TypeOK
<1>3. Space!HasNextUL(View)
  BY <1>1, SizeAssumption DEF Space!HasNextUL, View, Inv, TypeOK, Msgs
<1> QED
  BY <1>1, <1>2, <1>3 DEF Space!NextUL, Space!HDR, View, HDR

LEMMA ViewEmptied ==
  ASSUME UlInit
  PROVE  View' = Space!EmptySet
<1>1. filling' = 0 /\ sz'[0] = HDR
  BY SizeAssumption DEF UlInit, Msgs
<1> QED
  BY <1>1 DEF View, Space!EmptySet, Space!HDR, HDR

\* What the models of the modules take the set for (UplinkSpace) is what it is,
\* in every state and for every call: what is proved of a module with it holds
\* with the builder in its place.
THEOREM ModulesSeeTheSet == Spec => SeenByModules
<1> DEFINE A == /\ RemainingSz = Space!Left(View) /\ TotalSpace = Space!TotalSpace(View)
                /\ \A l \in TLVLens : Accepts(l) <=> Space!Fits(View, l)
                /\ \A l \in TLVLens : AddTLV(l) => View' = Space!Added(View, l)
                /\ RequestNextUL => Space!HasNextUL(View) /\ View' = Space!NextUL(View)
                /\ UlInit => View' = Space!EmptySet
<1>1. Inv => A
  BY ViewAnswers, ViewAdded, ViewSwitched, ViewEmptied
<1>2. Inv => [A]_vars
  BY <1>1
<1> QED
  BY <1>2, Invariance, PTL DEF SeenByModules
=============================================================================
