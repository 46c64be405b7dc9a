------------------------------- MODULE AppMsg -------------------------------
(***************************************************************************)
(* The uplink message builder of app-core/src/app_msg.c: MAX_NB messages   *)
(* of at most MAX_SZ bytes, filled with TLV blocks in order and then       *)
(* finalised one by one for the radio.  The state is APP_CORE_UL_t with    *)
(* each payload reduced to its size; `sent' and `late' record what the     *)
(* radio was given, so that properties can speak of it.                    *)
(*                                                                         *)
(* A definition named X_slip is X with a plausible programming error; it   *)
(* is used by no other, and shows that the properties notice the error.    *)
(***************************************************************************)
EXTENDS Integers

CONSTANTS MAX_SZ,    \* APP_CORE_UL_MAX_SZ: bytes in a message, header included
          MAX_NB,    \* APP_CORE_UL_MAX_NB: messages in a set
          TLVLens    \* the value lengths callers ask for (a uint8_t)

HDR == 2             \* bytes of a message header
TL  == 2             \* bytes of the tag and length of a block

\* A message holds its header and the shortest block; the cumulated space
\* of a set fits the uint8_t it is returned in (50 and 4 in the code).
ASSUME SizeAssumption ==
  /\ MAX_SZ \in Nat /\ MAX_SZ >= HDR + TL
  /\ MAX_NB \in Nat \ {0}
  /\ MAX_SZ * MAX_NB < 256
  /\ TLVLens \subseteq 0 .. 255

VARIABLES sz,        \* msgs[i].sz: bytes in message i, 0 when never opened
          filling,   \* msgNbFilling
          txing,     \* msbNbTxing
          sent,      \* bytes of message i when it was last finalised
          late       \* messages that grew, or opened, after their turn to be sent

vars == <<sz, filling, txing, sent, late>>

Msgs == 0 .. MAX_NB - 1

Uint8(n) == n % 256

----------------------------------------------------------------------------
(* The questions a caller can ask. *)

\* app_core_msg_ul_remainingSz
RemainingSz == MAX_SZ - sz[filling]

\* app_core_msg_ul_maxBlockSz
MaxBlockSz_dataOnly == MAX_SZ - HDR - TL
MaxBlockSz == MAX_SZ - HDR

\* app_core_msg_ul_getTotalSpaceAvailable
TotalSpace == Uint8(RemainingSz + (MAX_NB - (filling + 1)) * MaxBlockSz)

\* The two ways a block of l value bytes can be refused.
NeverFits_strict(l) == l + TL + HDR >= MAX_SZ
NeverFits(l) == l + TL + HDR > MAX_SZ
Overflows_offByOne(l) == sz[filling] + l + TL > MAX_SZ + 1
Overflows(l) == sz[filling] + l + TL > MAX_SZ
OnLastMessage == filling + 1 >= MAX_NB

Accepts(l) == ~NeverFits(l) /\ (Overflows(l) => ~OnLastMessage)

----------------------------------------------------------------------------
(* The operations. *)

\* app_core_msg_ul_init
UlInit_keepsSizes ==
  /\ sz' = [sz EXCEPT ![0] = HDR]
  /\ filling' = 0
  /\ txing' = -1
  /\ sent' = [i \in Msgs |-> 0]
  /\ late' = {}

UlInit_keepsTurn ==
  /\ sz' = [i \in Msgs |-> IF i = 0 THEN HDR ELSE 0]
  /\ filling' = 0
  /\ sent' = [i \in Msgs |-> 0]
  /\ late' = {}
  /\ UNCHANGED txing

UlInit ==
  /\ sz' = [i \in Msgs |-> IF i = 0 THEN HDR ELSE 0]
  /\ filling' = 0
  /\ txing' = -1
  /\ sent' = [i \in Msgs |-> 0]
  /\ late' = {}

\* app_core_msg_ul_addTLV and app_core_msg_ul_addTLgetVP on a block that is
\* taken: it goes to the message being filled, or opens the next one when
\* it would overflow.  (A refused block leaves the set as it is.)
AddTLV_noHeader(l) ==
  /\ Accepts(l)
  /\ filling' = IF Overflows(l) THEN filling + 1 ELSE filling
  /\ sz' = [sz EXCEPT ![filling'] = @ + TL + l]
  /\ late' = IF filling' <= txing THEN late \cup {filling'} ELSE late
  /\ UNCHANGED <<txing, sent>>

AddTLV(l) ==
  /\ Accepts(l)
  /\ filling' = IF Overflows(l) THEN filling + 1 ELSE filling
  /\ sz' = [sz EXCEPT ![filling'] = (IF Overflows(l) THEN HDR ELSE @) + TL + l]
  /\ late' = IF filling' <= txing THEN late \cup {filling'} ELSE late
  /\ UNCHANGED <<txing, sent>>

\* app_core_msg_ul_requestNextUL
RequestNextUL ==
  /\ ~OnLastMessage
  /\ filling' = filling + 1
  /\ sz' = [sz EXCEPT ![filling'] = HDR]
  /\ late' = IF filling' <= txing THEN late \cup {filling'} ELSE late
  /\ UNCHANGED <<txing, sent>>

\* app_core_msg_ul_prepareNextTx.  Its caller asks again only while the last
\* answer was a message (tryTX then leaves SENDING_UL, which empties the set).
PrepareNextTx ==
  /\ txing <= filling
  /\ txing' = txing + 1
  /\ sent' = IF txing' \in Msgs THEN [sent EXCEPT ![txing'] = sz[txing']] ELSE sent
  /\ UNCHANGED <<sz, filling, late>>

\* app_core_msg_ul_retry
Retry_unbounded == txing' = txing - 1 /\ UNCHANGED <<sz, filling, sent, late>>

Retry ==
  /\ txing > -1
  /\ txing' = txing - 1
  /\ UNCHANGED <<sz, filling, sent, late>>

Init ==
  /\ sz = [i \in Msgs |-> IF i = 0 THEN HDR ELSE 0]
  /\ filling = 0
  /\ txing = -1
  /\ sent = [i \in Msgs |-> 0]
  /\ late = {}

Next ==
  \/ UlInit
  \/ \E l \in TLVLens : AddTLV(l)
  \/ RequestNextUL
  \/ PrepareNextTx
  \/ Retry

Spec == Init /\ [][Next]_vars

----------------------------------------------------------------------------
(* Properties. *)

\* Type invariant: sizes and indices stay within the C arrays.
TypeOK ==
  /\ sz \in [Msgs -> 0 .. MAX_SZ]
  /\ filling \in Msgs
  /\ txing \in -1 .. MAX_NB
  /\ sent \in [Msgs -> 0 .. MAX_SZ]
  /\ late \subseteq Msgs

\* prepareNextTx tells "no more" from "another one" only by the size it finds:
\* the messages with a size must be exactly those up to the one being filled,
\* whatever mixture of blocks, forced switches and retries came before.
FilledPrefix ==
  \A i \in Msgs : IF i <= filling THEN sz[i] >= HDR ELSE sz[i] = 0

\* What was given to the radio as message i is all of message i, unless a
\* block was added to it after it had been finalised.
SentWhole ==
  \A i \in Msgs : i <= txing /\ i <= filling /\ i \notin late => sent[i] = sz[i]

\* The space a caller is told of is honest: a block of that size (tag and
\* length included) is taken, and the cumulated figure is not cut by its
\* uint8_t type below what is left in the current message.
SpaceHonest ==
  /\ \A l \in 0 .. 255 : l + TL <= RemainingSz => Accepts(l) /\ ~Overflows(l)
  /\ RemainingSz <= TotalSpace

\* Until the set is emptied the cumulated space never grows, so a budget
\* taken from it (mod_ble_scan_tag.c) is an upper bound for the whole cycle.
SpaceNeverGrows == [][TotalSpace' <= TotalSpace \/ UlInit]_vars

\* UplinkSpace, by which the modules are modelled, is this set as they see it:
\* a question has the answer they get, and a block, a forced switch or an empty
\* set is for the builder what it is for them.
Space == INSTANCE UplinkSpace WITH Fills <- {}
View == [filling |-> filling, sz |-> sz[filling]]
SeenByModules ==
  [][/\ RemainingSz = Space!Left(View) /\ TotalSpace = Space!TotalSpace(View)
     /\ \A l \in TLVLens : Accepts(l) <=> Space!Fits(View, l)
     /\ \A l \in TLVLens : AddTLV(l) => View' = Space!Added(View, l)
     /\ RequestNextUL => Space!HasNextUL(View) /\ View' = Space!NextUL(View)
     /\ UlInit => View' = Space!EmptySet]_vars

\* The builder keeps the promise app_core.c relies on.
Uplinks == INSTANCE UplinkSet
ImplementsUplinkSet == Uplinks!Spec
=============================================================================
