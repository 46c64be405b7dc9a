------------------------------ MODULE Downlink ------------------------------
(***************************************************************************)
(* Downlinks, byte by byte: lora_rx_cb copies what the radio received over *)
(* the one buffer and decodes its header; later, on the thread of the      *)
(* core, executeDL walks through the actions of whatever the buffer then   *)
(* holds.  The walk reads the tag and the length of an action before it    *)
(* knows that they were received: what an earlier downlink left in the     *)
(* buffer, or the fields behind it.  (In AppCore a downlink is what        *)
(* becomes of it.)                                                         *)
(*                                                                         *)
(* The header is two bytes: one to tell a downlink by (parity, version),   *)
(* one with its id and the number of its actions.  Whether the action of   *)
(* an id is known is left out.  TooLong_lenFirst is TooLong with a         *)
(* programming error.                                                      *)
(***************************************************************************)
EXTENDS Integers, SequencesExt

CONSTANTS
  DL_MAX_BODY,          \* APP_CORE_DL_MAX_SZ without the header
  DlBytes,              \* the bytes of a body
  DlIds, DlNbs,         \* ids and numbers of actions; the header holds both
  MaxRx                 \* bound: downlinks waiting for the core

ASSUME DlAssumption ==
  /\ DL_MAX_BODY \in Nat /\ MaxRx \in Nat
  /\ DlBytes \subseteq Nat /\ DlIds \subseteq Nat /\ DlNbs \subseteq Nat

VARIABLES
  payload,     \* the buffer behind the header
  first,       \* does byte 0 pass the tests of decode?
  second,      \* byte 1: id and number of actions
  dlsz,        \* the size of what was received last
  dlId, nbActions,
  waiting,     \* ME_LORA_RX events for the core
  lastId,      \* lastDLId
  came,        \* history: the body received last
  did, ok      \* history: the actions executed since, and what execute returned

dlVars == <<payload, first, second, dlsz, dlId, nbActions, waiting, lastId, came, did, ok>>

Offsets == 0 .. DL_MAX_BODY - 1
Bodies == BoundedSeq(DlBytes, DL_MAX_BODY)

\* The fields behind the buffer follow it in the structure.
ByteAt(off) == IF off \in Offsets THEN payload[off]
               ELSE IF off = DL_MAX_BODY THEN dlId ELSE nbActions

\* app_core_msg_dl_execute: the action at an offset of the body, and the test
\* that it was received whole.
NextOff(off) == off + 2 + ByteAt(off + 1)
Action(off)  == [k \in 1 .. NextOff(off) - off |-> ByteAt(off + k - 1)]

TooLong_lenFirst(off) == off + ByteAt(off + 1) > dlsz - 2
TooLong(off) == NextOff(off) > dlsz - 2

\* Its loop: where it is after n actions, and what was executed.
Walk[n \in Nat] ==
  IF n = 0 THEN [off |-> 0, did |-> <<>>, ok |-> TRUE]
  ELSE LET w == Walk[n - 1]
       IN  IF ~w.ok \/ TooLong(w.off) THEN [w EXCEPT !.ok = FALSE]
           ELSE [off |-> NextOff(w.off), did |-> Append(w.did, Action(w.off)), ok |-> TRUE]

DlExecuted == Walk[nbActions]

\* lora_rx_cb.  Of n bytes, those there are take the place of the old ones,
\* whether they decode or not.
Received(n, good, id, nb, body) ==
  /\ payload' = [k \in Offsets |-> IF k < Len(body) THEN body[k + 1] ELSE payload[k]]
  /\ first' = IF n = 0 THEN first ELSE good
  /\ second' = IF n < 2 THEN second ELSE [id |-> id, nb |-> nb]
  /\ dlsz' = n
  /\ IF first'
     THEN /\ dlId' = second'.id
          /\ nbActions' = second'.nb
          /\ waiting' = IF waiting < MaxRx THEN waiting + 1 ELSE waiting
     ELSE UNCHANGED <<dlId, nbActions, waiting>>
  /\ came' = body /\ did' = <<>> /\ ok' = FALSE
  /\ UNCHANGED lastId

Receive ==
  \E good \in BOOLEAN, id \in DlIds, nb \in DlNbs :
    \/ \E body \in Bodies : Received(2 + Len(body), good, id, nb, body)
    \/ \E n \in {0, 1} : Received(n, good, id, nb, <<>>)

\* executeDL, in the states of the core that handle ME_LORA_RX.
Execute ==
  /\ waiting > 0
  /\ waiting' = waiting - 1
  /\ IF dlId = 0 \/ dlId # lastId
     THEN /\ did' = DlExecuted.did
          /\ ok' = DlExecuted.ok
          /\ lastId' = IF DlExecuted.ok /\ dlId # 0 THEN dlId ELSE lastId
     ELSE UNCHANGED <<did, ok, lastId>>
  /\ UNCHANGED <<payload, first, second, dlsz, dlId, nbActions, came>>

\* The others ignore it.
Ignore ==
  /\ waiting > 0
  /\ waiting' = waiting - 1
  /\ UNCHANGED <<payload, first, second, dlsz, dlId, nbActions, lastId, came, did, ok>>

\* The memory of the core is zero.
DlInit ==
  /\ payload = [k \in Offsets |-> 0]
  /\ first = TRUE /\ second = [id |-> 0, nb |-> 0]
  /\ dlsz = 0 /\ dlId = 0 /\ nbActions = 0
  /\ waiting = 0 /\ lastId = 0
  /\ came = <<>> /\ did = <<>> /\ ok = FALSE

DlNext == Receive \/ Execute \/ Ignore

DlSpec == DlInit /\ [][DlNext]_dlVars

----------------------------------------------------------------------------
\* "decode TLVs and execute relevant actions" (app_msg.c:174): the actions
\* executed are, one after the other, what was received last, never a byte that
\* an earlier downlink left or that lies behind the buffer; and when execute
\* gives up, there is no further whole action in what was received.
OnlyReceivedExecuted ==
  LET done == FlattenSeq(did)
      rest == SubSeq(came, Len(done) + 1, Len(came))
  IN  /\ IsPrefix(done, came)
      /\ \A k \in DOMAIN did : Len(did[k]) = 2 + did[k][2]
      /\ did # <<>> /\ ~ok => Len(rest) < 2 \/ Len(rest) < 2 + rest[2]
=============================================================================
