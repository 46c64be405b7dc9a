----------------------------- MODULE UplinkSet -----------------------------
(***************************************************************************)
(* What the uplink builder promises to the rest of the application: a      *)
(* numbered set of messages that is filled from message 0 upwards and then *)
(* handed to the radio one message at a time, in order, until there is     *)
(* nothing left.  No sizes, no bytes: app_core.c only relies on this.      *)
(***************************************************************************)
EXTENDS Integers

CONSTANT MAX_NB     \* APP_CORE_UL_MAX_NB: messages in one set

VARIABLES filling,  \* the message that takes the next data block
          txing     \* the message last handed to the radio, -1 before the first

vars == <<filling, txing>>

Init == filling = 0 /\ txing = -1

\* The set is emptied for a new collection.
Reset == filling' = 0 /\ txing' = -1

\* Data is added: it goes to the message being filled or to a later one.
Fill == filling' \in filling .. MAX_NB - 1 /\ UNCHANGED txing

\* The next message is asked for; the answer is empty when none is left,
\* and the asker then stops asking until the next Reset.
HandOver == txing <= filling /\ txing' = txing + 1 /\ UNCHANGED filling

\* The last message handed over will be the next one again.
StepBack == txing > -1 /\ txing' = txing - 1 /\ UNCHANGED filling

Next == Reset \/ Fill \/ HandOver \/ StepBack

Spec == Init /\ [][Next]_vars
=============================================================================
