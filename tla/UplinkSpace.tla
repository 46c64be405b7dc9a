---------------------------- MODULE UplinkSpace ----------------------------
(***************************************************************************)
(* The uplink set as a module sees it whose turn it is to add its data:    *)
(* how far it is filled, what still fits, and what a block does to it.     *)
(* (AppMsg models the same functions with the set as their state.)         *)
(***************************************************************************)
EXTENDS Integers, FiniteSets

CONSTANTS
  MAX_SZ, MAX_NB,  \* APP_CORE_UL_MAX_SZ, APP_CORE_UL_MAX_NB
  Fills            \* the set as the modules before this one leave it

HDR   == 2         \* bytes of a message header
TL    == 2         \* bytes of the tag and length of a block

ULs == [filling : 0 .. MAX_NB - 1, sz : HDR .. MAX_SZ]

\* The set as the core has emptied it.
EmptySet == [filling |-> 0, sz |-> HDR]

\* A message has room for an element of any list; the space of a set fits
\* the uint8_t it is returned in.
ASSUME SpaceAssumption ==
  /\ MAX_NB \in Nat \ {0} /\ MAX_SZ \in Nat
  /\ MAX_SZ >= HDR + TL + 5
  /\ MAX_SZ * MAX_NB < 256
  /\ Fills \subseteq ULs

Smaller(a, b) == IF a < b THEN a ELSE b

\* app_core_msg_ul_remainingSz, _requestNextUL, _getTotalSpaceAvailable
Left(u) == MAX_SZ - u.sz
HasNextUL(u) == u.filling + 1 < MAX_NB
NextUL(u) == [filling |-> u.filling + 1, sz |-> HDR]
TotalSpace(u) == Left(u) + (MAX_NB - (u.filling + 1)) * (MAX_SZ - HDR)

\* app_core_msg_ul_addTLV, app_core_msg_ul_addTLgetVP with l bytes of value: a
\* block goes to the message being filled or to the next; one that does not
\* fit leaves the set as it is.
Fits(u, l) == l + TL + HDR <= MAX_SZ /\ (l + TL <= Left(u) \/ HasNextUL(u))
Added(u, l) ==
  LET into == IF l + TL <= Left(u) THEN u ELSE NextUL(u)
  IN  IF Fits(u, l) THEN [into EXCEPT !.sz = @ + TL + l] ELSE u

\* A list of n elements of s bytes, of which c are found in the table: blocks
\* are reserved, each as large as its message allows, until the elements found
\* have their place or there is no message left.
Pack(u0, n, c, s) ==
  LET pack[v \in [u : ULs, reserved : 0 .. n]] ==
        LET u    == IF Left(v.u) < TL + s THEN NextUL(v.u) ELSE v.u
            room == Smaller((Left(u) - TL) \div s, n - v.reserved)
        IN  IF \/ v.reserved >= Smaller(n, c)
               \/ Left(v.u) < TL + s /\ ~HasNextUL(v.u)
            THEN v
            ELSE pack[[u |-> Added(u, room * s), reserved |-> v.reserved + room]]
  IN  pack[[u |-> u0, reserved |-> 0]]

\* The entries a list of n elements has: the first found in the table.
FirstOf(S, n) == {i \in S : Cardinality({j \in S : j < i}) < n}
=============================================================================
