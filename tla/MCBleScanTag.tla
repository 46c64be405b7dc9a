---------------------------- MODULE MCBleScanTag ----------------------------
(* An instance of BleScanTag for TLC: three enter/exit tags and one of every *)
(* other kind for a table of three slots, and messages that hold two elements. *)
EXTENDS BleScanTag, TLC

CONSTANTS e1, e2, e3, p1, c1, s1, o1

MCKind == (e1 :> "enterexit") @@ (e2 :> "enterexit") @@ (e3 :> "enterexit")
            @@ (p1 :> "proximity") @@ (c1 :> "countable")
            @@ (s1 :> "presence") @@ (o1 :> "otherPresence")
MCClass == (c1 :> 1)

\* Nothing in the set, and the last message nearly full.
MCFills == {[filling |-> 0, sz |-> 2], [filling |-> 1, sz |-> 7]}
=============================================================================
