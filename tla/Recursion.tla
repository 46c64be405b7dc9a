----------------------------- MODULE Recursion -----------------------------
(***************************************************************************)
(* Lemmas about the recursive functions by which the models say what the   *)
(* loops of the code compute: that such a function exists, so that it is   *)
(* what its definition says, and induction for what it then computes.      *)
(*                                                                         *)
(* All of it is in terms of sets and functions; nothing takes an operator. *)
(* Induction over n is that a set has 0 and, with any number, the next.    *)
(***************************************************************************)
EXTENDS Integers, WellFoundedInduction, TLAPS

(* A set of natural numbers that is not empty has a least element. *)
LEMMA LeastNumber ==
  ASSUME NEW S, S \subseteq Nat, S # {}
  PROVE  \E m \in S : \A k \in S : m <= k
<1> DEFINE R == OpToRel(<, Nat)
<1>1. IsWellFoundedOn(R, Nat)
  BY NatLessThanWellFounded
<1>2. \A k, m \in Nat : <<k, m>> \in R <=> k < m
  BY DEF OpToRel
<1> HIDE DEF R
<1>3. PICK m \in S : \A k \in S : <<k, m>> \notin R
  BY <1>1, WFMin
<1>4. m \in Nat /\ \A k \in S : k \in Nat /\ ~ (k < m)
  BY <1>2, <1>3
<1>5. \A k \in S : m <= k
  BY <1>4
<1> QED
  BY <1>5

(* Induction: what holds of 0, and of n + 1 when it holds of n, holds of   *)
(* all numbers.                                                            *)
LEMMA Induction ==
  ASSUME NEW S, 0 \in S, \A n \in Nat : n \in S => n + 1 \in S
  PROVE  Nat \subseteq S
<1> SUFFICES ASSUME Nat \ S # {} PROVE FALSE
  OBVIOUS
<1>1. PICK m \in Nat \ S : \A k \in Nat \ S : m <= k
  BY LeastNumber
<1>2. m - 1 \in Nat
  BY <1>1
<1>3. m - 1 \in S
  BY <1>1, <1>2
<1> QED
  BY <1>2, <1>3

\* f takes the given steps, from a, at the indices in N.
Steps(f, a, step, N) == f[0] = a /\ \A k \in N \ {0} : f[k] = step[<<k, f[k - 1]>>]

(* Two functions that take the same steps up to n agree up to n. *)
LEMMA StepsAgree ==
  ASSUME NEW step, NEW a, NEW n \in Nat, NEW f, NEW g,
         Steps(f, a, step, 0 .. n), Steps(g, a, step, 0 .. n)
  PROVE  \A k \in 0 .. n : f[k] = g[k]
<1> DEFINE S == {k \in Nat : k <= n => f[k] = g[k]}
<1>1. 0 \in S
  BY DEF Steps
<1>2. \A k \in Nat : k \in S => k + 1 \in S
  <2> SUFFICES ASSUME NEW k \in Nat, k \in S, k + 1 <= n PROVE f[k + 1] = g[k + 1]
    OBVIOUS
  <2>1. k + 1 \in (0 .. n) \ {0} /\ (k + 1) - 1 = k /\ f[k] = g[k]
    OBVIOUS
  <2> QED
    BY <2>1 DEF Steps
<1> HIDE DEF S
<1>3. Nat \subseteq S
  BY <1>1, <1>2, Induction
<1> QED
  BY <1>3 DEF S

(* There is a function that takes any given steps. *)
LEMMA StepsExist ==
  ASSUME NEW S, NEW a \in S, NEW step \in [Nat \X S -> S]
  PROVE  \E f \in [Nat -> S] : Steps(f, a, step, Nat)
<1> DEFINE Upto(n, g) == Steps(g, a, step, 0 .. n)
           N == {n \in Nat : \E g \in [0 .. n -> S] : Upto(n, g)}
<1>1. 0 \in N
  <2> DEFINE g == [k \in 0 .. 0 |-> a]
  <2>1. g \in [0 .. 0 -> S] /\ Upto(0, g)
    BY DEF Steps
  <2> QED
    BY <2>1
<1>2. \A n \in Nat : n \in N => n + 1 \in N
  <2> SUFFICES ASSUME NEW n \in Nat, n \in N
               PROVE  \E h \in [0 .. n + 1 -> S] : Upto(n + 1, h)
    OBVIOUS
  <2>1. PICK g \in [0 .. n -> S] : Upto(n, g)
    OBVIOUS
  <2> DEFINE h == [k \in 0 .. n + 1 |-> IF k = n + 1 THEN step[<<k, g[n]>>] ELSE g[k]]
  <2>2. h \in [0 .. n + 1 -> S]
    BY <2>1
  <2>3. Upto(n + 1, h)
    <3>1. h[0] = a
      BY <2>1 DEF Steps
    <3>2. ASSUME NEW k \in (0 .. n + 1) \ {0} PROVE h[k] = step[<<k, h[k - 1]>>]
      <4>1. CASE k = n + 1
        BY <4>1
      <4>2. CASE k \in 1 .. n
        BY <2>1, <4>2 DEF Steps
      <4> QED
        BY <4>1, <4>2
    <3> HIDE DEF h
    <3> QED
      BY <3>1, <3>2 DEF Steps
  <2> HIDE DEF h, Upto
  <2> QED
    BY <2>2, <2>3
<1>3. Nat \subseteq N
  <2> HIDE DEF N
  <2> QED
    BY <1>1, <1>2, Induction
<1> DEFINE G == [n \in Nat |-> CHOOSE g \in [0 .. n -> S] : Upto(n, g)]
<1>4. \A n \in Nat : G[n] \in [0 .. n -> S] /\ Upto(n, G[n])
  <2> HIDE DEF Upto
  <2> QED
    BY <1>3
<1>5. \A n, m \in Nat : n <= m => G[n][n] = G[m][n]
  <2> SUFFICES ASSUME NEW n \in Nat, NEW m \in Nat, n <= m PROVE G[n][n] = G[m][n]
    OBVIOUS
  <2> HIDE DEF G
  <2> DEFINE g == G[n]
             h == G[m]
  <2>1. Steps(g, a, step, 0 .. n) /\ Steps(h, a, step, 0 .. n)
    BY <1>4 DEF Steps
  <2> HIDE DEF g, h
  <2>2. \A k \in 0 .. n : g[k] = h[k]
    BY <2>1, StepsAgree
  <2> QED
    BY <2>2 DEF g, h
<1> HIDE DEF G
<1> DEFINE f == [n \in Nat |-> G[n][n]]
<1>6. f \in [Nat -> S]
  BY <1>4
<1>7. f[0] = a
  BY <1>4 DEF Steps
<1>8. ASSUME NEW k \in Nat \ {0} PROVE f[k] = step[<<k, f[k - 1]>>]
  <2>1. k - 1 \in Nat /\ k \in (0 .. k) \ {0}
    OBVIOUS
  <2>2. G[k][k] = step[<<k, G[k][k - 1]>>]
    BY <1>4, <2>1 DEF Steps
  <2>3. G[k - 1][k - 1] = G[k][k - 1]
    BY <1>5, <2>1
  <2>4. f[k] = G[k][k] /\ f[k - 1] = G[k - 1][k - 1]
    BY <2>1
  <2> HIDE DEF f
  <2> QED
    BY <2>2, <2>3, <2>4
<1> HIDE DEF f
<1> QED
  BY <1>6, <1>7, <1>8 DEF Steps

----------------------------------------------------------------------------
(* Loops: from v to next[v] until there is a reason to stop.               *)

\* g tells where a loop from each v stops.
Loop(g, D, stop, next) == \A v \in D : g[v] = IF v \in stop THEN v ELSE g[next[v]]

\* It comes nearer to its end with each step.
Ends(D, stop, next, rank) ==
  /\ next \in [D -> D] /\ rank \in [D -> Nat]
  /\ \A v \in D \ stop : rank[next[v]] < rank[v]

\* Its steps keep what holds of the elements of I.
Keeps(I, D, stop, next) == I \subseteq D /\ \A v \in I \ stop : next[v] \in I

(* A loop that ends has a result. *)
LEMMA LoopExists ==
  ASSUME NEW D, NEW stop, NEW next, NEW rank, Ends(D, stop, next, rank)
  PROVE  \E g \in [D -> D] : Loop(g, D, stop, next)
<1> USE DEF Ends
<1> DEFINE S == [D -> D]
           a == [v \in D |-> v]
           step == [p \in Nat \X S |-> [v \in D |-> IF v \in stop THEN v ELSE p[2][next[v]]]]
<1>1. a \in S /\ step \in [Nat \X S -> S]
  OBVIOUS
<1>2. \E h \in [Nat -> S] : Steps(h, a, step, Nat)
  <2> HIDE DEF S, a, step
  <2> QED
    BY <1>1, StepsExist
<1>3. PICK h \in [Nat -> S] : \A k \in Nat \ {0} : h[k] = step[<<k, h[k - 1]>>]
  BY <1>2 DEF Steps
<1>4. ASSUME NEW k \in Nat, NEW v \in D
      PROVE  h[k + 1][v] = IF v \in stop THEN v ELSE h[k][next[v]]
  <2>1. k + 1 \in Nat \ {0} /\ (k + 1) - 1 = k
    OBVIOUS
  <2>2. h[k + 1] = step[<<k + 1, h[k]>>]
    BY <1>3, <2>1
  <2>3. <<k + 1, h[k]>> \in Nat \X S
    BY <2>1
  <2>4. step[<<k + 1, h[k]>>] = [w \in D |-> IF w \in stop THEN w ELSE h[k][next[w]]]
    BY <2>3
  <2> QED
    BY <2>2, <2>4
<1> HIDE DEF step
<1> DEFINE N == {n \in Nat : \A v \in D : rank[v] <= n => h[n + 2][v] = h[n + 1][v]}
<1>5. 0 \in N
  <2> SUFFICES ASSUME NEW v \in D, rank[v] <= 0 PROVE h[2][v] = h[1][v]
    OBVIOUS
  <2>1. v \in stop
    OBVIOUS
  <2>2. h[0 + 1][v] = v /\ h[1 + 1][v] = v
    BY <1>4, <2>1
  <2> QED
    BY <2>2
<1>6. \A n \in Nat : n \in N => n + 1 \in N
  <2> SUFFICES ASSUME NEW n \in Nat, n \in N, NEW v \in D, rank[v] <= n + 1
               PROVE  h[n + 3][v] = h[n + 2][v]
    OBVIOUS
  <2>1. /\ h[(n + 2) + 1][v] = IF v \in stop THEN v ELSE h[n + 2][next[v]]
        /\ h[(n + 1) + 1][v] = IF v \in stop THEN v ELSE h[n + 1][next[v]]
    <3>1. n + 2 \in Nat /\ n + 1 \in Nat
      OBVIOUS
    <3> QED
      BY <3>1, <1>4
  <2>2. v \notin stop => h[n + 2][next[v]] = h[n + 1][next[v]]
    <3> SUFFICES ASSUME v \notin stop PROVE h[n + 2][next[v]] = h[n + 1][next[v]]
      OBVIOUS
    <3>1. next[v] \in D /\ rank[next[v]] \in Nat /\ rank[v] \in Nat /\ rank[next[v]] < rank[v]
      OBVIOUS
    <3>2. rank[next[v]] <= n
      BY <3>1
    <3> QED
      BY <3>1, <3>2
  <2>3. (n + 2) + 1 = n + 3 /\ (n + 1) + 1 = n + 2
    OBVIOUS
  <2> QED
    BY <2>1, <2>2, <2>3
<1>7. Nat \subseteq N
  <2> HIDE DEF N
  <2> QED
    BY <1>5, <1>6, Induction
<1>8. ASSUME NEW v \in D, NEW n \in Nat, rank[v] <= n
      PROVE  h[n + 1][v] = h[rank[v] + 1][v]
  <2> DEFINE M == {m \in Nat : h[rank[v] + m + 1][v] = h[rank[v] + 1][v]}
  <2>1. 0 \in M
    OBVIOUS
  <2>2. \A m \in Nat : m \in M => m + 1 \in M
    <3> SUFFICES ASSUME NEW m \in Nat, m \in M
                 PROVE  h[rank[v] + (m + 1) + 1][v] = h[rank[v] + 1][v]
      OBVIOUS
    <3>1. rank[v] + m \in N /\ rank[v] <= rank[v] + m
      BY <1>7
    <3>2. h[(rank[v] + m) + 2][v] = h[(rank[v] + m) + 1][v]
      BY <3>1
    <3>3. (rank[v] + m) + 2 = rank[v] + (m + 1) + 1 /\ (rank[v] + m) + 1 = rank[v] + m + 1
      OBVIOUS
    <3> QED
      BY <3>2, <3>3
  <2>3. Nat \subseteq M
    <3> HIDE DEF M
    <3> QED
      BY <2>1, <2>2, Induction
  <2>4. n - rank[v] \in Nat /\ rank[v] + (n - rank[v]) + 1 = n + 1
    BY <1>8
  <2>5. n - rank[v] \in M
    BY <2>3, <2>4
  <2> QED
    BY <2>4, <2>5
<1> DEFINE g == [v \in D |-> h[rank[v] + 1][v]]
<1>9. g \in [D -> D]
  OBVIOUS
<1>10. ASSUME NEW v \in D PROVE g[v] = IF v \in stop THEN v ELSE g[next[v]]
  <2>1. g[v] = IF v \in stop THEN v ELSE h[rank[v]][next[v]]
    BY <1>4
  <2>2. CASE v \in stop
    BY <2>1, <2>2
  <2>3. CASE v \notin stop
    <3>1. /\ next[v] \in D /\ rank[next[v]] \in Nat /\ rank[v] - 1 \in Nat
          /\ rank[next[v]] <= rank[v] - 1 /\ (rank[v] - 1) + 1 = rank[v]
      BY <2>3
    <3>2. h[(rank[v] - 1) + 1][next[v]] = h[rank[next[v]] + 1][next[v]]
      BY <3>1, <1>8
    <3>3. g[next[v]] = h[rank[next[v]] + 1][next[v]]
      BY <3>1
    <3> QED
      BY <2>1, <2>3, <3>1, <3>2, <3>3
  <2> QED
    BY <2>2, <2>3
<1> HIDE DEF g
<1> QED
  BY <1>9, <1>10 DEF Loop

(* What holds before a loop, and is kept by its steps, holds when it stops. *)
LEMMA LoopInvariant ==
  ASSUME NEW D, NEW stop, NEW next, NEW rank, Ends(D, stop, next, rank),
         NEW g, Loop(g, D, stop, next), NEW I, Keeps(I, D, stop, next)
  PROVE  \A v \in I : g[v] \in I \cap stop
<1> USE DEF Ends, Keeps
<1> DEFINE N == {n \in Nat : \A v \in I : rank[v] <= n => g[v] \in I \cap stop}
<1>1. 0 \in N
  <2> SUFFICES ASSUME NEW v \in I, rank[v] <= 0 PROVE g[v] \in I \cap stop
    OBVIOUS
  <2>1. v \in D /\ next[v] \in D /\ rank[v] \in Nat /\ rank[next[v]] \in Nat
    OBVIOUS
  <2>2. v \in stop
    BY <2>1
  <2> QED
    BY <2>1, <2>2 DEF Loop
<1>2. \A n \in Nat : n \in N => n + 1 \in N
  <2> SUFFICES ASSUME NEW n \in Nat, n \in N, NEW v \in I, rank[v] <= n + 1
               PROVE  g[v] \in I \cap stop
    OBVIOUS
  <2>1. v \in D /\ next[v] \in D /\ rank[v] \in Nat /\ rank[next[v]] \in Nat
    OBVIOUS
  <2>2. CASE v \in stop
    BY <2>1, <2>2 DEF Loop
  <2>3. CASE v \notin stop
    <3>1. next[v] \in I /\ rank[next[v]] <= n
      BY <2>1, <2>3
    <3>2. g[next[v]] \in I \cap stop
      BY <3>1
    <3> QED
      BY <2>1, <2>3, <3>2 DEF Loop
  <2> QED
    BY <2>2, <2>3
<1>3. Nat \subseteq N
  <2> HIDE DEF N
  <2> QED
    BY <1>1, <1>2, Induction
<1> SUFFICES ASSUME NEW v \in I PROVE g[v] \in I \cap stop
  OBVIOUS
<1>4. rank[v] \in Nat /\ rank[v] <= rank[v]
  OBVIOUS
<1> QED
  BY <1>3, <1>4
=============================================================================
