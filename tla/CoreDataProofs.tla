--------------------------- MODULE CoreDataProofs ---------------------------
(***************************************************************************)
(* Theorems about what the core computes: the idle time (IdleTiming), for  *)
(* a word of any width, any interval between checks and any times the      *)
(* configuration may have; and the actions of a downlink (Downlink), for a *)
(* buffer of any size, any bytes and any number of actions.                *)
(***************************************************************************)
EXTENDS IdleTiming, Downlink, SequenceTheorems, Recursion, TLAPS

----------------------------------------------------------------------------
(* The idle time. *)

IdleTypeOK ==
  /\ idling \in BOOLEAN /\ dt \in Nat /\ timer \in Nat
  /\ times \in [moving : 0 .. Word - 1, notMoving : 0 .. Word - 1]
  /\ active \in BOOLEAN /\ moved \in BOOLEAN
  /\ longest \in Nat /\ sane \in BOOLEAN

\* The history agrees with the times that are configured.
Account == LongestOf(times) <= longest /\ (sane => SaneOf(times))

\* When the timer fires, no more than the longest time and one check are over.
FiresInTime == idling /\ sane => dt + timer <= longest + idleTimeCheckSecs

IdleInv == IdleTypeOK /\ Account /\ FiresInTime

----------------------------------------------------------------------------
(* The remainder of a number below the modulus is the number. *)
LEMMA ModSmall ==
  ASSUME NEW n \in Nat, NEW m \in Nat, n < m
  PROVE  n % m = n
<1>1. n % m \in 0 .. m - 1 /\ n = m * (n \div m) + (n % m) /\ n \div m \in Int
  OBVIOUS
<1>2. n \div m = 0
  <2>1. CASE n \div m >= 1
    <3>1. m * (n \div m) >= m
      BY <1>1, <2>1
    <3> QED
      BY <1>1, <3>1
  <2>2. CASE n \div m <= -1
    <3>1. m * (n \div m) <= -m
      BY <1>1, <2>2
    <3> QED
      BY <1>1, <3>1
  <2> QED
    BY <1>1, <2>1, <2>2
<1> QED
  BY <1>1, <1>2

LEMMA LongerIs ==
  ASSUME NEW a \in Nat, NEW b \in Nat
  PROVE  Longer(a, b) \in Nat /\ a <= Longer(a, b) /\ b <= Longer(a, b)
  BY DEF Longer

LEMMA LongestIs ==
  ASSUME IdleAssumption, NEW t \in [moving : Nat, notMoving : Nat]
  PROVE  /\ LongestOf(t) \in Nat
         /\ idleTimeInactiveMins * Minute <= LongestOf(t)
         /\ t.moving <= LongestOf(t) /\ t.notMoving * Minute <= LongestOf(t)
<1>1. idleTimeInactiveMins * Minute \in Nat
  BY DEF IdleAssumption
<1>2. t.notMoving * Minute \in Nat /\ t.moving \in Nat
  BY DEF IdleAssumption
<1> DEFINE a == idleTimeInactiveMins * Minute
           c == t.notMoving * Minute
           l == Longer(t.moving, c)
<1>3. LongestOf(t) = Longer(a, l)
  BY DEF LongestOf
<1>4. a \in Nat /\ c \in Nat
  BY <1>1, <1>2
<1> HIDE DEF a, c
<1>5. l \in Nat /\ t.moving <= l /\ c <= l
  BY <1>2, <1>4, LongerIs
<1> HIDE DEF l
<1>6. Longer(a, l) \in Nat /\ a <= Longer(a, l) /\ l <= Longer(a, l)
  BY <1>4, <1>5, LongerIs
<1>7. LongestOf(t) \in Nat /\ a <= LongestOf(t) /\ t.moving <= LongestOf(t) /\ c <= LongestOf(t)
  BY <1>2, <1>3, <1>4, <1>5, <1>6
<1> QED
  BY <1>7 DEF a, c

(* With times that are sane, a check that finds the limit not reached finds *)
(* it below the longest time.                                               *)
LEMMA LimitInTime ==
  ASSUME IdleAssumption, IdleTypeOK, Account, sane
  PROVE  Limit \in Nat /\ Limit < longest
<1>1. SaneOf(times) /\ LongestOf(times) <= longest
  BY DEF Account
<1>2. times.moving \in Nat /\ times.notMoving \in Nat /\ times.moving < Word
        /\ Word \in Nat /\ Minute \in Nat /\ Minute > 0 /\ longest \in Nat
  BY DEF IdleTypeOK, IdleAssumption
<1>3. times \in [moving : Nat, notMoving : Nat]
  BY DEF IdleTypeOK
<1>4. /\ LongestOf(times) \in Nat /\ idleTimeInactiveMins * Minute <= LongestOf(times)
      /\ times.moving <= LongestOf(times) /\ times.notMoving * Minute <= LongestOf(times)
  BY <1>3, LongestIs
<1>5. idleTimeInactiveMins * Minute \in Nat /\ idleTimeInactiveMins * Minute > 0
        /\ idleTimeInactiveMins * Minute < Word
  BY DEF IdleAssumption
<1>6. times.notMoving * Minute \in Nat /\ times.notMoving * Minute > 0
        /\ times.notMoving * Minute < Word
  BY <1>1, <1>2 DEF SaneOf
<1>7. (times.notMoving * Minute) % Word = times.notMoving * Minute
  BY <1>2, <1>6, ModSmall
<1>8. times.moving > 0
  BY <1>1 DEF SaneOf
<1>9. idletimeS \in Nat /\ idletimeS > 0 /\ idletimeS < Word /\ idletimeS <= LongestOf(times)
  BY <1>2, <1>4, <1>5, <1>6, <1>7, <1>8 DEF idletimeS
<1> HIDE DEF idletimeS
<1>10. Limit = idletimeS - 1
  <2>1. idletimeS - 1 \in Nat /\ idletimeS - 1 < Word
    BY <1>2, <1>9
  <2> QED
    BY <1>2, <2>1, ModSmall DEF Limit
<1> QED
  BY <1>1, <1>2, <1>4, <1>9, <1>10

----------------------------------------------------------------------------
LEMMA IdleInitInv == IdleAssumption /\ IdleInit => IdleInv
<1> SUFFICES ASSUME IdleAssumption, IdleInit PROVE IdleInv
  OBVIOUS
<1>1. times \in [moving : 0 .. Word - 1, notMoving : 0 .. Word - 1]
  BY DEF IdleInit, IdleAssumption
<1>2. longest = LongestOf(times) /\ sane = SaneOf(times)
  BY DEF IdleInit
<1>3. LongestOf(times) \in Nat
  BY <1>1, LongestIs
<1>4. sane \in BOOLEAN
  BY <1>2 DEF SaneOf
<1>5. longest \in Nat /\ LongestOf(times) <= longest
  BY <1>2, <1>3
<1>6. IdleTypeOK
  BY <1>1, <1>4, <1>5 DEF IdleInit, IdleTypeOK
<1>7. Account
  BY <1>2, <1>5 DEF Account
<1>8. FiresInTime
  BY DEF IdleInit, FiresInTime
<1> QED
  BY <1>6, <1>7, <1>8 DEF IdleInv

LEMMA IdleStepInv == IdleAssumption /\ IdleInv /\ [IdleNext]_idleVars => IdleInv'
<1> SUFFICES ASSUME IdleAssumption, IdleInv, [IdleNext]_idleVars PROVE IdleInv'
  OBVIOUS
<1> USE DEF IdleInv
<1>1. idleTimeCheckSecs \in Nat
  BY DEF IdleAssumption
<1>2. CASE EnterIdling
  <2>1. longest' = LongestOf(times) /\ sane' = SaneOf(times) /\ times' = times
          /\ dt' = 0 /\ timer' = idleTimeCheckSecs
    BY <1>2 DEF EnterIdling
  <2>2. longest' \in Nat /\ sane' \in BOOLEAN
    <3>1. times \in [moving : Nat, notMoving : Nat]
      BY DEF IdleTypeOK
    <3> QED
      BY <2>1, <3>1, LongestIs DEF SaneOf
  <2>3. IdleTypeOK'
    <3>1. idling' = TRUE /\ active' = active /\ moved' = moved
      BY <1>2 DEF EnterIdling
    <3>2. dt' \in Nat /\ timer' \in Nat
      BY <1>1, <2>1
    <3> QED
      BY <2>1, <2>2, <3>1, <3>2 DEF IdleTypeOK
  <2>4. LongestOf(times') = longest' /\ SaneOf(times') = sane'
    BY <2>1
  <2>5. Account'
    BY <2>2, <2>4 DEF Account
  <2> QED
    BY <1>1, <2>1, <2>2, <2>3, <2>5 DEF FiresInTime
<1>3. CASE WakeUp \/ ForcedAwake
  <2>1. idling' = FALSE /\ UNCHANGED <<dt, timer, times, active, moved, longest, sane>>
    BY <1>3 DEF WakeUp, ForcedAwake
  <2>2. IdleTypeOK'
    BY <2>1 DEF IdleTypeOK
  <2>3. Account' /\ FiresInTime'
    BY <2>1 DEF Account, FiresInTime
  <2> QED
    BY <2>2, <2>3
<1>4. CASE StayIdle
  <2>1. UNCHANGED <<idling, dt, times, active, moved, longest, sane>>
          /\ timer' = idleTimeCheckSecs /\ dt < Limit
    BY <1>4 DEF StayIdle, Rearm
  <2>2. IdleTypeOK' /\ Account'
    BY <1>1, <2>1 DEF IdleTypeOK, Account
  <2>3. sane => Limit \in Nat /\ Limit < longest
    BY LimitInTime
  <2>4. FiresInTime'
    BY <1>1, <2>1, <2>3 DEF FiresInTime, IdleTypeOK
  <2> QED
    BY <2>2, <2>4
<1>5. CASE Second
  <2>1. dt' = dt + 1 /\ timer' = timer - 1 /\ timer > 0
          /\ UNCHANGED <<idling, times, active, moved, longest, sane>>
    BY <1>5 DEF Second
  <2> QED
    BY <1>1, <2>1 DEF IdleTypeOK, Account, FiresInTime
<1>6. CASE Surroundings
  <2>1. UNCHANGED <<idling, dt, timer, times, longest, sane>>
          /\ active' \in BOOLEAN /\ moved' \in BOOLEAN
    BY <1>6 DEF Surroundings, IdleTypeOK
  <2> QED
    BY <2>1 DEF IdleTypeOK, Account, FiresInTime
<1>7. ASSUME NEW m \in MovingSecs, NEW n \in NotMovingMins, ConfigChanged(m, n)
      PROVE  IdleInv'
  <2>1. times' = [moving |-> m, notMoving |-> n] /\ longest' = Longer(longest, LongestOf(times'))
          /\ sane' = (sane /\ SaneOf(times')) /\ UNCHANGED <<idling, dt, timer, active, moved>>
    BY <1>7 DEF ConfigChanged
  <2>2. times' \in [moving : 0 .. Word - 1, notMoving : 0 .. Word - 1]
    BY <2>1 DEF IdleAssumption
  <2>3. LongestOf(times') \in Nat
    <3>1. times' \in [moving : Nat, notMoving : Nat]
      BY <2>2
    <3> QED
      BY <3>1, LongestIs
  <2>4. longest \in Nat
    BY DEF IdleTypeOK
  <2>5. longest' \in Nat /\ longest <= longest' /\ LongestOf(times') <= longest'
    BY <2>1, <2>3, <2>4, LongerIs
  <2>6. sane' \in BOOLEAN /\ (sane' => sane) /\ (sane' => SaneOf(times'))
    BY <2>1
  <2>7. IdleTypeOK'
    BY <2>1, <2>2, <2>5, <2>6 DEF IdleTypeOK
  <2>8. Account'
    BY <2>5, <2>6 DEF Account
  <2>9. FiresInTime'
    BY <1>1, <2>1, <2>4, <2>5, <2>6 DEF FiresInTime, IdleTypeOK
  <2> QED
    BY <2>7, <2>8, <2>9
<1>8. CASE UNCHANGED idleVars
  BY <1>8 DEF idleVars, IdleTypeOK, Account, FiresInTime
<1> QED
  BY <1>2, <1>3, <1>4, <1>5, <1>6, <1>7, <1>8 DEF IdleNext

----------------------------------------------------------------------------
(* The inductive invariant: what remains of the timer counts as idled. *)
THEOREM IdleInvariance == IdleSpec => []IdleInv
<1>1. IdleInv /\ [IdleNext]_idleVars => IdleInv'
  BY IdleStepInv, IdleAssumption
<1>2. IdleInit => IdleInv
  BY IdleInitInv, IdleAssumption
<1> QED
  BY <1>1, <1>2, PTL DEF IdleSpec

(* The core wakes up no later than one check after the longest idle time it *)
(* was given while it idled (State_Idle, configChangedCB).                  *)
THEOREM IdleEnds == IdleSpec => []IdleEndsInTime
<1>1. IdleInv => IdleEndsInTime
  <2> SUFFICES ASSUME IdleInv, idling, sane PROVE dt <= longest + idleTimeCheckSecs
    BY DEF IdleEndsInTime
  <2>1. dt + timer <= longest + idleTimeCheckSecs /\ dt \in Nat /\ timer \in Nat /\ longest \in Nat
    BY DEF IdleInv, IdleTypeOK, FiresInTime
  <2>2. idleTimeCheckSecs \in Nat
    BY IdleAssumption DEF IdleAssumption
  <2> QED
    BY <2>1, <2>2
<1> QED
  BY <1>1, IdleInvariance, PTL

----------------------------------------------------------------------------
(* Downlinks. *)

\* The actions of a downlink, each with its tag, its length and its value.
Actions == Seq(Seq(Nat))

(* What FlattenSeq computes, one sequence after the other. *)
LEMMA FlattenSteps ==
  ASSUME NEW s \in Actions
  PROVE  \E f \in [Nat -> Seq(Nat)] :
           /\ f[0] = <<>>
           /\ \A k \in 1 .. Len(s) : f[k] = f[k - 1] \o s[k]
           /\ FlattenSeq(s) = f[Len(s)]
<1> DEFINE S == Seq(Nat)
           step == [p \in Nat \X S |-> IF p[1] \in 1 .. Len(s) THEN p[2] \o s[p[1]] ELSE p[2]]
<1>1. Len(s) \in Nat /\ \A k \in 1 .. Len(s) : s[k] \in Seq(Nat)
  BY DEF Actions
<1>2. <<>> \in S /\ step \in [Nat \X S -> S]
  BY <1>1, ConcatProperties
<1>3. PICK f \in [Nat -> S] : Steps(f, <<>>, step, Nat)
  <2> HIDE DEF S, step
  <2> QED
    BY <1>2, StepsExist
<1>4. f[0] = <<>>
  BY <1>3 DEF Steps
<1>5. ASSUME NEW k \in 1 .. Len(s) PROVE f[k] = f[k - 1] \o s[k]
  <2>1. k \in Nat \ {0} /\ k - 1 \in Nat
    BY <1>1
  <2>2. f[k] = step[<<k, f[k - 1]>>]
    BY <1>3, <2>1 DEF Steps
  <2> QED
    BY <2>1, <2>2
<1> HIDE DEF step
<1>6. FlattenSeq(s) = f[Len(s)]
  <2>1. CASE Len(s) = 0
    BY <1>4, <2>1 DEF FlattenSeq, Actions
  <2>2. CASE Len(s) # 0
    <3> DEFINE flatten[i \in 1 .. Len(s)] == IF i = 1 THEN s[i] ELSE flatten[i - 1] \o s[i]
               g == [i \in 1 .. Len(s) |-> f[i]]
    <3>1. FlattenSeq(s) = flatten[Len(s)]
      BY <2>2 DEF FlattenSeq
    <3>2. f[1] = s[1]
      <4>1. 1 \in 1 .. Len(s) /\ 1 - 1 = 0
        BY <1>1, <2>2
      <4>2. f[1] = <<>> \o s[1] /\ s[1] \in Seq(Nat)
        BY <1>1, <1>4, <1>5, <4>1
      <4> QED
        BY <4>2, ConcatEmptySeq
    <3>3. g = [i \in 1 .. Len(s) |-> IF i = 1 THEN s[i] ELSE g[i - 1] \o s[i]]
      <4> SUFFICES ASSUME NEW i \in 1 .. Len(s)
                   PROVE  g[i] = IF i = 1 THEN s[i] ELSE g[i - 1] \o s[i]
        OBVIOUS
      <4>1. i # 1 => i - 1 \in 1 .. Len(s)
        BY <1>1
      <4>2. f[i] = f[i - 1] \o s[i] /\ g[i] = f[i]
        BY <1>5
      <4>3. i # 1 => g[i - 1] = f[i - 1]
        BY <4>1
      <4> HIDE DEF g
      <4> QED
        BY <3>2, <4>2, <4>3
    <3>4. flatten = [i \in 1 .. Len(s) |-> IF i = 1 THEN s[i] ELSE flatten[i - 1] \o s[i]]
      <4> HIDE DEF g
      <4> QED
        BY <3>3
    <3> HIDE DEF flatten
    <3> DEFINE N == {n \in Nat : n + 1 \in 1 .. Len(s) => flatten[n + 1] = f[n + 1]}
    <3>5. 0 \in N
      BY <3>2, <3>4
    <3>6. \A n \in Nat : n \in N => n + 1 \in N
      <4> SUFFICES ASSUME NEW n \in Nat, n \in N, n + 2 \in 1 .. Len(s)
                   PROVE  flatten[n + 2] = f[n + 2]
        OBVIOUS
      <4>1. flatten[n + 1] = f[n + 1] /\ n + 2 # 1 /\ (n + 2) - 1 = n + 1
        BY <1>1
      <4>2. flatten[n + 2] = flatten[(n + 2) - 1] \o s[n + 2]
        BY <3>4, <4>1
      <4> QED
        BY <1>5, <4>1, <4>2
    <3>7. Nat \subseteq N
      <4> HIDE DEF N
      <4> QED
        BY <3>5, <3>6, Induction
    <3>8. Len(s) - 1 \in Nat /\ (Len(s) - 1) + 1 = Len(s) /\ Len(s) \in 1 .. Len(s)
      BY <1>1, <2>2
    <3>9. flatten[Len(s)] = f[Len(s)]
      <4>1. Len(s) - 1 \in N
        BY <3>7, <3>8
      <4> QED
        BY <3>8, <4>1
    <3> QED
      BY <3>1, <3>9
  <2> QED
    BY <2>1, <2>2
<1> QED
  BY <1>3, <1>4, <1>5, <1>6

(* The concatenation of a list and one more is that of the list, and it. *)
LEMMA FlattenAppend ==
  ASSUME NEW s \in Actions, NEW x \in Seq(Nat)
  PROVE  FlattenSeq(Append(s, x)) = FlattenSeq(s) \o x
<1> DEFINE t == Append(s, x)
           n == Len(s)
<1>1. n \in Nat /\ t \in Actions /\ Len(t) = n + 1 /\ t[n + 1] = x /\ \A k \in 1 .. n : t[k] = s[k]
  BY DEF Actions
<1> HIDE DEF t, n
<1>2. PICK f \in [Nat -> Seq(Nat)] : /\ f[0] = <<>>
                                     /\ \A k \in 1 .. n : f[k] = f[k - 1] \o s[k]
                                     /\ FlattenSeq(s) = f[n]
  BY FlattenSteps DEF n
<1>3. PICK g \in [Nat -> Seq(Nat)] : /\ g[0] = <<>>
                                     /\ \A k \in 1 .. n + 1 : g[k] = g[k - 1] \o t[k]
                                     /\ FlattenSeq(t) = g[n + 1]
  BY <1>1, FlattenSteps
<1> DEFINE N == {k \in Nat : k <= n => f[k] = g[k]}
<1>4. 0 \in N
  BY <1>2, <1>3
<1>5. \A k \in Nat : k \in N => k + 1 \in N
  <2> SUFFICES ASSUME NEW k \in Nat, k \in N, k + 1 <= n PROVE f[k + 1] = g[k + 1]
    BY <1>1
  <2>1. k + 1 \in 1 .. n /\ k + 1 \in 1 .. n + 1 /\ (k + 1) - 1 = k /\ f[k] = g[k]
    BY <1>1
  <2>2. f[k + 1] = f[k] \o s[k + 1] /\ g[k + 1] = g[k] \o t[k + 1]
    BY <1>2, <1>3, <2>1
  <2> QED
    BY <1>1, <2>1, <2>2
<1>6. Nat \subseteq N
  <2> HIDE DEF N
  <2> QED
    BY <1>4, <1>5, Induction
<1>7. f[n] = g[n]
  BY <1>1, <1>6
<1>8. g[n + 1] = g[n] \o x
  <2>1. n + 1 \in 1 .. n + 1 /\ (n + 1) - 1 = n
    BY <1>1
  <2> QED
    BY <1>1, <1>3, <2>1
<1> QED
  BY <1>2, <1>3, <1>7, <1>8 DEF t

(* The concatenation of nothing. *)
LEMMA FlattenEmpty == FlattenSeq(<<>>) = <<>>
  BY EmptySeq DEF FlattenSeq

----------------------------------------------------------------------------
\* What the buffer holds of what came last; if fewer than two bytes came, they
\* are no body.
DlTypeOK ==
  /\ payload \in [Offsets -> Nat]
  /\ second \in [id : Nat, nb : Nat]
  /\ dlsz \in Nat /\ dlId \in Nat /\ nbActions \in Nat
  /\ came \in Seq(Nat) /\ Len(came) <= DL_MAX_BODY

Holds ==
  /\ dlsz = 2 + Len(came) \/ (dlsz < 2 /\ came = <<>>)
  /\ \A k \in 1 .. Len(came) : payload[k - 1] = came[k]

\* Where the walk is is behind what it executed, which is what came; it stops
\* at what is too long.
WalkOK(w) ==
  /\ w.off \in 0 .. Len(came)
  /\ w.did \in Actions
  /\ w.ok \in BOOLEAN
  /\ FlattenSeq(w.did) = SubSeq(came, 1, w.off)
  /\ \A k \in 1 .. Len(w.did) : Len(w.did[k]) = 2 + w.did[k][2]
  /\ ~w.ok => TooLong(w.off)

\* What was executed is the result of a walk.
DidWalk == did # <<>> => \E off : WalkOK([off |-> off, did |-> did, ok |-> ok])

DlInv == DlTypeOK /\ Holds /\ DidWalk

(* What the walk reads are numbers, wherever it reads. *)
LEMMA BytesAreNumbers ==
  ASSUME DlAssumption, DlTypeOK, NEW off \in Nat
  PROVE  /\ ByteAt(off) \in Nat /\ NextOff(off) \in Nat /\ NextOff(off) >= off + 2
         /\ Action(off) \in Seq(Nat)
<1>1. \A k \in Nat : ByteAt(k) \in Nat
  BY DEF DlTypeOK, ByteAt, Offsets
<1>2. NextOff(off) \in Nat /\ NextOff(off) >= off + 2
  BY <1>1 DEF NextOff
<1> DEFINE n == NextOff(off) - off
<1>3. n \in Nat
  BY <1>2
<1>4. [k \in 1 .. n |-> ByteAt(off + k - 1)] \in [1 .. n -> Nat]
  <2>1. \A k \in 1 .. n : off + k - 1 \in Nat
    BY <1>3
  <2> QED
    BY <1>1, <2>1
<1>5. Action(off) \in Seq(Nat)
  <2> HIDE DEF n
  <2> QED
    BY <1>3, <1>4, SeqDef DEF Action, n
<1> QED
  BY <1>1, <1>2, <1>5

\* One turn of the loop.
Turn(w) ==
  IF ~w.ok \/ TooLong(w.off) THEN [w EXCEPT !.ok = FALSE]
  ELSE [off |-> NextOff(w.off), did |-> Append(w.did, Action(w.off)), ok |-> TRUE]

(* The walk takes these turns, from the beginning of the body. *)
LEMMA WalkTurns ==
  ASSUME DlAssumption, DlTypeOK
  PROVE  /\ Walk[0] = [off |-> 0, did |-> <<>>, ok |-> TRUE]
         /\ \A n \in Nat : Walk[n + 1] = Turn(Walk[n])
<1> DEFINE S == [off : Nat, did : Actions, ok : BOOLEAN]
           a == [off |-> 0, did |-> <<>>, ok |-> TRUE]
           step == [p \in Nat \X S |-> Turn(p[2])]
<1>1. a \in S
  BY DEF Actions
<1>2. \A w \in S : Turn(w) \in S
  <2> SUFFICES ASSUME NEW w \in S PROVE Turn(w) \in S
    OBVIOUS
  <2>1. NextOff(w.off) \in Nat /\ Action(w.off) \in Seq(Nat)
    BY BytesAreNumbers
  <2>2. Append(w.did, Action(w.off)) \in Actions
    BY <2>1 DEF Actions
  <2> QED
    BY <2>1, <2>2 DEF Turn
<1>3. step \in [Nat \X S -> S]
  <2> HIDE DEF S
  <2> QED
    BY <1>2
<1>4. PICK f \in [Nat -> S] : Steps(f, a, step, Nat)
  <2> HIDE DEF S, a, step
  <2> QED
    BY <1>1, <1>3, StepsExist
<1>5. f[0] = a /\ \A n \in Nat \ {0} : f[n] = Turn(f[n - 1])
  <2> HIDE DEF S, a
  <2>1. \A n \in Nat \ {0} : n - 1 \in Nat /\ f[n - 1] \in S
    OBVIOUS
  <2> QED
    BY <1>4, <2>1 DEF Steps
<1>6. f = [n \in Nat |-> IF n = 0 THEN [off |-> 0, did |-> <<>>, ok |-> TRUE]
                         ELSE Turn(f[n - 1])]
  <2> HIDE DEF S
  <2> QED
    BY <1>5
<1> DEFINE walk[n \in Nat] == IF n = 0 THEN [off |-> 0, did |-> <<>>, ok |-> TRUE]
                              ELSE Turn(walk[n - 1])
<1>7. Walk = walk
  BY DEF Walk, Turn
<1>8. walk = [n \in Nat |-> IF n = 0 THEN [off |-> 0, did |-> <<>>, ok |-> TRUE]
                            ELSE Turn(walk[n - 1])]
  BY <1>6
<1> HIDE DEF walk
<1>9. \A n \in Nat : n + 1 \in Nat /\ n + 1 # 0 /\ (n + 1) - 1 = n
  OBVIOUS
<1> QED
  BY <1>7, <1>8, <1>9

(* A turn goes on in what came, or stops. *)
LEMMA TurnOK ==
  ASSUME DlAssumption, DlTypeOK, Holds, NEW w, WalkOK(w),
         w \in [off : Nat, did : Actions, ok : BOOLEAN]
  PROVE  WalkOK(Turn(w)) /\ Turn(w) \in [off : Nat, did : Actions, ok : BOOLEAN]
<1>1. CASE ~w.ok \/ TooLong(w.off)
  BY <1>1 DEF Turn, WalkOK
<1>2. CASE w.ok /\ ~TooLong(w.off)
  <2> DEFINE off == w.off
             next == NextOff(off)
             act == Action(off)
  <2>1. off \in Nat /\ next \in Nat /\ next >= off + 2 /\ act \in Seq(Nat)
    BY BytesAreNumbers DEF WalkOK
  <2>2. dlsz = 2 + Len(came) /\ next <= Len(came)
    BY <1>2, <2>1 DEF TooLong, Holds, DlTypeOK
  <2>3. \A k \in 1 .. next - off : act[k] = came[off + k]
    <3> SUFFICES ASSUME NEW k \in 1 .. next - off PROVE act[k] = came[off + k]
      OBVIOUS
    <3>1. /\ off + k \in 1 .. Len(came) /\ off + k - 1 \in Offsets
          /\ (off + k) - 1 = off + k - 1
      <4>1. Len(came) \in Nat /\ Len(came) <= DL_MAX_BODY /\ DL_MAX_BODY \in Nat
        BY DEF DlTypeOK, DlAssumption
      <4> HIDE DEF off, next
      <4> QED
        BY <2>1, <2>2, <4>1 DEF Offsets
    <3>2. act[k] = ByteAt(off + k - 1)
      BY DEF Action
    <3>3. ByteAt(off + k - 1) = payload[off + k - 1]
      BY <3>1 DEF ByteAt
    <3>4. payload[(off + k) - 1] = came[off + k]
      BY <3>1 DEF Holds
    <3> QED
      BY <3>1, <3>2, <3>3, <3>4
  <2>4. Len(act) = next - off
    BY <2>1 DEF Action
  <2>5. act[2] = ByteAt(off + 1) /\ next = off + 2 + act[2] /\ Len(act) = 2 + act[2]
    <3>1. 2 \in 1 .. next - off /\ off + 2 - 1 = off + 1
      BY <2>1
    <3>2. act[2] = ByteAt(off + 1)
      BY <3>1 DEF Action
    <3>3. act[2] \in Nat
      BY <2>1, <2>4, <3>1
    <3> QED
      BY <2>1, <2>4, <3>2, <3>3 DEF NextOff
  <2>6. act = SubSeq(came, off + 1, next)
    <3>1. \A i \in off + 1 .. next : came[i] \in Nat
      <4>1. came \in Seq(Nat) /\ Len(came) \in Nat
        BY DEF DlTypeOK
      <4> HIDE DEF off, next
      <4>2. \A i \in off + 1 .. next : i \in 1 .. Len(came)
        BY <2>1, <2>2, <4>1
      <4> QED
        BY <4>1, <4>2, ElementOfSeq
    <3>2. /\ SubSeq(came, off + 1, next) \in Seq(Nat)
          /\ Len(SubSeq(came, off + 1, next)) = next - off
          /\ \A i \in 1 .. next - off : SubSeq(came, off + 1, next)[i] = came[off + i]
      <4>1. off + 1 <= next /\ next - (off + 1) + 1 = next - off /\ off + 1 \in Int /\ next \in Int
        BY <2>1
      <4>2. \A i \in 1 .. next - off : (off + 1) + i - 1 = off + i
        BY <2>1
      <4> QED
        BY <3>1, <4>1, <4>2, SubSeqProperties
    <3> HIDE DEF act, next, off
    <3> QED
      BY <2>1, <2>3, <2>4, <3>2, SeqEqual
  <2>7. FlattenSeq(Append(w.did, act)) = SubSeq(came, 1, next)
    <3>1. FlattenSeq(Append(w.did, act)) = SubSeq(came, 1, off) \o SubSeq(came, off + 1, next)
      BY <2>1, <2>6, FlattenAppend DEF WalkOK
    <3>2. came \in Seq(Nat) /\ 1 \in 1 .. Len(came) + 1 /\ off \in 1 - 1 .. Len(came)
            /\ next \in off .. Len(came)
      BY <2>1, <2>2 DEF DlTypeOK, WalkOK
    <3> HIDE DEF act, next, off
    <3> QED
      BY <3>1, <3>2, ConcatAdjacentSubSeq
  <2> HIDE DEF act, next
  <2>8. Append(w.did, act) \in Actions
    BY <2>1 DEF WalkOK, Actions
  <2>9. \A k \in 1 .. Len(Append(w.did, act)) :
          Len(Append(w.did, act)[k]) = 2 + Append(w.did, act)[k][2]
    <3> DEFINE done == w.did
    <3>1. done \in Actions /\ \A k \in 1 .. Len(done) : Len(done[k]) = 2 + done[k][2]
      BY DEF WalkOK
    <3> HIDE DEF done
    <3>2. /\ Len(Append(done, act)) = Len(done) + 1 /\ Append(done, act)[Len(done) + 1] = act
          /\ \A k \in 1 .. Len(done) : Append(done, act)[k] = done[k]
      BY <2>1, <3>1 DEF Actions
    <3>3. ASSUME NEW k \in 1 .. Len(Append(done, act))
          PROVE  Len(Append(done, act)[k]) = 2 + Append(done, act)[k][2]
      <4>1. Len(done) \in Nat
        BY <3>1 DEF Actions
      <4>2. k \in 1 .. Len(done) \/ k = Len(done) + 1
        BY <3>2, <4>1
      <4> QED
        BY <2>5, <3>1, <3>2, <4>2
    <3> QED
      BY <3>3 DEF done
  <2>10. Turn(w) = [off |-> next, did |-> Append(w.did, act), ok |-> TRUE]
    BY <1>2 DEF Turn, next, act
  <2>11. next \in 0 .. Len(came)
    BY <2>1, <2>2
  <2> QED
    BY <2>1, <2>7, <2>8, <2>9, <2>10, <2>11 DEF WalkOK
<1> QED
  BY <1>1, <1>2 DEF WalkOK

(* Induction: so does the walk, however many actions it is told of. *)
LEMMA WalkIsOK ==
  ASSUME DlAssumption, DlTypeOK, Holds
  PROVE  \A n \in Nat : WalkOK(Walk[n])
<1> DEFINE S == [off : Nat, did : Actions, ok : BOOLEAN]
           N == {n \in Nat : WalkOK(Walk[n]) /\ Walk[n] \in S}
<1>1. 0 \in N
  <2>1. Len(came) \in Nat /\ SubSeq(came, 1, 0) = <<>> /\ <<>> \in Actions
    BY SubSeqEmpty DEF DlTypeOK, Actions
  <2>2. Walk[0] = [off |-> 0, did |-> <<>>, ok |-> TRUE]
    BY WalkTurns
  <2>3. /\ Walk[0].off = 0 /\ Walk[0].did = <<>> /\ Walk[0].ok = TRUE
        /\ \A k \in 1 .. Len(<<>>) : FALSE
    BY <2>2, EmptySeq
  <2>4. Walk[0] \in S
    BY <2>1, <2>2
  <2>5. WalkOK(Walk[0])
    <3>1. FlattenSeq(Walk[0].did) = SubSeq(came, 1, Walk[0].off)
      BY <2>1, <2>3, FlattenEmpty
    <3>2. Walk[0].off \in 0 .. Len(came)
      BY <2>1, <2>3
    <3>3. \A k \in 1 .. Len(Walk[0].did) : FALSE
      BY <2>3
    <3> QED
      BY <2>1, <2>3, <3>1, <3>2, <3>3 DEF WalkOK
  <2> QED
    BY <2>4, <2>5
<1>2. \A n \in Nat : n \in N => n + 1 \in N
  <2> SUFFICES ASSUME NEW n \in Nat, n \in N PROVE WalkOK(Walk[n + 1]) /\ Walk[n + 1] \in S
    OBVIOUS
  <2> DEFINE w == Walk[n]
  <2>1. WalkOK(w) /\ w \in S
    OBVIOUS
  <2>2. Walk[n + 1] = Turn(w)
    BY WalkTurns
  <2> HIDE DEF w
  <2>3. WalkOK(Turn(w)) /\ Turn(w) \in S
    BY <2>1, TurnOK
  <2> QED
    BY <2>2, <2>3
<1>3. Nat \subseteq N
  <2> HIDE DEF N
  <2> QED
    BY <1>1, <1>2, Induction
<1> QED
  BY <1>3

----------------------------------------------------------------------------
(* The steps. *)

(* What the radio copies over the buffer is what the walk will find. *)
LEMMA ReceivedInv ==
  ASSUME DlAssumption, DlInv, NEW n \in Nat, NEW good \in BOOLEAN, NEW id \in DlIds,
         NEW nb \in DlNbs, NEW body \in Bodies,
         n = 2 + Len(body) \/ (n < 2 /\ body = <<>>),
         Received(n, good, id, nb, body)
  PROVE  DlInv'
<1>1. body \in Seq(Nat) /\ Len(body) \in 0 .. DL_MAX_BODY
  <2>1. PICK m \in 0 .. DL_MAX_BODY : body \in [1 .. m -> DlBytes]
    BY DEF Bodies, BoundedSeq, SeqOf
  <2>2. body \in [1 .. m -> Nat] /\ m \in Nat
    <3>1. DlBytes \subseteq Nat /\ m \in Nat
      BY DEF DlAssumption
    <3> QED
      BY <2>1, <3>1
  <2>3. body \in Seq(Nat)
    BY <2>2, SeqDef
  <2>4. Len(body) = m
    BY <2>2, <2>3
  <2> QED
    BY <2>1, <2>3, <2>4
<1>2. payload' \in [Offsets -> Nat]
  <2>1. \A k \in Offsets : k < Len(body) => k + 1 \in 1 .. Len(body)
    BY <1>1 DEF Offsets, DlAssumption
  <2>2. \A k \in Offsets : (IF k < Len(body) THEN body[k + 1] ELSE payload[k]) \in Nat
    BY <1>1, <2>1 DEF DlInv, DlTypeOK
  <2> QED
    BY <2>2 DEF Received
<1>3. second' \in [id : Nat, nb : Nat] /\ dlsz' = n /\ came' = body /\ did' = <<>>
  BY DEF Received, DlInv, DlTypeOK, DlAssumption
<1>4. dlId' \in Nat /\ nbActions' \in Nat
  BY <1>3 DEF Received, DlInv, DlTypeOK
<1>5. DlTypeOK'
  BY <1>1, <1>2, <1>3, <1>4 DEF DlTypeOK
<1>6. Holds'
  <2>1. ASSUME NEW k \in 1 .. Len(body) PROVE payload'[k - 1] = body[k]
    <3>1. k - 1 \in Offsets /\ k - 1 < Len(body) /\ (k - 1) + 1 = k
      BY <1>1 DEF Offsets, DlAssumption
    <3> QED
      BY <3>1 DEF Received
  <2> QED
    BY <1>3, <2>1 DEF Holds
<1>7. DidWalk'
  BY <1>3 DEF DidWalk
<1> QED
  BY <1>5, <1>6, <1>7 DEF DlInv

\* What DlInv speaks of, except what was executed.
received == <<payload, second, dlsz, dlId, nbActions, came>>

(* A step that leaves what was received leaves what the walk sees. *)
LEMMA SameReceived ==
  ASSUME DlInv, UNCHANGED received
  PROVE  DlTypeOK' /\ Holds' /\ \A off : TooLong(off)' = TooLong(off)
  BY DEF DlInv, DlTypeOK, Holds, TooLong, NextOff, ByteAt, received

(* What is executed is the result of a walk. *)
LEMMA ExecuteInv ==
  ASSUME DlAssumption, DlInv, Execute
  PROVE  DlInv'
<1>1. DlTypeOK' /\ Holds' /\ came' = came /\ \A off : TooLong(off)' = TooLong(off)
  BY SameReceived DEF Execute, received
<1>2. CASE did' = DlExecuted.did /\ ok' = DlExecuted.ok
  <2>0. PICK w : w = DlExecuted
    OBVIOUS
  <2>1. WalkOK(w)
    BY <2>0, WalkIsOK DEF DlExecuted, DlInv, DlTypeOK
  <2>2. did' = w.did /\ ok' = w.ok
    BY <1>2, <2>0
  <2>3. /\ w.off \in 0 .. Len(came') /\ did' \in Actions /\ ok' \in BOOLEAN
        /\ FlattenSeq(did') = SubSeq(came', 1, w.off)
        /\ \A k \in 1 .. Len(did') : Len(did'[k]) = 2 + did'[k][2]
        /\ ~ok' => TooLong(w.off)'
    BY <1>1, <2>1, <2>2 DEF WalkOK
  <2>4. DidWalk'
    BY <2>3 DEF DidWalk, WalkOK
  <2> QED
    BY <1>1, <2>4 DEF DlInv
<1>3. CASE UNCHANGED <<did, ok>>
  <2>1. DidWalk'
    BY <1>1, <1>3 DEF DlInv, DidWalk, WalkOK
  <2> QED
    BY <1>1, <2>1 DEF DlInv
<1> QED
  BY <1>2, <1>3 DEF Execute

LEMMA DlInitInv == DlAssumption /\ DlInit => DlInv
  BY DEF DlAssumption, DlInit, DlInv, DlTypeOK, Holds, DidWalk

LEMMA DlStepInv == DlAssumption /\ DlInv /\ [DlNext]_dlVars => DlInv'
<1> SUFFICES ASSUME DlAssumption, DlInv, [DlNext]_dlVars PROVE DlInv'
  OBVIOUS
<1>1. CASE Receive
  <2>1. PICK good \in BOOLEAN, id \in DlIds, nb \in DlNbs :
          \/ \E body \in Bodies : Received(2 + Len(body), good, id, nb, body)
          \/ \E n \in {0, 1} : Received(n, good, id, nb, <<>>)
    BY <1>1 DEF Receive
  <2>2. ASSUME NEW body \in Bodies, Received(2 + Len(body), good, id, nb, body) PROVE DlInv'
    <3>1. 2 + Len(body) \in Nat
      BY DEF Bodies, BoundedSeq, SeqOf, DlAssumption
    <3> QED
      BY <2>2, <3>1, ReceivedInv
  <2>3. ASSUME NEW n \in {0, 1}, Received(n, good, id, nb, <<>>) PROVE DlInv'
    <3>1. <<>> \in Bodies /\ n \in Nat /\ n < 2
      BY DEF Bodies, BoundedSeq, SeqOf, DlAssumption
    <3> QED
      BY <2>3, <3>1, ReceivedInv
  <2> QED
    BY <2>1, <2>2, <2>3
<1>2. CASE Execute
  BY <1>2, ExecuteInv
<1>3. CASE UNCHANGED <<received, did, ok>>
  <2>1. DlTypeOK' /\ Holds' /\ came' = came /\ \A off : TooLong(off)' = TooLong(off)
    BY <1>3, SameReceived DEF received
  <2>2. DidWalk'
    BY <1>3, <2>1 DEF DlInv, DidWalk, WalkOK
  <2> QED
    BY <2>1, <2>2 DEF DlInv
<1> QED
  BY <1>1, <1>2, <1>3 DEF DlNext, Ignore, dlVars, received

(* The invariant implies the property. *)
LEMMA DlInvExecuted == DlAssumption /\ DlInv => OnlyReceivedExecuted
<1> SUFFICES ASSUME DlAssumption, DlInv PROVE OnlyReceivedExecuted
  OBVIOUS
<1> DEFINE done == FlattenSeq(did)
           rest == SubSeq(came, Len(done) + 1, Len(came))
<1>1. came \in Seq(Nat) /\ Len(came) \in Nat
  BY DEF DlInv, DlTypeOK
<1>2. CASE did = <<>>
  <2>1. done = <<>> /\ Len(<<>>) = 0
    BY <1>2, FlattenEmpty
  <2> QED
    BY <1>1, <1>2, <2>1, SubSeqEmpty DEF OnlyReceivedExecuted, IsPrefix
<1>3. CASE did # <<>>
  <2>1. PICK off : WalkOK([off |-> off, did |-> did, ok |-> ok])
    BY <1>3 DEF DlInv, DidWalk
  <2>2. /\ off \in 0 .. Len(came) /\ did \in Actions
        /\ done = SubSeq(came, 1, off)
        /\ \A k \in 1 .. Len(did) : Len(did[k]) = 2 + did[k][2]
        /\ ~ok => TooLong(off)
    BY <2>1 DEF WalkOK
  <2> HIDE DEF done
  <2>3. done \in Seq(Nat) /\ Len(done) = off
    <3>1. \A i \in 1 .. off : came[i] \in Nat
      BY <1>1, <2>2
    <3> QED
      BY <1>1, <2>2, <3>1, SubSeqProperties
  <2>4. IsPrefix(done, came)
    <3>1. SubSeq(done, 1, off) = done
      BY <2>3, SubSeqFull
    <3> QED
      BY <1>1, <2>2, <2>3, <3>1 DEF IsPrefix
  <2>5. /\ Len(rest) = Len(came) - off
        /\ off + 2 <= Len(came) => rest[2] = came[off + 2]
    <3>1. \A i \in off + 1 .. Len(came) : came[i] \in Nat
      BY <1>1, <2>2
    <3>2. /\ Len(rest) = IF off + 1 <= Len(came) THEN Len(came) - (off + 1) + 1 ELSE 0
          /\ \A i \in 1 .. Len(came) - (off + 1) + 1 : rest[i] = came[(off + 1) + i - 1]
      BY <1>1, <2>2, <2>3, <3>1, SubSeqProperties
    <3>3. (off + 1) + 2 - 1 = off + 2
      BY <2>2
    <3> HIDE DEF rest
    <3> QED
      BY <1>1, <2>2, <3>2, <3>3
  <2> HIDE DEF rest
  <2>6. ~ok => Len(rest) < 2 \/ Len(rest) < 2 + rest[2]
    <3> SUFFICES ASSUME ~ok, Len(rest) >= 2 PROVE Len(rest) < 2 + rest[2]
      BY <1>1, <2>2, <2>5
    <3>1. off + 2 <= Len(came)
      BY <1>1, <2>2, <2>5
    <3>2. dlsz = 2 + Len(came)
      BY <1>1, <2>2, <3>1 DEF DlInv, Holds, DlTypeOK
    <3>3. NextOff(off) > dlsz - 2 /\ NextOff(off) = off + 2 + ByteAt(off + 1)
      BY <2>2 DEF TooLong, NextOff
    <3>4. ByteAt(off + 1) = came[off + 2] /\ came[off + 2] \in Nat
      <4>1. off + 1 \in Offsets /\ off + 2 \in 1 .. Len(came) /\ (off + 2) - 1 = off + 1
        <5>1. Len(came) <= DL_MAX_BODY /\ DL_MAX_BODY \in Nat
          BY DEF DlInv, DlTypeOK, DlAssumption
        <5> QED
          BY <1>1, <2>2, <3>1, <5>1 DEF Offsets
      <4>2. payload[(off + 2) - 1] = came[off + 2]
        BY <4>1 DEF DlInv, Holds
      <4> QED
        BY <1>1, <4>1, <4>2 DEF ByteAt
    <3>5. rest[2] = ByteAt(off + 1) /\ ByteAt(off + 1) \in Nat
      BY <2>5, <3>1, <3>4
    <3>6. Len(came) < off + 2 + ByteAt(off + 1) /\ off \in Nat
      BY <1>1, <2>2, <3>2, <3>3, <3>5
    <3>7. Len(rest) < 2 + ByteAt(off + 1)
      BY <1>1, <2>5, <3>5, <3>6
    <3> QED
      BY <3>5, <3>7
  <2>7. \A k \in DOMAIN did : Len(did[k]) = 2 + did[k][2]
    BY <2>2, LenProperties DEF Actions
  <2> QED
    BY <2>4, <2>6, <2>7 DEF OnlyReceivedExecuted, done, rest
<1> QED
  BY <1>2, <1>3

(* Whatever downlinks come and overwrite each other in the buffer before the *)
(* core executes one, the actions it executes are those of what came last.   *)
THEOREM ExecutedWasReceived == DlSpec => []OnlyReceivedExecuted
<1>1. DlInit => DlInv
  BY DlInitInv, DlAssumption
<1>2. DlInv /\ [DlNext]_dlVars => DlInv'
  BY DlStepInv, DlAssumption
<1>3. DlInv => OnlyReceivedExecuted
  BY DlInvExecuted, DlAssumption
<1> QED
  BY <1>1, <1>2, <1>3, PTL DEF DlSpec
=============================================================================
