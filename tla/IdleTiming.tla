----------------------------- MODULE IdleTiming -----------------------------
(***************************************************************************)
(* How long the core idles: the arithmetic of State_Idle in app_core.c,    *)
(* which AppCore abstracts from.  A check every idleTimeCheckSecs compares *)
(* the time since idling began with an idle time that depends on the       *)
(* device being active and having moved, on numbers of width uint32_t, and *)
(* with times that a downlink or a console may change in between, without  *)
(* the tests of range that are made at boot.                               *)
(*                                                                         *)
(* All names are this module's own, since it is extended together with     *)
(* others.  Time is counted from the beginning of idling; `longest' and    *)
(* `sane' are history.  Rearm_idleTime is Rearm with a programming error.  *)
(***************************************************************************)
EXTENDS Integers

CONSTANTS
  Word,                  \* 2^32, or less for TLC
  Minute,                \* seconds in a minute
  idleTimeCheckSecs, idleTimeInactiveMins,
  MovingSecs, NotMovingMins,  \* the values the configuration may have
  MaxIdle                \* bound: how long a run idles

ASSUME IdleAssumption ==
  /\ Word \in Nat \ {0} /\ Minute \in Nat \ {0}
  /\ idleTimeCheckSecs \in Nat \ {0}
  /\ idleTimeInactiveMins \in Nat \ {0} /\ idleTimeInactiveMins * Minute < Word
  /\ MovingSecs \subseteq 0 .. Word - 1
  /\ NotMovingMins \subseteq 0 .. Word - 1
  /\ MaxIdle \in Nat

VARIABLES
  idling,      \* in State_Idle, with the timer running
  dt,          \* seconds since idleStartTS
  timer,       \* seconds until it fires
  times,       \* idleTimeMovingSecs, idleTimeNotMovingMins
  active,      \* AppCore_isDeviceActive
  moved,       \* MMMgr_hasMovedSince(lastULTime)
  longest,     \* the longest idle time configured since idling began
  sane         \* none of them was zero, nor too large for its seconds

idleVars == <<idling, dt, timer, times, active, moved, longest, sane>>

\* idletimeS, and what dt is compared with: one less, which underflows at 0.
idletimeS == IF ~active THEN idleTimeInactiveMins * Minute
             ELSE IF moved THEN times.moving
             ELSE (times.notMoving * Minute) % Word
Limit == (idletimeS - 1) % Word

Rearm_idleTime == idletimeS
Rearm == idleTimeCheckSecs

Longer(a, b) == IF a < b THEN b ELSE a
LongestOf(t) == Longer(idleTimeInactiveMins * Minute, Longer(t.moving, t.notMoving * Minute))
SaneOf(t) == t.moving > 0 /\ t.notMoving > 0 /\ t.notMoving * Minute < Word

\* SM_ENTER; with no idle time the core goes on at once.
EnterIdling ==
  /\ ~idling
  /\ times.moving # 0
  /\ idling' = TRUE
  /\ dt' = 0
  /\ timer' = idleTimeCheckSecs
  /\ longest' = LongestOf(times)
  /\ sane' = SaneOf(times)
  /\ UNCHANGED <<times, active, moved>>

\* SM_TIMEOUT
WakeUp ==
  /\ idling /\ timer = 0
  /\ dt >= Limit
  /\ idling' = FALSE
  /\ UNCHANGED <<dt, timer, times, active, moved, longest, sane>>

StayIdle ==
  /\ idling /\ timer = 0
  /\ dt < Limit
  /\ timer' = Rearm
  /\ UNCHANGED <<idling, dt, times, active, moved, longest, sane>>

\* ME_FORCE_UL
ForcedAwake ==
  /\ idling
  /\ idling' = FALSE
  /\ UNCHANGED <<dt, timer, times, active, moved, longest, sane>>

\* configChangedCB, while idle or not.
ConfigChanged(m, n) ==
  /\ times' = [moving |-> m, notMoving |-> n]
  /\ longest' = Longer(longest, LongestOf(times'))
  /\ sane' = (sane /\ SaneOf(times'))
  /\ UNCHANGED <<idling, dt, timer, active, moved>>

\* The card is moved, or an uplink makes that old; it is switched (in)active.
Surroundings ==
  /\ \/ moved' = ~moved /\ UNCHANGED active
     \/ active' = ~active /\ UNCHANGED moved
  /\ UNCHANGED <<idling, dt, timer, times, longest, sane>>

\* A second passes; the timer is handled when it fires.
Second ==
  /\ idling /\ timer > 0 /\ dt < MaxIdle
  /\ dt' = dt + 1
  /\ timer' = timer - 1
  /\ UNCHANGED <<idling, times, active, moved, longest, sane>>

IdleInit ==
  /\ idling = FALSE /\ dt = 0 /\ timer = 0
  /\ times \in [moving : MovingSecs, notMoving : NotMovingMins]
  /\ active \in BOOLEAN /\ moved \in BOOLEAN
  /\ longest = LongestOf(times) /\ sane = SaneOf(times)

IdleNext ==
  \/ EnterIdling \/ WakeUp \/ StayIdle \/ ForcedAwake \/ Second
  \/ Surroundings
  \/ \E m \in MovingSecs, n \in NotMovingMins : ConfigChanged(m, n)

IdleSpec == IdleInit /\ [][IdleNext]_idleVars

----------------------------------------------------------------------------
\* The core does not idle longer than the longest idle time it was given, and
\* the interval between two checks, however often the card moves, is switched or
\* gets other times while it idles, as long as none of them is zero (app_core.c
\* lets all be zero, and then Limit is Word - 1) or overflows.
IdleEndsInTime == idling /\ sane => dt <= longest + idleTimeCheckSecs
=============================================================================
