----------------------------- MODULE Lifecycle -----------------------------
(***************************************************************************)
(* What the application core promises to the network and to the person who *)
(* owns the device, without modules, queues or timers: the phases of its   *)
(* life, whether it is a member of a network, and how many uplinks it has  *)
(* on the air.                                                             *)
(*                                                                         *)
(* Membership is written down, and the running device goes by a copy it    *)
(* made when it was switched on: the two are changed together by the       *)
(* network, and the first alone by a user.                                 *)
(***************************************************************************)
EXTENDS Integers

VARIABLES phase,    \* where the device is in its life
          member,   \* written down: 1 once a join succeeded, 0 when told to go to stock
          belief,   \* what the running device goes by
          onAir     \* uplinks given to the radio and not answered yet

standing == <<member, belief>>
vars == <<phase, standing, onAir>>

Phases == {"off", "stocked", "starting", "joining", "waiting", "stocking",
           "sleeping", "collecting", "reporting"}

TypeOK == phase \in Phases /\ member \in {0, 1} /\ belief \in {0, 1} /\ onAir \in Nat

Init == phase = "off" /\ member \in {0, 1} /\ belief = 0 /\ onAir = 0

Move(from, to) == phase \in from /\ phase' \in to

\* The device goes by what is written down.
PowerOn ==
  /\ Move({"off", "stocked"}, {"starting"})
  /\ belief' = member
  /\ UNCHANGED <<member, onAir>>

\* With its keys the device joins, without them it goes to stock.
Start == Move({"starting"}, {"joining", "stocking"}) /\ UNCHANGED <<standing, onAir>>

Admitted == Move({"joining"}, {"collecting"}) /\ member' = 1 /\ belief' = 1 /\ UNCHANGED onAir

\* A device that was never admitted gives up, one that was tries again.
Refused ==
  /\ Move({"joining"}, IF belief = 0 THEN {"stocking"} ELSE {"waiting"})
  /\ UNCHANGED <<standing, onAir>>

TryAgain == Move({"waiting"}, {"joining"}) /\ UNCHANGED <<standing, onAir>>

WakeUp == Move({"sleeping"}, {"collecting"}) /\ UNCHANGED <<standing, onAir>>

\* The only phase that gives uplinks to the radio.
Report ==
  /\ Move({"collecting", "reporting"}, {"reporting"})
  /\ onAir' \in {onAir, onAir + 1}
  /\ UNCHANGED standing

GoToSleep == Move({"collecting", "reporting"}, {"sleeping"}) /\ UNCHANGED <<standing, onAir>>

\* A downlink, heard while reporting or just after, withdraws the membership;
\* it may write it down again in the same breath.
Dismissed ==
  /\ phase \in {"sleeping", "reporting"}
  /\ belief' = 0
  /\ member' \in {0, 1}
  /\ UNCHANGED <<phase, onAir>>

\* A user, at the console after switching on or at that of a module, or the
\* backend by a downlink, writes down a membership; the device goes on as it
\* was.  Nobody does so while it tries to join.
Configured ==
  /\ phase \in {"starting", "sleeping", "collecting", "reporting"}
  /\ member' \in {0, 1}
  /\ UNCHANGED <<phase, belief, onAir>>

\* The radio answers a send.
Answered == onAir > 0 /\ onAir' = onAir - 1 /\ UNCHANGED <<phase, standing>>

\* A reset, wanted or not, may come at any time, also in the middle of a
\* downlink that changes the membership.
PowerDown ==
  /\ phase \notin {"off", "stocked"}
  /\ phase' \in {"off", "stocked"}
  /\ belief' = 0
  /\ onAir' = 0
  /\ \/ UNCHANGED member
     \/ phase \in {"sleeping", "reporting"} /\ member' \in {0, 1}

Next ==
  \/ PowerOn \/ Start \/ Admitted \/ Refused \/ TryAgain
  \/ WakeUp \/ Report \/ GoToSleep \/ Dismissed \/ Configured \/ Answered \/ PowerDown

Spec == Init /\ [][Next]_vars
=============================================================================
