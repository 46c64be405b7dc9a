------------------------------ MODULE EnvProofs ------------------------------
(***************************************************************************)
(* Theorems about the environment module (Env), for any sizes and fillings *)
(* of the uplink set and any changing sensors.  Which blocks find room     *)
(* (Filled) plays no part: a full report is `whole' by having had room.    *)
(***************************************************************************)
EXTENDS Env, TLAPS

\* What is in the set being sent has not changed since.
Apart == inSet \cap since = {}

\* A full report of which nothing has been lost has, or has had, every change
\* of its sensors that was not made since it was filled.
WholeHasAll == whole => unknown \cap Forced \subseteq inSet \cup since

IInv == EnvTypeOK /\ Apart /\ KeptUntilUplink /\ WholeHasAll

----------------------------------------------------------------------------
LEMMA SensorSets ==
  /\ Timed \subseteq Sensors /\ Forced \subseteq Sensors
  /\ {"TEMP", "PRESSURE"} \subseteq Sensors
<1>1. DOMAIN Order = 1 .. 12
  BY DEF Order
<1>2. Sensors = {"MOVE", "FALL", "SHOCK", "ORIENT", "LIGHT", "BATTERY", "TEMP",
                 "PRESSURE", "HUMIDIT", "ADC1", "ADC2", "NOISE"}
  <2>1. \A k \in 1 .. 12 : k = 1 \/ k = 2 \/ k = 3 \/ k = 4 \/ k = 5 \/ k = 6
                           \/ k = 7 \/ k = 8 \/ k = 9 \/ k = 10 \/ k = 11 \/ k = 12
    OBVIOUS
  <2> QED
    BY <1>1, <2>1 DEF Sensors, Order
<1> QED
  BY <1>2 DEF Timed, Forced

LEMMA InitInv == EnvInit => IInv
<1> SUFFICES ASSUME EnvInit PROVE IInv
  OBVIOUS
<1>1. sentRebootInfo \in 0 .. NB_REBOOT_INFOS
  BY DEF EnvInit, NB_REBOOT_INFOS
<1>2. news \subseteq Sensors /\ forceDue = FALSE /\ whole = FALSE /\ phase = "idle"
        /\ unknown = {} /\ inSet = {} /\ since = {} /\ passed = {}
  BY SensorSets DEF EnvInit
<1>3. EnvTypeOK
  BY <1>1, <1>2 DEF EnvTypeOK
<1> QED
  BY <1>2, <1>3 DEF IInv, Apart, KeptUntilUplink, WholeHasAll

(* What getData does to the account: the set takes some of what is wanted. *)
Takes(force, told) ==
  /\ phase = "started"
  /\ phase' \in IF force \/ Wanted(force) # {} THEN {"sending"} ELSE {"sending", "idle"}
  /\ sentRebootInfo' = CountedDown
  /\ forceDue' = (forceDue /\ ~force)
  /\ news' = news \ Marked(Wanted(force))
  /\ inSet' = told \cap Wanted(force) \cap unknown
  /\ since' = {}
  /\ whole' = (force /\ Wanted(force) \subseteq told)
  /\ UNCHANGED <<unknown, passed>>

LEMMA GetDataTakes ==
  ASSUME EnvGetData
  PROVE  \E force \in BOOLEAN : \E told : Takes(force, told)
<1>1. PICK u \in Fills : EnvGetDataFrom(u)
  BY DEF EnvGetData
<1> DEFINE debug  == sentRebootInfo > 0
           force  == forceDue \/ debug
           told   == Filled(u, (IF debug THEN Debug ELSE <<>>)
                                 \o SelectSeq(Order, LAMBDA b : b \in Wanted(force))).told
<1>2. /\ phase = "started"
      /\ phase' \in IF force \/ Wanted(force) # {} THEN {"sending"} ELSE {"sending", "idle"}
      /\ sentRebootInfo' = CountedDown
      /\ forceDue' = (forceDue /\ ~force)
      /\ news' = news \ Marked(Wanted(force))
      /\ inSet' = told \cap Wanted(force) \cap unknown
      /\ since' = {}
      /\ whole' = (force /\ Wanted(force) \subseteq told)
      /\ UNCHANGED <<unknown, passed>>
  BY <1>1 DEF EnvGetDataFrom
<1> HIDE DEF told
<1> SUFFICES force \in BOOLEAN
  BY <1>2 DEF Takes
<1> QED
  OBVIOUS

LEMMA GetDataInv ==
  ASSUME IInv, EnvGetData
  PROVE  IInv'
<1>a. PICK force \in BOOLEAN : \E told : Takes(force, told)
  BY GetDataTakes
<1>b. PICK told : Takes(force, told)
  BY <1>a
<1>1. /\ phase = "started"
      /\ phase' \in IF force \/ Wanted(force) # {} THEN {"sending"} ELSE {"sending", "idle"}
      /\ sentRebootInfo' = CountedDown
      /\ forceDue' = (forceDue /\ ~force)
      /\ news' = news \ Marked(Wanted(force))
      /\ inSet' = told \cap Wanted(force) \cap unknown
      /\ since' = {}
      /\ whole' = (force /\ Wanted(force) \subseteq told)
      /\ UNCHANGED <<unknown, passed>>
  BY <1>b DEF Takes
<1>2. sentRebootInfo' \in 0 .. NB_REBOOT_INFOS
  <2>1. sentRebootInfo \in 0 .. NB_REBOOT_INFOS /\ NB_REBOOT_INFOS \in Nat
    BY DEF IInv, EnvTypeOK, NB_REBOOT_INFOS
  <2> QED
    BY <1>1, <2>1 DEF CountedDown
<1>3. phase' \in {"sending", "idle"}
  BY <1>1
<1>4. phase' # "sending" => inSet' = {} /\ whole' = FALSE
  BY <1>1
<1>5. forceDue' \in BOOLEAN /\ whole' \in BOOLEAN
  BY <1>1 DEF IInv, EnvTypeOK
<1>6. EnvTypeOK'
  BY <1>1, <1>2, <1>3, <1>4, <1>5 DEF IInv, EnvTypeOK
<1>7. Apart'
  BY <1>1 DEF Apart
<1>8. KeptUntilUplink'
  BY <1>1 DEF IInv, KeptUntilUplink, Marked
<1>9. WholeHasAll'
  <2>1. force => Forced \subseteq Wanted(force)
    BY DEF Wanted
  <2> QED
    BY <1>1, <2>1 DEF WholeHasAll
<1> QED
  BY <1>6, <1>7, <1>8, <1>9 DEF IInv

LEMMA StepInv == Live \subseteq Sensors /\ IInv /\ [EnvNext]_envVars => IInv'
<1> SUFFICES ASSUME Live \subseteq Sensors, IInv, [EnvNext]_envVars PROVE IInv'
  OBVIOUS
<1> USE DEF IInv
<1>1. CASE EnvStart
  BY <1>1 DEF EnvStart, account, EnvTypeOK, Apart, KeptUntilUplink, WholeHasAll
<1>2. CASE EnvGetData
  BY <1>2, GetDataInv
<1>3. CASE GetDebug
  BY <1>3 DEF GetDebug, account, EnvTypeOK, Apart, KeptUntilUplink, WholeHasAll, NB_REBOOT_INFOS
<1>4. CASE Sent
  <2>1. PICK part \in SUBSET inSet : inSet' = inSet \ part /\ unknown' = unknown \ part
    BY <1>4 DEF Sent
  <2>2. PICK same \in SUBSET (news \cap Timed) :
          /\ news' = (news \ Timed) \cup same
          /\ passed' = (passed \cup (news \cap Timed)) \cap unknown'
    BY <1>4 DEF Sent, LastULMoves
  <2>3. UNCHANGED <<sentRebootInfo, forceDue, phase, since, whole>>
    BY <1>4 DEF Sent
  <2>4. EnvTypeOK'
    BY <2>1, <2>2, <2>3, SensorSets DEF EnvTypeOK, Apart
  <2>5. Apart' /\ WholeHasAll'
    BY <2>1, <2>3 DEF Apart, WholeHasAll
  <2>6. KeptUntilUplink'
    BY <2>1, <2>2 DEF KeptUntilUplink
  <2> QED
    BY <2>4, <2>5, <2>6
<1>5. CASE PassedOver
  BY <1>5 DEF PassedOver, EnvTypeOK, Apart, KeptUntilUplink, WholeHasAll
<1>6. CASE SendEnds
  BY <1>6 DEF SendEnds, EnvTypeOK, Apart, KeptUntilUplink, WholeHasAll
<1>7. CASE OtherUplink
  <2>1. PICK same \in SUBSET (news \cap Timed) :
          /\ news' = (news \ Timed) \cup same
          /\ passed' = (passed \cup (news \cap Timed)) \cap unknown'
    BY <1>7 DEF OtherUplink, LastULMoves
  <2>2. UNCHANGED <<unknown, sentRebootInfo, forceDue, phase, inSet, since, whole>>
    BY <1>7 DEF OtherUplink
  <2>3. EnvTypeOK'
    BY <2>1, <2>2, SensorSets DEF EnvTypeOK
  <2> QED
    BY <2>1, <2>2, <2>3 DEF Apart, KeptUntilUplink, WholeHasAll
<1>8. CASE HourPasses
  BY <1>8 DEF HourPasses, account, EnvTypeOK, Apart, KeptUntilUplink, WholeHasAll
<1>9. ASSUME NEW b \in Live, Change(b) PROVE IInv'
  <2>1. b \in Sensors
    OBVIOUS
  <2>2. /\ news' = news \cup {b}
        /\ unknown' = unknown \cup {b}
        /\ inSet' = inSet \ {b}
        /\ since' = IF phase = "sending" THEN since \cup {b} ELSE since
        /\ passed' = passed \ {b}
        /\ UNCHANGED <<sentRebootInfo, forceDue, phase, whole>>
    BY <1>9 DEF Change
  <2>3. EnvTypeOK'
    BY <2>1, <2>2 DEF EnvTypeOK
  <2>4. Apart'
    BY <2>2 DEF Apart
  <2>5. KeptUntilUplink'
    BY <2>2 DEF KeptUntilUplink
  <2>6. WholeHasAll'
    BY <2>2 DEF WholeHasAll, EnvTypeOK
  <2> QED
    BY <2>3, <2>4, <2>5, <2>6
<1>10. CASE UNCHANGED envVars
  BY <1>10 DEF envVars, EnvTypeOK, Apart, KeptUntilUplink, WholeHasAll
<1> QED
  BY <1>1, <1>2, <1>3, <1>4, <1>5, <1>6, <1>7, <1>8, <1>9, <1>10 DEF EnvNext

----------------------------------------------------------------------------
(* The inductive invariant: the types, and that the account of a full report *)
(* is complete.                                                              *)
THEOREM Invariance == ASSUME Live \subseteq Sensors PROVE EnvSpec => []IInv
<1>1. IInv /\ [EnvNext]_envVars => IInv'
  BY StepInv
<1> QED
  BY <1>1, InitInv, PTL DEF EnvSpec

(* The reboot count stays in its two values, and nothing is accounted as being *)
(* sent while no set is.                                                       *)
THEOREM TypeCorrect == ASSUME Live \subseteq Sensors PROVE EnvSpec => []EnvTypeOK
<1>1. IInv => EnvTypeOK
  BY DEF IInv
<1> QED
  BY <1>1, Invariance, PTL

(* A movement, fall, shock or noise is found by each getData until an uplink *)
(* goes out.                                                                 *)
THEOREM KeptTillUplink == ASSUME Live \subseteq Sensors PROVE EnvSpec => []KeptUntilUplink
<1>1. IInv => KeptUntilUplink
  BY DEF IInv
<1> QED
  BY <1>1, Invariance, PTL

(* After a full report that had room and got through, the backend knows of    *)
(* every change of the sensors in it, but those made since it was filled.     *)
THEOREM FullTellsAll == ASSUME Live \subseteq Sensors PROVE EnvSpec => FullReportTellsAll
<1>1. IInv /\ [EnvNext]_envVars =>
        [SendEnds /\ whole /\ inSet = {} => unknown \cap Forced \subseteq since]_envVars
  BY DEF IInv, WholeHasAll
<1> QED
  BY <1>1, Invariance, PTL DEF EnvSpec, FullReportTellsAll
=============================================================================
