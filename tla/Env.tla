-------------------------------- MODULE Env --------------------------------
(***************************************************************************)
(* The environment module, mod_env.c: a parallel module that puts into the *)
(* uplink what its sensors found to have changed, and everything it has    *)
(* when a full report is due.                                              *)
(*                                                                         *)
(* Nothing tells the module whether its blocks were sent.  Movement,       *)
(* falls, shocks and noise have a time, compared with that of the last     *)
(* uplink; for the others the sensor manager has a reference, renewed when *)
(* the block is made, whether or not there was room for it.  So changes    *)
(* can be lost on the way, and the model keeps account of them.  Sensors   *)
(* and their managers are external; the calibration of pressure at boot is *)
(* left out.                                                               *)
(*                                                                         *)
(* Its operations have Env in their names, as this module is extended      *)
(* together with others.                                                   *)
(*                                                                         *)
(* A definition named X_slip is X with a plausible programming error; it   *)
(* is used by no other, and shows that the properties notice the error.    *)
(***************************************************************************)
EXTENDS UplinkSpace, Sequences

CONSTANT Live       \* the sensors whose values change, in this instance

NB_REBOOT_INFOS == 2

Debug == <<"REBOOT", "LASTASSERT", "LASTLOGCALLER", "VERSION">>
Order == <<"MOVE", "FALL", "SHOCK", "ORIENT", "LIGHT", "BATTERY", "TEMP",
           "PRESSURE", "HUMIDIT", "ADC1", "ADC2", "NOISE">>
Sensors == {Order[k] : k \in DOMAIN Order}

Bytes(b) == CASE b \in {"REBOOT", "VERSION"} -> 8
              [] b = "NOISE" -> 6
              [] b \in {"BATTERY", "TEMP", "ADC1", "ADC2"} -> 2
              [] b \in {"LIGHT", "HUMIDIT"} -> 1
              [] OTHER -> 4

\* What has a time; and what is part of a full report.
Timed  == {"MOVE", "FALL", "SHOCK", "ORIENT", "NOISE"}
Forced == {"MOVE", "ORIENT", "LIGHT", "BATTERY", "TEMP", "PRESSURE"}

VARIABLES
  news,            \* not older than the last uplink, or `changed' for its manager
  sentRebootInfo,  \* how often the debug data is still to be told of
  forceDue,        \* more than FORCE_UL_INTERVAL_S since lastEnvForceDate
  phase,           \* idle; started; the set is being sent
  unknown,         \* what changed and the backend does not know of
  inSet,           \* the part of it that is in the set being sent
  since,           \* what changed since that set was filled
  whole,           \* this is a full report, and nothing of it has been lost
  passed           \* what an uplink made look told of, and was not

envVars == <<news, sentRebootInfo, forceDue, phase, unknown, inSet, since, whole, passed>>
account == <<unknown, inSet, since, whole, passed>>

\* Temperature and pressure go together.
Wanted_lightIfChanged(force) ==
  news \cup (IF force THEN Forced \ {"LIGHT"} ELSE {})
       \cup (IF news \cap {"TEMP", "PRESSURE"} # {} THEN {"TEMP", "PRESSURE"} ELSE {})
Wanted(force) ==
  news \cup (IF force THEN Forced ELSE {})
       \cup (IF news \cap {"TEMP", "PRESSURE"} # {} THEN {"TEMP", "PRESSURE"} ELSE {})

\* The blocks are added in their order; one that does not fit is passed over.
Filled(u0, blocks) ==
  LET add[n \in 0 .. Len(blocks)] ==
        IF n = 0 THEN [u |-> u0, told |-> {}]
        ELSE LET p == add[n - 1]
                 l == Bytes(blocks[n])
             IN  [u    |-> Added(p.u, l),
                  told |-> IF Fits(p.u, l) THEN p.told \cup {blocks[n]} ELSE p.told]
  IN  add[Len(blocks)]

CountedDown_always == (sentRebootInfo - 1) % 256
CountedDown == IF sentRebootInfo > 0 THEN sentRebootInfo - 1 ELSE sentRebootInfo

\* What the managers and the module itself take for told.
Marked_all(wanted) == wanted
Marked(wanted) == wanted \ Timed

\* getData, then stop.  With nothing to tell, the set may still be sent.
EnvGetDataFrom(u) ==
  LET debug  == sentRebootInfo > 0
      force  == forceDue \/ debug
      wanted == Wanted(force)
      told   == Filled(u, (IF debug THEN Debug ELSE <<>>)
                            \o SelectSeq(Order, LAMBDA b : b \in wanted)).told
  IN  /\ phase = "started"
      /\ phase' \in IF force \/ wanted # {} THEN {"sending"} ELSE {"sending", "idle"}
      /\ sentRebootInfo' = CountedDown
      /\ forceDue' = (forceDue /\ ~force)
      /\ news' = news \ Marked(wanted)
      /\ inSet' = told \cap wanted \cap unknown
      /\ since' = {}
      /\ whole' = (force /\ wanted \subseteq told)
      /\ UNCHANGED <<unknown, passed>>

EnvGetData == \E u \in Fills : EnvGetDataFrom(u)

EnvStart ==
  /\ phase = "idle"
  /\ phase' = "started"
  /\ UNCHANGED <<news, sentRebootInfo, forceDue, account>>

\* A_getdebug: a downlink, when sending or idle.
GetDebug ==
  /\ phase # "started"
  /\ sentRebootInfo' = 1
  /\ UNCHANGED <<news, forceDue, phase, account>>

----------------------------------------------------------------------------
(* The core and the radio: what the module does not see. *)

\* The time of the last uplink moves: only what happened in this very second
\* counts as new still.
LastULMoves ==
  /\ \E same \in SUBSET (news \cap Timed) : news' = (news \ Timed) \cup same
  /\ passed' = (passed \cup (news \cap Timed)) \cap unknown'

\* A message went out, with some of the blocks.
Sent ==
  /\ phase = "sending"
  /\ \E part \in SUBSET inSet :
       /\ inSet' = inSet \ part
       /\ unknown' = unknown \ part
  /\ LastULMoves
  /\ UNCHANGED <<sentRebootInfo, forceDue, phase, since, whole>>

\* A message that the radio refused is passed over.
PassedOver ==
  /\ phase = "sending"
  /\ whole' = FALSE
  /\ \E part \in SUBSET inSet : inSet' = inSet \ part
  /\ UNCHANGED <<news, sentRebootInfo, forceDue, phase, unknown, since, passed>>

\* All messages have had their turn, or the core gives up: the set is emptied.
SendEnds ==
  /\ phase = "sending"
  /\ phase' = "idle"
  /\ inSet' = {}
  /\ since' = {}
  /\ whole' = FALSE
  /\ UNCHANGED <<news, sentRebootInfo, forceDue, unknown, passed>>

\* An uplink of a cycle for which this module was not selected.
OtherUplink ==
  /\ phase = "idle"
  /\ UNCHANGED unknown
  /\ LastULMoves
  /\ UNCHANGED <<sentRebootInfo, forceDue, phase, inSet, since, whole>>

----------------------------------------------------------------------------
(* The sensors, and time. *)

Change(b) ==
  /\ news' = news \cup {b}
  /\ unknown' = unknown \cup {b}
  /\ inSet' = inSet \ {b}
  /\ since' = IF phase = "sending" THEN since \cup {b} ELSE since
  /\ passed' = passed \ {b}
  /\ UNCHANGED <<sentRebootInfo, forceDue, phase, whole>>

HourPasses ==
  /\ ~forceDue
  /\ forceDue' = TRUE
  /\ UNCHANGED <<news, sentRebootInfo, phase, account>>

\* At boot the times of events and uplinks are all zero, and so not older.
EnvInit ==
  /\ news = Timed
  /\ sentRebootInfo = NB_REBOOT_INFOS
  /\ forceDue = FALSE
  /\ phase = "idle"
  /\ unknown = {} /\ inSet = {} /\ since = {} /\ passed = {}
  /\ whole = FALSE

EnvNext ==
  \/ EnvStart \/ EnvGetData \/ GetDebug
  \/ Sent \/ PassedOver \/ SendEnds \/ OtherUplink
  \/ HourPasses \/ \E b \in Live : Change(b)

EnvSpec == EnvInit /\ [][EnvNext]_envVars

----------------------------------------------------------------------------
(* Properties. *)

\* Type invariant; nothing is in a set that is not being sent.
EnvTypeOK ==
  /\ news \subseteq Sensors
  /\ sentRebootInfo \in 0 .. NB_REBOOT_INFOS
  /\ forceDue \in BOOLEAN /\ whole \in BOOLEAN
  /\ phase \in {"idle", "started", "sending"}
  /\ unknown \subseteq Sensors
  /\ inSet \subseteq unknown /\ since \subseteq unknown /\ passed \subseteq unknown
  /\ (phase # "sending" => inSet = {} /\ since = {} /\ ~whole)

\* "get accelero if changed since last UL" (mod_env.c:121): a movement, fall,
\* shock or noise is found again by each getData, whatever becomes of its block,
\* until an uplink goes out; in the set filled before it, or of another module.
KeptUntilUplink == unknown \cap Timed \subseteq news \cup passed

\* "Force uplink with full set of env data every hour" (mod_env.c:33): a full
\* report that had room and got through makes up for every change of its
\* sensors that was lost before, in whatever way.
FullReportTellsAll ==
  [][SendEnds /\ whole /\ inSet = {} => unknown \cap Forced \subseteq since]_envVars
=============================================================================
