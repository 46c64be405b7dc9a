-------------------------------- MODULE Gps --------------------------------
(***************************************************************************)
(* The GPS module of mod-gps/src/mod_gps.c: a serial module that decides   *)
(* at each turn whether to look for a fix, merges the fixes it is given    *)
(* until they are good enough, and reports what it got.                    *)
(*                                                                         *)
(* Around it: the core, reduced to the turns it gives this module; the GPS *)
(* manager, which calls back while it is on; the backend, which may demand *)
(* a fix; and the buttons that make the device inactive.  A position is    *)
(* its precision only.  Whether the device moved may be answered either    *)
(* way.  `round' records what happened since the GPS was last switched on. *)
(*                                                                         *)
(* A definition named X_slip is X with a plausible programming error; it   *)
(* is used by no other, and shows that the properties notice the error.    *)
(***************************************************************************)
EXTENDS Integers

CONSTANTS
  MIN_GOOD_FIXES,
  REQUEST_N_TIMES,          \* rounds a demand is good for
  ACCEPTABLE_PRECISION_DM,
  Precs,                    \* the precisions the GPS gives, smaller is better
  Modes                     \* the fix modes a user may set

\* The configuration byte is not checked: it may be none of the four.
FixModes == {"ALWAYS", "ON_STOP", "WHILE_MOVING", "ON_DEMAND", "UNKNOWN"}

ASSUME GpsAssumption ==
  /\ MIN_GOOD_FIXES \in Nat
  /\ REQUEST_N_TIMES \in 1 .. 255
  /\ ACCEPTABLE_PRECISION_DM \in Nat
  /\ Precs \subseteq Nat
  /\ Modes \subseteq FixModes

VARIABLES
  core,          \* asleep; waiting for this module; or after its turn
  deviceActive,
  gpsOn,         \* between gps_start and gps_stop
  fixMode,
  fixDemanded,
  doFix,
  commFail,
  tried,         \* triedAtS # 0
  goodFixCnt,
  goodFix,       \* rx: is there one (rxAt # 0)?  prec: its precision
  report,        \* what the last turn added to the uplink
  round

coreVars == <<core, deviceActive, report>>
fixVars  == <<fixMode, fixDemanded, doFix, tried, goodFixCnt, goodFix>>
vars     == <<coreVars, fixVars, gpsOn, commFail, round>>

NewRound(demand) ==
  [demand |-> demand,  \* was a fix demanded when it began?
   heard  |-> FALSE,   \* has a fix been received?
   good   |-> 0,       \* acceptable fixes received (no more are counted than matter)
   failed |-> FALSE,   \* has the GPS stopped talking?
   dones  |-> 0,       \* AppCore_module_done calls
   enough |-> FALSE]   \* did the module end it because the fixes were good?

----------------------------------------------------------------------------
(* start: is a fix wanted this time, and is it worth trying? *)

\* Two modes ask the movement manager; either answer is possible.
Wanted(mode) ==
  CASE mode = "ALWAYS"                      -> {TRUE}
    [] mode \in {"ON_STOP", "WHILE_MOVING"} -> BOOLEAN
    [] mode = "ON_DEMAND"                   -> {fixDemanded > 0}
    [] OTHER                                -> {FALSE}

\* The last try got nothing, and the device may not have moved since.
Hopeless == IF ~goodFix.rx /\ tried THEN BOOLEAN ELSE {FALSE}

SwitchOn_keepsFix ==
  /\ gpsOn' = TRUE
  /\ tried' = TRUE
  /\ goodFixCnt' = 0
  /\ UNCHANGED goodFix
  /\ round' = NewRound(fixDemanded > 0)
  /\ core' = "waiting"

SwitchOn_keepsCount ==
  /\ gpsOn' = TRUE
  /\ tried' = TRUE
  /\ goodFix' = [goodFix EXCEPT !.rx = FALSE]
  /\ round' = NewRound(fixDemanded > 0)
  /\ core' = "waiting"
  /\ UNCHANGED goodFixCnt

SwitchOn ==
  /\ gpsOn' = TRUE
  /\ tried' = TRUE
  /\ goodFixCnt' = 0
  /\ goodFix' = [goodFix EXCEPT !.rx = FALSE]
  /\ round' = NewRound(fixDemanded > 0)
  /\ core' = "waiting"

StaysOff ==
  /\ core' = "after"
  /\ UNCHANGED <<gpsOn, tried, goodFixCnt, goodFix, round>>

\* A core with an idle time of 0 starts the next cycle without sleeping.
Turn == core \in {"asleep", "after"}

StartInactive ==
  /\ Turn /\ ~deviceActive
  /\ core' = "after"
  /\ UNCHANGED <<deviceActive, report, fixVars, gpsOn, commFail, round>>

Start ==
  /\ Turn /\ deviceActive
  /\ commFail' = FALSE
  /\ fixMode' \in Modes
  /\ \E w \in Wanted(fixMode'), h \in Hopeless :
       /\ doFix' = (w /\ ~h)
       /\ fixDemanded' = IF fixMode' = "ON_DEMAND" /\ w THEN fixDemanded - 1 ELSE fixDemanded
  /\ IF doFix' THEN SwitchOn ELSE StaysOff
  /\ UNCHANGED <<deviceActive, report>>

----------------------------------------------------------------------------
(* mergeNewGPSFix, on a fix of precision p. *)

Acceptable(p) == p < ACCEPTABLE_PRECISION_DM
Better(p) == goodFix.prec > ACCEPTABLE_PRECISION_DM /\ p < goodFix.prec

\* The first fix is taken whatever it is, and a better one replaces a poor
\* one; an acceptable one is averaged with a fix that is not poor.
Replaces(p) == ~goodFix.rx \/ Better(p)
Merged(p) ==
  IF Replaces(p) THEN [rx |-> TRUE, prec |-> p]
  ELSE IF Acceptable(p) THEN [goodFix EXCEPT !.prec = (@ + p) \div 2]
  ELSE goodFix

\* What it returns: the first, or an acceptable one.
MergeOk_anyTaken(p) == Replaces(p) \/ Acceptable(p)
MergeOk(p) == ~goodFix.rx \/ Acceptable(p)

----------------------------------------------------------------------------
(* gps_cb *)

\* gps_stop, and the report to the core.
EndsItself == gpsOn' = FALSE

CommFailed ==
  /\ gpsOn
  /\ commFail' = TRUE
  /\ EndsItself
  /\ round' = [round EXCEPT !.failed = TRUE, !.dones = @ + 1]
  /\ UNCHANGED <<coreVars, fixVars>>

SatLoss_keepsOn ==
  /\ gpsOn
  /\ round' = [round EXCEPT !.dones = @ + 1]
  /\ UNCHANGED <<coreVars, fixVars, gpsOn, commFail>>

SatLoss ==
  /\ gpsOn
  /\ EndsItself
  /\ round' = [round EXCEPT !.dones = @ + 1]
  /\ UNCHANGED <<coreVars, fixVars, commFail>>

\* A demand outstanding keeps the fixes from being counted.
NewFix(p) ==
  LET counted == MergeOk(p) /\ fixDemanded = 0
      enough  == counted /\ goodFixCnt > MIN_GOOD_FIXES
  IN  /\ gpsOn
      /\ goodFix' = Merged(p)
      /\ goodFixCnt' = IF counted THEN goodFixCnt + 1 ELSE goodFixCnt
      /\ IF enough THEN EndsItself ELSE UNCHANGED gpsOn
      /\ round' = [round EXCEPT
           !.heard  = TRUE,
           !.good   = IF Acceptable(p) /\ @ <= MIN_GOOD_FIXES THEN @ + 1 ELSE @,
           !.dones  = IF enough THEN @ + 1 ELSE @,
           !.enough = enough]
      /\ UNCHANGED <<coreVars, fixMode, fixDemanded, doFix, tried, commFail>>

----------------------------------------------------------------------------
(* The core's other calls, the backend and the buttons. *)

Status == IF goodFix.rx THEN "fix" ELSE IF commFail THEN "commFail" ELSE "noFix"

\* getData, then stop: the module's time is up, or it reported done.
Collect ==
  /\ core = "waiting"
  /\ report' = IF deviceActive /\ (doFix \/ fixMode = "ON_STOP") THEN Status ELSE "none"
  /\ core' = "after"
  /\ gpsOn' = FALSE
  /\ UNCHANGED <<deviceActive, fixVars, commFail, round>>

\* The core leaves for the parallel modules on a stale report of another.
Abandon ==
  /\ core = "waiting"
  /\ core' = "after"
  /\ UNCHANGED <<deviceActive, report, fixVars, gpsOn, commFail, round>>

\* deepsleep, called when the core goes to sleep
Sleep_nothingToDo ==
  /\ core = "after"
  /\ core' = "asleep"
  /\ UNCHANGED <<deviceActive, report, fixVars, gpsOn, commFail, round>>

Sleep ==
  /\ core = "after"
  /\ core' = "asleep"
  /\ gpsOn' = FALSE
  /\ UNCHANGED <<deviceActive, report, fixVars, commFail, round>>

\* A_fixgps, in a downlink: the core executes those when it sends or sleeps.
FixGps ==
  /\ core # "waiting"
  /\ fixDemanded' = REQUEST_N_TIMES
  /\ UNCHANGED <<coreVars, fixMode, doFix, tried, goodFixCnt, goodFix, gpsOn, commFail, round>>

\* AppCore_setDeviceState
SetDeviceState ==
  /\ deviceActive' = ~deviceActive
  /\ UNCHANGED <<core, report, fixVars, gpsOn, commFail, round>>

Init ==
  /\ core = "asleep" /\ deviceActive \in BOOLEAN
  /\ gpsOn = FALSE /\ fixMode = "ALWAYS" /\ fixDemanded = 0
  /\ doFix = FALSE /\ commFail = FALSE /\ tried = FALSE
  /\ goodFixCnt = 0 /\ goodFix = [rx |-> FALSE, prec |-> 0]
  /\ report = "none"
  /\ round = NewRound(FALSE)

Next ==
  \/ StartInactive \/ Start
  \/ CommFailed \/ SatLoss \/ \E p \in Precs : NewFix(p)
  \/ Collect \/ Abandon \/ Sleep
  \/ FixGps \/ SetDeviceState

Spec == Init /\ [][Next]_vars

----------------------------------------------------------------------------
(* Properties. *)

Rounds ==
  [demand : BOOLEAN, heard : BOOLEAN, good : 0 .. MIN_GOOD_FIXES + 1,
   failed : BOOLEAN, dones : Nat, enough : BOOLEAN]

\* Type invariant: in particular the counter of good fixes is bounded.
TypeOK ==
  /\ core \in {"asleep", "waiting", "after"}
  /\ deviceActive \in BOOLEAN /\ gpsOn \in BOOLEAN
  /\ fixMode \in FixModes
  /\ fixDemanded \in 0 .. REQUEST_N_TIMES
  /\ doFix \in BOOLEAN /\ commFail \in BOOLEAN /\ tried \in BOOLEAN
  /\ goodFixCnt \in 0 .. MIN_GOOD_FIXES + 2
  /\ goodFix \in [rx : BOOLEAN, prec : Nat]
  /\ report \in {"none", "fix", "commFail", "noFix"}
  /\ round \in Rounds

\* The module only ends a round for good fixes when it was given enough
\* acceptable ones and what it made of them is acceptable too, although the
\* first fix is counted whatever it is and poor ones are replaced on the way.
EarlyEndIsGood ==
  round.enough => round.good >= MIN_GOOD_FIXES /\ Acceptable(goodFix.prec)

\* The GPS never draws power while the device sleeps, not even when the core
\* left the module running.
OffWhenAsleep == core = "asleep" => ~gpsOn

\* What a turn reports happened in that turn: no fix and no failure of an
\* earlier one is ever sent as new.
ReportIsOfThisRound ==
  [][Collect /\ report' # "none" =>
       report' = IF round.heard THEN "fix" ELSE IF round.failed THEN "commFail" ELSE "noFix"]_vars

\* The module keeps the core's expectation: one report a start, while running.
Run == INSTANCE ModuleRun WITH running <- gpsOn \/ core = "waiting", dones <- round.dones
ImplementsModuleRun == Run!Spec

\* "This is only an option when not doing fixOnDemand triggered by backend
\* action, as we want to go the full timeout to get best result"
\* (mod_gps.c:104).
FullTimeOnDemand == ~(round.demand /\ round.enough)
=============================================================================
