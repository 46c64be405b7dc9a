----------------------------- MODULE GpsProofs -----------------------------
(***************************************************************************)
(* Proofs about the GPS module (Gps.tla), for any thresholds, precisions   *)
(* and fix modes.                                                          *)
(***************************************************************************)
EXTENDS Gps, TLAPS

\* The counter of good fixes and what happened in the round move together:
\* every fix that was counted, except perhaps the first, was acceptable, and
\* once one was, no later merge spoils the result.
Counting ==
  /\ goodFix.rx = round.heard
  /\ goodFixCnt >= 1 => goodFix.rx
  /\ goodFixCnt >= 2 => Acceptable(goodFix.prec)
  /\ goodFixCnt <= round.good + 1
  /\ gpsOn => goodFixCnt <= MIN_GOOD_FIXES + 1 /\ round.dones = 0 /\ ~round.enough

\* While the core waits the failure flag is that of the round.
Failing == core = "waiting" => commFail = round.failed

Inv == TypeOK /\ Counting /\ EarlyEndIsGood /\ OffWhenAsleep /\ Failing

LEMMA NewRoundFacts ==
  ASSUME NEW d \in BOOLEAN
  PROVE  /\ NewRound(d) \in Rounds
         /\ NewRound(d).heard = FALSE /\ NewRound(d).failed = FALSE
         /\ NewRound(d).enough = FALSE
         /\ NewRound(d).dones = 0 /\ NewRound(d).good = 0
<1>1. 0 \in 0 .. MIN_GOOD_FIXES + 1  BY GpsAssumption
<1> QED  BY <1>1 DEF NewRound, Rounds

LEMMA InitInv == Init => Inv
<1> SUFFICES ASSUME Init
             PROVE  Inv
  OBVIOUS
<1>1. /\ round \in Rounds /\ round.heard = FALSE /\ round.failed = FALSE
      /\ round.enough = FALSE /\ round.good = 0 /\ round.dones = 0
  BY NewRoundFacts DEF Init
<1>2. 0 \in 0 .. REQUEST_N_TIMES /\ 0 \in 0 .. MIN_GOOD_FIXES + 2
  BY GpsAssumption
<1>3. TypeOK
  BY <1>1, <1>2 DEF Init, TypeOK, FixModes
<1>4. Counting
  <2>1. goodFixCnt = 0 /\ goodFix.rx = FALSE /\ gpsOn = FALSE  BY DEF Init
  <2>2. goodFix.rx = round.heard  BY <1>1, <2>1
  <2>3. goodFixCnt <= round.good + 1  BY <1>1, <2>1
  <2>4. ~(goodFixCnt >= 1) /\ ~(goodFixCnt >= 2)  BY <2>1
  <2> QED  BY <2>1, <2>2, <2>3, <2>4 DEF Counting
<1> QED
  BY <1>1, <1>3, <1>4 DEF Init, Inv, Failing, EarlyEndIsGood, OffWhenAsleep

----------------------------------------------------------------------------
(* A turn begins. *)

LEMMA WantedDemand ==
  ASSUME NEW mode, NEW w \in Wanted(mode), mode = "ON_DEMAND"
  PROVE  w = (fixDemanded > 0)
  BY DEF Wanted

LEMMA StartInv ==
  ASSUME Inv, Start
  PROVE  Inv'
<1>1. fixDemanded \in Nat /\ fixDemanded <= REQUEST_N_TIMES /\ REQUEST_N_TIMES \in Nat
  BY GpsAssumption DEF Inv, TypeOK
<1>2. PICK w \in Wanted(fixMode'), h \in Hopeless :
        /\ doFix' = (w /\ ~h)
        /\ fixDemanded' = IF fixMode' = "ON_DEMAND" /\ w THEN fixDemanded - 1 ELSE fixDemanded
  BY DEF Start
<1>3. fixDemanded' \in 0 .. REQUEST_N_TIMES
  <2>1. CASE fixMode' = "ON_DEMAND" /\ w
    <3>1. fixDemanded > 0  BY <2>1, WantedDemand
    <3> QED  BY <1>1, <1>2, <2>1, <3>1
  <2>2. CASE ~(fixMode' = "ON_DEMAND" /\ w)
    BY <1>1, <1>2, <2>2
  <2> QED  BY <2>1, <2>2
<1>4. doFix' \in BOOLEAN
  BY <1>2
<1>5. /\ fixMode' \in FixModes /\ commFail' = FALSE
      /\ deviceActive' = deviceActive /\ report' = report
      /\ core # "waiting"
  BY GpsAssumption DEF Start, Turn
<1>6. CASE SwitchOn
  <2>1. /\ core' = "waiting" /\ gpsOn' = TRUE /\ tried' = TRUE /\ goodFixCnt' = 0
        /\ goodFix' = [goodFix EXCEPT !.rx = FALSE]
    BY <1>6 DEF SwitchOn
  <2>2. (fixDemanded > 0) \in BOOLEAN /\ round' = NewRound(fixDemanded > 0)
    BY <1>6 DEF SwitchOn
  <2>3. /\ round' \in Rounds /\ round'.heard = FALSE /\ round'.failed = FALSE
        /\ round'.enough = FALSE /\ round'.dones = 0 /\ round'.good = 0
    BY <2>2, NewRoundFacts
  <2>4. goodFix' \in [rx : BOOLEAN, prec : Nat] /\ goodFix'.rx = FALSE
    BY <2>1 DEF Inv, TypeOK
  <2>5. TypeOK'
    <3>1. goodFixCnt' \in 0 .. MIN_GOOD_FIXES + 2  BY <2>1, GpsAssumption
    <3> QED  BY <1>3, <1>4, <1>5, <2>1, <2>3, <2>4, <3>1 DEF TypeOK, Inv
  <2>6. Counting'
    <3>1. goodFix'.rx = round'.heard  BY <2>3, <2>4
    <3>2. goodFixCnt' <= round'.good + 1  BY <2>1, <2>3
    <3>3. ~(goodFixCnt' >= 1) /\ ~(goodFixCnt' >= 2)  BY <2>1
    <3>4. goodFixCnt' <= MIN_GOOD_FIXES + 1  BY <2>1, GpsAssumption
    <3> QED  BY <2>3, <3>1, <3>2, <3>3, <3>4 DEF Counting
  <2> QED
    BY <1>5, <2>1, <2>3, <2>5, <2>6 DEF Inv, EarlyEndIsGood, OffWhenAsleep, Failing
<1>7. CASE StaysOff
  BY <1>3, <1>4, <1>5, <1>7
  DEF StaysOff, Inv, TypeOK, Counting, EarlyEndIsGood, OffWhenAsleep, Failing, Acceptable
<1> QED
  BY <1>6, <1>7 DEF Start

----------------------------------------------------------------------------
(* Fixes come in. *)

\* An acceptable fix makes the result acceptable, and no fix unmakes it.
LEMMA MergeAcceptable ==
  ASSUME goodFix \in [rx : BOOLEAN, prec : Nat], NEW p \in Nat,
         ACCEPTABLE_PRECISION_DM \in Nat,
         Acceptable(p) \/ (goodFix.rx /\ Acceptable(goodFix.prec))
  PROVE  Acceptable(Merged(p).prec)
  BY DEF Acceptable, Merged, Replaces, Better

LEMMA MergeIsFix ==
  ASSUME goodFix \in [rx : BOOLEAN, prec : Nat], NEW p \in Nat
  PROVE  Merged(p) \in [rx : BOOLEAN, prec : Nat] /\ Merged(p).rx = TRUE
<1>1. CASE Replaces(p)
  BY <1>1 DEF Merged
<1>2. CASE ~Replaces(p) /\ Acceptable(p)
  <2>1. (goodFix.prec + p) \div 2 \in Nat  OBVIOUS
  <2>2. Merged(p) = [goodFix EXCEPT !.prec = (goodFix.prec + p) \div 2]
    BY <1>2 DEF Merged
  <2> QED  BY <1>2, <2>1, <2>2 DEF Replaces
<1>3. CASE ~Replaces(p) /\ ~Acceptable(p)
  BY <1>3 DEF Merged, Replaces
<1> QED  BY <1>1, <1>2, <1>3

LEMMA NewFixInv ==
  ASSUME Inv, NEW p \in Precs, NewFix(p)
  PROVE  Inv'
<1> DEFINE counted == MergeOk(p) /\ fixDemanded = 0
           enough  == counted /\ goodFixCnt > MIN_GOOD_FIXES
<1>1. /\ gpsOn /\ goodFix' = Merged(p)
      /\ goodFixCnt' = IF counted THEN goodFixCnt + 1 ELSE goodFixCnt
      /\ gpsOn' = ~enough
      /\ round' = [round EXCEPT
           !.heard  = TRUE,
           !.good   = IF Acceptable(p) /\ @ <= MIN_GOOD_FIXES THEN @ + 1 ELSE @,
           !.dones  = IF enough THEN @ + 1 ELSE @,
           !.enough = enough]
  BY DEF NewFix, EndsItself, Inv, TypeOK
<1>2. UNCHANGED <<core, deviceActive, report, fixMode, fixDemanded, doFix, tried, commFail>>
  BY DEF NewFix, coreVars
<1>3. /\ goodFix \in [rx : BOOLEAN, prec : Nat] /\ p \in Nat /\ ACCEPTABLE_PRECISION_DM \in Nat
      /\ MIN_GOOD_FIXES \in Nat /\ goodFixCnt \in Nat
      /\ round \in Rounds /\ round.good \in Nat /\ round.dones \in Nat
  BY GpsAssumption DEF Inv, TypeOK, Rounds
<1>4. /\ goodFixCnt <= MIN_GOOD_FIXES + 1 /\ round.dones = 0
      /\ goodFixCnt <= round.good + 1
      /\ goodFixCnt >= 1 => goodFix.rx
      /\ goodFixCnt >= 2 => Acceptable(goodFix.prec)
  BY <1>1 DEF Inv, Counting
<1>5. goodFix' \in [rx : BOOLEAN, prec : Nat] /\ goodFix'.rx = TRUE
  BY <1>1, <1>3, MergeIsFix
<1> HIDE DEF counted, enough
<1>6. enough \in BOOLEAN
  BY DEF enough
<1>7. /\ round'.heard = TRUE /\ round'.enough = enough
      /\ round'.failed = round.failed /\ round'.demand = round.demand
      /\ round'.good = IF Acceptable(p) /\ round.good <= MIN_GOOD_FIXES
                       THEN round.good + 1 ELSE round.good
      /\ round'.dones = IF enough THEN round.dones + 1 ELSE round.dones
      /\ round' \in Rounds
  <2> DEFINE g == IF Acceptable(p) /\ round.good <= MIN_GOOD_FIXES
                  THEN round.good + 1 ELSE round.good
             d == IF enough THEN round.dones + 1 ELSE round.dones
  <2>1. round.good \in 0 .. MIN_GOOD_FIXES + 1  BY <1>3 DEF Rounds
  <2>2. g \in 0 .. MIN_GOOD_FIXES + 1  BY <1>3, <2>1
  <2>3. d \in Nat  BY <1>3
  <2>4. round' = [round EXCEPT !.heard = TRUE, !.good = g, !.dones = d, !.enough = enough]
    BY <1>1
  <2> HIDE DEF g, d
  <2>5. /\ round'.heard = TRUE /\ round'.enough = enough
        /\ round'.failed = round.failed /\ round'.demand = round.demand
        /\ round'.good = g /\ round'.dones = d
        /\ round' \in Rounds
    BY <1>3, <1>6, <2>2, <2>3, <2>4 DEF Rounds
  <2> QED  BY <2>5 DEF g, d
<1>8. goodFixCnt' \in 0 .. MIN_GOOD_FIXES + 2
  BY <1>1, <1>3, <1>4
<1>9. goodFixCnt' >= 2 => Acceptable(goodFix.prec)'
  <2> SUFFICES ASSUME goodFixCnt' >= 2
               PROVE  Acceptable(Merged(p).prec)
    BY <1>1 DEF Acceptable
  <2>1. CASE goodFixCnt >= 2
    BY <1>3, <1>4, <2>1, MergeAcceptable
  <2>2. CASE ~(goodFixCnt >= 2)
    <3>1. counted /\ goodFixCnt >= 1
      BY <1>1, <1>3, <2>2
    <3>2. Acceptable(p)
      BY <1>4, <3>1 DEF counted, MergeOk
    <3> QED  BY <1>3, <3>2, MergeAcceptable
  <2> QED  BY <2>1, <2>2
<1>10. goodFixCnt' <= round'.good + 1
  <2>1. CASE counted /\ goodFixCnt >= 1
    <3>1. Acceptable(p)
      BY <1>4, <2>1 DEF counted, MergeOk
    <3> QED  BY <1>1, <1>3, <1>4, <1>7, <2>1, <3>1
  <2>2. CASE ~(counted /\ goodFixCnt >= 1)
    BY <1>1, <1>3, <1>4, <1>7, <2>2
  <2> QED  BY <2>1, <2>2
<1>11. gpsOn' => goodFixCnt' <= MIN_GOOD_FIXES + 1
  <2>1. CASE counted /\ ~enough
    <3>1. goodFixCnt <= MIN_GOOD_FIXES  BY <1>3, <2>1 DEF enough
    <3> QED  BY <1>1, <1>3, <2>1, <3>1
  <2>2. CASE ~counted
    BY <1>1, <1>4, <2>2
  <2>3. CASE enough
    BY <1>1, <2>3
  <2> QED  BY <2>1, <2>2, <2>3
<1>12. enough => goodFixCnt' >= MIN_GOOD_FIXES + 2
  BY <1>1, <1>3 DEF enough
<1>13. TypeOK'
  BY <1>1, <1>2, <1>5, <1>6, <1>7, <1>8 DEF Inv, TypeOK
<1>14. Counting'
  BY <1>1, <1>4, <1>5, <1>7, <1>9, <1>10, <1>11 DEF Counting
<1>15. EarlyEndIsGood'
  BY <1>3, <1>7, <1>8, <1>9, <1>10, <1>12 DEF EarlyEndIsGood
<1>16. OffWhenAsleep' /\ Failing'
  BY <1>1, <1>2, <1>7 DEF Inv, OffWhenAsleep, Failing
<1> QED
  BY <1>13, <1>14, <1>15, <1>16 DEF Inv

----------------------------------------------------------------------------
(* The other actions. *)

LEMMA EndInv ==
  ASSUME Inv, CommFailed \/ SatLoss
  PROVE  Inv'
<1>1. /\ gpsOn /\ gpsOn' = FALSE
      /\ UNCHANGED <<core, deviceActive, report, fixMode, fixDemanded, doFix, tried,
                     goodFixCnt, goodFix>>
  BY DEF CommFailed, SatLoss, EndsItself, coreVars, fixVars
<1>2. /\ round' \in Rounds /\ round'.heard = round.heard /\ round'.good = round.good
      /\ round'.enough = round.enough
      /\ commFail' \in BOOLEAN
      /\ (commFail' = commFail /\ round'.failed = round.failed)
           \/ (commFail' = TRUE /\ round'.failed = TRUE)
  <2>1. round \in Rounds /\ round.dones + 1 \in Nat
    BY DEF Inv, TypeOK, Rounds
  <2>2. CASE CommFailed
    <3>1. round' = [round EXCEPT !.failed = TRUE, !.dones = round.dones + 1] /\ commFail' = TRUE
      BY <2>2 DEF CommFailed
    <3> QED  BY <2>1, <3>1 DEF Rounds
  <2>3. CASE SatLoss
    <3>1. round' = [round EXCEPT !.dones = round.dones + 1] /\ commFail' = commFail
      BY <2>3 DEF SatLoss
    <3> QED  BY <2>1, <3>1 DEF Rounds, Inv, TypeOK
  <2> QED  BY <2>2, <2>3
<1> QED
  BY <1>1, <1>2
  DEF Inv, TypeOK, Counting, EarlyEndIsGood, OffWhenAsleep, Failing, Acceptable

LEMMA OtherInv ==
  ASSUME Inv,
         StartInactive \/ Collect \/ Abandon \/ Sleep \/ FixGps \/ SetDeviceState
           \/ UNCHANGED vars
  PROVE  Inv'
<1> USE DEF Inv, TypeOK, Counting, EarlyEndIsGood, OffWhenAsleep, Failing, Acceptable,
            coreVars, fixVars
<1>1. CASE StartInactive
  BY <1>1 DEF StartInactive
<1>2. CASE Collect
  BY <1>2 DEF Collect, Status
<1>3. CASE Abandon
  BY <1>3 DEF Abandon
<1>4. CASE Sleep
  BY <1>4 DEF Sleep
<1>5. CASE FixGps
  BY <1>5, GpsAssumption DEF FixGps
<1>6. CASE SetDeviceState
  BY <1>6 DEF SetDeviceState
<1>7. CASE UNCHANGED vars
  BY <1>7 DEF vars
<1> QED
  BY <1>1, <1>2, <1>3, <1>4, <1>5, <1>6, <1>7

\* The inductive invariant of the module.
THEOREM Invariance == Spec => []Inv
<1>1. Inv /\ [Next]_vars => Inv'
  BY StartInv, NewFixInv, EndInv, OtherInv DEF Next
<1> QED
  BY InitInv, <1>1, PTL DEF Spec

\* The module's state stays in its ranges; the counter is bounded.
THEOREM TypeCorrect == Spec => []TypeOK
<1>1. Inv => TypeOK  BY DEF Inv
<1> QED  BY <1>1, Invariance, PTL

\* The module ends a round early only with enough acceptable fixes and an
\* acceptable result.
THEOREM EnoughIsGood == Spec => []EarlyEndIsGood
<1>1. Inv => EarlyEndIsGood  BY DEF Inv
<1> QED  BY <1>1, Invariance, PTL

\* The GPS is off while the device sleeps.
THEOREM NoPowerAsleep == Spec => []OffWhenAsleep
<1>1. Inv => OffWhenAsleep  BY DEF Inv
<1> QED  BY <1>1, Invariance, PTL

\* A report never speaks of an earlier round.
THEOREM ReportsThisRound == Spec => ReportIsOfThisRound
<1>1. ASSUME Inv, Collect, report' # "none"
      PROVE  report' = IF round.heard THEN "fix"
                       ELSE IF round.failed THEN "commFail" ELSE "noFix"
  <2>1. report' = Status /\ core = "waiting"
    BY <1>1 DEF Collect
  <2> QED  BY <1>1, <2>1 DEF Inv, Counting, Failing, Status
<1>2. Inv /\ [Next]_vars =>
        [Collect /\ report' # "none" =>
           report' = IF round.heard THEN "fix"
                     ELSE IF round.failed THEN "commFail" ELSE "noFix"]_vars
  BY <1>1
<1> QED
  BY <1>2, Invariance, PTL DEF Spec, ReportIsOfThisRound

----------------------------------------------------------------------------
(* The module as the core sees it. *)

LEMMA RunStep == Inv /\ [Next]_vars => [Run!Next]_(Run!vars)
<1> SUFFICES ASSUME Inv, [Next]_vars
             PROVE  Run!Next \/ UNCHANGED Run!vars
  OBVIOUS
<1> DEFINE run == gpsOn \/ core = "waiting"
<1> USE DEF Run!Next, Run!Start, Run!Done, Run!Stop, Run!vars, coreVars, fixVars
<1>1. CASE Start
  <2>1. CASE SwitchOn
    <3>1. gpsOn' = TRUE /\ round'.dones = 0
      BY <2>1 DEF SwitchOn, NewRound
    <3> QED  BY <3>1
  <2>2. CASE StaysOff
    BY <1>1, <2>2 DEF StaysOff, Start, Turn
  <2> QED  BY <1>1, <2>1, <2>2 DEF Start
<1>2. CASE CommFailed \/ SatLoss
  <2>1. gpsOn /\ gpsOn' = FALSE /\ round.dones = 0 /\ round'.dones = round.dones + 1
    BY <1>2 DEF CommFailed, SatLoss, EndsItself, Inv, Counting, TypeOK, Rounds
  <2>2. round'.dones = 1  BY <2>1
  <2> QED  BY <2>1, <2>2
<1>3. ASSUME NEW p \in Precs, NewFix(p)
      PROVE  Run!Next \/ UNCHANGED Run!vars
  <2> DEFINE enough == (MergeOk(p) /\ fixDemanded = 0) /\ goodFixCnt > MIN_GOOD_FIXES
  <2>1. /\ gpsOn /\ core' = core /\ round.dones = 0
        /\ gpsOn' = ~enough
        /\ round'.dones = IF enough THEN round.dones + 1 ELSE round.dones
    BY <1>3 DEF NewFix, EndsItself, Inv, Counting, TypeOK, Rounds
  <2> HIDE DEF enough
  <2>2. CASE enough
    BY <2>1, <2>2
  <2>3. CASE ~enough
    BY <2>1, <2>3
  <2> QED  BY <2>2, <2>3
<1>4. CASE Collect \/ Sleep
  <2>1. gpsOn' = FALSE /\ core' # "waiting" /\ round' = round
    BY <1>4 DEF Collect, Sleep
  <2> QED  BY <2>1
<1>5. CASE Abandon
  BY <1>5 DEF Abandon, Inv, TypeOK
<1>6. CASE StartInactive \/ FixGps \/ SetDeviceState \/ UNCHANGED vars
  BY <1>6 DEF StartInactive, Turn, FixGps, SetDeviceState, vars
<1> QED
  BY <1>1, <1>2, <1>3, <1>4, <1>5, <1>6 DEF Next

\* The GPS module implements what the core expects of a serial module: one
\* report a start, and none when it is not running.
THEOREM Refinement == Spec => ImplementsModuleRun
<1>1. Init => Run!Init
  BY DEF Init, Run!Init, NewRound
<1> QED
  BY <1>1, RunStep, Invariance, PTL DEF Spec, ImplementsModuleRun, Run!Spec
=============================================================================
