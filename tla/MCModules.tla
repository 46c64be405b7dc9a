----------------------------- MODULE MCModules -----------------------------
(***************************************************************************)
(* The instance of the parts that AppCore has as one action or one         *)
(* constant: two BLE scanners, the environment module, the idle time and   *)
(* the bytes of downlinks.  They share nothing, so a behaviour is one of   *)
(* one part, and the others keep their initial state.                      *)
(***************************************************************************)
EXTENDS BleScanATag, BleScanProx, Env, IdleTiming, Downlink, TLC

CONSTANTS e1, e2, x1, c1            \* the tags of the scanA tag scanner
CONSTANTS p1, p2, n1, n2, o1        \* the cards of the proximity scanner

VARIABLE part

MCKind == (e1 :> "enterexit") @@ (e2 :> "enterexit") @@ (x1 :> "proximity")
            @@ (c1 :> "countable")
MCClass == (c1 :> 1)

MCCardKind == (p1 :> "proximity") @@ (p2 :> "proximity") @@ (n1 :> "nav") @@ (n2 :> "nav")
                @@ (o1 :> "other")
MCRssi == (p1 :> 1) @@ (p2 :> 1) @@ (n1 :> 1) @@ (n2 :> 2) @@ (o1 :> 1)

\* Of two sets a module finds, one is empty and the other is nearly full.
MCFills == {[filling |-> 0, sz |-> 2], [filling |-> 2, sz |-> 7]}

modulesVars == <<part, scanAVars, proxVars, envVars, idleVars, dlVars>>

ModulesInit ==
  /\ part \in {"proximity", "scanA", "environment", "idle", "downlink"}
  /\ InitA /\ ProxInit /\ EnvInit /\ IdleInit /\ DlInit
  /\ part # "idle" => active /\ moved /\ times = [moving |-> 0, notMoving |-> 0]

ModulesNext ==
  /\ UNCHANGED part
  /\ \/ /\ part = "scanA" /\ NextA
        /\ UNCHANGED <<proxVars, envVars, idleVars, dlVars>>
     \/ /\ part = "proximity" /\ ProxNext
        /\ UNCHANGED <<scanAVars, envVars, idleVars, dlVars>>
     \/ /\ part = "environment" /\ EnvNext
        /\ UNCHANGED <<scanAVars, proxVars, idleVars, dlVars>>
     \/ /\ part = "idle" /\ IdleNext
        /\ UNCHANGED <<scanAVars, proxVars, envVars, dlVars>>
     \/ /\ part = "downlink" /\ DlNext
        /\ UNCHANGED <<scanAVars, proxVars, envVars, idleVars>>

\* Fairness is that of the proximity scanner's ProxLiveSpec.
ModulesSpec ==
  /\ ModulesInit
  /\ [][ModulesNext]_modulesVars
  /\ WF_proxVars(part = "proximity" /\ ProxStart)
  /\ SF_proxVars(part = "proximity" /\ ProxGetDataFrom(EmptySet))
=============================================================================
