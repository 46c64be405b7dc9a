----------------------------- MODULE ModuleRun -----------------------------
(***************************************************************************)
(* What the application core may expect of a serial module that can end    *)
(* its own turn: it reports at most once for every time it was started,    *)
(* and never when it is not running.                                       *)
(***************************************************************************)
EXTENDS Integers

VARIABLES running,  \* started, and neither stopped nor finished for itself
          dones     \* reports since it was last started

vars == <<running, dones>>

Init == running = FALSE /\ dones = 0

Start == running' = TRUE /\ dones' = 0

\* It may run on until it is stopped, or be finished with the report.
Done == running /\ dones = 0 /\ dones' = 1 /\ running' \in BOOLEAN

Stop == running' = FALSE /\ UNCHANGED dones

Next == Start \/ Done \/ Stop

Spec == Init /\ [][Next]_vars
=============================================================================
