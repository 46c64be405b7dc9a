----------------------------- MODULE MCAppCore -----------------------------
(* Instances of AppCore for TLC. *)
EXTENDS AppCore, TLC

\* Index in the table to module id: a parallel module first (ENV), then two
\* serial ones, as in the products' link order.
MCModId == (0 :> 0) @@ (1 :> 1) @@ (2 :> 2)

\* A button for one module, and a module that wants everyone.
MCForcers == {-1, 2}

\* What a user may have set, or may set: the stock mode either way, an id
\* that a boot takes and one that it refuses.
Setting(ids, stock, mask, idle, ok) ==
  [dlId : ids, notStock : stock, mask : {mask}, noIdle : idle, configOk : ok]

MCConfigs == Setting({16}, {0, 1}, {0, 1, 2}, {FALSE}, {TRUE})

\* Keys set, any stock mode.
MCConfigs0 == Setting({0}, {0, 1}, {0, 1, 2}, {FALSE}, {TRUE})

DL(id, whole, reboot, keys, setLast, get, force) ==
  [id |-> id, good |-> TRUE, whole |-> whole, reboot |-> reboot, keys |-> keys,
   val |-> [dlId |-> 1, notStock |-> IF setLast THEN 1 ELSE 0, mask |-> {1}, noIdle |-> TRUE,
            configOk |-> TRUE],
   setLast |-> setLast, get |-> get, force |-> force]

\* A downlink with an id, which leaves only the first serial module active and
\* sends the device to stock, but sets the stock mode back after that; and one
\* without, cut short after actions of every other kind, which clears the stock
\* mode and sets the id of the last downlink behind the core's back.
MCDLs ==
  {DL(1, TRUE, "stock", {"mask", "notStock"}, TRUE, FALSE, FALSE),
   DL(0, FALSE, "yes", {"noIdle", "notStock", "dlId"}, FALSE, TRUE, TRUE)}

\* The smaller table, and what reaches its device: a downlink that reboots,
\* one that asks for a configuration key, a payload that does not decode.
MCModId2 == (0 :> 0) @@ (1 :> 1)
MCConfigs2 == Setting({0}, {0, 1}, {0, 1}, {FALSE}, {TRUE})

MCDLs2 ==
  {DL(1, TRUE, "yes", {"mask"}, FALSE, FALSE, FALSE),
   DL(2, TRUE, "no", {}, FALSE, TRUE, FALSE),
   NoDL}

\* For the live run: any idle time, keys set or not.
MCConfigs1 == Setting({0}, {1}, {0, 1}, {TRUE, FALSE}, {TRUE, FALSE})
MCDLs1 == {DL(0, TRUE, "yes", {"noIdle"}, FALSE, FALSE, FALSE), NoDL}
=============================================================================
