------------------------------- MODULE AppCore -------------------------------
(***************************************************************************)
(* The application core of app-core/src/app_core.c: one state machine that *)
(* joins the network, runs the registered modules to collect data, sends   *)
(* the uplink messages they filled, executes downlinks and sleeps.         *)
(*                                                                         *)
(* Every handler of the source (one case of one State_X function, with the *)
(* SM_ENTER case of the state it goes to) is one action.  Around it stand  *)
(* the state-machine executor (an event queue and one timer), the radio,   *)
(* the modules, the PROM and the user's console, all modelled from how     *)
(* app_core.c calls them.  Times are abstract: a timer may fire whenever   *)
(* it is armed, and a test on elapsed time may go either way.              *)
(*                                                                         *)
(* A definition named X_slip is X with a plausible programming error; it   *)
(* is used by no other, and shows that the properties notice the error.    *)
(***************************************************************************)
EXTENDS Integers, Sequences, FiniteSets

CONSTANTS
  NMods,          \* modules registered with AppCore_registerModule
  ModId,          \* their ids by index: "id is NOT the index in the table"
  Serial,         \* indexes registered EXEC_SERIAL; the others EXEC_PARALLEL
  Talkers,        \* serial modules that call AppCore_module_done
  BLEConsoles,    \* serial modules that give a user the AT commands
  APP_MOD_LAST,   \* module ids are below this
  MAX_NB,         \* messages in an uplink set
  MaxRapid,       \* the largest maxrapid (key 040E) a user may set
  Forcers,        \* what modules pass to AppCore_forceUL: an id, or -1 for all
  Configs,        \* the configurations whose values a user may set
  DLs,            \* the downlinks the backend may send
  UartConsole,    \* is the console on the UART configured?
  TimerSurvives,  \* may the executor leave the timer running in a new state?
  Crashes,        \* may the device reset at any moment?
  QMax,           \* events the executor can queue
  MaxTx           \* sends the radio accepts before the first is answered

Mods == 0 .. NMods - 1
Ids  == 0 .. APP_MOD_LAST - 1
Msgs == 0 .. MAX_NB - 1

\* The PROM, as far as the core's control depends on it: the id of the last
\* downlink (key 0406), the stock mode (0408, any value but 0 is 1 here), the
\* modules that are active (0404), whether the idle time is none (0401), and
\* whether devEUI and appKey are set (0101, 0103).  Any of them can be written
\* by a user, with any value: 16 stands for the ids that a boot refuses.
Proms ==
  [dlId : 0 .. 16, notStock : {0, 1}, mask : SUBSET Ids, noIdle : BOOLEAN, configOk : BOOLEAN]

CfgKeys == {"dlId", "notStock", "mask", "noIdle", "configOk"}

\* The keys that the core writes itself, and reads at boot only.
OwnKeys == {"dlId", "notStock"}

\* CFMgr_setElement on each of the keys ks, with the value that v has for it.
Written(p, ks, v) ==
  [dlId     |-> IF "dlId" \in ks THEN v.dlId ELSE p.dlId,
   notStock |-> IF "notStock" \in ks THEN v.notStock ELSE p.notStock,
   mask     |-> IF "mask" \in ks THEN v.mask ELSE p.mask,
   noIdle   |-> IF "noIdle" \in ks THEN v.noIdle ELSE p.noIdle,
   configOk |-> IF "configOk" \in ks THEN v.configOk ELSE p.configOk]

\* The OwnKeys that have another value in q.
Changed(p, q) == {k \in {"dlId"} : p.dlId # q.dlId} \cup {k \in {"notStock"} : p.notStock # q.notStock}

\* What a downlink carries, as far as the core's state can tell: its id (0
\* from a backend that does not use ids), whether it decodes and whether its
\* actions fit its length, and what the actions before the first one that
\* does not fit would do: reboot, write configuration keys (before the reboot
\* action or after it), ask for one, ask for an uplink.
Downlinks ==
  [id      : 0 .. 15,
   good    : BOOLEAN,
   whole   : BOOLEAN,
   reboot  : {"no", "yes", "stock"},
   keys    : SUBSET CfgKeys,
   val     : Proms,
   setLast : BOOLEAN,
   get     : BOOLEAN,
   force   : BOOLEAN]

NoVal == [dlId |-> 0, notStock |-> 0, mask |-> {}, noIdle |-> FALSE, configOk |-> FALSE]
NoDL == [id |-> 0, good |-> FALSE, whole |-> TRUE, reboot |-> "no", keys |-> {}, val |-> NoVal,
         setLast |-> FALSE, get |-> FALSE, force |-> FALSE]

ASSUME ModuleAssumption ==
  /\ APP_MOD_LAST \in Nat \ {0}
  /\ NMods \in Nat \ {0}
  /\ ModId \in [Mods -> Ids]
  /\ Serial \subseteq Mods
  /\ Talkers \subseteq Serial
  /\ BLEConsoles \subseteq Serial
  /\ Forcers \subseteq {-1} \cup Ids
  /\ Configs \subseteq Proms

ASSUME BoundAssumption ==
  /\ MAX_NB \in Nat \ {0}
  /\ MaxRapid \in Nat
  /\ DLs \subseteq Downlinks
  /\ {UartConsole, TimerSurvives, Crashes} \subseteq BOOLEAN
  /\ QMax \in Nat \ {0}
  /\ MaxTx \in Nat \ {0}

VARIABLES
  st,               \* the state machine's state, or what the reset left
  queue,            \* events sent to it, oldest first
  timer,            \* is its timer armed?
  consoleActive,    \* has someone used the UART console since it started?
  deviceConfigOk,   \* devEUI and appKey were found at boot
  serialIdx,        \* currentSerialModIdx
  requested,        \* requestedModule
  running,          \* modules that asked for time in startCB, until stopCB
  ulIsCrit,
  txmsg,            \* the uplink set; `answers' are its unsent config answers
  rxmsg,            \* the one downlink buffer: decoded id, and whose payload
  lastDLId,
  doReboot,
  notStockMode,
  nbJoinAttempts,
  modsMask,
  noIdle,           \* idleTimeMovingSecs = 0: never sleep
  prom,             \* the configuration that survives a reset
  radio,            \* join and sends not yet answered, reception possible
  done,             \* history: the id of the last downlink carried out in full
  aside             \* history: OwnKeys a user has changed since the core wrote them

smVars    == <<st, queue, timer>>
cycleVars == <<serialIdx, requested, running, ulIsCrit, txmsg>>
dlVars    == <<rxmsg, lastDLId, doReboot>>
joinVars  == <<notStockMode, nbJoinAttempts>>
cfgVars   == <<modsMask, noIdle, deviceConfigOk, prom, done, aside>>
envVars   == <<consoleActive, radio>>
vars      == <<smVars, cycleVars, dlVars, joinVars, cfgVars, envVars>>

States == {"STARTUP", "STOCK", "TRY_JOIN", "WAIT_JOIN_RETRY", "IDLE",
           "GETTING_SERIAL_MODS", "GETTING_PARALLEL_MODS", "SENDING_UL"}
Off    == {"RESET", "STOCK_SLEEP"}
Results == {"TX_OK", "TX_RETRY", "TX_NOTJOIN", "TX_FATAL", "NO_TX"}
Events == {"TIMEOUT", "MODULE_DONE", "FORCE_UL", "JOIN_OK", "JOIN_FAIL", "LORA_RX"}
            \cup Results

On == st \in States

----------------------------------------------------------------------------
(* The state-machine executor: sm_sendEvent, sm_timer_start. *)

\* sm_sendEvent: the event is lost when there is no room for it.
Post(q, e, a) == IF Len(q) < QMax THEN Append(q, [ev |-> e, arg |-> a]) ELSE q

Handling(s, e) == st = s /\ queue # <<>> /\ Head(queue).ev = e
Arg  == Head(queue).arg
Rest == Tail(queue)

StartTimer == timer' = TRUE

\* A new state that starts no timer: whether the old one still runs is the
\* executor's business, app_core.c never stops it.
KeepTimer == timer' \in {FALSE, timer /\ TimerSurvives}

\* The events each state has a case for; the others fall to its default.
Handles == [s \in States |->
  CASE s = "STARTUP"               -> {"TIMEOUT", "FORCE_UL"}
    [] s = "TRY_JOIN"              -> {"TIMEOUT", "JOIN_OK", "JOIN_FAIL"}
    [] s = "STOCK"                 -> {"TIMEOUT"}
    [] s = "WAIT_JOIN_RETRY"       -> {"TIMEOUT"}
    [] s = "IDLE"                  -> {"TIMEOUT", "FORCE_UL", "LORA_RX"}
    [] s = "GETTING_SERIAL_MODS"   -> {"TIMEOUT", "MODULE_DONE"}
    [] s = "GETTING_PARALLEL_MODS" -> {"TIMEOUT"}
    [] s = "SENDING_UL"            -> {"TIMEOUT", "LORA_RX"} \cup Results]

----------------------------------------------------------------------------
(* Reset and boot. *)

ULs == [filling : Msgs, txing : -1 .. MAX_NB, answers : SUBSET Msgs]
Radios == [join : BOOLEAN, tx : 0 .. MaxTx, rx : BOOLEAN]

EmptySet == [filling |-> 0, txing |-> -1, answers |-> {}]
QuietRadio == [join |-> FALSE, tx |-> 0, rx |-> FALSE]

\* RMMgr_reboot, an assert or a power cut: RAM takes the values of _ctx's
\* initialiser, the PROM stays.
DownRam(s) ==
  /\ st' = s
  /\ queue' = <<>> /\ timer' = FALSE
  /\ consoleActive' = FALSE /\ deviceConfigOk' = FALSE
  /\ serialIdx' = 0 /\ requested' = -1 /\ running' = {} /\ ulIsCrit' = FALSE
  /\ txmsg' = EmptySet
  /\ rxmsg' = [id |-> 0, msg |-> NoDL] /\ lastDLId' = 0 /\ doReboot' = FALSE
  /\ notStockMode' = 0 /\ nbJoinAttempts' = 0
  /\ modsMask' = {} /\ noIdle' = FALSE
  /\ radio' = QuietRadio

Down(s) == DownRam(s) /\ UNCHANGED <<prom, done, aside>>

\* checkReboot on a pending reboot: the reason sends the reboot manager to
\* stock mode, or not.
Reboot == Down(IF notStockMode = 0 THEN "STOCK_SLEEP" ELSE "RESET")

\* CFMgr_getOrAddElementCheckRangeUINT8: a value out of range is not taken.
BootDLId(p) == IF p.dlId \in 0 .. 15 THEN p.dlId ELSE 0

\* app_core_start, then SM_ENTER of STARTUP: the configuration is read, the
\* console tried and, where there is none, the state left at once.  What a
\* user has written is from now on what the core works with.
Boot ==
  /\ ~On
  /\ st' = "STARTUP"
  /\ StartTimer
  /\ queue' = IF UartConsole THEN <<>> ELSE Post(<<>>, "FORCE_UL", -1)
  /\ lastDLId' = BootDLId(prom)
  /\ notStockMode' = prom.notStock
  /\ modsMask' = prom.mask
  /\ noIdle' = prom.noIdle
  /\ deviceConfigOk' = prom.configOk
  /\ done' = IF "dlId" \in aside THEN BootDLId(prom) ELSE done
  /\ aside' = {}
  /\ UNCHANGED <<cycleVars, envVars, prom, rxmsg, doReboot, nbJoinAttempts>>

----------------------------------------------------------------------------
(* SM_ENTER of the other states; q is what is left of the queue. *)

EnterStock(q) == st' = "STOCK" /\ StartTimer /\ queue' = q

EnterTryJoin(q) ==
  IF doReboot THEN Reboot
  ELSE /\ st' = "TRY_JOIN"
       /\ \/ /\ StartTimer
             /\ queue' = q
             /\ radio' = [radio EXCEPT !.join = TRUE]
          \/ /\ KeepTimer
             /\ \E e \in {"JOIN_OK", "JOIN_FAIL"} : queue' = Post(q, e, 0)
             /\ UNCHANGED radio
       /\ consoleActive' = FALSE
       /\ UNCHANGED <<cycleVars, dlVars, joinVars, cfgVars>>

EnterWaitJoinRetry_noReset(q) ==
  /\ st' = "WAIT_JOIN_RETRY"
  /\ StartTimer
  /\ queue' = q
  /\ nbJoinAttempts' = nbJoinAttempts + 1
  /\ UNCHANGED <<cycleVars, dlVars, notStockMode, cfgVars, envVars>>

\* The limit is read from the PROM on each entry.
EnterWaitJoinRetry(q) ==
  IF doReboot THEN Reboot
  ELSE /\ st' = "WAIT_JOIN_RETRY"
       /\ StartTimer
       /\ queue' = q
       /\ \E maxrapid \in 0 .. MaxRapid :
            nbJoinAttempts' = IF nbJoinAttempts + 1 < maxrapid THEN nbJoinAttempts + 1 ELSE 0
       /\ UNCHANGED <<cycleVars, dlVars, notStockMode, cfgVars, envVars>>

\* r: the modules left running.
Sleep(q, r) ==
  /\ st' = "IDLE"
  /\ txmsg' = EmptySet
  /\ ulIsCrit' = FALSE
  /\ running' = r
  /\ IF noIdle
     THEN KeepTimer /\ queue' = Post(q, "FORCE_UL", -1)
     ELSE StartTimer /\ queue' = q
  /\ UNCHANGED <<serialIdx, requested, dlVars, joinVars, cfgVars, envVars>>

EnterIdle_noReboot(q, r) == Sleep(q, r)

EnterIdle(q, r) == IF doReboot THEN Reboot ELSE Sleep(q, r)

\* The first serial module is looked for by an event the state sends itself,
\* whose NULL data reads as id 0.
EnterSerial(q) ==
  /\ st' = "GETTING_SERIAL_MODS"
  /\ serialIdx' = -1
  /\ KeepTimer
  /\ queue' = Post(q, "MODULE_DONE", 0)

Selected(i) == IF requested < 0 THEN ModId[i] \in modsMask ELSE ModId[i] = requested
SelectedSerial   == {i \in Serial : Selected(i)}
SelectedParallel == {i \in Mods \ Serial : Selected(i)}

\* R: the parallel modules that ask for time when started.
EnterParallel_noTimeout(q, r) ==
  /\ st' = "GETTING_PARALLEL_MODS"
  /\ \E R \in SUBSET SelectedParallel :
       /\ running' = r \cup R
       /\ IF R # {} THEN StartTimer ELSE KeepTimer
       /\ queue' = q

EnterParallel(q, r) ==
  /\ st' = "GETTING_PARALLEL_MODS"
  /\ \E R \in SUBSET SelectedParallel :
       /\ running' = r \cup R
       /\ IF R # {}
          THEN StartTimer /\ queue' = q
          ELSE KeepTimer /\ queue' = Post(q, "TIMEOUT", 0)

NextMsg(u) == u.txing + 1
HasNext_offByOne(u) == NextMsg(u) \in Msgs /\ NextMsg(u) <= u.filling + 1
HasNext(u) == NextMsg(u) \in Msgs /\ NextMsg(u) <= u.filling
Stepped_skips(u) == [u EXCEPT !.txing = @ + 2]
Stepped(u) == [u EXCEPT !.txing = @ + 1]

\* tryTX when the radio takes the message ...
Transmit(u) ==
  /\ HasNext(u)
  /\ radio.tx < MaxTx
  /\ txmsg' = [Stepped(u) EXCEPT !.answers = @ \ {NextMsg(u)}]
  /\ radio' = [radio EXCEPT !.tx = @ + 1, !.rx = TRUE]

\* ... and what it returns when nothing was sent; the message is passed over.
Unsent(u) == IF HasNext(u) THEN "TX_RETRY" ELSE "NO_TX"

EnterSending(q, u) ==
  /\ st' = "SENDING_UL"
  /\ \/ Transmit(u) /\ StartTimer /\ queue' = q
     \/ /\ txmsg' = Stepped(u)
        /\ KeepTimer
        /\ queue' = Post(q, Unsent(u), 0)
        /\ UNCHANGED radio

----------------------------------------------------------------------------
(* STARTUP, TRY_JOIN, STOCK, WAIT_JOIN_RETRY. *)

StartupTimeout ==
  /\ Handling("STARTUP", "TIMEOUT")
  /\ IF consoleActive
     THEN StartTimer /\ queue' = Rest
     ELSE queue' = Post(Rest, "FORCE_UL", -1) /\ UNCHANGED timer
  /\ UNCHANGED <<st, cycleVars, dlVars, joinVars, cfgVars, envVars>>

StartupForceUL ==
  /\ Handling("STARTUP", "FORCE_UL")
  /\ IF deviceConfigOk
     THEN EnterTryJoin(Rest)
     ELSE /\ EnterStock(Rest)
          /\ consoleActive' = FALSE
          /\ UNCHANGED <<cycleVars, dlVars, joinVars, cfgVars, radio>>

TryJoinTimeout_ignored ==
  /\ Handling("TRY_JOIN", "TIMEOUT")
  /\ queue' = Rest
  /\ UNCHANGED <<st, timer, cycleVars, dlVars, joinVars, cfgVars, envVars>>

TryJoinTimeout ==
  /\ Handling("TRY_JOIN", "TIMEOUT")
  /\ queue' = Post(Rest, "JOIN_FAIL", 0)
  /\ UNCHANGED <<st, timer, cycleVars, dlVars, joinVars, cfgVars, envVars>>

TryJoinOk ==
  /\ Handling("TRY_JOIN", "JOIN_OK")
  /\ notStockMode' = 1
  /\ prom' = [prom EXCEPT !.notStock = 1]
  /\ aside' = aside \ {"notStock"}
  /\ txmsg' = EmptySet
  /\ ulIsCrit' = FALSE
  /\ EnterSerial(Rest)
  /\ UNCHANGED <<requested, running, dlVars, nbJoinAttempts, modsMask, noIdle,
                 deviceConfigOk, done, envVars>>

TryJoinFail_swapped ==
  /\ Handling("TRY_JOIN", "JOIN_FAIL")
  /\ IF notStockMode # 0
     THEN EnterStock(Rest) /\ UNCHANGED <<cycleVars, dlVars, joinVars, cfgVars, envVars>>
     ELSE EnterWaitJoinRetry(Rest)

TryJoinFail ==
  /\ Handling("TRY_JOIN", "JOIN_FAIL")
  /\ IF notStockMode = 0
     THEN EnterStock(Rest) /\ UNCHANGED <<cycleVars, dlVars, joinVars, cfgVars, envVars>>
     ELSE EnterWaitJoinRetry(Rest)

\* notStockMode is cleared in RAM only, and the reboot follows at once.
StockTimeout == Handling("STOCK", "TIMEOUT") /\ Down("STOCK_SLEEP")

WaitJoinRetryTimeout == Handling("WAIT_JOIN_RETRY", "TIMEOUT") /\ EnterTryJoin(Rest)

----------------------------------------------------------------------------
(* IDLE. *)

\* The check timer: time to collect is not reached ...
IdleTimeoutStay_noRestart ==
  /\ Handling("IDLE", "TIMEOUT")
  /\ queue' = Rest
  /\ UNCHANGED <<st, timer, cycleVars, dlVars, joinVars, cfgVars, envVars>>

IdleTimeoutStay ==
  /\ Handling("IDLE", "TIMEOUT")
  /\ StartTimer
  /\ queue' = Rest
  /\ UNCHANGED <<st, cycleVars, dlVars, joinVars, cfgVars, envVars>>

\* ... or is.
IdleTimeoutWake ==
  /\ Handling("IDLE", "TIMEOUT")
  /\ EnterSerial(Rest)
  /\ UNCHANGED <<requested, running, ulIsCrit, txmsg, dlVars, joinVars, cfgVars, envVars>>

IdleForceUL ==
  /\ Handling("IDLE", "FORCE_UL")
  /\ requested' = Arg
  /\ EnterSerial(Rest)
  /\ UNCHANGED <<running, ulIsCrit, txmsg, dlVars, joinVars, cfgVars, envVars>>

----------------------------------------------------------------------------
(* Collection. *)

\* getULDataCB of one or more modules: blocks are added, the data may matter.
Filled(u) == {[u EXCEPT !.filling = f] : f \in u.filling .. MAX_NB - 1}
Crit == {ulIsCrit, TRUE}

\* The search for the next serial module, from the one after `serialIdx', when
\* the modules of r are running: the first that asks for time gets it.
StartNextSerial(q, r) ==
  LET after == {i \in SelectedSerial : i > serialIdx}
  IN  \/ \E i \in after :
           /\ serialIdx' = i
           /\ running' = r \cup {i}
           /\ StartTimer
           /\ queue' = q
           /\ UNCHANGED st
      \/ /\ serialIdx' \in IF after = {} THEN {serialIdx}
                           ELSE {i \in after : \A j \in after : j <= i}
         /\ EnterParallel(q, r)

\* MODULE_DONE, or a timeout taken for the running module's, with data d.
SerialDone(d) ==
  LET awaited == serialIdx > 0
      current == awaited /\ d = ModId[serialIdx]
  IN  /\ IF current
         THEN txmsg' \in Filled(txmsg) /\ ulIsCrit' \in Crit
         ELSE UNCHANGED <<txmsg, ulIsCrit>>
      /\ IF awaited /\ ~current
         THEN EnterParallel(Rest, running) /\ UNCHANGED serialIdx
         ELSE StartNextSerial(Rest, IF current THEN running \ {serialIdx} ELSE running)

SerialModuleDone ==
  /\ Handling("GETTING_SERIAL_MODS", "MODULE_DONE")
  /\ SerialDone(Arg)
  /\ UNCHANGED <<requested, dlVars, joinVars, cfgVars, envVars>>

SerialTimeout ==
  /\ Handling("GETTING_SERIAL_MODS", "TIMEOUT")
  /\ IF serialIdx < 0
     THEN EnterParallel(Rest, running) /\ UNCHANGED <<serialIdx, txmsg, ulIsCrit>>
     ELSE SerialDone(ModId[serialIdx])
  /\ UNCHANGED <<requested, dlVars, joinVars, cfgVars, envVars>>

\* The parallel modules selected now give their data and are stopped; an
\* uplink follows if some data matters or the last one is too long ago.
ParallelTimeout_noStop ==
  /\ Handling("GETTING_PARALLEL_MODS", "TIMEOUT")
  /\ EnterIdle(Rest, running)

ParallelTimeout ==
  /\ Handling("GETTING_PARALLEL_MODS", "TIMEOUT")
  /\ \/ /\ ~ulIsCrit
        /\ EnterIdle(Rest, running \ SelectedParallel)
     \/ /\ ulIsCrit' = TRUE
        /\ running' = running \ SelectedParallel
        /\ \E u \in IF SelectedParallel = {} THEN {txmsg} ELSE Filled(txmsg) :
             EnterSending(Rest, u)
        /\ UNCHANGED <<serialIdx, requested, dlVars, joinVars, cfgVars, consoleActive>>

----------------------------------------------------------------------------
(* SENDING_UL. *)

SendingTimeout == Handling("SENDING_UL", "TIMEOUT") /\ EnterIdle(Rest, running)

\* A result that lets the next message go: sent, or passed over.
SendingNext ==
  /\ Handling("SENDING_UL", "TX_OK") \/ Handling("SENDING_UL", "TX_RETRY")
  /\ \/ /\ Transmit(txmsg)
        /\ StartTimer
        /\ queue' = Rest
        /\ UNCHANGED <<st, serialIdx, requested, running, ulIsCrit, dlVars, joinVars,
                       cfgVars, consoleActive>>
     \/ EnterIdle(Rest, running)

SendingOver ==
  /\ Handling("SENDING_UL", "TX_NOTJOIN") \/ Handling("SENDING_UL", "NO_TX")
  /\ EnterIdle(Rest, running)

\* assert(0)
SendingFatal == Handling("SENDING_UL", "TX_FATAL") /\ Down("RESET")

----------------------------------------------------------------------------
(* Downlinks: executeDL and the actions. *)

Fresh    == rxmsg.id = 0 \/ rxmsg.id # lastDLId
Recorded == rxmsg.msg.whole /\ rxmsg.id # 0

\* A_getConfig: the answer goes to the message being filled or to the next,
\* and nowhere when the last one is full.
Answered(u) ==
  {[u EXCEPT !.filling = f, !.answers = @ \cup {f}] : f \in {u.filling, u.filling + 1} \cap Msgs}
    \cup {v \in {u} : u.filling + 1 \notin Msgs}

\* configChangedCB, on any write: the mask and the times are read again, the
\* id of the last downlink and the stock mode are not.
ReadBack(p) == modsMask' = p.mask /\ noIdle' = p.noIdle

\* What the actions write to the PROM: A_reboot clears the stock flag, also
\* in RAM, A_setConfig writes any key, and only there.
StockCleared(p, m) == IF m.reboot = "stock" THEN [p EXCEPT !.notStock = 0] ELSE p

PromAfter(p, m) ==
  IF m.setLast
  THEN Written(StockCleared(p, m), m.keys, m.val)
  ELSE StockCleared(Written(p, m.keys, m.val), m)

AsideAfter(a, p, m) ==
  LET cleared == IF m.reboot = "stock" THEN {"notStock"} ELSE {}
      start   == IF m.setLast THEN StockCleared(p, m) ELSE p
      changed == Changed(start, Written(start, m.keys, m.val))
  IN  IF m.setLast THEN (a \ cleared) \cup changed ELSE (a \cup changed) \ cleared

ExecuteDL ==
  LET m == rxmsg.msg
      p == PromAfter(prom, m)
  IN  /\ doReboot' = (doReboot \/ m.reboot # "no")
      /\ notStockMode' = IF m.reboot = "stock" THEN 0 ELSE notStockMode
      /\ IF m.keys = {} THEN UNCHANGED <<modsMask, noIdle>> ELSE ReadBack(p)
      /\ txmsg' \in IF m.get THEN Answered(txmsg) ELSE {txmsg}
      /\ queue' = IF m.force THEN Post(Rest, "FORCE_UL", -1) ELSE Rest
      /\ IF Recorded
         THEN /\ lastDLId' = rxmsg.id
              /\ prom' = [p EXCEPT !.dlId = rxmsg.id]
              /\ aside' = AsideAfter(aside, prom, m) \ {"dlId"}
         ELSE /\ UNCHANGED lastDLId
              /\ prom' = p
              /\ aside' = AsideAfter(aside, prom, m)
      /\ done' = IF m.whole /\ rxmsg.id # 0 THEN rxmsg.id ELSE done

HandlingRx == Handling("IDLE", "LORA_RX") \/ Handling("SENDING_UL", "LORA_RX")

HandleRx ==
  /\ HandlingRx
  /\ IF Fresh
     THEN ExecuteDL
     ELSE queue' = Rest
          /\ UNCHANGED <<doReboot, notStockMode, prom, lastDLId, modsMask, noIdle, txmsg,
                         done, aside>>
  /\ UNCHANGED <<st, timer, serialIdx, requested, running, ulIsCrit, rxmsg,
                 nbJoinAttempts, deviceConfigOk, envVars>>

\* A reset after the actions and before the id is stored.  (One after some of
\* them is that of a downlink which has only those.)
CrashInDL_idFirst ==
  /\ Crashes
  /\ HandlingRx
  /\ Fresh
  /\ DownRam("RESET")
  /\ prom' = [PromAfter(prom, rxmsg.msg) EXCEPT !.dlId = rxmsg.id]
  /\ aside' = AsideAfter(aside, prom, rxmsg.msg) \ {"dlId"}
  /\ UNCHANGED done

CrashInDL ==
  /\ Crashes
  /\ HandlingRx
  /\ Fresh
  /\ DownRam("RESET")
  /\ prom' = PromAfter(prom, rxmsg.msg)
  /\ aside' = AsideAfter(aside, prom, rxmsg.msg)
  /\ UNCHANGED done

----------------------------------------------------------------------------
(* Events no case of the current state names. *)

DefaultEvent ==
  /\ On
  /\ queue # <<>>
  /\ Head(queue).ev \notin Handles[st]
  /\ queue' = Rest
  /\ UNCHANGED <<st, timer, cycleVars, dlVars, joinVars, cfgVars, envVars>>

----------------------------------------------------------------------------
(* The surroundings. *)

\* The executor's timer has an event of its own, so it is never dropped.
TimerFires ==
  /\ timer
  /\ Len(queue) < QMax
  /\ timer' = FALSE
  /\ queue' = Append(queue, [ev |-> "TIMEOUT", arg |-> 0])
  /\ UNCHANGED <<st, cycleVars, dlVars, joinVars, cfgVars, envVars>>

Send(e, a) ==
  /\ queue' = Post(queue, e, a)
  /\ UNCHANGED <<st, timer, cycleVars, lastDLId, doReboot, joinVars, cfgVars, consoleActive>>

\* AppCore_module_done by a module that is running (more than once, for those
\* that report both an end and the loss of their peripheral).
ModuleDone(i) ==
  /\ On
  /\ i \in running \cap Talkers
  /\ Send("MODULE_DONE", ModId[i])
  /\ UNCHANGED <<rxmsg, radio>>

\* AppCore_forceUL by a module: a button for one module, or everyone.
ForceUL(a) ==
  /\ On
  /\ Send("FORCE_UL", a)
  /\ UNCHANGED <<rxmsg, radio>>

\* lora_join_cb
JoinAnswered(e) ==
  /\ On
  /\ radio.join
  /\ Send(e, 0)
  /\ radio' = [radio EXCEPT !.join = FALSE]
  /\ UNCHANGED rxmsg

\* lora_tx_cb
SendAnswered(e) ==
  /\ On
  /\ radio.tx > 0
  /\ Send(e, 0)
  /\ radio' = [radio EXCEPT !.tx = @ - 1]
  /\ UNCHANGED rxmsg

\* lora_rx_cb, once per uplink: the payload is copied whether it decodes or
\* not, the id only if it does.
Received(m) ==
  /\ On
  /\ radio.rx
  /\ radio' = [radio EXCEPT !.rx = FALSE]
  /\ rxmsg' = [id |-> IF m.good THEN m.id ELSE rxmsg.id, msg |-> m]
  /\ IF m.good
     THEN Send("LORA_RX", 0)
     ELSE UNCHANGED <<smVars, cycleVars, lastDLId, doReboot, joinVars, cfgVars, consoleActive>>

\* Someone types on the UART: the console is then active until STARTUP ends.
ConsoleInput ==
  /\ st = "STARTUP" /\ UartConsole /\ ~consoleActive
  /\ consoleActive' = TRUE
  /\ UNCHANGED <<smVars, cycleVars, dlVars, joinVars, cfgVars, radio>>

UserConsole == On /\ (consoleActive \/ running \cap BLEConsoles # {})

\* AT+RUN
ConsoleRun ==
  /\ UserConsole
  /\ queue' = Post(queue, "FORCE_UL", -1)
  /\ consoleActive' = FALSE
  /\ UNCHANGED <<st, timer, cycleVars, dlVars, joinVars, cfgVars, radio>>

\* ATZ and AT+STOCK
ConsoleReset == UserConsole /\ \E s \in Off : Down(s)

\* AT+SETCFG on any key, and AT+SETMODS
ConsoleConfig(k, v) ==
  /\ UserConsole
  /\ prom' = Written(prom, {k}, v)
  /\ ReadBack(prom')
  /\ aside' = aside \cup Changed(prom, prom')
  /\ UNCHANGED <<smVars, cycleVars, dlVars, joinVars, deviceConfigOk, done, envVars>>

Crash == Crashes /\ On /\ Down("RESET")

----------------------------------------------------------------------------

\* A device that has not been switched on since it left the factory, or was
\* last switched off with any configuration a user can set.
Init ==
  /\ st = "RESET"
  /\ queue = <<>> /\ timer = FALSE
  /\ consoleActive = FALSE /\ deviceConfigOk = FALSE
  /\ serialIdx = 0 /\ requested = -1 /\ running = {} /\ ulIsCrit = FALSE
  /\ txmsg = EmptySet
  /\ rxmsg = [id |-> 0, msg |-> NoDL] /\ lastDLId = 0 /\ doReboot = FALSE
  /\ notStockMode = 0 /\ nbJoinAttempts = 0
  /\ modsMask = {} /\ noIdle = FALSE
  /\ radio = QuietRadio
  /\ prom \in Configs
  /\ done = BootDLId(prom) /\ aside = {}

Handle ==
  \/ StartupTimeout \/ StartupForceUL
  \/ TryJoinTimeout \/ TryJoinOk \/ TryJoinFail
  \/ StockTimeout
  \/ WaitJoinRetryTimeout
  \/ IdleTimeoutStay \/ IdleTimeoutWake \/ IdleForceUL
  \/ SerialModuleDone \/ SerialTimeout
  \/ ParallelTimeout
  \/ SendingTimeout \/ SendingNext \/ SendingOver \/ SendingFatal
  \/ HandleRx
  \/ DefaultEvent

Surroundings ==
  \/ \E i \in Mods : ModuleDone(i)
  \/ \E a \in Forcers : ForceUL(a)
  \/ \E e \in {"JOIN_OK", "JOIN_FAIL"} : JoinAnswered(e)
  \/ \E e \in Results \ {"NO_TX"} : SendAnswered(e)
  \/ \E m \in DLs : Received(m)
  \/ ConsoleInput \/ ConsoleRun \/ ConsoleReset
  \/ \E k \in CfgKeys, v \in Configs : ConsoleConfig(k, v)
  \/ Crash \/ CrashInDL

Next == Boot \/ Handle \/ TimerFires \/ Surroundings

Spec == Init /\ [][Next]_vars

----------------------------------------------------------------------------
(* Properties. *)

QueueOK(q) == q \in Seq([ev : Events, arg : {-1} \cup Ids]) /\ Len(q) <= QMax

\* Type invariant: every variable of the core stays in the range its C type
\* and the code's own checks give it; in particular the events queued are
\* ones the state functions know and a serial index is in the table.
TypeOK ==
  /\ st \in States \cup Off
  /\ QueueOK(queue)
  /\ timer \in BOOLEAN /\ consoleActive \in BOOLEAN /\ deviceConfigOk \in BOOLEAN
  /\ serialIdx \in {-1} \cup Mods
  /\ requested \in {-1} \cup Ids
  /\ running \subseteq Mods
  /\ ulIsCrit \in BOOLEAN
  /\ txmsg \in ULs
  /\ rxmsg \in [id : 0 .. 15, msg : Downlinks]
  /\ lastDLId \in 0 .. 15
  /\ doReboot \in BOOLEAN
  /\ notStockMode \in {0, 1}
  /\ nbJoinAttempts \in Nat /\ (nbJoinAttempts = 0 \/ nbJoinAttempts < MaxRapid)
  /\ modsMask \subseteq Ids
  /\ noIdle \in BOOLEAN
  /\ prom \in Proms
  /\ radio \in Radios
  /\ done \in 0 .. 15 /\ aside \subseteq OwnKeys

Pending(q, s) == \E k \in DOMAIN q : q[k].ev \in Handles[s] \ {"LORA_RX"}

\* The device never goes quiet for good: in every state the timer is armed or
\* an event that state has a case for is already queued, although handlers
\* are left by early returns, callbacks come late and events are dropped.
WakeupPending == On => timer \/ Pending(queue, st)

\* A restart at any moment, also in the middle of a downlink, resumes from
\* what was done.  The id it finds is that of the last downlink carried out
\* in full: one that was cut short, by a reset or by its length, is not taken
\* for done, and one that was done is not taken for new when the backend
\* repeats it.  The stock mode it finds is the one the core goes by.  Only a
\* user who writes these keys comes between, until the next boot: the running
\* core does not hear of it, while it does hear of the other keys.
RestartResumes ==
  /\ "dlId" \notin aside => BootDLId(prom) = done
  /\ On => /\ lastDLId = done
           /\ "notStock" \notin aside => notStockMode = prom.notStock
           /\ modsMask = prom.mask
           /\ noIdle = prom.noIdle

\* No message is handed to the radio while the set is being filled, and while
\* sending, the message on the air is one that was filled: neither a late
\* send result nor an answer added by a downlink moves past the end.
SendsWhatWasFilled ==
  /\ st \in {"IDLE", "GETTING_SERIAL_MODS", "GETTING_PARALLEL_MODS"} => txmsg.txing = -1
  /\ st = "SENDING_UL" => txmsg.txing \in 0 .. txmsg.filling

\* The core asks the uplink builder (AppMsg) for messages only the way the
\* builder's promise allows (UplinkSet): one after the other, none after the
\* answer "no more", and from the start again once the set is emptied.
Uplinks == INSTANCE UplinkSet WITH filling <- txmsg.filling, txing <- txmsg.txing

AsksInOrder ==
  [][txmsg'.txing # txmsg.txing =>
       \/ Uplinks!Reset
       \/ txmsg.txing <= txmsg.filling /\ txmsg'.txing = txmsg.txing + 1]_vars

\* The parallel modules started in a cycle are all stopped in it, although
\* the selection is computed once to start and once to stop them.  (It fails
\* if the mask can change in between, which takes a console module left
\* running.)
ParallelStopped == st # "GETTING_PARALLEL_MODS" => running \subseteq Serial

\* Serial modules have the device for themselves: README.md, GETTING-SERIAL,
\* "when no other module is also executing".
SerialExclusive == \A i \in running \cap Serial : running = {i}

\* A forced uplink asks for one module; a cycle the idle timer starts is for
\* all of them (app_core.c:61, app_core.h:75).
TimedCycleForAll ==
  [][IdleTimeoutWake => requested' = -1]_vars

\* MODULE_DONE comes from the module that is awaited: the other case "should
\* not happen" (app_core.c:746).
DoneIsAwaited ==
  Handling("GETTING_SERIAL_MODS", "MODULE_DONE") /\ serialIdx > 0 => Arg = ModId[serialIdx]

\* A configuration answer that was added to the uplink is handed to the radio
\* before the set is emptied, unless the device resets.
AnswersAreSent ==
  [][On /\ On' => txmsg.answers \subseteq txmsg'.answers \cup {txmsg'.txing}]_vars

\* The core keeps the promises of Lifecycle.
Phase ==
  CASE st = "RESET"           -> "off"
    [] st = "STOCK_SLEEP"     -> "stocked"
    [] st = "STARTUP"         -> "starting"
    [] st = "TRY_JOIN"        -> "joining"
    [] st = "WAIT_JOIN_RETRY" -> "waiting"
    [] st = "STOCK"           -> "stocking"
    [] st = "IDLE"            -> "sleeping"
    [] st = "SENDING_UL"      -> "reporting"
    [] OTHER                  -> "collecting"

Life == INSTANCE Lifecycle
          WITH phase <- Phase, member <- prom.notStock, belief <- notStockMode, onAir <- radio.tx
ImplementsLifecycle == Life!Spec

----------------------------------------------------------------------------
(* Liveness. *)

\* The event loop runs, an armed timer is always posted, the device is
\* switched on again, and idle time passes: each check finds more of it gone.
Fairness ==
  /\ WF_vars(Handle)
  /\ SF_vars(TimerFires)
  /\ WF_vars(Boot)
  /\ SF_vars(IdleTimeoutWake)

LiveSpec == Spec /\ Fairness

\* A collection always ends, whatever the modules report and the radio does.
CollectionEnds ==
  st \in {"GETTING_SERIAL_MODS", "GETTING_PARALLEL_MODS", "SENDING_UL"}
    ~> st \in {"IDLE"} \cup Off

\* A join attempt is always decided, even if the radio never answers.
JoinDecided == st = "TRY_JOIN" ~> st # "TRY_JOIN"

\* A reboot ordered by a downlink takes place.
RebootHappens == doReboot ~> ~On

\* The device wakes up again from every sleep.
WakesUp == st = "IDLE" ~> st # "IDLE"
=============================================================================
