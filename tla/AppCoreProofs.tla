---------------------------- MODULE AppCoreProofs ----------------------------
(***************************************************************************)
(* Theorems about AppCore, for every table of modules, every downlink and  *)
(* every bound that AppCore's assumptions allow.                           *)
(***************************************************************************)
EXTENDS AppCore, TLAPS

----------------------------------------------------------------------------
(* The event queue. *)

LEMMA ZeroIsId == 0 \in Ids
BY ModuleAssumption DEF Ids

LEMMA EmptyOK == QueueOK(<<>>)
BY BoundAssumption DEF QueueOK

\* An event posted to a well-formed queue leaves it well formed.
LEMMA PostOK ==
  ASSUME NEW q, QueueOK(q), NEW e \in Events, NEW a \in {-1} \cup Ids
  PROVE  QueueOK(Post(q, e, a))
<1> DEFINE E == [ev : Events, arg : {-1} \cup Ids]
<1>1. [ev |-> e, arg |-> a] \in E  OBVIOUS
<1>2. q \in Seq(E) /\ Len(q) <= QMax  BY DEF QueueOK
<1> HIDE DEF E
<1>3. Post(q, e, a) \in Seq(E)  BY <1>1, <1>2 DEF Post
<1>4. Len(Post(q, e, a)) <= QMax  BY <1>1, <1>2, BoundAssumption DEF Post
<1> QED  BY <1>3, <1>4 DEF QueueOK, E

\* What a handler takes from the queue, and what it leaves.
LEMMA RestOK ==
  ASSUME QueueOK(queue), queue # <<>>
  PROVE  /\ QueueOK(Rest)
         /\ Len(Rest) < QMax
         /\ Head(queue).ev \in Events
         /\ Arg \in {-1} \cup Ids
<1> DEFINE E == [ev : Events, arg : {-1} \cup Ids]
<1>1. queue \in Seq(E) /\ Len(queue) <= QMax /\ queue # <<>>  BY DEF QueueOK
<1>2. Head(queue).ev \in Events /\ Head(queue).arg \in {-1} \cup Ids
  <2>1. Head(queue) \in E
    <3> HIDE DEF E
    <3> QED  BY <1>1
  <2> QED  BY <2>1
<1> HIDE DEF E
<1>3. Rest \in Seq(E) /\ Len(Rest) = Len(queue) - 1 /\ Len(queue) \in Nat  BY <1>1 DEF Rest
<1>4. Len(Rest) < QMax  BY <1>1, <1>3, BoundAssumption
<1>5. QueueOK(Rest)  BY <1>3, <1>4, BoundAssumption DEF QueueOK, E
<1> QED  BY <1>2, <1>4, <1>5 DEF Arg

\* There is room for an event after one was taken, so it is not dropped.
LEMMA PostedIsPending ==
  ASSUME NEW q, QueueOK(q), Len(q) < QMax, NEW s, NEW e, NEW a,
         e \in Handles[s] \ {"LORA_RX"}
  PROVE  Pending(Post(q, e, a), s)
<1>1. Post(q, e, a) = Append(q, [ev |-> e, arg |-> a])  BY DEF Post
<1>2. q \in Seq([ev : Events, arg : {-1} \cup Ids]) /\ Len(q) \in Nat  BY DEF QueueOK
<1>3. Len(q) + 1 \in DOMAIN Append(q, [ev |-> e, arg |-> a])  BY <1>2
<1>4. Append(q, [ev |-> e, arg |-> a])[Len(q) + 1].ev = e  BY <1>2
<1> QED  BY <1>1, <1>3, <1>4 DEF Pending

\* Posting another event, dropped or not, does no harm.
LEMMA PostKeepsPending ==
  ASSUME NEW q, QueueOK(q), NEW s, NEW e, NEW a, Pending(q, s)
  PROVE  Pending(Post(q, e, a), s)
<1>1. PICK k \in DOMAIN q : q[k].ev \in Handles[s] \ {"LORA_RX"}  BY DEF Pending
<1>2. CASE Len(q) < QMax
  <2>1. k \in DOMAIN Append(q, [ev |-> e, arg |-> a])  BY <1>1 DEF QueueOK
  <2>2. Append(q, [ev |-> e, arg |-> a])[k] = q[k]  BY <1>1 DEF QueueOK
  <2> QED  BY <1>1, <1>2, <2>1, <2>2 DEF Post, Pending
<1>3. CASE ~(Len(q) < QMax)  BY <1>3 DEF Post
<1> QED  BY <1>2, <1>3

\* Neither does taking an event that is not the awaited one.
LEMMA RestKeepsPending ==
  ASSUME NEW s, QueueOK(queue), queue # <<>>, Pending(queue, s),
         Head(queue).ev \notin Handles[s] \ {"LORA_RX"}
  PROVE  Pending(Rest, s)
<1>1. PICK k \in DOMAIN queue : queue[k].ev \in Handles[s] \ {"LORA_RX"}  BY DEF Pending
<1>2. k # 1  BY <1>1 DEF QueueOK
<1>3. k - 1 \in DOMAIN Rest /\ Rest[k - 1] = queue[k]  BY <1>1, <1>2 DEF QueueOK, Rest
<1> QED  BY <1>1, <1>3 DEF Pending

----------------------------------------------------------------------------
(* Type correctness, with the one fact it rests on: the message on the air *)
(* is one that was filled, so that stepping to the next stays in range.    *)

Inv == TypeOK /\ SendsWhatWasFilled

LEMMA NoDLOK == NoDL \in Downlinks
<1>1. NoVal \in Proms  BY DEF NoVal, Proms
<1> QED  BY <1>1 DEF NoDL, Downlinks

\* A device that is off has forgotten everything but its PROM.
LEMMA DownRamInv ==
  ASSUME NEW s \in Off, DownRam(s),
         prom' \in Proms, done' \in 0 .. 15, aside' \subseteq OwnKeys
  PROVE  Inv'
<1>1. NoDL \in Downlinks  BY NoDLOK
<1>2. TypeOK'
  <2>1. EmptySet \in ULs
    BY BoundAssumption DEF EmptySet, Msgs, ULs
  <2>2. QuietRadio \in Radios
    BY BoundAssumption DEF QuietRadio, Radios
  <2>3. rxmsg' \in [id : 0 .. 15, msg : Downlinks]
    BY <1>1 DEF DownRam
  <2>4. serialIdx' \in {-1} \cup Mods
    BY ModuleAssumption DEF DownRam, Mods
  <2> QED
    BY <2>1, <2>2, <2>3, <2>4, EmptyOK DEF DownRam, TypeOK
<1>3. SendsWhatWasFilled'
  BY DEF DownRam, SendsWhatWasFilled, Off
<1> QED  BY <1>2, <1>3 DEF Inv

LEMMA DownInv ==
  ASSUME Inv, NEW s \in Off, Down(s)
  PROVE  Inv'
BY DownRamInv DEF Down, Inv, TypeOK

LEMMA RebootInv == Inv /\ Reboot => Inv'
BY DownInv DEF Reboot, Off

LEMMA BootInv == Inv /\ Boot => Inv'
<1> SUFFICES ASSUME Inv, Boot PROVE Inv'  OBVIOUS
<1>1. QueueOK(queue')
  BY PostOK, EmptyOK DEF Boot, Events
<1>2. TypeOK'
  BY <1>1 DEF Boot, BootDLId, Inv, TypeOK, Proms, StartTimer, cycleVars, envVars, States
<1>3. SendsWhatWasFilled'
  BY DEF Boot, SendsWhatWasFilled
<1> QED  BY <1>2, <1>3 DEF Inv

\* Entering a state keeps the invariant, whatever is left in the queue.
LEMMA EnterTryJoinInv ==
  ASSUME Inv, NEW q, QueueOK(q), EnterTryJoin(q)
  PROVE  Inv'
<1>1. CASE doReboot  BY <1>1, RebootInv DEF EnterTryJoin
<1>2. CASE ~doReboot
  <2>1. QueueOK(queue')
    BY <1>2, PostOK, ZeroIsId DEF EnterTryJoin, Events
  <2>2. radio' \in Radios
    BY <1>2 DEF EnterTryJoin, Inv, TypeOK, Radios
  <2>3. TypeOK'
    BY <1>2, <2>1, <2>2 DEF EnterTryJoin, Inv, TypeOK, StartTimer, KeepTimer, States,
       cycleVars, dlVars, joinVars, cfgVars
  <2> QED  BY <1>2, <2>3 DEF EnterTryJoin, Inv, SendsWhatWasFilled
<1> QED  BY <1>1, <1>2

LEMMA EnterWaitJoinRetryInv ==
  ASSUME Inv, NEW q, QueueOK(q), EnterWaitJoinRetry(q)
  PROVE  Inv'
<1>1. CASE doReboot  BY <1>1, RebootInv DEF EnterWaitJoinRetry
<1>2. CASE ~doReboot
  <2>1. TypeOK'
    BY <1>2, BoundAssumption DEF EnterWaitJoinRetry, Inv, TypeOK, StartTimer, States,
       cycleVars, dlVars, cfgVars, envVars
  <2> QED  BY <1>2, <2>1 DEF EnterWaitJoinRetry, Inv, SendsWhatWasFilled
<1> QED  BY <1>1, <1>2

LEMMA EnterIdleInv ==
  ASSUME Inv, NEW q, QueueOK(q), NEW r \in SUBSET Mods, EnterIdle(q, r)
  PROVE  Inv'
<1>1. CASE doReboot  BY <1>1, RebootInv DEF EnterIdle
<1>2. CASE ~doReboot
  <2>1. Sleep(q, r)  BY <1>2 DEF EnterIdle
  <2>2. QueueOK(queue')
    BY <2>1, PostOK DEF Sleep, Events
  <2>3. EmptySet \in ULs
    BY BoundAssumption DEF EmptySet, Msgs, ULs
  <2>4. TypeOK'
    BY <2>1, <2>2, <2>3 DEF Sleep, Inv, TypeOK, StartTimer, KeepTimer, States,
       dlVars, joinVars, cfgVars, envVars
  <2> QED  BY <2>1, <2>4 DEF Sleep, Inv, SendsWhatWasFilled, EmptySet
<1> QED  BY <1>1, <1>2

\* A step of the queue and the timer alone.
LEMMA ExecutorStepInv ==
  ASSUME Inv, QueueOK(queue'), timer' \in BOOLEAN,
         UNCHANGED <<st, cycleVars, dlVars, joinVars, cfgVars, envVars>>
  PROVE  Inv'
BY DEF Inv, TypeOK, SendsWhatWasFilled, cycleVars, dlVars, joinVars, cfgVars, envVars

LEMMA StartupTimeoutInv == Inv /\ StartupTimeout => Inv'
<1> SUFFICES ASSUME Inv, StartupTimeout PROVE Inv'  OBVIOUS
<1>1. QueueOK(queue')
  BY RestOK, PostOK DEF StartupTimeout, Handling, Inv, TypeOK, Events
<1>2. timer' \in BOOLEAN
  BY DEF StartupTimeout, Inv, TypeOK, StartTimer
<1> QED  BY <1>1, <1>2, ExecutorStepInv DEF StartupTimeout

LEMMA StartupForceULInv == Inv /\ StartupForceUL => Inv'
<1> SUFFICES ASSUME Inv, StartupForceUL PROVE Inv'  OBVIOUS
<1>1. QueueOK(Rest)
  BY RestOK DEF StartupForceUL, Handling, Inv, TypeOK
<1>2. CASE EnterTryJoin(Rest)  BY <1>1, <1>2, EnterTryJoinInv
<1>3. CASE ~EnterTryJoin(Rest)
  BY <1>1, <1>3 DEF StartupForceUL, EnterStock, Inv, TypeOK, SendsWhatWasFilled, StartTimer,
     States, cycleVars, dlVars, joinVars, cfgVars
<1> QED  BY <1>2, <1>3

LEMMA TryJoinTimeoutInv == Inv /\ TryJoinTimeout => Inv'
<1> SUFFICES ASSUME Inv, TryJoinTimeout PROVE Inv'  OBVIOUS
<1>1. QueueOK(queue')
  BY RestOK, PostOK, ZeroIsId DEF TryJoinTimeout, Handling, Inv, TypeOK, Events
<1> QED  BY <1>1, ExecutorStepInv DEF TryJoinTimeout, Inv, TypeOK

LEMMA TryJoinOkInv == Inv /\ TryJoinOk => Inv'
<1> SUFFICES ASSUME Inv, TryJoinOk PROVE Inv'  OBVIOUS
<1>1. QueueOK(queue')
  BY RestOK, PostOK, ZeroIsId DEF TryJoinOk, EnterSerial, Handling, Inv, TypeOK, Events
<1>2. EmptySet \in ULs
  BY BoundAssumption DEF EmptySet, Msgs, ULs
<1>3. TypeOK'
  BY <1>1, <1>2 DEF TryJoinOk, EnterSerial, Inv, TypeOK, KeepTimer, Proms, States, dlVars, envVars
<1> QED  BY <1>3 DEF TryJoinOk, EnterSerial, Inv, SendsWhatWasFilled, EmptySet

LEMMA TryJoinFailInv == Inv /\ TryJoinFail => Inv'
<1> SUFFICES ASSUME Inv, TryJoinFail PROVE Inv'  OBVIOUS
<1>1. QueueOK(Rest)
  BY RestOK DEF TryJoinFail, Handling, Inv, TypeOK
<1>2. CASE EnterWaitJoinRetry(Rest)  BY <1>1, <1>2, EnterWaitJoinRetryInv
<1>3. CASE ~EnterWaitJoinRetry(Rest)
  BY <1>1, <1>3 DEF TryJoinFail, EnterStock, Inv, TypeOK, SendsWhatWasFilled, StartTimer,
     States, cycleVars, dlVars, joinVars, cfgVars, envVars
<1> QED  BY <1>2, <1>3

LEMMA WaitJoinRetryTimeoutInv == Inv /\ WaitJoinRetryTimeout => Inv'
BY RestOK, EnterTryJoinInv DEF WaitJoinRetryTimeout, Handling, Inv, TypeOK

LEMMA StockTimeoutInv == Inv /\ StockTimeout => Inv'
BY DownInv DEF StockTimeout, Off

LEMMA IdleTimeoutStayInv == Inv /\ IdleTimeoutStay => Inv'
BY RestOK, ExecutorStepInv DEF IdleTimeoutStay, Handling, Inv, TypeOK, StartTimer

LEMMA IdleTimeoutWakeInv == Inv /\ IdleTimeoutWake => Inv'
<1> SUFFICES ASSUME Inv, IdleTimeoutWake PROVE Inv'  OBVIOUS
<1>1. QueueOK(queue')
  BY RestOK, PostOK, ZeroIsId DEF IdleTimeoutWake, EnterSerial, Handling, Inv, TypeOK, Events
<1>2. TypeOK'
  BY <1>1 DEF IdleTimeoutWake, EnterSerial, Inv, TypeOK, KeepTimer, States, dlVars, joinVars, cfgVars, envVars
<1>3. SendsWhatWasFilled'
  BY DEF IdleTimeoutWake, EnterSerial, Handling, Inv, SendsWhatWasFilled
<1> QED  BY <1>2, <1>3 DEF Inv

LEMMA IdleForceULInv == Inv /\ IdleForceUL => Inv'
<1> SUFFICES ASSUME Inv, IdleForceUL PROVE Inv'  OBVIOUS
<1>1. QueueOK(queue') /\ requested' \in {-1} \cup Ids
  BY RestOK, PostOK, ZeroIsId DEF IdleForceUL, EnterSerial, Handling, Inv, TypeOK, Events
<1>2. TypeOK'
  BY <1>1 DEF IdleForceUL, EnterSerial, Inv, TypeOK, KeepTimer, States, dlVars, joinVars, cfgVars, envVars
<1>3. SendsWhatWasFilled'
  BY DEF IdleForceUL, EnterSerial, Handling, Inv, SendsWhatWasFilled
<1> QED  BY <1>2, <1>3 DEF Inv

\* What a data callback may do to the uplink set.
LEMMA FilledOK ==
  ASSUME NEW u \in ULs,
         NEW v \in Filled(u)
  PROVE  /\ v \in ULs
         /\ v.txing = u.txing
         /\ u.filling <= v.filling
BY BoundAssumption DEF Filled, Msgs, ULs

LEMMA EnterParallelInv ==
  ASSUME Inv, NEW q, QueueOK(q), NEW r \in SUBSET Mods, EnterParallel(q, r),
         st = "GETTING_SERIAL_MODS", serialIdx' \in {-1} \cup Mods,
         txmsg' \in {txmsg} \cup Filled(txmsg), ulIsCrit' \in BOOLEAN,
         UNCHANGED <<requested, dlVars, joinVars, cfgVars, envVars>>
  PROVE  Inv'
<1>1. QueueOK(queue')
  BY PostOK, ZeroIsId DEF EnterParallel, Events
<1>2. running' \subseteq Mods /\ timer' \in BOOLEAN
  BY DEF EnterParallel, SelectedParallel, StartTimer, KeepTimer, Inv, TypeOK
<1>3. /\ txmsg' \in ULs
      /\ txmsg'.txing = txmsg.txing
  BY FilledOK DEF Inv, TypeOK
<1> QED
  BY <1>1, <1>2, <1>3 DEF EnterParallel, Inv, TypeOK, SendsWhatWasFilled, States,
     dlVars, joinVars, cfgVars, envVars

LEMMA StartNextSerialInv ==
  ASSUME Inv, NEW q, QueueOK(q), NEW r \in SUBSET Mods, StartNextSerial(q, r),
         st = "GETTING_SERIAL_MODS",
         txmsg' \in {txmsg} \cup Filled(txmsg), ulIsCrit' \in BOOLEAN,
         UNCHANGED <<requested, dlVars, joinVars, cfgVars, envVars>>
  PROVE  Inv'
<1> DEFINE after == {i \in SelectedSerial : i > serialIdx}
<1>1. after \subseteq Mods
  BY ModuleAssumption DEF SelectedSerial
<1>2. CASE \E i \in after : /\ serialIdx' = i
                            /\ running' = r \cup {i}
                            /\ StartTimer
                            /\ queue' = q
                            /\ UNCHANGED st
  <2>1. /\ txmsg' \in ULs
        /\ txmsg'.txing = txmsg.txing
    BY FilledOK DEF Inv, TypeOK
  <2>2. serialIdx' \in Mods /\ running' \subseteq Mods
    BY <1>1, <1>2
  <2> HIDE DEF after
  <2> QED
    BY <1>2, <2>1, <2>2 DEF Inv, TypeOK, SendsWhatWasFilled, StartTimer,
       dlVars, joinVars, cfgVars, envVars
<1>3. CASE EnterParallel(q, r) /\ serialIdx' \in {serialIdx} \cup after
  <2>1. serialIdx' \in {-1} \cup Mods
    BY <1>1, <1>3 DEF Inv, TypeOK
  <2> QED  BY <1>3, <2>1, EnterParallelInv
<1> QED  BY <1>2, <1>3 DEF StartNextSerial

LEMMA SerialDoneInv ==
  ASSUME Inv, NEW d, SerialDone(d), st = "GETTING_SERIAL_MODS", queue # <<>>,
         UNCHANGED <<requested, dlVars, joinVars, cfgVars, envVars>>
  PROVE  Inv'
<1>1. QueueOK(Rest)
  BY RestOK DEF Inv, TypeOK
<1>2. running \in SUBSET Mods /\ running \ {serialIdx} \in SUBSET Mods
  BY DEF Inv, TypeOK
<1>3. txmsg' \in {txmsg} \cup Filled(txmsg) /\ ulIsCrit' \in BOOLEAN
  BY DEF SerialDone, Crit, Inv, TypeOK
<1>4. CASE EnterParallel(Rest, running) /\ UNCHANGED serialIdx
  BY <1>1, <1>2, <1>3, <1>4, EnterParallelInv DEF Inv, TypeOK
<1>5. CASE StartNextSerial(Rest, running)
  BY <1>1, <1>2, <1>3, <1>5, StartNextSerialInv
<1>6. CASE StartNextSerial(Rest, running \ {serialIdx})
  BY <1>1, <1>2, <1>3, <1>6, StartNextSerialInv
<1> QED  BY <1>4, <1>5, <1>6 DEF SerialDone

LEMMA SerialModuleDoneInv == Inv /\ SerialModuleDone => Inv'
BY SerialDoneInv DEF SerialModuleDone, Handling

LEMMA SerialTimeoutInv == Inv /\ SerialTimeout => Inv'
<1> SUFFICES ASSUME Inv, SerialTimeout PROVE Inv'  OBVIOUS
<1>1. CASE EnterParallel(Rest, running) /\ UNCHANGED <<serialIdx, txmsg, ulIsCrit>>
  BY <1>1, RestOK, EnterParallelInv DEF SerialTimeout, Handling, Inv, TypeOK
<1>2. CASE SerialDone(ModId[serialIdx])
  BY <1>2, SerialDoneInv DEF SerialTimeout, Handling
<1> QED  BY <1>1, <1>2 DEF SerialTimeout

\* The radio takes a message that was filled.
LEMMA TransmitOK ==
  ASSUME Inv, NEW u \in ULs, Transmit(u)
  PROVE  /\ txmsg' \in ULs
         /\ txmsg'.txing \in 0 .. txmsg'.filling
         /\ radio' \in Radios
<1>1. u.txing + 1 \in 0 .. u.filling /\ u.txing + 1 \in Msgs /\ u.filling \in Msgs
  BY BoundAssumption DEF Transmit, HasNext, NextMsg, Msgs, ULs
<1>2. txmsg' = [filling |-> u.filling, txing |-> u.txing + 1,
                answers |-> u.answers \ {NextMsg(u)}]
  BY DEF Transmit, Stepped, ULs
<1>3. txmsg' \in ULs
  BY <1>1, <1>2, BoundAssumption DEF ULs, Msgs
<1>4. radio' = [join |-> radio.join, tx |-> radio.tx + 1, rx |-> TRUE] /\ radio.tx < MaxTx
  BY DEF Transmit, Inv, TypeOK, Radios
<1>5. radio' \in Radios
  BY <1>4, BoundAssumption DEF Inv, TypeOK, Radios
<1> QED  BY <1>1, <1>2, <1>3, <1>5

LEMMA EnterSendingInv ==
  ASSUME Inv, NEW q, QueueOK(q), NEW u \in {txmsg} \cup Filled(txmsg), EnterSending(q, u),
         st = "GETTING_PARALLEL_MODS", ulIsCrit' \in BOOLEAN, running' \subseteq Mods,
         UNCHANGED <<serialIdx, requested, dlVars, joinVars, cfgVars, consoleActive>>
  PROVE  Inv'
<1>1. /\ u \in ULs
      /\ u.txing = -1
  BY FilledOK DEF Inv, TypeOK, SendsWhatWasFilled
<1>2. Stepped(u) \in ULs /\ Stepped(u).txing \in 0 .. Stepped(u).filling
  BY <1>1, BoundAssumption DEF Stepped, Msgs, ULs
<1>3. /\ txmsg' \in ULs
      /\ txmsg'.txing \in 0 .. txmsg'.filling
      /\ radio' \in Radios
  BY <1>1, <1>2, TransmitOK DEF EnterSending, Inv, TypeOK
<1>4. QueueOK(queue')
  <2>1. Unsent(u) \in Events  BY DEF Unsent, Events, Results
  <2> QED  BY <2>1, PostOK, ZeroIsId DEF EnterSending
<1>5. timer' \in BOOLEAN /\ st' = "SENDING_UL"
  BY DEF EnterSending, StartTimer, KeepTimer, Inv, TypeOK
<1> QED
  BY <1>3, <1>4, <1>5 DEF Inv, TypeOK, SendsWhatWasFilled, States, dlVars, joinVars, cfgVars

LEMMA ParallelTimeoutInv == Inv /\ ParallelTimeout => Inv'
<1> SUFFICES ASSUME Inv, ParallelTimeout PROVE Inv'  OBVIOUS
<1>1. QueueOK(Rest) /\ running \ SelectedParallel \in SUBSET Mods /\ st = "GETTING_PARALLEL_MODS"
  BY RestOK DEF ParallelTimeout, Handling, Inv, TypeOK
<1>2. CASE EnterIdle(Rest, running \ SelectedParallel)
  BY <1>1, <1>2, EnterIdleInv
<1>3. CASE ~EnterIdle(Rest, running \ SelectedParallel)
  <2>1. PICK u \in {txmsg} \cup Filled(txmsg) : EnterSending(Rest, u)
    BY <1>3 DEF ParallelTimeout
  <2> QED  BY <1>1, <1>3, <2>1, EnterSendingInv DEF ParallelTimeout
<1> QED  BY <1>2, <1>3

LEMMA SendingTimeoutInv == Inv /\ SendingTimeout => Inv'
BY RestOK, EnterIdleInv DEF SendingTimeout, Handling, Inv, TypeOK

LEMMA SendingNextInv == Inv /\ SendingNext => Inv'
<1> SUFFICES ASSUME Inv, SendingNext PROVE Inv'  OBVIOUS
<1>1. QueueOK(Rest) /\ running \in SUBSET Mods /\ st = "SENDING_UL"
  BY RestOK DEF SendingNext, Handling, Inv, TypeOK
<1>2. CASE EnterIdle(Rest, running)  BY <1>1, <1>2, EnterIdleInv
<1>3. CASE ~EnterIdle(Rest, running)
  <2>1. /\ txmsg' \in ULs
        /\ txmsg'.txing \in 0 .. txmsg'.filling
        /\ radio' \in Radios
    BY <1>3, TransmitOK DEF SendingNext, Inv, TypeOK
  <2> QED
    BY <1>1, <1>3, <2>1 DEF SendingNext, Inv, TypeOK, SendsWhatWasFilled, StartTimer,
       dlVars, joinVars, cfgVars
<1> QED  BY <1>2, <1>3

LEMMA SendingOverInv == Inv /\ SendingOver => Inv'
BY RestOK, EnterIdleInv DEF SendingOver, Handling, Inv, TypeOK

LEMMA SendingFatalInv == Inv /\ SendingFatal => Inv'
BY DownInv DEF SendingFatal, Off

\* What the actions of a downlink may do to the uplink set and to the PROM.
LEMMA AnsweredOK ==
  ASSUME NEW u \in ULs, NEW v \in Answered(u)
  PROVE  v \in ULs /\ v.txing = u.txing /\ u.filling <= v.filling
<1>1. CASE v = u  BY <1>1 DEF ULs, Msgs
<1>2. CASE v # u
  <2>1. PICK f \in {u.filling, u.filling + 1} \cap Msgs :
          v = [u EXCEPT !.filling = f, !.answers = @ \cup {f}]
    BY <1>2 DEF Answered
  <2>2. v = [filling |-> f, txing |-> u.txing, answers |-> u.answers \cup {f}]
    BY <2>1 DEF ULs
  <2> QED  BY <2>1, <2>2, BoundAssumption DEF ULs, Msgs
<1> QED  BY <1>1, <1>2

LEMMA WrittenOK ==
  ASSUME NEW p \in Proms, NEW ks, NEW v \in Proms
  PROVE  /\ Written(p, ks, v) \in Proms
         /\ ks = {} => Written(p, ks, v).mask = p.mask /\ Written(p, ks, v).noIdle = p.noIdle
BY DEF Written, Proms

LEMMA StockClearedOK ==
  ASSUME NEW p \in Proms, NEW m
  PROVE  /\ StockCleared(p, m) \in Proms
         /\ StockCleared(p, m).dlId = p.dlId
         /\ StockCleared(p, m).notStock = IF m.reboot = "stock" THEN 0 ELSE p.notStock
         /\ StockCleared(p, m).mask = p.mask
         /\ StockCleared(p, m).noIdle = p.noIdle
BY DEF StockCleared, Proms

LEMMA ChangedOK ==
  ASSUME NEW p, NEW q
  PROVE  /\ Changed(p, q) \subseteq OwnKeys
         /\ "dlId" \notin Changed(p, q) => q.dlId = p.dlId
         /\ "notStock" \notin Changed(p, q) => q.notStock = p.notStock
BY DEF Changed, OwnKeys

\* What the actions of a downlink do to the keys that the core writes itself,
\* as far as the record of what users changed does not say otherwise.
LEMMA PromAfterOK ==
  ASSUME NEW p \in Proms, NEW m \in Downlinks, NEW a \in SUBSET OwnKeys
  PROVE  /\ PromAfter(p, m) \in Proms
         /\ AsideAfter(a, p, m) \subseteq OwnKeys
         /\ "dlId" \notin AsideAfter(a, p, m) =>
              "dlId" \notin a /\ PromAfter(p, m).dlId = p.dlId
         /\ "notStock" \notin AsideAfter(a, p, m) =>
              IF m.reboot = "stock" THEN PromAfter(p, m).notStock = 0
              ELSE "notStock" \notin a /\ PromAfter(p, m).notStock = p.notStock
         /\ m.keys = {} => PromAfter(p, m).mask = p.mask /\ PromAfter(p, m).noIdle = p.noIdle
<1> DEFINE start == IF m.setLast THEN StockCleared(p, m) ELSE p
           wrote == Written(start, m.keys, m.val)
           final == IF m.setLast THEN wrote ELSE StockCleared(wrote, m)
           own   == Changed(start, wrote)
           clear == IF m.reboot = "stock" THEN {"notStock"} ELSE {}
<1>1. m.val \in Proms  BY DEF Downlinks
<1>2. PromAfter(p, m) = final  BY DEF PromAfter
<1>3. AsideAfter(a, p, m) = IF m.setLast THEN (a \ clear) \cup own ELSE (a \cup own) \ clear
  BY DEF AsideAfter
<1>4. /\ start \in Proms /\ start.dlId = p.dlId
      /\ start.mask = p.mask /\ start.noIdle = p.noIdle
      /\ start.notStock = IF m.setLast /\ m.reboot = "stock" THEN 0 ELSE p.notStock
  BY StockClearedOK
<1> HIDE DEF start
<1>5. /\ wrote \in Proms
      /\ m.keys = {} => wrote.mask = p.mask /\ wrote.noIdle = p.noIdle
  BY <1>1, <1>4, WrittenOK
<1>6. /\ own \subseteq OwnKeys
      /\ "dlId" \notin own => wrote.dlId = p.dlId
      /\ "notStock" \notin own => wrote.notStock = start.notStock
  BY <1>4, ChangedOK
<1> HIDE DEF wrote, own
<1>7. /\ final \in Proms /\ final.dlId = wrote.dlId
      /\ final.mask = wrote.mask /\ final.noIdle = wrote.noIdle
      /\ final.notStock = IF ~m.setLast /\ m.reboot = "stock" THEN 0 ELSE wrote.notStock
  BY <1>5, StockClearedOK
<1> HIDE DEF final
<1>8. CASE m.setLast  BY <1>2, <1>3, <1>4, <1>5, <1>6, <1>7, <1>8
<1>9. CASE ~m.setLast  BY <1>2, <1>3, <1>4, <1>5, <1>6, <1>7, <1>9
<1> QED  BY <1>8, <1>9

\* The configuration a downlink leaves in the PROM and in the core.
LEMMA ExecuteDLOK ==
  ASSUME Inv, ExecuteDL
  PROVE  /\ prom' \in Proms /\ modsMask' \subseteq Ids /\ noIdle' \in BOOLEAN
         /\ done' \in 0 .. 15 /\ lastDLId' \in 0 .. 15 /\ aside' \subseteq OwnKeys
         /\ \/ /\ UNCHANGED <<done, lastDLId>>
               /\ "dlId" \notin aside' => "dlId" \notin aside /\ prom'.dlId = prom.dlId
            \/ done' = rxmsg.id /\ lastDLId' = rxmsg.id /\ prom'.dlId = rxmsg.id
         /\ notStockMode' = IF rxmsg.msg.reboot = "stock" THEN 0 ELSE notStockMode
         /\ "notStock" \notin aside' =>
              IF rxmsg.msg.reboot = "stock" THEN prom'.notStock = 0
              ELSE "notStock" \notin aside /\ prom'.notStock = prom.notStock
         /\ \/ modsMask' = prom'.mask /\ noIdle' = prom'.noIdle
            \/ UNCHANGED <<modsMask, noIdle>> /\ prom'.mask = prom.mask /\ prom'.noIdle = prom.noIdle
<1> DEFINE m == rxmsg.msg
           p == PromAfter(prom, m)
           a == AsideAfter(aside, prom, m)
<1>1. /\ prom \in Proms /\ m \in Downlinks /\ rxmsg.id \in 0 .. 15
      /\ aside \in SUBSET OwnKeys /\ done \in 0 .. 15 /\ lastDLId \in 0 .. 15
      /\ modsMask \subseteq Ids /\ noIdle \in BOOLEAN
  BY DEF Inv, TypeOK
<1>2. /\ p \in Proms /\ a \subseteq OwnKeys
      /\ "dlId" \notin a => "dlId" \notin aside /\ p.dlId = prom.dlId
      /\ "notStock" \notin a =>
           IF m.reboot = "stock" THEN p.notStock = 0
           ELSE "notStock" \notin aside /\ p.notStock = prom.notStock
      /\ m.keys = {} => p.mask = prom.mask /\ p.noIdle = prom.noIdle
  BY <1>1, PromAfterOK
<1>3. /\ prom' = IF Recorded THEN [p EXCEPT !.dlId = rxmsg.id] ELSE p
      /\ lastDLId' = IF Recorded THEN rxmsg.id ELSE lastDLId
      /\ aside' = IF Recorded THEN a \ {"dlId"} ELSE a
      /\ done' = IF Recorded THEN rxmsg.id ELSE done
      /\ notStockMode' = IF m.reboot = "stock" THEN 0 ELSE notStockMode
      /\ IF m.keys = {} THEN UNCHANGED <<modsMask, noIdle>>
                        ELSE modsMask' = p.mask /\ noIdle' = p.noIdle
  BY DEF ExecuteDL, Recorded, ReadBack
<1> HIDE DEF p, a, m
<1>4. /\ prom' \in Proms
      /\ prom'.dlId = IF Recorded THEN rxmsg.id ELSE p.dlId
      /\ prom'.notStock = p.notStock /\ prom'.mask = p.mask /\ prom'.noIdle = p.noIdle
  BY <1>1, <1>2, <1>3 DEF Proms
<1>5. p.mask \subseteq Ids /\ p.noIdle \in BOOLEAN
  BY <1>2 DEF Proms
<1>6. CASE Recorded  BY <1>1, <1>2, <1>3, <1>4, <1>5, <1>6 DEF m
<1>7. CASE ~Recorded  BY <1>1, <1>2, <1>3, <1>4, <1>5, <1>7 DEF m
<1> QED  BY <1>6, <1>7

LEMMA HandleRxInv == Inv /\ HandleRx => Inv'
<1> SUFFICES ASSUME Inv, HandleRx PROVE Inv'  OBVIOUS
<1>1. QueueOK(Rest) /\ st \in {"IDLE", "SENDING_UL"}
  BY RestOK DEF HandleRx, HandlingRx, Handling, Inv, TypeOK
<1>2. CASE Fresh
  <2>1. ExecuteDL /\ rxmsg.msg \in Downlinks /\ rxmsg.id \in 0 .. 15
    BY <1>2 DEF HandleRx, Inv, TypeOK
  <2>2. QueueOK(queue')
    BY <1>1, <2>1, PostOK DEF ExecuteDL, Events
  <2>3. txmsg' \in ULs /\ txmsg'.txing = txmsg.txing /\ txmsg.filling <= txmsg'.filling
    BY <2>1, AnsweredOK DEF ExecuteDL, Inv, TypeOK, ULs, Msgs
  <2>4. /\ prom' \in Proms /\ modsMask' \subseteq Ids /\ noIdle' \in BOOLEAN
        /\ done' \in 0 .. 15 /\ lastDLId' \in 0 .. 15 /\ aside' \subseteq OwnKeys
    BY <2>1, ExecuteDLOK
  <2>5. doReboot' \in BOOLEAN /\ notStockMode' \in {0, 1}
    BY <2>1 DEF ExecuteDL, Inv, TypeOK
  <2>6. TypeOK'
    BY <1>1, <2>2, <2>3, <2>4, <2>5 DEF HandleRx, Inv, TypeOK, envVars
  <2>7. SendsWhatWasFilled'
    BY <1>1, <2>3 DEF HandleRx, Inv, TypeOK, SendsWhatWasFilled, ULs, Msgs
  <2> QED  BY <2>6, <2>7 DEF Inv
<1>3. CASE ~Fresh
  BY <1>1, <1>3 DEF HandleRx, Inv, TypeOK, SendsWhatWasFilled, envVars
<1> QED  BY <1>2, <1>3

LEMMA CrashInDLInv == Inv /\ CrashInDL => Inv'
<1> SUFFICES ASSUME Inv, CrashInDL PROVE Inv'  OBVIOUS
<1>1. rxmsg.msg \in Downlinks /\ prom \in Proms /\ aside \in SUBSET OwnKeys /\ done \in 0 .. 15
  BY DEF Inv, TypeOK
<1>2. PromAfter(prom, rxmsg.msg) \in Proms /\ AsideAfter(aside, prom, rxmsg.msg) \subseteq OwnKeys
  BY <1>1, PromAfterOK
<1> QED  BY <1>1, <1>2, DownRamInv DEF CrashInDL, Off

LEMMA DefaultEventInv == Inv /\ DefaultEvent => Inv'
BY RestOK, ExecutorStepInv DEF DefaultEvent, Inv, TypeOK

\* The executor and the surroundings.
LEMMA TimerFiresInv == Inv /\ TimerFires => Inv'
<1> SUFFICES ASSUME Inv, TimerFires PROVE Inv'  OBVIOUS
<1>1. queue' = Post(queue, "TIMEOUT", 0)  BY DEF TimerFires, Post
<1>2. QueueOK(queue')  BY <1>1, PostOK, ZeroIsId DEF Inv, TypeOK, Events
<1> QED  BY <1>2, ExecutorStepInv DEF TimerFires

\* An event is sent, and at most the receive buffer and the radio change.
LEMMA SendInv ==
  ASSUME Inv, NEW e \in Events, NEW a \in {-1} \cup Ids, Send(e, a),
         rxmsg' \in [id : 0 .. 15, msg : Downlinks], radio' \in Radios
  PROVE  Inv'
<1>1. QueueOK(queue')  BY PostOK DEF Send, Inv, TypeOK
<1> QED
  BY <1>1 DEF Send, Inv, TypeOK, SendsWhatWasFilled, cycleVars, joinVars, cfgVars

LEMMA SurroundingsInv == Inv /\ Surroundings => Inv'
<1> SUFFICES ASSUME Inv, Surroundings PROVE Inv'  OBVIOUS
<1>1. ASSUME NEW i \in Mods, ModuleDone(i) PROVE Inv'
  BY <1>1, SendInv, ModuleAssumption DEF ModuleDone, Events, Inv, TypeOK
<1>2. ASSUME NEW a \in Forcers, ForceUL(a) PROVE Inv'
  BY <1>2, SendInv, ModuleAssumption DEF ForceUL, Events, Inv, TypeOK
<1>3. ASSUME NEW e \in {"JOIN_OK", "JOIN_FAIL"}, JoinAnswered(e) PROVE Inv'
  <2>1. radio' \in Radios  BY <1>3 DEF JoinAnswered, Inv, TypeOK, Radios
  <2> QED  BY <1>3, <2>1, SendInv, ZeroIsId DEF JoinAnswered, Events, Inv, TypeOK
<1>4. ASSUME NEW e \in Results \ {"NO_TX"}, SendAnswered(e) PROVE Inv'
  <2>1. radio' \in Radios  BY <1>4, BoundAssumption DEF SendAnswered, Inv, TypeOK, Radios
  <2> QED  BY <1>4, <2>1, SendInv, ZeroIsId DEF SendAnswered, Events, Inv, TypeOK
<1>5. ASSUME NEW m \in DLs, Received(m) PROVE Inv'
  <2>1. m \in Downlinks /\ m.id \in 0 .. 15  BY BoundAssumption DEF Downlinks
  <2>2. radio' \in Radios /\ rxmsg' \in [id : 0 .. 15, msg : Downlinks]
    BY <1>5, <2>1 DEF Received, Inv, TypeOK, Radios
  <2>3. CASE m.good  BY <1>5, <2>2, <2>3, SendInv, ZeroIsId DEF Received, Events
  <2>4. CASE ~m.good
    <3>1. UNCHANGED <<smVars, cycleVars, lastDLId, doReboot, joinVars, cfgVars, consoleActive>>
      BY <1>5, <2>4 DEF Received
    <3>2. TypeOK'
      BY <2>2, <3>1 DEF Inv, TypeOK, smVars, cycleVars, joinVars, cfgVars
    <3>3. st' = st /\ txmsg' = txmsg  BY <3>1 DEF smVars, cycleVars
    <3> QED  BY <3>2, <3>3 DEF Inv, SendsWhatWasFilled
  <2> QED  BY <2>3, <2>4
<1>6. ASSUME ConsoleInput PROVE Inv'
  BY <1>6 DEF ConsoleInput, Inv, TypeOK, SendsWhatWasFilled, smVars, cycleVars, dlVars,
     joinVars, cfgVars
<1>7. ASSUME ConsoleRun PROVE Inv'
  <2>1. QueueOK(queue')  BY <1>7, PostOK DEF ConsoleRun, Events, Inv, TypeOK
  <2>2. TypeOK'
    BY <1>7, <2>1 DEF ConsoleRun, Inv, TypeOK, cycleVars, dlVars, joinVars, cfgVars
  <2>3. st' = st /\ txmsg' = txmsg  BY <1>7 DEF ConsoleRun, cycleVars
  <2> QED  BY <2>2, <2>3 DEF Inv, SendsWhatWasFilled
<1>8. ASSUME ConsoleReset PROVE Inv'  BY <1>8, DownInv DEF ConsoleReset
<1>9. ASSUME NEW k \in CfgKeys, NEW v \in Configs, ConsoleConfig(k, v) PROVE Inv'
  <2>1. prom' \in Proms  BY <1>9, WrittenOK, ModuleAssumption DEF ConsoleConfig, Inv, TypeOK
  <2>2. aside' \subseteq OwnKeys  BY <1>9, ChangedOK DEF ConsoleConfig, Inv, TypeOK
  <2>3. modsMask' \subseteq Ids /\ noIdle' \in BOOLEAN
    BY <1>9, <2>1 DEF ConsoleConfig, ReadBack, Proms
  <2> QED
    BY <1>9, <2>1, <2>2, <2>3 DEF ConsoleConfig, Inv, TypeOK, SendsWhatWasFilled, smVars,
       cycleVars, dlVars, joinVars, envVars
<1>10. ASSUME Crash PROVE Inv'  BY <1>10, DownInv DEF Crash, Off
<1>11. ASSUME CrashInDL PROVE Inv'  BY <1>11, CrashInDLInv
<1> QED
  BY <1>1, <1>2, <1>3, <1>4, <1>5, <1>6, <1>7, <1>8, <1>9, <1>10, <1>11 DEF Surroundings

LEMMA HandleInv == Inv /\ Handle => Inv'
BY StartupTimeoutInv, StartupForceULInv, TryJoinTimeoutInv, TryJoinOkInv, TryJoinFailInv,
   StockTimeoutInv, WaitJoinRetryTimeoutInv, IdleTimeoutStayInv, IdleTimeoutWakeInv,
   IdleForceULInv, SerialModuleDoneInv, SerialTimeoutInv, ParallelTimeoutInv,
   SendingTimeoutInv, SendingNextInv, SendingOverInv, SendingFatalInv, HandleRxInv,
   DefaultEventInv
DEF Handle

LEMMA InitInv == Init => Inv
<1> SUFFICES ASSUME Init PROVE Inv  OBVIOUS
<1>1. NoDL \in Downlinks  BY NoDLOK
<1>2. EmptySet \in ULs /\ QuietRadio \in Radios
  BY BoundAssumption DEF EmptySet, QuietRadio, Msgs, ULs, Radios
<1>3. prom \in Proms
  BY ModuleAssumption DEF Init
<1>4. serialIdx \in {-1} \cup Mods
  BY ModuleAssumption DEF Init, Mods
<1>5. rxmsg \in [id : 0 .. 15, msg : Downlinks]
  BY <1>1 DEF Init
<1>6. TypeOK
  BY <1>2, <1>3, <1>4, <1>5, EmptyOK DEF Init, BootDLId, TypeOK, Off
<1>7. SendsWhatWasFilled
  BY DEF Init, SendsWhatWasFilled
<1> QED  BY <1>6, <1>7 DEF Inv

LEMMA NextInv == Inv /\ [Next]_vars => Inv'
<1>1. Inv /\ UNCHANGED vars => Inv'
  BY DEF vars, Inv, TypeOK, SendsWhatWasFilled, smVars, cycleVars, dlVars, joinVars, cfgVars,
     envVars
<1> QED  BY <1>1, BootInv, HandleInv, TimerFiresInv, SurroundingsInv DEF Next

THEOREM Invariance == Spec => []Inv
BY InitInv, NextInv, PTL DEF Spec

\* The core's variables keep their ranges, for every table of modules.
THEOREM TypeCorrect == Spec => []TypeOK
BY Invariance, PTL DEF Inv

\* Only messages that were filled reach the radio (SENDING_UL and tryTX).
THEOREM OnlyFilledIsSent == Spec => []SendsWhatWasFilled
BY Invariance, PTL DEF Inv

----------------------------------------------------------------------------
(* The device never goes quiet for good.  The invariant needs no other:    *)
(* a handler starts the timer, or sends an event of the new state to a     *)
(* queue that has room because the handled event has just left it.         *)

LEMMA TimeoutHandled ==
  ASSUME NEW s \in States
  PROVE  "TIMEOUT" \in Handles[s] \ {"LORA_RX"}
BY DEF Handles, States

LEMMA SentHandled ==
  /\ "FORCE_UL" \in Handles["STARTUP"] \cap Handles["IDLE"]
  /\ "JOIN_OK" \in Handles["TRY_JOIN"] /\ "JOIN_FAIL" \in Handles["TRY_JOIN"]
  /\ "MODULE_DONE" \in Handles["GETTING_SERIAL_MODS"]
  /\ Results \subseteq Handles["SENDING_UL"]
BY DEF Handles, States

\* With the timer running, or the device off, there is nothing to show.
LEMMA TimerWakes == timer' = TRUE \/ st' \in Off => WakeupPending'
BY DEF WakeupPending, On, States, Off

LEMMA DownWakes ==
  ASSUME NEW s \in Off, DownRam(s)
  PROVE  WakeupPending'
BY TimerWakes DEF DownRam

LEMMA RebootWakes == Reboot => WakeupPending'
BY DownWakes DEF Reboot, Down, Off

\* A handler that sends the new state an event it handles.
LEMMA PostWakes ==
  ASSUME NEW q, QueueOK(q), Len(q) < QMax, NEW e, NEW a,
         queue' = Post(q, e, a), e \in Handles[st'] \ {"LORA_RX"}
  PROVE  WakeupPending'
BY PostedIsPending DEF WakeupPending

LEMMA EnterTryJoinWakes ==
  ASSUME NEW q, QueueOK(q), Len(q) < QMax, EnterTryJoin(q)
  PROVE  WakeupPending'
<1>1. CASE Reboot  BY <1>1, RebootWakes
<1>2. CASE StartTimer  BY <1>2, TimerWakes DEF StartTimer
<1>3. CASE st' = "TRY_JOIN" /\ \E e \in {"JOIN_OK", "JOIN_FAIL"} : queue' = Post(q, e, 0)
  BY <1>3, PostWakes, SentHandled
<1> QED  BY <1>1, <1>2, <1>3 DEF EnterTryJoin

LEMMA EnterWaitJoinRetryWakes ==
  ASSUME NEW q, EnterWaitJoinRetry(q)
  PROVE  WakeupPending'
BY RebootWakes, TimerWakes DEF EnterWaitJoinRetry, StartTimer

LEMMA EnterIdleWakes ==
  ASSUME NEW q, QueueOK(q), Len(q) < QMax, NEW r, EnterIdle(q, r)
  PROVE  WakeupPending'
<1>1. CASE Reboot  BY <1>1, RebootWakes
<1>2. CASE StartTimer  BY <1>2, TimerWakes DEF StartTimer
<1>3. CASE st' = "IDLE" /\ queue' = Post(q, "FORCE_UL", -1)
  BY <1>3, PostWakes, SentHandled
<1> QED  BY <1>1, <1>2, <1>3 DEF EnterIdle, Sleep

LEMMA EnterSerialWakes ==
  ASSUME NEW q, QueueOK(q), Len(q) < QMax, EnterSerial(q)
  PROVE  WakeupPending'
BY PostWakes, SentHandled DEF EnterSerial

LEMMA EnterParallelWakes ==
  ASSUME NEW q, QueueOK(q), Len(q) < QMax, NEW r, EnterParallel(q, r)
  PROVE  WakeupPending'
<1>1. CASE StartTimer  BY <1>1, TimerWakes DEF StartTimer
<1>2. CASE st' = "GETTING_PARALLEL_MODS" /\ queue' = Post(q, "TIMEOUT", 0)
  BY <1>2, PostWakes, TimeoutHandled DEF States
<1> QED  BY <1>1, <1>2 DEF EnterParallel

LEMMA EnterSendingWakes ==
  ASSUME NEW q, QueueOK(q), Len(q) < QMax, NEW u, EnterSending(q, u)
  PROVE  WakeupPending'
<1>1. CASE StartTimer  BY <1>1, TimerWakes DEF StartTimer
<1>2. CASE st' = "SENDING_UL" /\ queue' = Post(q, Unsent(u), 0)
  <2>1. Unsent(u) \in Results \ {"LORA_RX"}  BY DEF Unsent, Results
  <2> QED  BY <1>2, <2>1, PostWakes, SentHandled
<1> QED  BY <1>1, <1>2 DEF EnterSending

LEMMA StartNextSerialWakes ==
  ASSUME NEW q, QueueOK(q), Len(q) < QMax, NEW r, StartNextSerial(q, r)
  PROVE  WakeupPending'
BY EnterParallelWakes, TimerWakes DEF StartNextSerial, StartTimer

LEMMA SerialDoneWakes ==
  ASSUME QueueOK(Rest), Len(Rest) < QMax, NEW d, SerialDone(d)
  PROVE  WakeupPending'
BY EnterParallelWakes, StartNextSerialWakes DEF SerialDone

\* Every handler.
LEMMA HandleWakes == Inv /\ WakeupPending /\ Handle => WakeupPending'
<1> SUFFICES ASSUME Inv, WakeupPending, Handle PROVE WakeupPending'  OBVIOUS
<1>1. QueueOK(queue)  BY DEF Inv, TypeOK
<1>2. ASSUME queue # <<>> PROVE QueueOK(Rest) /\ Len(Rest) < QMax
  BY <1>1, <1>2, RestOK
<1>3. CASE StartupTimeout
  <2>1. CASE StartTimer  BY <2>1, TimerWakes DEF StartTimer
  <2>2. CASE st' = "STARTUP" /\ queue' = Post(Rest, "FORCE_UL", -1)
    BY <1>2, <1>3, <2>2, PostWakes, SentHandled DEF StartupTimeout, Handling
  <2> QED  BY <1>3, <2>1, <2>2 DEF StartupTimeout, Handling
<1>4. CASE StartupForceUL
  BY <1>2, <1>4, EnterTryJoinWakes, TimerWakes DEF StartupForceUL, Handling, EnterStock, StartTimer
<1>5. CASE TryJoinTimeout
  <2>1. st' = "TRY_JOIN" /\ queue' = Post(Rest, "JOIN_FAIL", 0)
    BY <1>5 DEF TryJoinTimeout, Handling
  <2> QED  BY <1>2, <1>5, <2>1, PostWakes, SentHandled DEF TryJoinTimeout, Handling
<1>6. CASE TryJoinOk
  BY <1>2, <1>6, EnterSerialWakes DEF TryJoinOk, Handling
<1>7. CASE TryJoinFail
  BY <1>7, EnterWaitJoinRetryWakes, TimerWakes DEF TryJoinFail, EnterStock, StartTimer
<1>8. CASE StockTimeout
  BY <1>8, DownWakes DEF StockTimeout, Down, Off
<1>9. CASE WaitJoinRetryTimeout
  BY <1>2, <1>9, EnterTryJoinWakes DEF WaitJoinRetryTimeout, Handling
<1>10. CASE IdleTimeoutStay
  BY <1>10, TimerWakes DEF IdleTimeoutStay, StartTimer
<1>11. CASE IdleTimeoutWake
  BY <1>2, <1>11, EnterSerialWakes DEF IdleTimeoutWake, Handling
<1>12. CASE IdleForceUL
  BY <1>2, <1>12, EnterSerialWakes DEF IdleForceUL, Handling
<1>13. CASE SerialModuleDone
  BY <1>2, <1>13, SerialDoneWakes DEF SerialModuleDone, Handling
<1>14. CASE SerialTimeout
  BY <1>2, <1>14, SerialDoneWakes, EnterParallelWakes DEF SerialTimeout, Handling
<1>15. CASE ParallelTimeout
  BY <1>2, <1>15, EnterIdleWakes, EnterSendingWakes DEF ParallelTimeout, Handling
<1>16. CASE SendingTimeout
  BY <1>2, <1>16, EnterIdleWakes DEF SendingTimeout, Handling
<1>17. CASE SendingNext
  BY <1>2, <1>17, EnterIdleWakes, TimerWakes DEF SendingNext, Handling, StartTimer
<1>18. CASE SendingOver
  BY <1>2, <1>18, EnterIdleWakes DEF SendingOver, Handling
<1>19. CASE SendingFatal
  BY <1>19, DownWakes DEF SendingFatal, Down, Off
<1>20. CASE HandleRx
  <2>1. queue # <<>> /\ Head(queue).ev = "LORA_RX" /\ timer' = timer /\ st' = st
    BY <1>20 DEF HandleRx, HandlingRx, Handling
  <2>2. CASE timer  BY <2>1, <2>2 DEF WakeupPending, On
  <2>3. CASE On /\ Pending(queue, st)
    <3>1. Pending(Rest, st)  BY <1>1, <2>1, <2>3, RestKeepsPending
    <3>2. queue' = Rest \/ queue' = Post(Rest, "FORCE_UL", -1)
      BY <1>20 DEF HandleRx, ExecuteDL
    <3>3. Pending(queue', st)  BY <1>2, <2>1, <3>1, <3>2, PostKeepsPending
    <3> QED  BY <2>1, <3>3 DEF WakeupPending
  <2> QED  BY <1>20, <2>1, <2>2, <2>3 DEF WakeupPending, On
<1>21. CASE DefaultEvent
  <2>1. CASE timer  BY <1>21, <2>1 DEF DefaultEvent, WakeupPending, On
  <2>2. CASE Pending(queue, st)
    <3>1. Pending(Rest, st)  BY <1>1, <1>21, <2>2, RestKeepsPending DEF DefaultEvent
    <3> QED  BY <1>21, <3>1 DEF DefaultEvent, WakeupPending
  <2> QED  BY <1>21, <2>1, <2>2 DEF DefaultEvent, WakeupPending
<1> QED
  BY <1>3, <1>4, <1>5, <1>6, <1>7, <1>8, <1>9, <1>10, <1>11, <1>12, <1>13, <1>14, <1>15, <1>16,
     <1>17, <1>18, <1>19, <1>20, <1>21 DEF Handle

\* The surroundings only add events, drop none and leave the timer alone.
LEMMA SendWakes ==
  ASSUME Inv, WakeupPending, NEW e, NEW a, Send(e, a)
  PROVE  WakeupPending'
<1>1. CASE timer  BY <1>1 DEF Send, WakeupPending, On
<1>2. CASE Pending(queue, st)
  <2>1. Pending(queue', st)  BY <1>2, PostKeepsPending DEF Send, Inv, TypeOK
  <2> QED  BY <2>1 DEF Send, WakeupPending
<1> QED  BY <1>1, <1>2 DEF Send, WakeupPending, On

LEMMA StutterWakes == WakeupPending /\ UNCHANGED smVars => WakeupPending'
BY DEF WakeupPending, On, smVars, Pending

LEMMA SurroundingsWakes == Inv /\ WakeupPending /\ Surroundings => WakeupPending'
<1> SUFFICES ASSUME Inv, WakeupPending, Surroundings PROVE WakeupPending'  OBVIOUS
<1>1. ASSUME NEW i \in Mods, ModuleDone(i) PROVE WakeupPending'
  BY <1>1, SendWakes DEF ModuleDone
<1>2. ASSUME NEW a \in Forcers, ForceUL(a) PROVE WakeupPending'
  BY <1>2, SendWakes DEF ForceUL
<1>3. ASSUME NEW e \in {"JOIN_OK", "JOIN_FAIL"}, JoinAnswered(e) PROVE WakeupPending'
  BY <1>3, SendWakes DEF JoinAnswered
<1>4. ASSUME NEW e \in Results \ {"NO_TX"}, SendAnswered(e) PROVE WakeupPending'
  BY <1>4, SendWakes DEF SendAnswered
<1>5. ASSUME NEW m \in DLs, Received(m) PROVE WakeupPending'
  BY <1>5, SendWakes, StutterWakes DEF Received
<1>6. ASSUME ConsoleRun PROVE WakeupPending'
  <2>1. CASE timer  BY <1>6, <2>1 DEF ConsoleRun, WakeupPending, On
  <2>2. CASE Pending(queue, st)
    <3>1. Pending(queue', st)  BY <1>6, <2>2, PostKeepsPending DEF ConsoleRun, Inv, TypeOK
    <3> QED  BY <1>6, <3>1 DEF ConsoleRun, WakeupPending
  <2> QED  BY <1>6, <2>1, <2>2 DEF ConsoleRun, UserConsole, WakeupPending
<1>7. ASSUME ConsoleReset PROVE WakeupPending'
  BY <1>7, DownWakes DEF ConsoleReset, Down
<1>8. ASSUME Crash PROVE WakeupPending'
  BY <1>8, DownWakes DEF Crash, Down, Off
<1>9. ASSUME CrashInDL PROVE WakeupPending'
  BY <1>9, DownWakes DEF CrashInDL, Off
<1>10. ASSUME NEW k \in CfgKeys, NEW v \in Configs, ConsoleConfig(k, v) PROVE WakeupPending'
  BY <1>10, StutterWakes DEF ConsoleConfig
<1>11. ASSUME ConsoleInput PROVE WakeupPending'
  BY <1>11, StutterWakes DEF ConsoleInput
<1> QED
  BY <1>1, <1>2, <1>3, <1>4, <1>5, <1>6, <1>7, <1>8, <1>9, <1>10, <1>11 DEF Surroundings

LEMMA TimerFiresWakes == Inv /\ WakeupPending /\ TimerFires => WakeupPending'
<1> SUFFICES ASSUME Inv, WakeupPending, TimerFires PROVE WakeupPending'  OBVIOUS
<1>1. CASE st \in States
  <2>1. queue' = Post(queue, "TIMEOUT", 0) /\ st' = st  BY DEF TimerFires, Post
  <2> QED
    BY <1>1, <2>1, PostWakes, TimeoutHandled DEF TimerFires, Inv, TypeOK
<1>2. CASE st \notin States
  BY <1>2 DEF TimerFires, WakeupPending, On
<1> QED  BY <1>1, <1>2

LEMMA NextWakes == Inv /\ WakeupPending /\ [Next]_vars => WakeupPending'
<1>1. Inv /\ WakeupPending /\ Boot => WakeupPending'
  BY TimerWakes DEF Boot, StartTimer
<1>2. WakeupPending /\ UNCHANGED vars => WakeupPending'
  BY StutterWakes DEF vars
<1> QED  BY <1>1, <1>2, HandleWakes, SurroundingsWakes, TimerFiresWakes DEF Next

\* In every reachable state of every configuration the timer runs or an event
\* the current state acts on is queued.
THEOREM NeverQuiet == Spec => []WakeupPending
<1>1. Init => WakeupPending  BY DEF Init, WakeupPending, On, States
<1> QED  BY <1>1, NextWakes, Invariance, PTL DEF Spec

----------------------------------------------------------------------------
(* A restart resumes from what was done.                                   *)

LEMMA DownResumes ==
  ASSUME NEW s \in Off, DownRam(s), "dlId" \notin aside' => BootDLId(prom') = done'
  PROVE  RestartResumes'
BY DEF DownRam, RestartResumes, On, Off, States

\* Most steps touch nothing of it.
LEMMA SameResumes ==
  ASSUME RestartResumes, On,
         UNCHANGED <<lastDLId, notStockMode, modsMask, noIdle, prom, done, aside>>
  PROVE  RestartResumes'
BY DEF RestartResumes, BootDLId

LEMMA DLIdKept == ASSUME NEW p, NEW q, q.dlId = p.dlId PROVE BootDLId(q) = BootDLId(p)
BY DEF BootDLId

LEMMA HandleRxResumes ==
  ASSUME Inv, RestartResumes, HandleRx
  PROVE  RestartResumes'
<1>0. On  BY DEF HandleRx, HandlingRx, Handling, On, States
<1>1. CASE ~Fresh  BY <1>0, <1>1, SameResumes DEF HandleRx
<1>2. CASE Fresh
  <2> DEFINE m == rxmsg.msg
  <2>1. ExecuteDL  BY <1>2 DEF HandleRx
  <2>2. "dlId" \notin aside' => BootDLId(prom') = done'
    <3>1. CASE done' = rxmsg.id /\ prom'.dlId = rxmsg.id
      BY <3>1 DEF BootDLId, Inv, TypeOK
    <3>2. CASE done' = done /\ ("dlId" \notin aside' => "dlId" \notin aside /\ prom'.dlId = prom.dlId)
      BY <3>2, DLIdKept DEF RestartResumes
    <3> QED  BY <2>1, <3>1, <3>2, ExecuteDLOK
  <2>3. lastDLId' = done'  BY <1>0, <2>1, ExecuteDLOK DEF RestartResumes
  <2>4. "notStock" \notin aside' => notStockMode' = prom'.notStock
    BY <1>0, <2>1, ExecuteDLOK DEF RestartResumes
  <2>5. modsMask' = prom'.mask /\ noIdle' = prom'.noIdle
    BY <1>0, <2>1, ExecuteDLOK DEF RestartResumes
  <2> QED  BY <2>2, <2>3, <2>4, <2>5 DEF RestartResumes
<1> QED  BY <1>1, <1>2

LEMMA OffResumes == ASSUME RestartResumes, NEW s \in Off, Down(s) PROVE RestartResumes'
BY DownResumes DEF Down, RestartResumes, BootDLId

LEMMA RebootResumes == RestartResumes /\ Reboot => RestartResumes'
BY OffResumes DEF Reboot, Off

\* Every way into IDLE, TRY_JOIN and WAIT_JOIN_RETRY reboots or leaves all of it.
LEMMA EnterResumes ==
  ASSUME RestartResumes, On, NEW q, NEW r,
         EnterTryJoin(q) \/ EnterWaitJoinRetry(q) \/ EnterIdle(q, r)
  PROVE  RestartResumes'
<1>1. CASE Reboot  BY <1>1, RebootResumes
<1>2. CASE UNCHANGED <<lastDLId, notStockMode, modsMask, noIdle, prom, done, aside>>
  BY <1>2, SameResumes
<1> QED
  BY <1>1, <1>2 DEF EnterTryJoin, EnterWaitJoinRetry, EnterIdle, Sleep, dlVars, joinVars, cfgVars

LEMMA HandleResumes == Inv /\ RestartResumes /\ Handle => RestartResumes'
<1> SUFFICES ASSUME Inv, RestartResumes, Handle PROVE RestartResumes'  OBVIOUS
<1>0. On
  BY DEF Handle, StartupTimeout, StartupForceUL, TryJoinTimeout, TryJoinOk, TryJoinFail,
     StockTimeout, WaitJoinRetryTimeout, IdleTimeoutStay, IdleTimeoutWake, IdleForceUL,
     SerialModuleDone, SerialTimeout, ParallelTimeout, SendingTimeout, SendingNext, SendingOver,
     SendingFatal, HandleRx, HandlingRx, DefaultEvent, Handling, On, States
<1>1. CASE TryJoinOk
  <2>1. /\ prom'.dlId = prom.dlId /\ prom'.notStock = 1
        /\ prom'.mask = prom.mask /\ prom'.noIdle = prom.noIdle
    BY <1>1 DEF TryJoinOk, Inv, TypeOK, Proms
  <2>2. BootDLId(prom') = BootDLId(prom)  BY <2>1, DLIdKept
  <2> QED  BY <1>0, <1>1, <2>1, <2>2 DEF TryJoinOk, RestartResumes, dlVars
<1>2. CASE HandleRx
  BY <1>2, HandleRxResumes
<1>3. CASE StockTimeout \/ SendingFatal
  BY <1>3, OffResumes DEF StockTimeout, SendingFatal, Off
<1>4. CASE StartupForceUL \/ TryJoinFail \/ WaitJoinRetryTimeout
  <2>1. CASE EnterTryJoin(Rest) \/ EnterWaitJoinRetry(Rest)
    BY <1>0, <2>1, EnterResumes
  <2>2. CASE UNCHANGED <<dlVars, joinVars, cfgVars>>
    BY <1>0, <2>2, SameResumes DEF dlVars, joinVars, cfgVars
  <2> QED  BY <1>4, <2>1, <2>2 DEF StartupForceUL, TryJoinFail, WaitJoinRetryTimeout
<1>5. CASE ParallelTimeout \/ SendingTimeout \/ SendingNext \/ SendingOver
  <2>1. ASSUME NEW r, EnterIdle(Rest, r) PROVE RestartResumes'
    BY <1>0, <2>1, EnterResumes
  <2>2. CASE UNCHANGED <<dlVars, joinVars, cfgVars>>
    BY <1>0, <2>2, SameResumes DEF dlVars, joinVars, cfgVars
  <2> QED
    BY <1>5, <2>1, <2>2 DEF ParallelTimeout, SendingTimeout, SendingNext, SendingOver
<1>6. CASE StartupTimeout \/ TryJoinTimeout \/ IdleTimeoutStay \/ IdleTimeoutWake \/ IdleForceUL
           \/ SerialModuleDone \/ SerialTimeout \/ DefaultEvent
  <2>1. UNCHANGED <<dlVars, joinVars, cfgVars>>
    BY <1>6 DEF StartupTimeout, TryJoinTimeout, IdleTimeoutStay, IdleTimeoutWake, IdleForceUL,
       SerialModuleDone, SerialTimeout, DefaultEvent
  <2> QED  BY <1>0, <2>1, SameResumes DEF dlVars, joinVars, cfgVars
<1> QED  BY <1>1, <1>2, <1>3, <1>4, <1>5, <1>6 DEF Handle

LEMMA SurroundingsResumes == Inv /\ RestartResumes /\ Surroundings => RestartResumes'
<1> SUFFICES ASSUME Inv, RestartResumes, Surroundings PROVE RestartResumes'  OBVIOUS
<1>1. ASSUME NEW e, NEW a, On, Send(e, a) PROVE RestartResumes'
  BY <1>1, SameResumes DEF Send, joinVars, cfgVars
<1>2. ASSUME NEW m \in DLs, Received(m) PROVE RestartResumes'
  BY <1>1, <1>2, SameResumes DEF Received, joinVars, cfgVars
<1>3. ASSUME NEW k \in CfgKeys, NEW v \in Configs, ConsoleConfig(k, v) PROVE RestartResumes'
  <2>1. On /\ UNCHANGED <<st, lastDLId, notStockMode, done>>
    BY <1>3 DEF ConsoleConfig, UserConsole, smVars, dlVars, joinVars
  <2>2. aside' = aside \cup Changed(prom, prom') /\ modsMask' = prom'.mask /\ noIdle' = prom'.noIdle
    BY <1>3 DEF ConsoleConfig, ReadBack
  <2>3. "dlId" \notin aside' => BootDLId(prom') = done'
    BY <2>1, <2>2, ChangedOK, DLIdKept DEF RestartResumes
  <2>4. "notStock" \notin aside' => notStockMode' = prom'.notStock
    BY <2>1, <2>2, ChangedOK DEF RestartResumes
  <2> QED  BY <2>1, <2>2, <2>3, <2>4 DEF RestartResumes
<1>4. ASSUME ConsoleInput \/ ConsoleRun PROVE RestartResumes'
  BY <1>4, SameResumes
  DEF ConsoleInput, ConsoleRun, UserConsole, On, States, dlVars, joinVars, cfgVars
<1>5. ASSUME ConsoleReset \/ Crash PROVE RestartResumes'
  BY <1>5, OffResumes DEF ConsoleReset, Crash, Off
<1>6. ASSUME CrashInDL PROVE RestartResumes'
  <2>1. prom \in Proms /\ rxmsg.msg \in Downlinks /\ aside \in SUBSET OwnKeys
    BY DEF Inv, TypeOK
  <2>2. "dlId" \notin aside' => "dlId" \notin aside /\ prom'.dlId = prom.dlId
    BY <1>6, <2>1, PromAfterOK DEF CrashInDL
  <2>3. "dlId" \notin aside' => BootDLId(prom') = done'
    BY <1>6, <2>2, DLIdKept DEF CrashInDL, RestartResumes
  <2> QED  BY <1>6, <2>3, DownResumes DEF CrashInDL, Off
<1> QED
  BY <1>1, <1>2, <1>3, <1>4, <1>5, <1>6
  DEF Surroundings, ModuleDone, ForceUL, JoinAnswered, SendAnswered

LEMMA NextResumes == Inv /\ RestartResumes /\ [Next]_vars => RestartResumes'
<1>1. RestartResumes /\ Boot => RestartResumes'
  BY DEF Boot, BootDLId, RestartResumes
<1>2. RestartResumes /\ (TimerFires \/ UNCHANGED vars) => RestartResumes'
  BY DEF TimerFires, vars, smVars, dlVars, joinVars, cfgVars, RestartResumes, BootDLId, On
<1> QED  BY <1>1, <1>2, HandleResumes, SurroundingsResumes DEF Next

\* For every table of modules, every downlink and every configuration a user
\* writes: at every moment, also between the actions of a downlink, the PROM
\* holds the id of the last downlink carried out in full and the stock mode the
\* core goes by, until a user writes these keys; and the core works with the
\* PROM's mask and idle time, whoever wrote them.
THEOREM NothingLostByRestart == Spec => []RestartResumes
<1>1. Init => RestartResumes  BY DEF Init, RestartResumes, On, States
<1> QED  BY <1>1, NextResumes, Invariance, PTL DEF Spec

----------------------------------------------------------------------------
(* Where a user can be: at the UART in STARTUP, and at a module's console   *)
(* from the first collection on.  Until then no module runs.               *)

ConsoleAtStartup == consoleActive => st = "STARTUP"

BeforeModules == {"STARTUP", "TRY_JOIN", "WAIT_JOIN_RETRY", "STOCK"} \cup Off
NoneRunYet == st \in BeforeModules => running = {}

UserInv == ConsoleAtStartup /\ NoneRunYet

LEMMA DownUser == ASSUME NEW s \in Off, DownRam(s) PROVE UserInv'
BY DEF DownRam, UserInv, ConsoleAtStartup, NoneRunYet

LEMMA RebootUser == Reboot => UserInv'
BY DownUser DEF Reboot, Down, Off

\* Within a state, and on to one before the modules run ...
LEMMA SameUser ==
  ASSUME UserInv, UNCHANGED running, st' = st \/ (st \in BeforeModules /\ ~consoleActive'),
         consoleActive' => consoleActive \/ st = "STARTUP"
  PROVE  UserInv'
BY DEF UserInv, ConsoleAtStartup, NoneRunYet

\* ... and on to where they do.
LEMMA LaterUser ==
  ASSUME st' \notin BeforeModules, ~consoleActive'
  PROVE  UserInv'
BY DEF UserInv, ConsoleAtStartup, NoneRunYet

LEMMA IdleUser ==
  ASSUME NEW q, NEW r, EnterIdle(q, r), ~consoleActive
  PROVE  UserInv'
<1>1. CASE Reboot  BY <1>1, RebootUser
<1>2. CASE Sleep(q, r)  BY <1>2, LaterUser DEF Sleep, envVars, BeforeModules, Off
<1> QED  BY <1>1, <1>2 DEF EnterIdle

LEMMA HandleUser == UserInv /\ Handle => UserInv'
<1> SUFFICES ASSUME UserInv, Handle PROVE UserInv'  OBVIOUS
<1>0. ASSUME st # "STARTUP" PROVE ~consoleActive  BY <1>0 DEF UserInv, ConsoleAtStartup
<1>1. CASE StartupForceUL \/ WaitJoinRetryTimeout
  <2>1. st \in BeforeModules
    BY <1>1 DEF StartupForceUL, WaitJoinRetryTimeout, Handling, BeforeModules
  <2>2. CASE Reboot  BY <2>2, RebootUser
  <2>3. CASE UNCHANGED running /\ consoleActive' = FALSE
    BY <2>1, <2>3, SameUser
  <2> QED
    BY <1>1, <2>2, <2>3 DEF StartupForceUL, WaitJoinRetryTimeout, EnterTryJoin, cycleVars
<1>2. CASE TryJoinFail
  <2>1. st \in BeforeModules /\ ~consoleActive
    BY <1>0, <1>2 DEF TryJoinFail, Handling, BeforeModules
  <2>2. CASE Reboot  BY <2>2, RebootUser
  <2>3. CASE UNCHANGED running /\ UNCHANGED consoleActive
    BY <2>1, <2>3, SameUser
  <2> QED
    BY <1>2, <2>2, <2>3 DEF TryJoinFail, EnterWaitJoinRetry, EnterStock, cycleVars, envVars
<1>3. CASE StockTimeout \/ SendingFatal
  BY <1>3, DownUser DEF StockTimeout, SendingFatal, Down, Off
<1>4. CASE StartupTimeout \/ TryJoinTimeout \/ IdleTimeoutStay \/ HandleRx \/ DefaultEvent
  BY <1>4, SameUser
  DEF StartupTimeout, TryJoinTimeout, IdleTimeoutStay, HandleRx, DefaultEvent, cycleVars, envVars
<1>5. CASE TryJoinOk \/ IdleTimeoutWake \/ IdleForceUL
  <2>1. ~consoleActive
    BY <1>0, <1>5 DEF TryJoinOk, IdleTimeoutWake, IdleForceUL, Handling
  <2> QED
    BY <1>5, <2>1, LaterUser
    DEF TryJoinOk, IdleTimeoutWake, IdleForceUL, EnterSerial, envVars, BeforeModules, Off
<1>6. CASE SerialModuleDone \/ SerialTimeout
  <2>1. st = "GETTING_SERIAL_MODS" /\ ~consoleActive
    BY <1>0, <1>6 DEF SerialModuleDone, SerialTimeout, Handling
  <2>2. st' \in {"GETTING_SERIAL_MODS", "GETTING_PARALLEL_MODS"} /\ UNCHANGED consoleActive
    BY <1>6, <2>1
    DEF SerialModuleDone, SerialTimeout, SerialDone, StartNextSerial, EnterParallel, envVars
  <2> QED  BY <2>1, <2>2, LaterUser DEF BeforeModules, Off
<1>7. CASE ParallelTimeout \/ SendingTimeout \/ SendingNext \/ SendingOver
  <2>1. ~consoleActive
    BY <1>0, <1>7 DEF ParallelTimeout, SendingTimeout, SendingNext, SendingOver, Handling
  <2>2. ASSUME NEW r, EnterIdle(Rest, r) PROVE UserInv'
    BY <2>1, <2>2, IdleUser
  <2>3. CASE st' = "SENDING_UL" /\ UNCHANGED consoleActive
    BY <2>1, <2>3, LaterUser DEF BeforeModules, Off
  <2> QED
    BY <1>7, <2>2, <2>3
    DEF ParallelTimeout, SendingTimeout, SendingNext, SendingOver, EnterSending, Handling
<1> QED  BY <1>1, <1>2, <1>3, <1>4, <1>5, <1>6, <1>7 DEF Handle

LEMMA NextUser == Inv /\ UserInv /\ [Next]_vars => UserInv'
<1> SUFFICES ASSUME Inv, UserInv, [Next]_vars PROVE UserInv'  OBVIOUS
<1>1. CASE Handle  BY <1>1, HandleUser
<1>2. CASE Boot
  <2>1. st \in BeforeModules  BY <1>2 DEF Boot, On, Inv, TypeOK, BeforeModules
  <2> QED
    BY <1>2, <2>1 DEF Boot, cycleVars, envVars, UserInv, ConsoleAtStartup, NoneRunYet
<1>3. CASE ConsoleReset \/ Crash \/ CrashInDL
  BY <1>3, DownUser DEF ConsoleReset, Crash, CrashInDL, Down, Off
<1>4. CASE ConsoleInput \/ ConsoleRun
  BY <1>4, SameUser DEF ConsoleInput, ConsoleRun, smVars, cycleVars
<1>5. ASSUME NEW e, NEW a, Send(e, a) PROVE UserInv'
  BY <1>5, SameUser DEF Send, cycleVars
<1>6. CASE TimerFires \/ UNCHANGED vars
  BY <1>6, SameUser DEF TimerFires, vars, smVars, cycleVars, envVars
<1>7. ASSUME NEW k \in CfgKeys, NEW v \in Configs, ConsoleConfig(k, v) PROVE UserInv'
  BY <1>7, SameUser DEF ConsoleConfig, smVars, cycleVars, envVars
<1>8. ASSUME NEW m \in DLs, Received(m) PROVE UserInv'
  BY <1>5, <1>8, SameUser DEF Received, smVars, cycleVars
<1> QED
  BY <1>1, <1>2, <1>3, <1>4, <1>5, <1>6, <1>7, <1>8
  DEF Next, Surroundings, ModuleDone, ForceUL, JoinAnswered, SendAnswered

LEMMA UserWhere == Spec => []UserInv
<1>1. Init => UserInv  BY DEF Init, UserInv, ConsoleAtStartup, NoneRunYet
<1> QED  BY <1>1, NextUser, Invariance, PTL DEF Spec

----------------------------------------------------------------------------
(* The core implements Lifecycle: every step is a step of it or leaves the *)
(* phase, the membership, written down and gone by, and the uplinks on the *)
(* air as they are.                                                        *)

LEMMA DownLife ==
  ASSUME On, NEW s \in Off, DownRam(s),
         \/ prom'.notStock = prom.notStock
         \/ st \in {"IDLE", "SENDING_UL"} /\ prom'.notStock \in {0, 1}
  PROVE  Life!PowerDown
BY DEF On, States, Off, DownRam, QuietRadio, Phase, Life!PowerDown

LEMMA RebootLife == On /\ Reboot => Life!PowerDown
BY DownLife DEF Reboot, Down, Off

\* Steps within a state leave the phase alone.
LEMMA StayLife ==
  ASSUME st' = st, prom'.notStock = prom.notStock, UNCHANGED notStockMode, radio'.tx = radio.tx
  PROVE  UNCHANGED Life!vars
BY DEF Life!vars, Life!standing, Phase

LEMMA StartLife ==
  ASSUME Inv, st = "STARTUP",
         EnterTryJoin(Rest) \/ (EnterStock(Rest) /\ UNCHANGED <<prom, radio, notStockMode>>)
  PROVE  Life!Start \/ Life!PowerDown
<1>1. CASE Reboot  BY <1>1, RebootLife DEF On, States
<1>2. CASE /\ st' \in {"TRY_JOIN", "STOCK"}
           /\ UNCHANGED <<prom, notStockMode>> /\ radio'.tx = radio.tx
  BY <1>2 DEF Life!Start, Life!Move, Life!standing, Phase
<1>3. radio' = [radio EXCEPT !.join = TRUE] => radio'.tx = radio.tx
  BY DEF Inv, TypeOK, Radios
<1> QED  BY <1>1, <1>2, <1>3 DEF EnterTryJoin, EnterStock, joinVars, cfgVars

LEMMA TryAgainLife ==
  ASSUME Inv, st = "WAIT_JOIN_RETRY", EnterTryJoin(Rest)
  PROVE  Life!TryAgain \/ Life!PowerDown
<1>1. CASE Reboot  BY <1>1, RebootLife DEF On, States
<1>2. CASE st' = "TRY_JOIN" /\ UNCHANGED <<prom, notStockMode>> /\ radio'.tx = radio.tx
  BY <1>2 DEF Life!TryAgain, Life!Move, Life!standing, Phase
<1>3. radio' = [radio EXCEPT !.join = TRUE] => radio'.tx = radio.tx
  BY DEF Inv, TypeOK, Radios
<1> QED  BY <1>1, <1>2, <1>3 DEF EnterTryJoin, joinVars, cfgVars

LEMMA RefusedLife ==
  ASSUME TryJoinFail
  PROVE  Life!Refused \/ Life!PowerDown
<1>1. st = "TRY_JOIN" /\ On
  BY DEF TryJoinFail, Handling, On, States
<1>2. CASE Reboot  BY <1>1, <1>2, RebootLife
<1>3. CASE /\ st' = (IF notStockMode = 0 THEN "STOCK" ELSE "WAIT_JOIN_RETRY")
           /\ UNCHANGED <<prom, notStockMode, radio>>
  BY <1>1, <1>3 DEF Life!Refused, Life!Move, Life!standing, Phase
<1> QED
  BY <1>2, <1>3 DEF TryJoinFail, EnterStock, EnterWaitJoinRetry, joinVars, cfgVars, envVars

LEMMA SleepLife ==
  ASSUME st \in {"GETTING_PARALLEL_MODS", "SENDING_UL"}, NEW r, EnterIdle(Rest, r)
  PROVE  Life!GoToSleep \/ Life!PowerDown
<1>1. CASE Reboot  BY <1>1, RebootLife DEF On, States
<1>2. CASE Sleep(Rest, r)
  BY <1>2 DEF Sleep, Life!GoToSleep, Life!Move, Life!standing, Phase, joinVars, cfgVars, envVars
<1> QED  BY <1>1, <1>2 DEF EnterIdle

LEMMA TransmitLife ==
  ASSUME Inv, NEW u, Transmit(u)
  PROVE  radio'.tx = radio.tx + 1
BY DEF Transmit, Inv, TypeOK, Radios

LEMMA HandleLife ==
  ASSUME Inv, Handle
  PROVE  Life!Next \/ UNCHANGED Life!vars
<1> USE DEF Life!Next
<1>1. CASE StartupForceUL
  <2>1. st = "STARTUP"  BY <1>1 DEF StartupForceUL, Handling
  <2>2. EnterTryJoin(Rest) \/ (EnterStock(Rest) /\ UNCHANGED <<prom, radio, notStockMode>>)
    BY <1>1 DEF StartupForceUL, joinVars, cfgVars
  <2> QED  BY <2>1, <2>2, StartLife
<1>2. CASE TryJoinOk
  <2>1. prom'.notStock = 1 /\ notStockMode' = 1 /\ radio' = radio
    BY <1>2 DEF TryJoinOk, Inv, TypeOK, Proms, envVars
  <2>2. Life!Admitted
    BY <1>2, <2>1 DEF TryJoinOk, Handling, EnterSerial, Life!Admitted, Life!Move, Phase
  <2> QED  BY <2>2
<1>3. CASE TryJoinFail
  BY <1>3, RefusedLife
<1>4. CASE WaitJoinRetryTimeout
  BY <1>4, TryAgainLife DEF WaitJoinRetryTimeout, Handling
<1>5. CASE StockTimeout \/ SendingFatal
  <2>1. On /\ \E s \in Off : Down(s)
    BY <1>5 DEF StockTimeout, SendingFatal, Handling, On, States, Off
  <2> QED  BY <2>1, DownLife DEF Down
<1>6. CASE IdleTimeoutWake \/ IdleForceUL
  <2>1. Life!WakeUp
    BY <1>6 DEF IdleTimeoutWake, IdleForceUL, Handling, EnterSerial, Life!WakeUp, Life!Move,
       Life!standing, Phase, joinVars, cfgVars, envVars
  <2> QED  BY <2>1
<1>7. CASE SerialModuleDone \/ SerialTimeout
  <2>1. st = "GETTING_SERIAL_MODS" /\ UNCHANGED <<prom, notStockMode, radio>>
    BY <1>7 DEF SerialModuleDone, SerialTimeout, Handling, joinVars, cfgVars, envVars
  <2>2. st' \in {"GETTING_SERIAL_MODS", "GETTING_PARALLEL_MODS"}
    BY <1>7, <2>1 DEF SerialModuleDone, SerialTimeout, SerialDone, StartNextSerial, EnterParallel
  <2> QED  BY <2>1, <2>2 DEF Life!vars, Life!standing, Phase
<1>8. CASE ParallelTimeout
  <2>1. st = "GETTING_PARALLEL_MODS"  BY <1>8 DEF ParallelTimeout, Handling
  <2>2. CASE EnterIdle(Rest, running \ SelectedParallel)  BY <2>1, <2>2, SleepLife
  <2>3. CASE /\ UNCHANGED <<prom, notStockMode>>
             /\ \E u \in {txmsg} \cup Filled(txmsg) : EnterSending(Rest, u)
    <3>1. radio'.tx \in {radio.tx, radio.tx + 1} /\ st' = "SENDING_UL"
      BY <2>3, TransmitLife DEF EnterSending
    <3>2. Life!Report
      BY <2>1, <2>3, <3>1 DEF Life!Report, Life!Move, Life!standing, Phase
    <3> QED  BY <3>2
  <2> QED  BY <1>8, <2>2, <2>3 DEF ParallelTimeout, joinVars, cfgVars
<1>9. CASE SendingTimeout \/ SendingOver
  BY <1>9, SleepLife DEF SendingTimeout, SendingOver, Handling
<1>10. CASE SendingNext
  <2>1. st = "SENDING_UL"  BY <1>10 DEF SendingNext, Handling
  <2>2. CASE EnterIdle(Rest, running)  BY <2>1, <2>2, SleepLife
  <2>3. CASE Transmit(txmsg) /\ UNCHANGED <<st, prom, notStockMode>>
    <3>1. Life!Report
      BY <2>1, <2>3, TransmitLife DEF Life!Report, Life!Move, Life!standing, Phase
    <3> QED  BY <3>1
  <2> QED  BY <1>10, <2>2, <2>3 DEF SendingNext, joinVars, cfgVars
<1>11. CASE HandleRx
  <2>1. st \in {"IDLE", "SENDING_UL"} /\ st' = st /\ radio' = radio
    BY <1>11 DEF HandleRx, HandlingRx, Handling, envVars
  <2>2. prom'.notStock \in {0, 1}
    BY <1>11, HandleRxInv DEF Inv, TypeOK, Proms
  <2>3. notStockMode' = 0 \/ notStockMode' = notStockMode
    BY <1>11 DEF HandleRx, ExecuteDL
  <2>4. Life!Dismissed \/ Life!Configured
    BY <2>1, <2>2, <2>3 DEF Life!Dismissed, Life!Configured, Phase
  <2> QED  BY <2>4
<1>12. CASE StartupTimeout \/ TryJoinTimeout \/ IdleTimeoutStay \/ DefaultEvent
  <2>1. UNCHANGED <<st, prom, notStockMode, radio>>
    BY <1>12
    DEF StartupTimeout, TryJoinTimeout, IdleTimeoutStay, DefaultEvent, joinVars, cfgVars, envVars
  <2> QED  BY <2>1, StayLife
<1> QED
  BY <1>1, <1>2, <1>3, <1>4, <1>5, <1>6, <1>7, <1>8, <1>9, <1>10, <1>11, <1>12 DEF Handle

LEMMA SurroundingsLife ==
  ASSUME Inv, UserInv, Surroundings
  PROVE  Life!Next \/ UNCHANGED Life!vars
<1> USE DEF Life!Next
<1>1. ASSUME NEW i \in Mods, ModuleDone(i) PROVE UNCHANGED Life!vars
  BY <1>1, StayLife DEF ModuleDone, Send, joinVars, cfgVars
<1>2. ASSUME NEW a \in Forcers, ForceUL(a) PROVE UNCHANGED Life!vars
  BY <1>2, StayLife DEF ForceUL, Send, joinVars, cfgVars
<1>3. ASSUME NEW e \in {"JOIN_OK", "JOIN_FAIL"}, JoinAnswered(e) PROVE UNCHANGED Life!vars
  <2>1. radio'.tx = radio.tx  BY <1>3 DEF JoinAnswered, Inv, TypeOK, Radios
  <2> QED  BY <1>3, <2>1, StayLife DEF JoinAnswered, Send, joinVars, cfgVars
<1>4. ASSUME NEW e \in Results \ {"NO_TX"}, SendAnswered(e) PROVE Life!Answered
  <2>1. radio'.tx = radio.tx - 1 /\ radio.tx > 0
    BY <1>4 DEF SendAnswered, Inv, TypeOK, Radios
  <2> QED  BY <1>4, <2>1 DEF SendAnswered, Send, joinVars, cfgVars, Life!Answered, Life!standing, Phase
<1>5. ASSUME NEW m \in DLs, Received(m) PROVE UNCHANGED Life!vars
  <2>1. radio'.tx = radio.tx  BY <1>5 DEF Received, Inv, TypeOK, Radios
  <2> QED  BY <1>5, <2>1, StayLife DEF Received, Send, smVars, joinVars, cfgVars
<1>6. ASSUME ConsoleInput \/ ConsoleRun PROVE UNCHANGED Life!vars
  BY <1>6, StayLife DEF ConsoleInput, ConsoleRun, smVars, joinVars, cfgVars
<1>7. ASSUME NEW k \in CfgKeys, NEW v \in Configs, ConsoleConfig(k, v) PROVE Life!Configured
  <2>1. st \in States \ {"TRY_JOIN", "WAIT_JOIN_RETRY", "STOCK"}
    BY <1>7 DEF ConsoleConfig, UserConsole, On, UserInv, ConsoleAtStartup, NoneRunYet, BeforeModules
  <2>2. prom' \in Proms
    BY <1>7, WrittenOK, ModuleAssumption DEF ConsoleConfig, Inv, TypeOK
  <2>3. UNCHANGED <<st, notStockMode, radio>>
    BY <1>7 DEF ConsoleConfig, smVars, joinVars, envVars
  <2> QED  BY <2>1, <2>2, <2>3 DEF Proms, States, Life!Configured, Phase
<1>8. ASSUME ConsoleReset \/ Crash PROVE Life!PowerDown
  <2>1. On /\ \E s \in Off : Down(s)
    BY <1>8 DEF ConsoleReset, UserConsole, Crash, Off
  <2> QED  BY <2>1, DownLife DEF Down
<1>9. ASSUME CrashInDL PROVE Life!PowerDown
  <2>1. st \in {"IDLE", "SENDING_UL"} /\ DownRam("RESET")
    BY <1>9 DEF CrashInDL, HandlingRx, Handling
  <2>2. prom'.notStock \in {0, 1}
    BY <1>9, CrashInDLInv DEF Inv, TypeOK, Proms
  <2> QED  BY <2>1, <2>2, DownLife DEF On, States, Off
<1> QED
  BY <1>1, <1>2, <1>3, <1>4, <1>5, <1>6, <1>7, <1>8, <1>9 DEF Surroundings

LEMMA NextLife == Inv /\ UserInv /\ [Next]_vars => [Life!Next]_(Life!vars)
<1>1. Inv /\ Boot => Life!PowerOn
  BY DEF Boot, On, Inv, TypeOK, Off, envVars, Life!PowerOn, Life!Move, Phase
<1>2. TimerFires \/ UNCHANGED vars => UNCHANGED Life!vars
  BY StayLife DEF TimerFires, vars, smVars, joinVars, cfgVars, envVars
<1> QED
  BY <1>1, <1>2, HandleLife, SurroundingsLife DEF Next, Life!Next

\* The detailed core keeps the promises of Lifecycle, for every configuration.
THEOREM Refinement == Spec => ImplementsLifecycle
<1>1. Init => Life!Init
  BY InitInv DEF Inv, TypeOK, Proms, Init, Life!Init, Phase, QuietRadio
<1> QED
  BY <1>1, NextLife, Invariance, UserWhere, PTL DEF Spec, ImplementsLifecycle, Life!Spec

----------------------------------------------------------------------------
(* The core keeps its side of the uplink builder's promise.                *)

LEMMA EnterIdleAsks ==
  ASSUME NEW q, NEW r, EnterIdle(q, r)
  PROVE  Uplinks!Reset
BY DEF EnterIdle, Reboot, Sleep, Down, DownRam, EmptySet, Uplinks!Reset

LEMMA TransmitAsks ==
  ASSUME NEW u \in ULs, u.txing = txmsg.txing, Transmit(u)
  PROVE  txmsg'.txing = txmsg.txing + 1 /\ u.txing <= u.filling
BY BoundAssumption DEF Transmit, HasNext, NextMsg, Stepped, ULs, Msgs

LEMMA NextAsks ==
  ASSUME Inv, Next, txmsg'.txing # txmsg.txing
  PROVE  Uplinks!Reset \/ (txmsg.txing <= txmsg.filling /\ txmsg'.txing = txmsg.txing + 1)
<1>1. txmsg \in ULs  BY DEF Inv, TypeOK
<1>2. ASSUME NEW s, DownRam(s) PROVE Uplinks!Reset
  BY <1>2 DEF DownRam, EmptySet, Uplinks!Reset
<1>3. CASE Handle
  <2>1. CASE TryJoinOk  BY <2>1 DEF TryJoinOk, EmptySet, Uplinks!Reset
  <2>2. CASE StockTimeout \/ SendingFatal
    BY <1>2, <2>2 DEF StockTimeout, SendingFatal, Down
  <2>3. CASE ParallelTimeout
    <3>1. CASE EnterIdle(Rest, running \ SelectedParallel)  BY <3>1, EnterIdleAsks
    <3>2. CASE \E u \in {txmsg} \cup Filled(txmsg) : EnterSending(Rest, u)
      <4>1. PICK u \in {txmsg} \cup Filled(txmsg) : EnterSending(Rest, u)  BY <3>2
      <4>2. u \in ULs /\ u.txing = txmsg.txing  BY <1>1, FilledOK
      <4>3. txmsg'.txing = txmsg.txing + 1
        BY <4>1, <4>2, TransmitAsks DEF EnterSending, Stepped, ULs
      <4>4. txmsg.txing <= txmsg.filling
        BY <2>3, BoundAssumption
        DEF ParallelTimeout, Handling, Inv, TypeOK, SendsWhatWasFilled, ULs, Msgs
      <4> QED  BY <4>3, <4>4
    <3> QED  BY <2>3, <3>1, <3>2 DEF ParallelTimeout
  <2>4. CASE SendingNext
    BY <1>1, <2>4, EnterIdleAsks, TransmitAsks DEF SendingNext
  <2>5. CASE SendingTimeout \/ SendingOver
    BY <2>5, EnterIdleAsks DEF SendingTimeout, SendingOver
  <2>6. CASE StartupForceUL \/ TryJoinFail \/ WaitJoinRetryTimeout
    <3>1. CASE Reboot  BY <1>2, <3>1 DEF Reboot, Down
    <3>2. CASE UNCHANGED cycleVars  BY <3>2 DEF cycleVars
    <3> QED
      BY <2>6, <3>1, <3>2 DEF StartupForceUL, TryJoinFail, WaitJoinRetryTimeout, EnterTryJoin,
         EnterWaitJoinRetry
  <2>7. CASE SerialModuleDone \/ SerialTimeout
    BY <1>1, <2>7, FilledOK DEF SerialModuleDone, SerialTimeout, SerialDone
  <2>8. CASE HandleRx
    BY <1>1, <2>8, AnsweredOK DEF HandleRx, ExecuteDL
  <2>9. CASE StartupTimeout \/ TryJoinTimeout \/ IdleTimeoutStay \/ IdleTimeoutWake \/ IdleForceUL
             \/ DefaultEvent
    BY <2>9 DEF StartupTimeout, TryJoinTimeout, IdleTimeoutStay, IdleTimeoutWake, IdleForceUL,
       DefaultEvent, cycleVars
  <2> QED
    BY <1>3, <2>1, <2>2, <2>3, <2>4, <2>5, <2>6, <2>7, <2>8, <2>9 DEF Handle
<1>4. CASE Surroundings
  BY <1>2, <1>4
  DEF Surroundings, ModuleDone, ForceUL, JoinAnswered, SendAnswered, Received, Send, ConsoleInput,
      ConsoleRun, ConsoleReset, ConsoleConfig, Crash, CrashInDL, Down, cycleVars
<1>5. CASE Boot \/ TimerFires
  BY <1>5 DEF Boot, TimerFires, cycleVars
<1> QED  BY <1>3, <1>4, <1>5 DEF Next

\* The builder is asked for one message after the other and never again once
\* it has answered that there is none.
THEOREM AskedInOrder == Spec => AsksInOrder
<1>1. Inv /\ [Next]_vars =>
        [txmsg'.txing # txmsg.txing =>
           \/ Uplinks!Reset
           \/ txmsg.txing <= txmsg.filling /\ txmsg'.txing = txmsg.txing + 1]_vars
  BY NextAsks
<1> QED  BY <1>1, Invariance, PTL DEF Spec, AsksInOrder

----------------------------------------------------------------------------
(* The parallel modules are stopped, where no module offers a console.  The *)
(* mask and the request then stay as they are through the parallel phase:   *)
(* downlinks are executed in other states, and the UART console is only     *)
(* active in STARTUP.                                                       *)

\* What runs in the parallel phase is what will be stopped at its end.
OnlySelectedRun ==
  IF st = "GETTING_PARALLEL_MODS" THEN running \ Serial \subseteq SelectedParallel
  ELSE running \subseteq Serial

StopInv == ConsoleAtStartup /\ OnlySelectedRun

LEMMA DownStops == ASSUME NEW s \in Off, DownRam(s) PROVE StopInv'
BY DEF DownRam, StopInv, ConsoleAtStartup, OnlySelectedRun, Off

LEMMA RebootStops == Reboot => StopInv'
BY DownStops DEF Reboot, Down, Off

LEMMA OutsideStops ==
  ASSUME running' \subseteq Serial, st' # "GETTING_PARALLEL_MODS",
         consoleActive' => st' = "STARTUP"
  PROVE  StopInv'
BY DEF StopInv, ConsoleAtStartup, OnlySelectedRun

LEMMA SameStops ==
  ASSUME StopInv, UNCHANGED <<st, running, requested, modsMask>>, consoleActive' => consoleActive
  PROVE  StopInv'
BY DEF StopInv, ConsoleAtStartup, OnlySelectedRun, SelectedParallel, Selected

LEMMA IdleStops ==
  ASSUME NEW q, NEW r, r \subseteq Serial, ~consoleActive, EnterIdle(q, r)
  PROVE  StopInv'
<1>1. CASE doReboot  BY <1>1, RebootStops DEF EnterIdle
<1>2. CASE ~doReboot  BY <1>2, OutsideStops DEF EnterIdle, Sleep, envVars
<1> QED  BY <1>1, <1>2

LEMMA ParallelStarts ==
  ASSUME NEW q, NEW r, r \subseteq Serial, ~consoleActive, EnterParallel(q, r),
         UNCHANGED <<requested, modsMask, consoleActive>>
  PROVE  StopInv'
<1>1. PICK R \in SUBSET SelectedParallel : running' = r \cup R  BY DEF EnterParallel
<1>2. SelectedParallel' = SelectedParallel  BY DEF SelectedParallel, Selected
<1>3. running' \ Serial \subseteq SelectedParallel'  BY <1>1, <1>2
<1>4. st' = "GETTING_PARALLEL_MODS" /\ ~consoleActive'  BY DEF EnterParallel
<1> QED  BY <1>3, <1>4 DEF StopInv, ConsoleAtStartup, OnlySelectedRun

LEMMA SerialDoneStops ==
  ASSUME NEW d, running \subseteq Serial, st = "GETTING_SERIAL_MODS", ~consoleActive,
         SerialDone(d), UNCHANGED <<requested, modsMask, consoleActive>>
  PROVE  StopInv'
<1>1. ASSUME NEW r, r \subseteq Serial, StartNextSerial(Rest, r) PROVE StopInv'
  <2>1. CASE EnterParallel(Rest, r)  BY <1>1, <2>1, ParallelStarts
  <2>2. CASE \E i \in SelectedSerial : running' = r \cup {i} /\ UNCHANGED st
    BY <1>1, <2>2, OutsideStops DEF SelectedSerial
  <2> QED  BY <1>1, <2>1, <2>2 DEF StartNextSerial
<1>2. CASE EnterParallel(Rest, running)  BY <1>2, ParallelStarts
<1>3. CASE \E r \in SUBSET Serial : StartNextSerial(Rest, r)  BY <1>1, <1>3
<1> QED  BY <1>2, <1>3 DEF SerialDone

LEMMA HandleStops == StopInv /\ Handle => StopInv'
<1> SUFFICES ASSUME StopInv, Handle PROVE StopInv'  OBVIOUS
<1>0. ASSUME st # "STARTUP", st # "GETTING_PARALLEL_MODS"
      PROVE  ~consoleActive /\ running \subseteq Serial
  BY <1>0 DEF StopInv, ConsoleAtStartup, OnlySelectedRun
<1>1. CASE StartupTimeout \/ IdleTimeoutStay \/ TryJoinTimeout \/ DefaultEvent
  BY <1>1, SameStops DEF StartupTimeout, IdleTimeoutStay, TryJoinTimeout, DefaultEvent,
                         cycleVars, cfgVars, envVars
<1>2. ASSUME NEW q, st # "GETTING_PARALLEL_MODS", EnterTryJoin(q) PROVE StopInv'
  <2>1. CASE doReboot  BY <1>2, <2>1, RebootStops DEF EnterTryJoin
  <2>2. CASE ~doReboot
    BY <1>2, <2>2, OutsideStops DEF EnterTryJoin, cycleVars, StopInv, OnlySelectedRun
  <2> QED  BY <2>1, <2>2
<1>3. CASE StartupForceUL
  <2>1. st # "GETTING_PARALLEL_MODS"  BY <1>3 DEF StartupForceUL, Handling
  <2>2. CASE deviceConfigOk  BY <1>2, <1>3, <2>1, <2>2 DEF StartupForceUL
  <2>3. CASE ~deviceConfigOk
    BY <1>3, <2>1, <2>3, OutsideStops
    DEF StartupForceUL, EnterStock, cycleVars, StopInv, OnlySelectedRun
  <2> QED  BY <2>2, <2>3
<1>4. CASE TryJoinOk
  BY <1>0, <1>4, OutsideStops DEF TryJoinOk, Handling, EnterSerial, envVars
<1>5. CASE TryJoinFail
  <2>1. st = "TRY_JOIN"  BY <1>5 DEF TryJoinFail, Handling
  <2>2. CASE Reboot  BY <2>2, RebootStops
  <2>3. CASE ~Reboot
    BY <1>0, <1>5, <2>1, <2>3, OutsideStops
    DEF TryJoinFail, EnterStock, EnterWaitJoinRetry, cycleVars, envVars
  <2> QED  BY <2>2, <2>3
<1>6. CASE StockTimeout \/ SendingFatal
  BY <1>6, DownStops DEF StockTimeout, SendingFatal, Down, Off
<1>7. CASE WaitJoinRetryTimeout
  BY <1>2, <1>7 DEF WaitJoinRetryTimeout, Handling
<1>8. CASE IdleTimeoutWake \/ IdleForceUL
  <2>1. st = "IDLE"  BY <1>8 DEF IdleTimeoutWake, IdleForceUL, Handling
  <2> QED  BY <1>0, <1>8, <2>1, OutsideStops DEF IdleTimeoutWake, IdleForceUL, EnterSerial, envVars
<1>9. CASE SerialModuleDone \/ SerialTimeout
  <2>1. /\ st = "GETTING_SERIAL_MODS"
        /\ UNCHANGED <<requested, modsMask, consoleActive>>
        /\ (\E d : SerialDone(d)) \/ EnterParallel(Rest, running)
    BY <1>9 DEF SerialModuleDone, SerialTimeout, Handling, cfgVars, envVars
  <2>2. ~consoleActive /\ running \subseteq Serial  BY <1>0, <2>1
  <2>3. CASE EnterParallel(Rest, running)  BY <2>1, <2>2, <2>3, ParallelStarts
  <2>4. CASE \E d : SerialDone(d)  BY <2>1, <2>2, <2>4, SerialDoneStops
  <2> QED  BY <2>1, <2>3, <2>4
<1>10. CASE ParallelTimeout
  <2>1. st = "GETTING_PARALLEL_MODS"  BY <1>10 DEF ParallelTimeout, Handling
  <2>2. ~consoleActive /\ running \ SelectedParallel \subseteq Serial
    BY <2>1 DEF StopInv, ConsoleAtStartup, OnlySelectedRun
  <2>3. CASE EnterIdle(Rest, running \ SelectedParallel)  BY <2>2, <2>3, IdleStops
  <2>4. CASE /\ running' = running \ SelectedParallel
             /\ \E u : EnterSending(Rest, u)
             /\ UNCHANGED consoleActive
    BY <2>2, <2>4, OutsideStops DEF EnterSending
  <2> QED  BY <1>10, <2>3, <2>4 DEF ParallelTimeout
<1>11. CASE SendingTimeout \/ SendingNext \/ SendingOver
  <2>1. st = "SENDING_UL"  BY <1>11 DEF SendingTimeout, SendingNext, SendingOver, Handling
  <2>2. ~consoleActive /\ running \subseteq Serial  BY <1>0, <2>1
  <2>3. CASE EnterIdle(Rest, running)  BY <2>2, <2>3, IdleStops
  <2>4. CASE ~EnterIdle(Rest, running)
    BY <1>11, <2>1, <2>2, <2>4, OutsideStops DEF SendingTimeout, SendingNext, SendingOver
  <2> QED  BY <2>3, <2>4
<1>12. CASE HandleRx
  <2>1. st = "IDLE" \/ st = "SENDING_UL"  BY <1>12 DEF HandleRx, HandlingRx, Handling
  <2>2. UNCHANGED <<st, running, consoleActive>>  BY <1>12 DEF HandleRx, envVars
  <2> QED  BY <1>0, <2>1, <2>2, OutsideStops
<1> QED
  BY <1>1, <1>3, <1>4, <1>5, <1>6, <1>7, <1>8, <1>9, <1>10, <1>11, <1>12 DEF Handle

LEMMA NextStops ==
  ASSUME st = "GETTING_PARALLEL_MODS" => running \cap BLEConsoles = {},
         Inv, StopInv, [Next]_vars
  PROVE  StopInv'
<1>1. CASE UNCHANGED vars
  BY <1>1, SameStops DEF vars, smVars, cycleVars, cfgVars, envVars
<1>2. CASE Boot
  BY <1>2, OutsideStops DEF Boot, cycleVars, envVars, On, States, StopInv, OnlySelectedRun
<1>3. CASE Handle  BY <1>3, HandleStops
<1>4. CASE TimerFires  BY <1>4, SameStops DEF TimerFires, cycleVars, cfgVars, envVars
<1>5. CASE Surroundings
  <2>1. ASSUME NEW e, NEW a, Send(e, a) PROVE StopInv'
    BY <2>1, SameStops DEF Send, cycleVars, cfgVars
  <2>2. ASSUME NEW m, Received(m) PROVE StopInv'
    BY <2>1, <2>2, SameStops DEF Received, smVars, cycleVars, cfgVars
  <2>3. CASE ConsoleInput
    BY <2>3, SameStops DEF ConsoleInput, smVars, cycleVars, cfgVars, StopInv, ConsoleAtStartup,
                           OnlySelectedRun
  <2>4. CASE ConsoleRun
    BY <2>4, SameStops DEF ConsoleRun, smVars, cycleVars, cfgVars, envVars
  <2>5. CASE ConsoleReset \/ Crash \/ CrashInDL
    BY <2>5, DownStops DEF ConsoleReset, Crash, CrashInDL, Down, Off
  <2>6. CASE \E k \in CfgKeys, v \in Configs : ConsoleConfig(k, v)
    <3>1. st # "GETTING_PARALLEL_MODS"
      BY <2>6 DEF ConsoleConfig, UserConsole, StopInv, ConsoleAtStartup
    <3>2. UNCHANGED <<st, running, consoleActive>>
      BY <2>6 DEF ConsoleConfig, smVars, cycleVars, envVars
    <3> QED  BY <3>1, <3>2, OutsideStops DEF StopInv, ConsoleAtStartup, OnlySelectedRun
  <2>7. (\E e, a : Send(e, a)) \/ (\E m : Received(m)) \/ ConsoleInput
          \/ ConsoleRun
          \/ (ConsoleReset \/ Crash \/ CrashInDL)
          \/ \E k \in CfgKeys, v \in Configs : ConsoleConfig(k, v)
    BY <1>5 DEF Surroundings, ModuleDone, ForceUL, JoinAnswered, SendAnswered
  <2> QED  BY <2>1, <2>2, <2>3, <2>4, <2>5, <2>6, <2>7
<1> QED  BY <1>1, <1>2, <1>3, <1>4, <1>5 DEF Next

\* The parallel modules started in a cycle are all stopped in it, where no
\* module offers a console: for any mask, request, downlinks and reports.
THEOREM AllParallelStopped == ASSUME BLEConsoles = {} PROVE Spec => []ParallelStopped
<1>1. Init => StopInv  BY DEF Init, StopInv, ConsoleAtStartup, OnlySelectedRun
<1>2. Inv /\ StopInv /\ [Next]_vars => StopInv'  BY NextStops
<1>3. StopInv => ParallelStopped  BY DEF StopInv, OnlySelectedRun, ParallelStopped
<1> QED  BY <1>1, <1>2, <1>3, Invariance, PTL DEF Spec
----------------------------------------------------------------------------
(* Every event of its own brings a collection nearer to its end.  This is   *)
(* the part of CollectionEnds that the code has to see to; that events are  *)
(* handled, and timers fire, is fairness, and that there is one to handle   *)
(* is NeverQuiet.                                                           *)

Collecting == st \in {"GETTING_SERIAL_MODS", "GETTING_PARALLEL_MODS", "SENDING_UL"}

\* Serial modules to be tried, the parallel phase, messages to be sent.
ToDo ==
  CASE st = "GETTING_SERIAL_MODS"   -> MAX_NB + 1 + NMods - serialIdx
    [] st = "GETTING_PARALLEL_MODS" -> MAX_NB + 1
    [] OTHER                        -> MAX_NB - txmsg.txing

\* A collection's state handles an event that is meant for it.
OwnEvent == Handle /\ \E e \in Handles[st] \ {"LORA_RX"} : Handling(st, e)

Goes == Collecting /\ Collecting' => ToDo' <= ToDo /\ (OwnEvent => ToDo' < ToDo)

LEMMA ToDoIs ==
  Inv /\ Collecting =>
    /\ ToDo \in Nat
    /\ st = "GETTING_SERIAL_MODS" => ToDo > MAX_NB + 1
    /\ st = "GETTING_PARALLEL_MODS" => ToDo = MAX_NB + 1
    /\ st = "SENDING_UL" => ToDo < MAX_NB + 1
<1> SUFFICES ASSUME Inv, Collecting
             PROVE  /\ ToDo \in Nat
                    /\ st = "GETTING_SERIAL_MODS" => ToDo > MAX_NB + 1
                    /\ st = "GETTING_PARALLEL_MODS" => ToDo = MAX_NB + 1
                    /\ st = "SENDING_UL" => ToDo < MAX_NB + 1
  OBVIOUS
<1> USE ModuleAssumption, BoundAssumption
<1>1. serialIdx \in -1 .. NMods - 1
  BY DEF Inv, TypeOK, Mods
<1>2. ASSUME st = "SENDING_UL" PROVE txmsg.txing \in 0 .. MAX_NB - 1
  BY <1>2 DEF Inv, TypeOK, SendsWhatWasFilled, ULs, Msgs
<1>3. CASE st = "GETTING_SERIAL_MODS"
  BY <1>1, <1>3 DEF ToDo, Mods
<1>4. CASE st = "GETTING_PARALLEL_MODS"
  BY <1>4 DEF ToDo
<1>5. CASE st = "SENDING_UL"
  BY <1>2, <1>5 DEF ToDo
<1> QED
  BY <1>3, <1>4, <1>5 DEF Collecting

LEMMA ToDoNext ==
  ASSUME Inv', Collecting'
  PROVE  /\ ToDo' \in Nat
         /\ st' = "GETTING_PARALLEL_MODS" => ToDo' = MAX_NB + 1
         /\ st' = "SENDING_UL" => ToDo' < MAX_NB + 1
<1>1. (Inv /\ Collecting =>
         /\ ToDo \in Nat
         /\ st = "GETTING_SERIAL_MODS" => ToDo > MAX_NB + 1
         /\ st = "GETTING_PARALLEL_MODS" => ToDo = MAX_NB + 1
         /\ st = "SENDING_UL" => ToDo < MAX_NB + 1)'
  BY ToDoIs, PTL
<1> QED
  BY <1>1

LEMMA LaterState ==
  ASSUME Inv, Inv', Collecting, Collecting',
         \/ st = "GETTING_SERIAL_MODS" /\ st' # st
         \/ st = "GETTING_PARALLEL_MODS" /\ st' = "SENDING_UL"
  PROVE  ToDo' < ToDo
<1>1. /\ ToDo \in Nat
      /\ st = "GETTING_SERIAL_MODS" => ToDo > MAX_NB + 1
      /\ st = "GETTING_PARALLEL_MODS" => ToDo = MAX_NB + 1
  BY ToDoIs
<1>2. /\ ToDo' \in Nat
      /\ st' = "GETTING_PARALLEL_MODS" => ToDo' = MAX_NB + 1
      /\ st' = "SENDING_UL" => ToDo' < MAX_NB + 1
  BY ToDoNext
<1> QED
  BY <1>1, <1>2, BoundAssumption DEF Collecting

LEMMA SerialGoes ==
  ASSUME Inv, Inv', st = "GETTING_SERIAL_MODS", Collecting',
         \/ \E d : SerialDone(d)
         \/ EnterParallel(Rest, running)
  PROVE  ToDo' < ToDo
<1>1. CASE st' = "GETTING_PARALLEL_MODS"
  BY <1>1, LaterState DEF Collecting
<1>2. CASE st' # "GETTING_PARALLEL_MODS"
  <2>1. st' = st /\ \E i \in SelectedSerial : i > serialIdx /\ serialIdx' = i
    BY <1>2 DEF SerialDone, StartNextSerial, EnterParallel
  <2>2. serialIdx \in Int /\ serialIdx' \in Int /\ serialIdx' > serialIdx
    BY <2>1, ModuleAssumption DEF Inv, TypeOK, SelectedSerial, Mods
  <2>3. ToDo = MAX_NB + 1 + NMods - serialIdx /\ ToDo' = MAX_NB + 1 + NMods - serialIdx'
    BY <2>1 DEF ToDo
  <2>4. MAX_NB \in Int /\ NMods \in Int
    BY ModuleAssumption, BoundAssumption
  <2>5. \A m, n, i, j \in Int : j > i => m + 1 + n - j < m + 1 + n - i
    OBVIOUS
  <2>6. MAX_NB + 1 + NMods - serialIdx' < MAX_NB + 1 + NMods - serialIdx
    BY <2>2, <2>4, <2>5
  <2> QED
    BY <2>3, <2>6
<1> QED
  BY <1>1, <1>2

LEMMA SendingGoes ==
  ASSUME Inv, st = "SENDING_UL", SendingNext, Collecting'
  PROVE  ToDo' < ToDo
<1>1. ~ EnterIdle(Rest, running)
  BY DEF EnterIdle, Reboot, Down, DownRam, Sleep, Collecting
<1>2. st' = st /\ Transmit(txmsg)
  BY <1>1 DEF SendingNext
<1>3. txmsg.txing \in Int /\ txmsg'.txing = txmsg.txing + 1
  BY <1>2, TransmitAsks, BoundAssumption DEF Inv, TypeOK, ULs
<1>4. ToDo = MAX_NB - txmsg.txing /\ ToDo' = MAX_NB - txmsg'.txing
  BY <1>2 DEF ToDo
<1> QED
  BY <1>3, <1>4, BoundAssumption

\* What leaves the indices alone leaves as much to do.
LEMMA SameToDo ==
  ASSUME Inv, Collecting, UNCHANGED <<st, serialIdx, txmsg>>
  PROVE  ToDo' <= ToDo
BY ToDoIs DEF ToDo

LEMMA HandleGoes ==
  ASSUME Inv, Inv', Handle, Collecting, Collecting'
  PROVE  ToDo' <= ToDo /\ (OwnEvent => ToDo' < ToDo)
<1>1. ASSUME NEW q, NEW r PROVE ~ EnterIdle(q, r)
  BY DEF EnterIdle, Reboot, Down, DownRam, Sleep, Collecting, Off
<1>2. ToDo \in Nat /\ ToDo' \in Nat
  BY ToDoIs, ToDoNext
<1>3. CASE SerialModuleDone \/ SerialTimeout
  <2>1. ToDo' < ToDo
    BY <1>3, SerialGoes DEF SerialModuleDone, SerialTimeout, Handling
  <2> QED
    BY <1>2, <2>1
<1>4. CASE ParallelTimeout
  <2>1. st = "GETTING_PARALLEL_MODS" /\ st' = "SENDING_UL"
    BY <1>1, <1>4 DEF ParallelTimeout, EnterSending, Handling
  <2>2. ToDo' < ToDo
    BY <2>1, LaterState
  <2> QED
    BY <1>2, <2>2
<1>5. CASE SendingTimeout \/ SendingNext \/ SendingOver \/ SendingFatal
  <2>1. SendingNext /\ st = "SENDING_UL"
    BY <1>1, <1>5
    DEF SendingTimeout, SendingNext, SendingOver, SendingFatal, Handling, Down, DownRam, Collecting
  <2>2. ToDo' < ToDo
    BY <2>1, SendingGoes
  <2> QED
    BY <1>2, <2>2
<1>6. CASE HandleRx
  <2>1. st = "SENDING_UL" /\ st' = st /\ ~ OwnEvent
    BY <1>6 DEF HandleRx, HandlingRx, Handling, OwnEvent, Collecting
  <2>2. txmsg'.txing = txmsg.txing
    BY <1>6, AnsweredOK DEF HandleRx, ExecuteDL, Inv, TypeOK
  <2>3. ToDo' = ToDo
    BY <2>1, <2>2 DEF ToDo
  <2> QED
    BY <1>2, <2>1, <2>3
<1>7. CASE DefaultEvent
  <2>1. ~ OwnEvent
    BY <1>7 DEF DefaultEvent, OwnEvent, Handling
  <2>2. UNCHANGED <<st, serialIdx, txmsg>>
    BY <1>7 DEF DefaultEvent, cycleVars
  <2> QED
    BY <2>1, <2>2, SameToDo
<1>8. CASE \/ StartupTimeout \/ StartupForceUL \/ TryJoinTimeout \/ TryJoinOk \/ TryJoinFail
           \/ StockTimeout \/ WaitJoinRetryTimeout
           \/ IdleTimeoutStay \/ IdleTimeoutWake \/ IdleForceUL
  BY <1>8
  DEF StartupTimeout, StartupForceUL, TryJoinTimeout, TryJoinOk, TryJoinFail, StockTimeout,
      WaitJoinRetryTimeout, IdleTimeoutStay, IdleTimeoutWake, IdleForceUL, Handling, Collecting
<1> QED
  BY <1>3, <1>4, <1>5, <1>6, <1>7, <1>8 DEF Handle

\* Nothing else touches the indices, unless it switches the device off.
LEMMA OthersGo ==
  ASSUME Inv, Inv', Collecting, Collecting', Boot \/ TimerFires \/ Surroundings \/ UNCHANGED vars
  PROVE  ToDo' <= ToDo
<1>1. UNCHANGED <<st, serialIdx, txmsg>>
  <2>1. ASSUME NEW s \in Off PROVE ~ DownRam(s)
    BY <2>1 DEF DownRam, Collecting, Off
  <2>2. ~ Boot
    BY DEF Boot, On, States, Collecting
  <2>3. CASE TimerFires \/ UNCHANGED vars
    BY <2>3 DEF TimerFires, vars, smVars, cycleVars
  <2>4. CASE Surroundings
    BY <2>1, <2>4
    DEF Surroundings, ModuleDone, ForceUL, JoinAnswered, SendAnswered, Received, Send, ConsoleInput,
        ConsoleRun, ConsoleReset, ConsoleConfig, Crash, CrashInDL, Down, smVars, cycleVars,
        Off
  <2> QED
    BY <2>2, <2>3, <2>4
<1> QED
  BY <1>1, SameToDo

\* A collection of any number of modules and messages is bounded: what is left
\* to do never grows, whatever the modules, the radio and the users do, and
\* each timeout, report or send result that a collecting state handles makes it
\* less, unless it ends the collection.
THEOREM CollectionBounded == Spec => [][Goes]_vars
<1>1. Inv /\ Inv' /\ [Next]_vars => [Goes]_vars
  <2> SUFFICES ASSUME Inv, Inv', [Next]_vars, Collecting, Collecting'
               PROVE  ToDo' <= ToDo /\ (OwnEvent => ToDo' < ToDo)
    BY DEF Goes
  <2>1. CASE Handle
    BY <2>1, HandleGoes
  <2>2. CASE ~ Handle
    BY <2>2, OthersGo DEF Next, OwnEvent
  <2> QED
    BY <2>1, <2>2
<1> QED
  BY <1>1, Invariance, PTL DEF Spec
----------------------------------------------------------------------------
(* Serial modules run one at a time, but for the two ways out that the code *)
(* leaves open: a serial module at index 0, which counts as none, and a     *)
(* report that is not from the module awaited.                              *)

OneRuns ==
  IF st = "GETTING_SERIAL_MODS"
  THEN serialIdx # 0 /\ running \cap Serial \subseteq {serialIdx}
  ELSE running \cap Serial = {}

LEMMA DownRuns == ASSUME NEW s \in Off, DownRam(s) PROVE OneRuns'
BY DEF DownRam, OneRuns, Off

LEMMA NoneRuns ==
  ASSUME running' \cap Serial = {}, st' # "GETTING_SERIAL_MODS"
  PROVE  OneRuns'
BY DEF OneRuns

LEMMA SameRuns ==
  ASSUME OneRuns, UNCHANGED <<st, serialIdx, running>>
  PROVE  OneRuns'
BY DEF OneRuns

LEMMA IdleRuns ==
  ASSUME NEW q, NEW r, r \cap Serial = {}, EnterIdle(q, r)
  PROVE  OneRuns'
<1>1. CASE doReboot
  BY <1>1, DownRuns DEF EnterIdle, Reboot, Down, Off
<1>2. CASE ~ doReboot
  BY <1>2, NoneRuns DEF EnterIdle, Sleep
<1> QED
  BY <1>1, <1>2

LEMMA JoinRuns ==
  ASSUME NEW q, running \cap Serial = {}, EnterTryJoin(q) \/ EnterWaitJoinRetry(q)
  PROVE  OneRuns'
<1>1. CASE doReboot
  BY <1>1, DownRuns DEF EnterTryJoin, EnterWaitJoinRetry, Reboot, Down, Off
<1>2. CASE ~ doReboot
  BY <1>2, NoneRuns DEF EnterTryJoin, EnterWaitJoinRetry, cycleVars
<1> QED
  BY <1>1, <1>2

LEMMA ParallelRuns ==
  ASSUME NEW q, NEW r, r \cap Serial = {}, EnterParallel(q, r)
  PROVE  OneRuns'
<1>1. PICK R \in SUBSET SelectedParallel : running' = r \cup R
  BY DEF EnterParallel
<1>2. running' \cap Serial = {} /\ st' # "GETTING_SERIAL_MODS"
  BY <1>1 DEF EnterParallel, SelectedParallel
<1> QED
  BY <1>2, NoneRuns

\* The awaited module is stopped before the next is started.
LEMMA SerialDoneRuns ==
  ASSUME 0 \notin Serial, OneRuns, st = "GETTING_SERIAL_MODS", NEW d,
         serialIdx \in {-1} \cup Mods, serialIdx > 0 => d = ModId[serialIdx], SerialDone(d)
  PROVE  OneRuns'
<1>1. Serial \subseteq Mods /\ -1 \notin Mods
  BY ModuleAssumption DEF Mods
<1>2. PICK r : StartNextSerial(Rest, r) /\ r \cap Serial = {}
  <2>1. CASE serialIdx > 0
    BY <2>1 DEF SerialDone, OneRuns
  <2>2. CASE ~ serialIdx > 0
    <3>1. serialIdx = -1
      BY <2>2, ModuleAssumption DEF OneRuns, Mods
    <3> QED
      BY <1>1, <2>2, <3>1 DEF SerialDone, OneRuns
  <2> QED
    BY <2>1, <2>2
<1>3. CASE EnterParallel(Rest, r)
  BY <1>2, <1>3, ParallelRuns
<1>4. CASE \E i \in SelectedSerial : serialIdx' = i /\ running' = r \cup {i} /\ UNCHANGED st
  BY <1>2, <1>4 DEF OneRuns, SelectedSerial
<1> QED
  BY <1>2, <1>3, <1>4 DEF StartNextSerial

LEMMA HandleRuns ==
  ASSUME 0 \notin Serial, Inv, DoneIsAwaited, OneRuns, Handle
  PROVE  OneRuns'
<1>1. ASSUME st # "GETTING_SERIAL_MODS" PROVE running \cap Serial = {}
  BY <1>1 DEF OneRuns
<1>2. CASE StartupTimeout \/ TryJoinTimeout \/ IdleTimeoutStay \/ DefaultEvent \/ HandleRx
  BY <1>2, SameRuns
  DEF StartupTimeout, TryJoinTimeout, IdleTimeoutStay, DefaultEvent, HandleRx, cycleVars
<1>3. CASE StartupForceUL
  BY <1>1, <1>3, JoinRuns, NoneRuns DEF StartupForceUL, Handling, EnterStock, cycleVars
<1>4. CASE TryJoinFail
  BY <1>1, <1>4, JoinRuns, NoneRuns DEF TryJoinFail, Handling, EnterStock, cycleVars
<1>5. CASE StockTimeout \/ SendingFatal
  BY <1>5, DownRuns DEF StockTimeout, SendingFatal, Down, Off
<1>6. CASE WaitJoinRetryTimeout
  BY <1>1, <1>6, JoinRuns DEF WaitJoinRetryTimeout, Handling
<1>7. CASE TryJoinOk \/ IdleTimeoutWake \/ IdleForceUL
  <2>1. running' = running /\ running \cap Serial = {}
    BY <1>1, <1>7 DEF TryJoinOk, IdleTimeoutWake, IdleForceUL, Handling
  <2>2. st' = "GETTING_SERIAL_MODS" /\ serialIdx' = -1
    BY <1>7 DEF TryJoinOk, IdleTimeoutWake, IdleForceUL, EnterSerial
  <2> QED
    BY <2>1, <2>2 DEF OneRuns
<1>8. CASE SerialModuleDone \/ SerialTimeout
  <2>1. st = "GETTING_SERIAL_MODS" /\ serialIdx \in {-1} \cup Mods
    BY <1>8 DEF SerialModuleDone, SerialTimeout, Handling, Inv, TypeOK
  <2>2. CASE SerialModuleDone
    <3>1. SerialDone(Arg) /\ (serialIdx > 0 => Arg = ModId[serialIdx])
      BY <2>2 DEF SerialModuleDone, DoneIsAwaited
    <3> QED
      BY <2>1, <3>1, SerialDoneRuns
  <2>3. CASE SerialTimeout /\ serialIdx < 0
    <3>1. EnterParallel(Rest, running)
      BY <2>3 DEF SerialTimeout
    <3>2. serialIdx \notin Serial
      <4>1. serialIdx \notin Mods
        BY <2>3 DEF Mods
      <4> QED
        BY <4>1, ModuleAssumption
    <3>3. running \cap Serial = {}
      BY <2>1, <3>2 DEF OneRuns
    <3> QED
      BY <3>1, <3>3, ParallelRuns
  <2>4. CASE SerialTimeout /\ ~ serialIdx < 0
    BY <2>1, <2>4, SerialDoneRuns DEF SerialTimeout
  <2> QED
    BY <1>8, <2>2, <2>3, <2>4
<1>9. CASE ParallelTimeout
  <2>1. (running \ SelectedParallel) \cap Serial = {}
    BY <1>1, <1>9 DEF ParallelTimeout, Handling
  <2>2. CASE EnterIdle(Rest, running \ SelectedParallel)
    BY <2>1, <2>2, IdleRuns
  <2>3. CASE running' = running \ SelectedParallel /\ st' = "SENDING_UL"
    BY <2>1, <2>3, NoneRuns
  <2> QED
    BY <1>9, <2>2, <2>3 DEF ParallelTimeout, EnterSending
<1>10. CASE SendingTimeout \/ SendingNext \/ SendingOver
  <2>1. st = "SENDING_UL" /\ running \cap Serial = {}
    BY <1>1, <1>10 DEF SendingTimeout, SendingNext, SendingOver, Handling
  <2>2. CASE EnterIdle(Rest, running)
    BY <2>1, <2>2, IdleRuns
  <2>3. CASE UNCHANGED <<st, serialIdx, running>>
    BY <2>3, SameRuns
  <2> QED
    BY <1>10, <2>2, <2>3 DEF SendingTimeout, SendingNext, SendingOver
<1> QED
  BY <1>2, <1>3, <1>4, <1>5, <1>6, <1>7, <1>8, <1>9, <1>10 DEF Handle

LEMMA NextRuns ==
  ASSUME 0 \notin Serial, Inv, DoneIsAwaited, OneRuns, [Next]_vars
  PROVE  OneRuns'
<1>1. CASE UNCHANGED vars \/ TimerFires
  BY <1>1, SameRuns DEF vars, smVars, cycleVars, TimerFires
<1>2. CASE Boot
  BY <1>2, NoneRuns DEF Boot, On, States, cycleVars, OneRuns
<1>3. CASE Handle
  BY <1>3, HandleRuns
<1>4. CASE Surroundings
  <2>1. CASE ConsoleReset \/ Crash \/ CrashInDL
    BY <2>1, DownRuns DEF ConsoleReset, Crash, CrashInDL, Down, Off
  <2>2. CASE ~ (ConsoleReset \/ Crash \/ CrashInDL)
    <3>1. UNCHANGED <<st, serialIdx, running>>
      BY <1>4, <2>2
      DEF Surroundings, ModuleDone, ForceUL, JoinAnswered, SendAnswered, Received, Send,
          ConsoleInput, ConsoleRun, ConsoleConfig, smVars, cycleVars
    <3> QED
      BY <3>1, SameRuns
  <2> QED
    BY <2>1, <2>2
<1> QED
  BY <1>1, <1>2, <1>3, <1>4 DEF Next

\* README.md, GETTING-SERIAL: a serial module runs "when no other module is
\* also executing".  It does, for any modules, masks, requests, downlinks,
\* consoles and queue, as long as no serial module is registered first (the
\* test currentSerialModIdx > 0, app_core.c:733) and no other than the awaited
\* one is heard to be done (app_core.c:746).  So these are the only two ways in
\* which SerialExclusive fails.
THEOREM OneAtATime ==
  ASSUME 0 \notin Serial
  PROVE  Spec /\ []DoneIsAwaited => []SerialExclusive
<1>1. Init => OneRuns /\ StopInv
  BY DEF Init, OneRuns, StopInv, ConsoleAtStartup, OnlySelectedRun
<1>2. Inv /\ DoneIsAwaited /\ OneRuns /\ StopInv /\ [Next]_vars => OneRuns' /\ StopInv'
  <2> SUFFICES ASSUME Inv, DoneIsAwaited, OneRuns, StopInv, [Next]_vars
               PROVE  OneRuns' /\ StopInv'
    OBVIOUS
  <2>1. st = "GETTING_PARALLEL_MODS" => running \cap BLEConsoles = {}
    BY ModuleAssumption DEF OneRuns
  <2> QED
    BY <2>1, NextRuns, NextStops
<1>3. OneRuns /\ StopInv => SerialExclusive
  <2> SUFFICES ASSUME OneRuns, StopInv, NEW i \in running \cap Serial
               PROVE  running = {i}
    BY DEF SerialExclusive
  <2>1. st = "GETTING_SERIAL_MODS" /\ i = serialIdx
    BY DEF OneRuns
  <2>2. running \subseteq Serial
    BY <2>1 DEF StopInv, OnlySelectedRun
  <2> QED
    BY <2>1, <2>2 DEF OneRuns
<1> QED
  BY <1>1, <1>2, <1>3, Invariance, PTL DEF Spec
=============================================================================
