# A verification of the Wyres generic application

This directory models the generic application for Wyres LoRaWAN cards (C, Apache Mynewt) in TLA+.
The modules are translated from the code under `src/`, checked by TLC on small instances, and their
main properties are proved by TLAPS for every value of the constants. `PROJECT.json` maps each
definition to the lines it stands for, and each run to what it checks.

    tlasany AppCore.tla                              parse
    tlc -config MCAppCore.cfg MCAppCore.tla          model-check (the cfg of each run is listed below)
    tlapm AppCoreProofs.tla                          prove

## 1. The system

A card joins a LoRaWAN network and then repeats a cycle: it wakes, lets the registered modules
collect data (one by one if they share hardware, then all the others together), sends what they
produced in up to four uplink messages, executes the downlinks it received and sleeps. Everything
runs on one Mynewt event loop; callbacks of the radio, the GPS, the BLE card and the buttons reach
the state machine as queued events. The configuration is in PROM and survives resets.

| Component | Source | State it keeps | Operations |
|---|---|---|---|
| Application core | `app-core/src/app_core.c` | state, serial module index, requested module, active-module mask, join attempts, "not stock" flag, pending reboot, last downlink id, uplink set, downlink buffer | a handler per state and event; `AppCore_forceUL`, `AppCore_module_done`; radio callbacks; `executeDL` and the downlink actions |
| Uplink builder | `app_msg.c`, ul functions | sizes of the messages, the one being filled, the one being sent | init, add a block, force the next message, take the next message to send, step back, space left |
| Downlink decoder | `app_msg.c`, dl functions; `lora_rx_cb`, `executeDL` | the one receive buffer, the decoded header, the last id | receive, decode the header, walk the actions |
| AT console | `app_atcmds.c` | none of its own | list and set configuration, run, reset, go to stock, test commands for the radio |
| Registration and start-up | `app_init.c`, `app_core.c` | module and action tables | register, look up, start |
| GPS module | `mod_gps.c` | fix mode, fixes demanded, best fix, count of good fixes, failure flag | start, stop, deepsleep, getData, GPS callback, fix-GPS action |
| BLE tag scanner | `mod_ble_scan_tag.c` | table of beacons with first and last sighting and a `new` flag, error mask | start, stop, getData |
| BLE tag scanner for scanA hardware | `mod_ble_scanA_tag.c` | the same | the same |
| BLE proximity scanner | `mod_ble_scan_prox.c` | table of cards with first and last sighting, `new`, and a count of tellings; the best navigation beacons | the same |
| Environment module | `mod_env.c` | debug reports still due, time of the last full report; in the managers: event times, references | start, stop, getData, debug downlink |
| BLE navigation and alert scanners | `mod_ble_scan_nav.c`, `_alert.c` | best-of lists, tables kept by the BLE manager | the same calls |
| iBeacon, BLE console, button, production test | `mod_*.c` | a few flags | the same calls |
| Libraries | other repositories | state machine executor, configuration manager, radio API, timers, BLE and GPS managers | external |

How they interact. The core calls a module's `startCB`, then `getULDataCB` and `stopCB` when the
module's time is up or it has called `AppCore_module_done`. `getULDataCB` fills the uplink set
through the builder; modules run in turn, so how full the set is when one is asked depends on those
before it. A module or button can ask for a cycle (`AppCore_forceUL`); a downlink can change the
configuration (which calls the core back), demand a GPS fix, reboot, or send the device to stock.

What is hard here:

* *interleaving*: a module's own report races the timeout of its turn; the radio's answer races the
  core's timeout; a forced uplink races the idle timer. All of them are events in one queue, handled
  in a state that may no longer be the one they were meant for;
* *staleness*: indices, requests and flags outlive the cycle that set them; a send result belongs to
  a message of an earlier cycle; a fix, a failure or a count belongs to an earlier round; the core goes
  by copies of the configuration, some of which it renews at a boot only;
* *partial failure*: full queues drop events, a set without room truncates lists, a downlink stops in
  the middle of its actions;
* *restart*: a reset between a PROM write and the next; a reboot that is only a flag until some state
  looks at it;
* *progress*: every state must leave behind a running timer or an event it handles.

What makes each component correct:

* core: it never goes quiet; each collection, join attempt and sleep ends; an ordered reboot happens;
  a restart resumes from what was done; only filled messages are sent, in order; the modules started
  are stopped; it follows a simple life cycle;
* builder: arrays in bounds, end of set recognised, whole messages, honest space;
* decoder: what it executes is, action for action, what was received, whatever an earlier downlink left
  in the buffer;
* idling: it ends in time, whatever the card does and is told meanwhile;
* configuration written by downlinks and at the consoles: the core follows at once, or, for the two keys
  it writes itself, from the next boot on (`RestartResumes`, `Lifecycle`);
* GPS: ends early only for good fixes; reports only its own round; reports once; off while asleep;
* tag scanners: the backend's list of present tags stays that of the device, also while the BLE manager
  writes the table;
* proximity scanner: a contact is told of as begun before it counts as known, leaves the table only when
  told of as over, and does so in the end;
* environment: a change that got lost on the way is told of in the end, by the next uplink or by a full
  report.

## 2. The modules

| Module | What it is |
|---|---|
| `UplinkSet` | abstract: a numbered set of messages, filled upwards, handed over in order |
| `AppMsg` | the uplink builder; implements `UplinkSet` |
| `Lifecycle` | abstract: the phases of a device, its membership of a network as written down and as gone by, uplinks on the air |
| `AppCore` | the state machine with executor, radio, modules, PROM and console; implements `Lifecycle`, asks for messages as `UplinkSet` allows |
| `MCAppCore` | constants of `AppCore` for TLC |
| `ModuleRun` | abstract: a serial module reports at most once a start, while it runs |
| `Gps` | the GPS module; implements `ModuleRun` |
| `BleScanTag`, `MCBleScanTag` | the tag scanner, and its constants for TLC |
| `UplinkSpace` | the uplink set as a module sees it: how full it is, what fits, what a block or list does to it; `AppMsg` has it as `SeenByModules` |
| `BleScanATag` | the tag scanner for scanA hardware, pass by pass; extends `BleScanTag` |
| `BleScanProx` | the proximity scanner |
| `Env` | the environment module |
| `IdleTiming` | the arithmetic of the core's idle time, on numbers of finite width |
| `Downlink` | the receive buffer and the walk through the actions, byte by byte |
| `MCModules` | the five above (`BleScanATag` to `Downlink`) with constants for TLC, in one run |
| `AppMsgProofs`, `AppCoreProofs`, `GpsProofs`, `BleScanTagProofs` (both tag scanners), `BleScanProxProofs`, `EnvProofs`, `CoreDataProofs` (idle time and downlinks) | the theorems |
| `Recursion` | lemmas the proofs share: recursive functions exist, and induction over what they compute |

In every module a definition named `X_slip` (for instance `EnterIdle_noReboot`) is a wrong version
of `X` that nothing uses: putting it in the place of `X` must make TLC find the property violated
that guards against the mistake. `PROJECT.json` lists the pairs under `mutants`.

### AppMsg

`sz`, `filling`, `txing` are `msgs[i].sz`, `msgNbFilling` and `msbNbTxing`; one action per function.
`addTLV` and `addTLgetVP` change the sizes in the same way and are one action, `AddTLV`. A refused
block changes nothing and is no step. Payload bytes are left out. `sent` and `late` are history:
what the radio was given as message i, and which messages grew after their turn. Callers of
`prepareNextTx` stop after an empty answer (`tryTX` then leaves SENDING_UL), which is its guard.

The modules are modelled with the set as a value (`UplinkSpace`), because only their own turn at it
matters there. `View` is the builder's state as such a value, and `SeenByModules` says that the two
models agree: on every question, and on what a block, a forced switch and an initialisation do.

### AppCore

One action is one `case` of one `State_X` function together with the `SM_ENTER` of the state it goes
to, since the executor runs both without handling another event in between. Several choices need a
word:

* *Events* are a queue of length `QMax`; an event for which there is no room is lost, as in the
  executor, except the timer's own event.
* *Time* is abstract: an armed timer may fire at any moment, a test on elapsed time may go either
  way. Which interval a timer is given is left out; `nbJoinAttempts` stands for the choice between
  the short and the long wait to join.
* *A timer that was not restarted.* `app_core.c` enters some states without starting or stopping the
  timer. Whether the executor cancels the old one is not in this repository, so `KeepTimer` allows
  both, and the properties hold for both.
* *Modules* may ask for time or not each time they are started, add any number of blocks, and report
  done more than once while they run (the GPS and BLE modules have several such paths).
* *Downlinks* are records: do they decode, do all actions fit, what do the actions before the first
  one that does not fit do.
* *Configuration.* `prom` has the keys that the core's control depends on: the id of the last downlink
  (0406), the stock mode (0408), the mask of active modules (0404), whether the idle time is none (0401),
  and whether the join keys are set (0101, 0103). The set-configuration action of a downlink writes any
  of them, before or after a reboot action of the same downlink, and so do AT+SETCFG and AT+SETMODS
  (`ConsoleConfig`), with any value of `Configs`. After a write `configChangedCB` reads the mask and the
  idle time again (`ReadBack`), but neither the stock mode nor the id: of those the core works with
  its copies, `notStockMode` and `lastDLId`, until the next boot. So `app-core/README.md:87`, "0 = goto
  stock mode if JOIN fails", is true of the value found at the boot, not of one written since. A boot
  does not take an id above 15 (`BootDLId`). The number of quick attempts to join (040E) is read anew on
  each entry of WAIT_JOIN_RETRY, so there it is any number up to `MaxRapid`.
* *History.* `done` is the id of the last downlink that was carried out in full, `aside` the two keys the
  core writes itself as far as a user has changed them since. `RestartResumes` relates them to the PROM.
* *Resets* (`Crash`, `CrashInDL`) may come between any two steps, and inside `executeDL` between the
  actions and the write of the id.
* *Left out*: leds, low-power modes, logs, the actions that flash leds or set the time, the callbacks
  `ticCB` and `deepsleepCB` (the GPS module has its own), the test commands AT+JOIN, AT+TX and AT+RX.

### Gps

A fix is its precision. `core` is as much of the core as the module sees: waiting for it, after its
turn, asleep. `Abandon` is what `AppCore` found: the core can leave the serial phase on the stale
report of another module without stopping this one. A demand arrives only when the core is not
waiting for the module, because downlinks are executed when sending or idle. `round` is history: what
happened since the start of the round. The GPS manager is taken to be quiet after `gps_stop`. Movement
and the time since the last try may be anything. A `getData` without a new fix repeats the same
block; only the kind of report is kept. Precisions are taken to be valid (not negative).

### BleScanTag

An entry of the table is a tag, `new`, and `old` (not seen for the exit timeout). A tag's `Kind` is
what its major number says. `Pack` (of `UplinkSpace`, as for the other scanners) is the loop that reserves and fills blocks, the same three times
in the code; `Share` is the budget each list gets. The set is given in any of the states `Fills`, as
the modules before left it. `getData` is one step, followed by `stop`. How the BLE manager keeps the
table is external; the code once had its own version, which the `#if 0` block still shows, and the
model follows that. The values of the counts and the presence bits are left out, as are beacons
outside the range the scan asks for. `told` and `missed` are history.

### BleScanATag

The same table, with a `getData` of its own: its rules differ a little (a proximity card is an error
and removed; all lists are cut by the same percentage), and it is cut into the four passes the code
makes over the table, because the scan is stopped only afterwards. `SeeA` may come between them.
`now` is read once, before the first pass; `ahead` are the entries renewed in a later second, for which
`now - lastSeenAt` underflows, so that they look timed out in the exit pass. Whether the manager can
run between the passes is not in this repository; the properties hold either way.

### BleScanProx

An entry is a card, `new`, `old`, `signif` (seen for longer than the time that makes a contact) and
`cnt`, `inULCnt` of the code, which serves the tellings of the begin and of the end. It stays in a slot
that is freed early; whether the manager clears it when it fills the slot is left open. `getData` is one
step: the lists are filled with whoever is new and whoever is away, which is more than was counted.
Time (`ProxTimeout`, `ProxSignif`) passes between scans, which are shorter than any delay. `proxReport`
and `begun` are history. `NavBest` is the walk that keeps the best beacons.

### Env

`news` is what `getData` would find: for movement, falls, shocks, orientation and noise an event not
older than the last uplink, for the others a value that differs from the manager's reference. The
rest is an account of what the backend misses: `unknown` changed and has not arrived, `inSet` is the
part of it in the set being sent, `since` what changed after that set was filled, `passed` what another
uplink made look told of. `Sent`, `PassedOver`, `SendEnds` and `OtherUplink` are the core's SENDING_UL
as far as it matters. A block that does not fit is passed over, and its reference renewed all the same.

### IdleTiming

`dt` counts seconds since `idleStartTS`; the timer is exact. `idletimeS` and `Limit` are computed
modulo `Word`. The configuration changes at any time (`ConfigChanged`), unchecked, as do movement and
activity. `longest` and `sane` are history: the longest idle time configured since idling began, and
whether all of them were positive and fit `Word` in seconds.

### Downlink

`Walk[n]` is the loop of `execute` after n actions: the offset it is at, what it executed, and whether it
has given up (`TooLong`). `payload` is the buffer behind the two header bytes, which are `first` and `second`. The two fields that
follow it in the structure can be read by the walk, and are (`ByteAt`). A second downlink may arrive
before the first is executed. An action is its bytes; known and unknown ones are alike.

## 3. The runs

| Run | Configuration | Instance | Shows |
|---|---|---|---|
| `appmsg` | `AppMsg.cfg` | 3 messages of 9 bytes, blocks of 0, 1, 5, 6 | builder properties; implements `UplinkSet`; agrees with `UplinkSpace` |
| `modules` | `MCModules.cfg` | see below | the five smaller models, each by itself |
| `core_safety` | `MCAppCore.cfg` | 3 modules (1 parallel, 2 serial), 2 messages, queue of 2, crashes, a user at the UART | core safety; implements `Lifecycle` |
| `core_live` | `MCAppCoreLive.cfg` | 2 modules, a console module, no crashes | core liveness |
| `core_index0` | `MCAppCoreIndex0.cfg` | a serial module with index 0 | finding |
| `core_stale_done` | `MCAppCoreDone.cfg` | two serial modules, one of which reports | finding |
| `core_sticky` | `MCAppCoreSticky.cfg` | a button for one module | finding |
| `core_answers` | `MCAppCoreAnswers.cfg` | a downlink that asks for a key | finding |
| `gps` | `Gps.cfg` | 5 precisions around the threshold, all modes | GPS properties; implements `ModuleRun` |
| `gps_on_demand` | `GpsDemand.cfg` | the same | finding |
| `ble_tag` | `MCBleScanTag.cfg` | 7 tags of all kinds, 3 slots, 2 messages of 14 bytes | tag scanner properties |
| `ble_tag_lost_enter` | `MCBleScanTagLost.cfg` | the same | finding |

Why the bounds are enough. *Builder*: three messages are the first, a middle and the last one; with 9
bytes, of which 4 are header and tag, the lengths 0, 1, 5 and 6 are the empty block, one that shares
a message, one that fills it exactly and one that never fits. *Core*: three modules give a serial
module with a successor, a last serial one and a parallel one; a queue of two is the smallest that
holds a stale event with the expected one, and is often full; `MaxRapid` of 2 lets the attempt
counter pass its limit; one send on the air and one late is enough for a result to be mistaken. Masks
and forced modules select all or one. The device starts with either stock mode, and with an id that a boot
refuses; at the UART a user writes any key again, and the two downlinks between them write all but
the join keys: one of them the stock mode after its own reboot action has cleared it, the other clears the
stock mode and writes the id of the last downlink. So PROM and copy differ in both directions, in IDLE as well as on a refused join. The live run
has keys set or not, and idle times that are none or some. *GPS*: precisions below, at and above the threshold of 4,
so that averages of good and of poor fixes occur; two good fixes needed, so the counter passes
through all its cases. *Tags*: three enter/exit tags, so that an exit can take the place of another
in a message that holds two; more tags than slots; a set that is empty and one with little room left.
*Modules*: `part` says which of the five models a behaviour is of; they share no state, and the others
keep theirs, so one run checks each by itself. Both scanners have two slots, so that what is cut, freed
or renewed can be the first or the second entry, more tags of each kind than slots, and one set nearly
full. `nbULRepeats` of 1 makes each telling happen twice; `MAX_NAV` of 1 lets a better beacon replace
one, and beacons are equally or differently strong. The environment has one sensor with a time that is
in the full report, one with a time that is not, one with a reference; the fuller set has no room for
all blocks. Idle times are zero, small, and such that minutes times seconds overflows the word; `MaxIdle` is past
every limit that is not an underflow. Downlinks have two actions and bodies of up to four bytes, so
that the second action can start in, at and behind the end of what was received.
Symmetry is not used. Deadlock is checked in every run.

What the runs found (each is a `violation` run whose property quotes the repository):

1. **`core_index0`**: "a serial module is running" is tested as `currentSerialModIdx > 0`, so a serial
   module registered first is started, never read and never stopped, and runs beside the next one.
2. **`core_stale_done`**: the case that "should not happen" does: a module reports while its own
   timeout is already queued; the report is then taken while the next module is awaited, and the core
   leaves that one running.
3. **`core_sticky`**: a request for one module is never cleared, so timed cycles after it run only that
   module.
4. **`core_answers`**: an answer to a get-configuration downlink is added to a set whose message has
   been sent, and wiped.
5. **`gps_on_demand`**: the demand is used up before the round it is for, so the test that should give
   that round its full time never sees it.
6. **`ble_tag_lost_enter`**: the exit list is counted without the new entries but filled with them: a
   tag is told of as gone that was never told of as there.

The properties of the passing runs hold in spite of these: `ParallelStopped`, for instance, is about
the parallel modules only, because serial ones can be left running (1 and 2). In
that run the mask changes by downlink, which happens when sending or idle, and at the UART console, which
is open at start-up. It holds only as long as the mask does not change in the parallel phase; that takes a
BLE console left running (2) and a user who sets the mask on it at that moment, and the run has no BLE
console.

`AwayIsForgotten` says that a proximity contact that went away is forgotten in the end, *if no more cards
come*. Without that condition it is false of the code: the ends are counted without the new entries but
listed with them, so a newcomer that is told of as begun and as over in the same report takes the place
of the contact that was counted, and the next newcomer does it again. No document promises more, so
there is no finding.

### What the properties do not say

The models have the following behaviours of the code, and no property excludes them.

* The actions of a downlink can be executed twice: when a reset comes before its id is stored, or when it
  is cut short by its length and the backend repeats it. `RestartResumes` says that an id is recorded if and
  only if the downlink was carried out in full, so, unless a user writes the id, an action may be repeated
  but is not left out.
* A send result that comes late is credited to the message that is then on the air. `SendsWhatWasFilled`
  and `AsksInOrder` bound what follows (nothing unfilled is sent, no message is asked for out of order); they
  do not notice the exchange itself.
* A downlink received before the one before it was executed takes its place in the buffer, and its bytes
  are walked under the other's header. `OnlyReceivedExecuted` is about the bytes received last, and is true
  of that too.

Two documents are not what the code and the models do. `mod-env/README.md:21` says that the regular full
report does not apply to trigger sensors like movement; `mod_env.c:122` reports movement in it, and so does
`Env`. `mod-ble-scan-tag/README.md:18` says that nothing is done to avoid losing data when there is too much
of it; the code keeps the entries for a later cycle (`KeptUntilSent`).

### Fairness

`LiveSpec` assumes four things. `WF(Handle)`: the event loop runs, so an event at the head of the
queue is handled. `SF(TimerFires)`: an armed timer is posted in the end; strong, because the model
disables it whenever the queue is full. `WF(Boot)`: a device that is off is switched on again.
`SF(IdleTimeoutWake)`: idle time passes; each check in IDLE finds more of it gone, so it cannot find
too little for ever. The last one is not true of a device whose idle time in *minutes* is configured
as 0, where the subtraction at `app_core.c:643` underflows; such a configuration is outside the run
(and a hazard in `PROJECT.json`; `IdleTiming` has it, and shows what holds otherwise). In `modules` the
proximity scanner is started weakly fairly, and collected from into an empty set strongly fairly
(strongly, since the core can take its turn away in between). That the core comes round is
`core_live`'s `WakesUp` and `CollectionEnds`; that the set is empty is so for a scanner registered before
the other serial modules. Nothing is assumed of modules, radio, network or user: they may
stay silent for ever, and the properties hold without them.

## 4. What is proved

The proofs use the constants' assumptions and no others: `SizeAssumption` (a message has room for a
header and a block, the set is smaller than 256 bytes), `ModuleAssumption` and `BoundAssumption` (ids
and indices in range, at least one message and one place in the queue), `GpsAssumption`,
`TagAssumption`, `SpaceAssumption`, `ProxAssumption`, `IdleAssumption`, `DlAssumption`. TLC evaluates them in
the runs.
`AllParallelStopped` and the theorems of `EnvProofs` have a premise of their own, on a constant that the
runs give accordingly (no BLE console; the sensors that change are sensors); `OneAtATime` has one that
tells the two findings it is about from everything else.

* **AppMsgProofs.** Invariant: `TypeOK`, `FilledPrefix`, `SentWhole`. `FilledPrefix` says that the
  messages with a size are exactly those up to the one being filled; without it neither the bounds
  of a size nor what was sent can be kept, because a message that is opened again keeps its old size.
  `SpaceHonest` needs in addition that the total fits its `uint8_t`; `SpaceNeverGrows` that the
  total is the sum over the messages (`SumWhole`). `Refinement`: the builder implements `UplinkSet`.
  `ModulesSeeTheSet`: the set that the models of the modules are given is the builder's, for any sizes.
  So what is proved of a module with any set of `Fills` holds of it behind any other modules.
* **AppCoreProofs.** Invariant: `TypeOK` and `SendsWhatWasFilled` together, since the index of the
  message on the air is in range only because it never passes the last one filled. `WakeupPending`
  is inductive over it: every handler starts the timer, or posts an event of the new state into a
  queue that the handled event has just left, so that there is room however small the queue is.
  `RestartResumes` is inductive over it: what the actions of a downlink do to the two keys the core
  writes itself is `PromAfterOK`, whether they write them or not, and in which order. `AsksInOrder` and
  the refinement of `Lifecycle` follow, action by action. In `Lifecycle` the membership written down is
  the PROM's and the one gone by is the copy in RAM: the network changes both, a user or a downlink the
  first alone, and a refused join is decided by the second. That nobody writes it down while the device
  tries to join needs one more invariant (`UserInv`): the UART console is open in STARTUP only, and until
  the first collection no module runs, so no console of a module is open either.
* **GpsProofs.** Invariant: `TypeOK`, `EarlyEndIsGood`, `OffWhenAsleep` with two strengthenings.
  `Counting` ties the counter to the round: every counted fix, but perhaps the first, was acceptable,
  and once one was, averaging cannot spoil the result. `Failing` ties the failure flag to the round
  while the core waits. `Refinement`: the module implements `ModuleRun`.
* **BleScanTagProofs.** Invariant: `TypeOK` (which has that no tag holds two slots), `BackendInSync`
  and `FullIfMissed` (a tag is missed only when the table is full, and during a scan nothing leaves
  it). `GetDataTells` reduces getData to: some leaving entries are told of and removed, some of the
  remaining new ones are told of and kept. So the results do not depend on how the space is shared
  out, and would survive a change of that arithmetic.
  `BlockTaken` and `PackFits` are about the space. A block whose size a list computes from what is left is
  never empty, never refused, and lands in the message its size was computed from; a comment in the code
  (`mod_ble_scan_tag.c:600`) says of the branch for a refused block that it "should not happen", and the
  assert above it (line 586) has the same argument. `PackFits` follows by induction over the blocks: no
  more entries are promised than were asked for, and fewer only when the set is full.

  *scanA.* Invariant: `TypeOKA` and `BackendInSync`, kept by each pass by itself. Nothing needs to be known
  of who is `ahead`: a tag leaves the table and the backend's list in the same step, and so it is with
  entering. That what the counting pass leaves for the later passes is in range (part of `TypeOKA`) uses
  that the shares of a list never exceed the list. `KeptUntilSentA` follows.
* **BleScanProxProofs.** Invariant: `ProxTypeOK` and `KnownWasTold`. `GetDataTells` reduces getData to sets
  of entered and exited entries; the proof then has a case for each way through `After`, since an entry
  can be in both sets. That the count is bounded is what makes a telling reach its end whatever the slot
  started from. `BestBeaconsTold` (`NavAreBest`) is about the walk over the table, by induction over the
  slots: after each of them the list has no beacon twice, is as long as the beacons seen so far allow,
  and no beacon outside it is stronger than one inside. A beacon that takes the place of the weakest one
  keeps this, whichever of several weakest ones that is.
* **EnvProofs.** Invariant: `EnvTypeOK`, `KeptUntilUplink` and two strengthenings. `Apart`: what is in the
  set has not changed since it was filled. `WholeHasAll`: as long as nothing of a full report was lost,
  every missing change of its sensors is in the set or younger than it; at the end of the sending the
  set is empty, which gives `FullReportTellsAll`.
* **CoreDataProofs.** *Idle time.* Invariant: types; `Account`, the history agrees with the configuration;
  and `FiresInTime`, `dt + timer` is at most the longest time and one check. It is inductive because a
  check re-arms the timer only when `dt` is below the limit in force, which sane times keep from
  underflowing. *Downlinks.* Invariant: the buffer starts with the body received last, `dlsz` is its
  length (with the header, if it came), and what was executed since is a prefix of it. The step that matters is
  the walk, by induction over the actions: it is always at the end of what it has executed, and executes
  an action only if it ends within what was received. So it may read a tag or a length that an earlier
  downlink left behind, but never acts on it: the action would end later still.
* **`AllParallelStopped`** (AppCoreProofs). `ParallelStopped` is not inductive: in the parallel phase the
  modules running must be those that its end will select (`OnlySelectedRun`). Mask and request do not
  change there, because downlinks are executed in other states and the UART console is active in
  STARTUP only (`ConsoleAtStartup`).
* **`OneAtATime`** (AppCoreProofs). Serial modules do run together (findings 1 and 2), but in no other way:
  if no serial module has index 0 and `DoneIsAwaited` holds, so does `SerialExclusive`. Invariant: while
  serial modules have their turn only the one awaited runs (`OneRuns`), and otherwise none of them does;
  so no console is open in the parallel phase, and `OnlySelectedRun` holds too. The premise is about the
  behaviour, not the constants, because a report can be stale in more than one way: a second report of a
  module, or the event by which the core looks for the first one, left over in a longer queue.
* **`CollectionBounded`** (AppCoreProofs). The safety half of `CollectionEnds`: `ToDo`, the modules to be
  tried and the messages to be sent, never grows during a collection, and each event that a collecting
  state handles as its own makes it less or ends the collection. By `NeverQuiet` there is always a timer
  or an event that will do so; that it fires and is handled is fairness, and left to TLC.

What a loop computes is a recursive function in the models, and proving anything of one takes two
things. `Recursion` has both, in terms of sets and functions only. The function must exist, so that it is
what its definition says: `LoopExists` builds it from its finite prefixes. And one must be able to do
induction: `Induction` says that a set with 0 and the successor of each of its numbers has all numbers,
from the well-foundedness of the naturals. `LoopInvariant` combines them: a loop whose measure falls with
every turn ends in a state of any set that contains the start and that each turn stays in. `NavBest`,
`Pack`, `Walk` and the library's `FlattenSeq` are proved about in this way.

Only model-checked: the liveness properties (`core_live`, `AwayIsForgotten`), which are out of the
prover's reach; and the properties of the violation runs, which are false. Every invariant, action
property and refinement of the passing runs is stated by a theorem.

## 5. What is not modelled, and the plan

Not modelled: the production test (hardware checks, then a halt); the navigation and alert scanners,
which report what the BLE manager sorts for them and let it clear their tables; the timing of buttons;
the values of sensors and their calibration; ranges of configuration values other than the idle times;
the bytes of uplink messages. `PROJECT.json` gives the reason for each component, and the hazards no
property covers. What other repositories hold (the executor, the BLE, GPS, sensor and configuration
managers) is modelled from how this code uses it.

Done, in this order: the builder and the core, because everything goes through them; GPS and tag scanner,
the modules with a life of their own; the proximity and scanA scanners, the environment, the idle time,
the bytes of downlinks; `ParallelStopped` for a device without BLE console. What is left:

1. A composition of `AppCore` with `Gps`: an abstract core as one serial module sees it (waiting for it,
   after its turn, asleep, or gone on without it), which `AppCore` implements for every serial module
   and from which `Gps` takes its environment. Now `Gps` states what it assumes of the core, and
   `AppCore` what it assumes of a module, but nothing relates the two.
2. `Registration`: the tables of modules and actions, ids and lookups of `app_core.c` and `app_init.c`.
3. The BLE console module, whose end, timeout and user race each other, beyond what `AppCore` has of it.
4. An abstract registry of tags with what the backend knows of them, which both tag scanners implement; the
   proofs of `BackendInSync` and `KeptUntilSent` would then be two instances of one.
