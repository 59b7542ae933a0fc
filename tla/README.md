# Verification of the weighing controller firmware

TLA+ models, TLC runs and TLAPS proofs for the firmware under `src/`: a scale
controller on an STM32F103 with a CS1237 converter, local keys and display, a
Modbus RTU slave on RS-485, a BLE module on a second UART and its configuration
in two slots of the internal flash.

The firmware is one main loop, `App_Run` (`src/App/app_main.c:199`), that calls
every service in a fixed order, a cooperative scheduler (10 ms, 50 ms, 100 ms
tasks) called from that loop, and a few interrupt handlers that fill rings. Two
services never preempt each other; what is hard is that an operation (a flash
save, a calibration, an edit of the settings, a change of the communication
settings) takes many passes of the loop, and that three transports issue
commands between any two of them.

## 1. Inventory

For each component: the state it keeps, its operations, whom it meets, what is
hard, what makes it correct.

| Component (src/) | State | Operations | Meets | Hard, and correct when |
|---|---|---|---|---|
| Configuration store `Services/config_store`, `BSP/bsp_flash.c` | two flash slots of two pages, active slot/sequence/payload, state machine, job | load, request save/reset, process one step, cancel, acknowledge | power check, flash backend | power cuts and half-effective flash operations at any step, sequence wrap. The active record is never touched; a success is what the next start loads; a start loads the old or the new configuration, whole |
| Persistence manager `App/persistence_manager.c` | operation, requested revision, status, reset result | request save, request reset, process | store, system context, device manager, faults, event queue | edits during a save, a reset committed but not applied. No unsaved change is hidden; only what was committed is marked saved |
| System context `App/system_context.c` | configuration, tare, view, two revisions, dirty, app state | apply, mark changed, mark saved | every writer of settings | revision wrap |
| Device manager `App/device_manager.c` | initialised, maintenance, errors | init, safe state, enter/exit maintenance | persistence manager, converter, W02, RS-485 | maintenance lasts exactly as long as the write |
| Command service `Protocol/command_service` | config owner, staged config, calibration session, reset request | about forty commands from three sources, a 10 ms process | config edit, application, persistence, profiles | sessions of several sources, timeouts. One owner at a time, never orphaned; a calibration is applied only under the settings it was measured with |
| Config edit and application `Services/config_edit`, `App/config_application.c` | working copy and its state | begin, set, validate, cancel; atomic apply | command service | lost updates |
| Modbus registers and mailbox `Protocol/modbus` | staging registers, mailbox, response cache | read, write, execute | command service, communication manager | a master repeats a request it got no answer to |
| Communication manager `App/communication_manager.c` | active/candidate/rollback settings, state, deferred save | apply, deferred save, process | Modbus server, transport, persistence | storage suspension in the middle of an apply, a UART that fails to start. Once no change is under way, line, server and manager agree on the settings; the line changes only when nothing is on it; every change is answered |
| RTU server, framer, UART2 DMA, RS-485 | frame buffer, timers, DMA positions, idle-event queue, transmitter state | per-pass processing, interrupts | communication manager | order of bytes, idle events and timer expiry; wraps and overruns. Frames are neither cut nor joined, a good frame is received, a silence brings everything to rest |
| BLE command service | four-entry transaction cache, pending save | request, save event | command service, transport, events | lost responses and repeated requests. A transaction is executed once while it is remembered; a save is answered with its own outcome, in the end |
| BLE transport, connection, telemetry | rings, priority queue, link state | write, run, reset | W02 UART interrupt | put-back against reset, starvation by priority frames |
| Weighing profile manager | target, previous, step | request, process | converter, application, bridge | rollback that fails, overlap with maintenance. The converter runs the active profile; the metrology sees no sample of another; every switch ends |
| Event queue, scheduler, fault manager | bounded queue, task table, mask | push/pop, run pending, set/clear | everyone | overflow is a terminal fault; catch-up across the tick wrap |
| Measurement chain | filter, stability, zero/tare, drift | per sample | command service, display | arithmetic; stability hold; zero and tare order |
| Limit checker and alarms, keys, menu, display, drivers, BSP, diagnostics | local | local | | debounce, hysteresis, formatting, bit timing |

`PROJECT.json` lists every component with its files and status, and every hazard
with the line where it bites and the property that would catch it.

## 2. Modules

| Module | Models |
|---|---|
| `AtomicConfig` | What the store promises: one durable configuration, a proposal that a restart finds entirely or not at all |
| `ConfigStore` | `config_store.c` over `bsp_flash.c` |
| `Persistence` | `persistence_manager.c` with the revisions of `system_context.c` and the maintenance of `device_manager.c`, over `AtomicConfig` |
| `CommandSession` | The configuration and calibration sessions of `command_service.c`, `config_edit.c`, the Modbus staging registers and mailbox |
| `BleCommand` | `ble_command_service.c` with the priority queue of `ble_transport.c` and the event queue |
| `WeighingProfile` | `weighing_profile_manager.c` with the converter driver `cs1237.c`, storage maintenance and the measurement bridge |
| `RtuReceiver` | `modbus_rtu_framer.c`, `uart2_dma_transport.c`, `bsp_uart_dma.c` and `bsp_rtu_timer.c`: how frames are cut out of the bytes |
| `Communication` | `communication_manager.c` with `modbus_rtu_server.c` and `rs485_tx_controller.c` |
| `ConfigStoreProofs`, `PersistenceProofs`, `CommandSessionProofs`, `BleCommandProofs`, `WeighingProfileProofs`, `CommunicationProofs`, `RtuReceiverProofs` | Theorems about the module they are named after; `ConfigStoreProofs` also that it implements `AtomicConfig` |
| `RtuDeliveryProofs` | Theorems about `RtuReceiver` that go on from `RtuReceiverProofs` |
| `MCConfigStore`, `MCPersistence`, `MCCommandSession`, `MCBleCommand`, `MCWeighingProfile`, `MCRtuReceiver`, `MCCommunication` | Constants of the small instances |

`Persistence` instantiates `AtomicConfig` and calls its actions; that
`ConfigStore` implements `AtomicConfig` is what licenses it. The other modules
see persistence only as busy or not (`PersistenceManager_IsBusy`), with what its
start and its end do to them; that it ends is `Persistence!OperationEnds`.
`RtuReceiver` and `Communication` meet at a complete frame: the one shows when
there is one, the other what the server and the manager do with it.

### ConfigStore

A slot is a body (page 0: header and payload) and a marker (the last word of
page 1). A body is erased, torn (anything that fails magic or CRC), of an
unsupported or invalid schema, or a V1 or V2 record with a sequence number and a
payload; a marker is erased, half programmed, torn or full. The state machine of
`ConfigStore_Process` is one action per state. `PowerUnsafe` is the refusal of
the power check in front of the switch (and again between the two halfwords of
the marker). `Attempt` is one flash operation: it succeeds, or it reports an
error with the cell old, partial or new, and the lock after it may fail
independently and disable the backend. `PowerCut` may happen in any state, leaves
the page in flight in any state a cut operation can leave it in, and runs
`ConfigStore_Init` and `ConfigStore_Load` again. A finished body may turn out
marginal (torn) even if each halfword read back right: this is what VERIFY_BODY is for.

CRC collisions, wear and decay of pages at rest are left out. A V1 record never
compares equal to a new V2 encoding since the lengths differ.

### Persistence

One action per outcome of `Start` and of `PersistenceManager_Process`. The code
behind a completion (bookkeeping, leaving maintenance, reporting) runs in one
call and is one action. `ram` is what the running configuration encodes to;
`Upgrade` is what a loaded legacy record becomes at startup. The three changes of
an applied reset (configuration, tare, view) may each advance the revision, so one
to three steps are allowed. A fault may be raised at any moment from outside and
forces the application into its terminal FAULT state, which also takes the
devices down; the converter may fail to restart.

Seen while modelling: when a factory reset is committed and applied but the last lock of
the flash fails, its result is FAILED (`src/App/persistence_manager.c:235-245`), which
`src/STAGE4B_REVIEW_FIXES.md:33` keeps for failures before the commit. The model has this
behaviour (`factoryResult`); no run is about it.

### CommandSession

Configurations have two parts: the metrology settings a calibration is valid
under and the calibration. Local keys and BLE issue edit commands directly;
Modbus writes staging registers and executes through the mailbox, where a token
equal to the last one is answered from the cache. A refused command is a
stuttering step. The stability window is a counter that must be full before the
raw reading may be called stable. `Process` is the 10 ms call: it expires the
session or feeds it one sample. `editors`, `sinceZero` and `measured` are history
variables, read by no guard.

### BleCommand

A pass of `App_Run` is: the radio sends at most one answer, the service reads at
most `FramesPerRun` requests, the periodic tasks push events, edit and save, the
persistence manager runs, events are drained up to `EventsPerRun`. The phone may
send any request at any time, which covers loss, repetition and reordering. The
cache is the ring of `AllocateCache`, which passes over a slot whose save is
pending; a full priority queue drops an answer, a full event queue an event, as
in the code. The three operations stand for what the service tells apart: an
answer at once without effect, one with effect, and one that waits for an event.

In the firmware the cache holds 4 transactions, 2 requests are read per pass, the
event queue holds 16 and 8 are handled per pass. `EventBudget` assumes that what
a pass pushes is drained in that pass (`NoisePerRun + 2 =< EventsPerRun`). The
code does not enforce it; a pass in which ten events coincide would leave some
of them for the next. `PendingIsInFlight` and `SaveAnsweredByItsOwn` hold under
that load only. A dropped event is a terminal fault anyway
(`src/Services/event_queue/event_queue.c:23`).

### WeighingProfile

A pass is: the driver, the switch, the bridge, commands, the storage operation,
the application state machine. The driver is its state machine with samples that
carry the settings they were taken under; a register write or read-back succeeds
or fails. A converter has data ready at most every other pass. `disturbed`
records that a storage operation or an edit of a profile came into the latest
switch; it is read by no guard, and the properties say what is promised without
and with it. Worth knowing when reading the code beside it:

- The switch has no time-out: a converter that stops delivering keeps it busy
  until something else faults.
- A switch that is requested while a save holds the converter finds it disabled,
  goes to ROLLBACK and raises the converter fault, which is terminal.
- A driver that reports ERROR has already set the fault in `ProcessFast`, so the
  rollback that follows does not spare the scale the FAULT state. Only a switch that
  cannot be applied (`ConfigApplication` refuses) really goes back.

### RtuReceiver

Time is in ticks. A pass of the main loop has three phases: TRANSPORT samples the
DMA and collects the idle events, FRAMER gives the framer the bytes in front of the first
event one by one and then that event, TIMER looks at the expiry. Bytes, the idle interrupt
and the timer come between any two of these steps (the sample itself is atomic), at any
spacing; a byte is its number in the stream, so that a frame shows what it was made of.
Positions are counted from the last restart of the DMA; `Absolute` is what the code holds,
modulo `PositionRange`, and the comparisons of the code are made on that.

Idle events wait in two queues of `IdleDepth`, that of the interrupt handler
(`idleQueue`) and that of the transport (`idles`), with a position and an age (the code
keeps a time stamp). A pass handles one of them, so they may pile up and grow old. An event
that finds the first queue full is dropped and counted, which restarts the DMA in the
next pass (`Full`); one that finds the second full is dropped and makes the framer discard
(`Crowded`). An event that is T3.5 old takes the late branch of the framer (`Late`).

A receive error restarts the DMA at position 0 and discards until the next silence
(`Restart`), so the next whole frame may be lost; the properties about reception exempt
it (`spoiled`). A restart may fail (`RestartFails`): then the bytes that follow
are lost (`stopped`) and their overrun, which the idle interrupt may find, is the next
error, and with it the next attempt.

How often the main loop comes round is bounded by `MaxPass` and `MaxInside`, which the
proofs leave open, and nothing relates them to T3.5. Two properties hold however slow the
passes are: `SilenceSettles` and `GoodFrameReceived`. Their silence, `Quiet`, is T3.5 and a
pass for each place in the two queues. The third, `FrameIsWhole`, is promised as long as
the main loop keeps up: `late` records that, since the receiver was last at rest, an idle event
waited for its pass when the next one was raised or when T3.5 was over, or that one pass
took T3.5. It is a history variable, read by no guard, and `rtu_late_idle` shows that the
exemption is needed.

`FrameIsWhole` allows for what the code cannot see: a byte that ends in the last tick of
a pass, a T1.5 that is looked at two passes late, and bytes less than a character
apart, which raise no idle event.

Left out: the wrap of the 1024 byte ring with the correction of a position read
before the wrap interrupt was counted, the overrun of that ring, the limit of 128 bytes
per call, a resume in the middle of a frame, and the discard that follows the start (`Init`
begins after it).

### Communication

`CommunicationManager_Process` is a pass in two halves: the server works, then the
manager looks at what it left. Saves start and end between them. Delays (turn-around,
driver enable, transmit time-out) are over when they please; a start of the UART
may fail each time, and a request may fail to be answered, which ends in ERROR. Settings
belong to Modbus RTU or to another protocol; a change to the latter ends in DISABLED, with
the line set up. A change may also be refused after its settings are in force
(`CommitCandidate` sets `s_active` before its last step), and is rolled back from there.

`LineIsActive` speaks of a device that came up (`started`). One that was DISABLED
or in ERROR from the start, and is taken to RUNNING by the resumption after a storage
operation, has no UART set up; the model does that, and the property does not hold of it.

Seen while modelling, with no property since no document promises otherwise: the
transmitter gives up after 200 ms while 125 registers at 9600 baud need 266 ms, so
such a response is cut; a deferred save that is refused is reported to nobody; failed
restarts of the receiver are counted (`s_recovery_failures`) and the count is read
by nobody; the confirmation of a factory reset is not refused during a change of the
settings.

## 3. Runs

| Run | States | Checks |
|---|---|---|
| `config_store` | 56 thousand | `TypeOK`, `ActiveSlotIntact`, `SuccessIsDurable`, `CommitFollowsBody`, the refinement `ImplementsAtomicConfig`, `ActiveMovesForward`, `RequestTerminates` |
| `config_store_no_change` | violation | `NoChangeIsDurable` |
| `persistence` | 61 thousand | `TypeOK`, `UnsavedIsDirty`, `CalibrationExcludesSave`, `MaintenanceCoversWriting`, `CleanAfterOperation`, `SavedMeansCommitted`, `OperationEnds` |
| `command_session` | 549 thousand | `TypeOK`, `SessionConsistent`, `EditBelongsToOwner`, `CalibrationExcludesEdit`, `ResultMatchesInputs`, `LoadWindowIsFresh`, `CalibrationFitsConfig`, `AbandonedCalibrationEnds` |
| `command_session_retry` | violation | `RepeatedTokenStagesNothing` |
| `ble_command` | 389 thousand | `TypeOK`, `PendingIsInFlight`, `ExecutedOnce`, `SaveAnsweredByItsOwn`, `SaveIsAnswered` |
| `weighing_profile` | 357 thousand | `TypeOK`, `ConverterMatchesProfile`, `SamplesMatchProfile`, `FaultHasCause`, `SwitchEnds` |
| `profile_commit` | violation | `CommitMeansConfigured` |
| `rtu_receiver` | 2.2 million | `TypeOK`, `FrameIsWhole`, `SilenceSettles`, `GoodFrameReceived` |
| `rtu_late_idle` | violation | `FrameEndsInSilence` |
| `rtu_rollover` | violation | `RolloverIsHarmless` |
| `communication` | 241 thousand | `TypeOK`, `LineIsActive`, `ChangeIsQuiet`, `WorkEnds` |

Deadlock is checked in every run. For every property of a passing run
`PROJECT.json` names a plausible bug (`Mut...` next to the definition it replaces)
under which TLC finds the property violated.

### Bounds

- `config_store`: sequence numbers 0..6 with 7 as the erased pattern
  (`HalfRange` 4 for 2^31). The initial contents put records at 4, 5 and 6, so
  the wrap and the skipped pattern are reached by the first or second save; saves
  are unbounded in number since sequence numbers wrap. Two settings and the factory
  defaults; two calls program a body, so a cut can fall between two chunks. The
  slots start blank, with equal numbers, with older and newer neighbours, with a
  V1 record, with every unusable kind, and with no usable slot. The proofs
  remove all these bounds.
- `persistence`: revisions wrap after 4, boot revisions are 1 and the last one;
  at most 3 unsaved edits (more would only repeat revisions, since the code
  distinguishes only equal from different), two store calls per operation, which
  is one call during which something else can happen and the last one.
  The assumption `MaxUnsavedEdits \in 1 .. LastRevision` hides one case on purpose:
  a device edited 2^32 - 1 times between two saves would come back to the saved
  revision and look clean.
- `command_session`: three sources, two metrology settings, two readings, two
  masses, session ids modulo 3 so that 0 is skipped within two sessions, a
  timeout of two calls, a window of two samples, two tokens so that a repeated and
  a fresh one both occur.
- `ble_command`: a cache of two slots, so that with three transactions one is
  always evicted and a pending save is passed over in the ring; two requests per
  pass, so that a save and its repetition fall into one; one queued answer, so that
  answers are lost; one id that is used for two operations; three events, of which
  one is foreign. The proofs remove these bounds.
- `weighing_profile`: two profiles and two settings, a buffer of two samples so that
  it overflows, one sample to settle and one per pass, two storage operations so
  that one may come before and one into a switch. Switches and edits are unbounded
  in number.
- `rtu_receiver`: a character of one tick, T1.5 of two and T3.5 of six; three bytes and
  frames of two, so that a frame, a runt, an overlong frame and a frame after a byte
  that was thrown away occur; queues of two events; a pass up to one tick after the one before and up
  to two inside, so that events pile up, overflow the queue of the transport and take the late
  branch; one receive error. Positions do not wrap (`PositionRange` 16). Larger
  instances were checked too, without errors: passes four ticks apart under a T3.5 of four,
  where the queue of the interrupt handler overflows (2.3 million states), and four
  bytes with frames of two or three under passes two ticks apart (19.8 million states).
  The proofs remove these bounds.
- `rtu_late_idle`: the same without errors and with frames of two or three bytes, so that
  the frame the master sends (three) and the one that is handed on (two) both have a legal
  length.
- `rtu_rollover`: no errors, and 8 for 2^32, starting at 7. In the firmware the rollover
  comes after 2^32 received bytes without a restart of the DMA, some 4.3 days of
  continuous traffic at 115200 baud.
- `communication`: three settings, two of Modbus RTU (a change and the way back) and one
  of another protocol; two storage operations; requests and changes are unbounded in
  number.

### Fairness

Only the firmware is fair, never its users or masters, and never the supply.
`ConfigStore` and `Persistence` assume weak fairness of their `Process`:
`App_Run` calls `PersistenceManager_Process` on every pass
(`src/App/app_main.c:227`), and that calls `ConfigStore_Process` while a save is
in flight. `CommandSession` assumes weak fairness of `CommandService_Process`,
which the 10 ms task calls (`src/App/app_main.c:315`). The flash operations block
for a bounded time, so a pass of the loop always ends.

`BleCommand` and `WeighingProfile` model the whole pass, so weak fairness of
`MainLoop` says that the loop goes on; `Communication` has it for each half of its
pass. An operation of the storage ends if it is given a step for ever (strong
fairness of `SaveEnds` and `StorageEnds`, since the loop enables them once in a pass);
that is `Persistence!OperationEnds`. Strong fairness of `PoweredUp`, `ConfigStep`
and `SettleStep` says that the converter keeps delivering data, that of `DelayOver`
and `TxStep` that time passes, weak fairness of `BytesOut` that the USART empties its
shift register. `RtuReceiver` states no fairness: that nothing is left unread is the
safety property `SilenceSettles`, after a silence of known length.

## 4. What the violations show

1. `config_store_no_change`: a save takes effect in flash although its last
   operation reported an error, so RAM keeps the old payload as the active one.
   Saving the old settings again is answered NO_CHANGE without touching the
   flash, the revision is marked saved, and the next start loads the other,
   newer record. `STAGE4B_FLASH_PERSISTENCE.md:206` promises that NO_CHANGE marks
   the requested revision saved.
2. `command_session_retry`: a Modbus master that repeats the token of an
   APPLY stages the configuration again and takes the session
   (`STAGE5A_MASS_UNITS_PROFILES_REGISTER_MODEL.md:46`).
3. `profile_commit`: a save that Modbus deferred, or a confirmed factory reset, starts
   during a profile switch and restarts the converter for the old profile. The
   switch takes the settling of that restart for its own and commits the new profile
   over a converter that runs the old settings
   (`STAGE5A_MASS_UNITS_PROFILES_REGISTER_MODEL.md:28`).
4. `rtu_late_idle`: a master sends three bytes a character apart, which is less than T1.5.
   Each raises an idle event and a pass handles one, so the events grow old. One
   that is T3.5 old when it is handled completes the frame although bytes have followed, and two of the three
   bytes are handed on as a frame (`modbus_rtu_framer.c:135-139` does not look at the DMA position).
   No pass takes more than half of T3.5. `STAGE5B_MODBUS_RTU_DMA_TRANSPORT.md:59-63`
   says that the position is verified at T3.5 again, and that data between T1.5 and T3.5 invalidate a
   frame.
5. `rtu_rollover`: a good frame that crosses the rollover of the 32-bit byte count is
   lost with the one after it: the transport compares absolute positions by < and >,
   so the bytes look read and the idle event handled
   (`STAGE5B_HARDWARE_VALIDATION.md:128` promises that operation continues across it).

## 5. Proofs

`ConfigStoreProofs` proves, for every set of payloads, every `HalfRange` from 4
up, every body length and every initial flash content:

| Theorem | Statement |
|---|---|
| `TypeCorrect` | `Spec => []TypeOK` |
| `ActiveSlotSafe` | `Spec => []ActiveSlotIntact` |
| `SuccessSafe` | `Spec => []SuccessIsDurable` |
| `CommitSafe` | `Spec => []CommitFollowsBody` |
| `MovesForward` | `Spec => ActiveMovesForward` |
| `Refinement` | `Spec => ImplementsAtomicConfig` |
| `SuccessorIsNewer` | the successor of a sequence number is newer and not the reverse |
| `Invariance` | `Spec => []IInv` |

Assumptions: those named in `ConfigStore` (`PayloadAssumption`,
`RangeAssumption`, `FlashAssumption`: a slot that would load carries a payload).

The properties are not inductive. `IInv` adds to them: `ValidSlotsCarryPayloads`
(what loads is a configuration), `NothingHidden` (RAM holds no active record only
if slot B does not load: with no active record the job goes to slot A, and a valid
record in B that RAM ignored would win or tie later), `JobMatchesActive` (the job
in flight is the one `Request` would compute again: other slot, next sequence
number) and `TargetPhase` (how far the target has got at each state). With these
the argument is: every write goes to the target, which is not the active slot;
while the target does not load, `Loaded(flash)` is the active record; once it
does, it carries the job's payload and the successor of the active sequence
number, which `SuccessorIsNewer` makes the winner. `IInv` was checked by TLC first.

For the refinement, `durable` is the payload `Loaded(flash)` yields, `held` the
active payload in RAM, `proposal` the job's payload while busy. Page writes map
to `Write` or a stutter, errors to `GiveUp`, VERIFY_FINAL to `Confirm`, power cuts
to `Restart`.

`MovesForward` needs one more invariant, `Ahead`: what would load is the active
record itself or a newer one. So what a restart or a completed save makes
active is never older.

`PersistenceProofs` proves, for every set of configurations, every migration
`Upgrade`, every range of revisions and every bound on the unsaved edits below
that range:

| Theorem | Statement |
|---|---|
| `TypeCorrect` | `Spec => []TypeOK` |
| `UnsavedSafe` | `Spec => []UnsavedIsDirty` |
| `CalibrationSafe` | `Spec => []CalibrationExcludesSave` |
| `MaintenanceSafe` | `Spec => []MaintenanceCoversWriting` |
| `CleanCorrect` | `Spec => CleanAfterOperation` |
| `SavedCorrect` | `Spec => SavedMeansCommitted` |
| `Invariance` | `Spec => []IInv` |

Assumptions: `PayloadAssumption` and `RevisionAssumption` of `Persistence`. Nothing
is assumed of `Upgrade`: a migration that had to be repeated would be found dirty
again at each start.

Here too `IInv` is stronger than the properties. `SnapshotIsRequested` carries the
argument about edits: `requested` lies between `saved` and `revision`
(`Changes(saved, requested) =< UnsavedEdits`), every edit moves `revision` further
away (`ChangesNext`, across the wrap) and never as far as round
(`MaxUnsavedEdits`), so `revision = requested` at completion means that no edit
came in between and the snapshot is the running configuration.
`ProposalBelongsToOperation` says a reset always writes the factory defaults;
`DevicesExplained` says why the devices are down, so that maintenance which is
left standing is traced to the converter or a fault. Each was checked by TLC first.

`CommandSessionProofs` proves `TypeCorrect`, `SessionSafe`, `EditSafe`,
`CalibrationSafe`, `ResultSafe`, `LoadWindowSafe` and `ApplySafe`: every invariant of
the run and `CalibrationFitsConfig`, for any hardware settings, readings, masses,
calibrations, time-out, window and number of tokens (`ValueAssumption`,
`BoundAssumption`). The invariant has two halves that meet only in
`CalibrationExcludesEdit`. `EditInv`: the session is consistent and its editors are
its owner, also before the edit is opened. `CalInv`: what each calibration state has
captured (`InputsCaptured`: from the zero on, all readings were taken under the
session's hardware settings) and that the stability window never exceeds the samples
since the zero (`WindowAfterZero`). A commit compares the session's settings with the
configuration, so `InputsCaptured` gives `CalibrationFitsConfig`.

`BleCommandProofs` proves `TypeCorrect`, `PendingSafe`, `SaveAnswersOwn` and
`AtMostOnce` (`ExecutedOnce`) for every set of requests, every depth of the cache from
2 up and every size of the queues under `EventBudget`. `IInv` adds to the properties
`AnswersAreKept` (an entry that is not pending has an answer), `OutcomeIsHandled` (the
event of a save is pushed after the commands and drained in the same pass, so there is
one at most and it belongs to the pending save) and `EventsFit` (what is queued at
each phase). One save at most is pending, so the next slot or the one after it is free
(`AllocatedIsFree`). At most once needs `RingOrder`: newest first, the recent
transactions lie behind the next slot in the ring one after the other but for one gap,
and a pending save is no further back than the gap. A pending save that is reached
by the ring is therefore the gap itself, nothing newer is overwritten, and the slot
that is taken holds the transaction that is being forgotten.

`WeighingProfileProofs` proves `TypeCorrect`, `ConverterSafe`, `SamplesSafe` and
`FaultSafe`, for every set of profiles and settings and every size of the buffer
(`ProfileAssumption`, `CountAssumption`). `OffHasReason` says that the converter is
disabled exactly in maintenance and in the safe state, `SwitchHasConverter` that a
switch storage did not come into has the converter to itself, `SamplesAreCurrent` that
the buffer holds no sample of earlier settings, and `SwitchKnowsConverter` what the
converter runs at each state of an undisturbed switch: the target from VERIFY on, the
previous profile after the rollback, the active one outside. The case `profile_commit`
violates is exactly the one `disturbed` exempts.

`CommunicationProofs` proves `TypeCorrect`, `LineSafe` and `ChangeSafe` for any
settings and any number of saves (`CommunicationAssumption`). `RequestStands` says that
an application is under way only while it is requested, `SuspendedForStorage` that
the manager knows of a save exactly while it is suspended, `ServerRests` that the
server is idle while the manager does not call it, `LineAgrees` which settings the line
has in every state without a request.

`RtuReceiverProofs` and `RtuDeliveryProofs` prove every property of the run for any
baud rate, that is any character time, T1.5 and T3.5, any lengths of frames, any depth of
the queues, any passes of the main loop, and any number of bytes and errors:

| Theorem | Statement |
|---|---|
| `TypeCorrect` | `Spec => []TypeOK` |
| `FrameCorrect` | `NoRollover => (Spec => []FrameIsWhole)` |
| `SilenceCorrect` | `NoRollover => (Spec => []SilenceSettles)` |
| `ReceptionCorrect` | `NoRollover => (Spec => []GoodFrameReceived)` |

`TimingAssumption` says of the constants only what they are (a character is shorter than
T1.5 and that than T3.5; a queue holds two events at least); it does not relate the passes to
the line. `NoRollover` (`FirstPosition + MaxBytes < PositionRange`) says that the byte count
does not pass 2^32; `rtu_rollover` shows that it cannot be dropped. `FrameIsWhole`
exempts a main loop that was overtaken (`late`); `rtu_late_idle` shows that this cannot be
dropped either. The run satisfies `NoRollover`.

The argument is built up in layers, `Inv1` to `Inv6`.
`Inv1` has the types, and that no event waits behind the producer (`EventsAhead`).
`Inv2` says what errors leave behind (`ErrorInv`); what a pass knows, that it can read all but
what came since it was sampled (`SampleInv`); that the timer runs while the framer waits
(`TimedInv`); and that no event is late while the main loop keeps up (`LateInv`).
From here the two modules part, since one argument is about a main loop that keeps up and the
other about any.

`RtuReceiverProofs` goes on where the receiver is `Sound`: not overtaken, not
stopped, with no error at hand. `Paced` gives an idle event its meaning: one is in each queue at
most, and its age and the silence on the line, or the gap before the next byte, tell the same time
(`Aged`). `Inv3` ties what the framer has marked to the bytes it was given (`MarkInv`) and
says that no event of a gap gets lost but by an error (`EventInv`). `Inv4` is the heart:
while the framer waits, the silence on the line is at least what the timer has run less
one pass (`LowerInv`) and at most that plus two (`UpperInv`). So T3.5 expires only when the
line was silent so long, and bytes are parted only at gaps long enough, which makes the
frame a whole segment (`FrameInv`). What `Sound` adds is a hypothesis of `Inv4`
(`Sound => Timed`), so it holds again after an error without the argument having to say when.

`RtuDeliveryProofs` counts what is left to do in a silence (`SettleInv`): either idle events
wait, and the silence, a pass for each of them and one T3.5 make less than `Quiet` (`Backlogged`),
or none does, all bytes are read, and the framer waits for T3.5 at most
(`Settling`). Each pass takes one from the backlog, which is `Inv5`. `Inv6` follows a good
frame from its first byte: it is awaited, being collected from its first byte without a
gap, or finished (`DeliveryInv`); as its bytes raise no event between them, the one event at its
end completes it, late or in time.

Each invariant was checked by TLC first.

Only model-checked: the liveness properties `RequestTerminates`, `OperationEnds`,
`AbandonedCalibrationEnds`, `SaveIsAnswered`, `SwitchEnds` and `WorkEnds`. Liveness under
fairness and ENABLED are out of the prover's reach and stay with TLC. All invariants and
action properties of the passing runs are proved.

## 6. Not modelled, and why

Nearly all lines of the repository are vendored or generated: CMSIS with its DSP
library and device headers, the ST HAL, start-up code. They are not this program's
logic, so the share of the repository the models stand for is small whatever is
modelled of `App`, `Domain`, `Drivers`, `Protocol`, `Services` and `UI`.

Of those, left out are the measurement arithmetic (filters, stability, drift, zero and
tare, mass conversions), validators and codecs (64-bit arithmetic on values: unit tests
over real values say more), the scheduler's catch-up and the hold time of the power
guard (arithmetic on the tick), limit checker and alarm outputs (functions of the latest
weight), display, menu and bit-banged drivers (timing and layout), telemetry frames
(formatting over a queue that drops), and the diagnostics builds.

Of modelled components: tare, zero, drift, view and test commands; the read side of the
Modbus map, PDU coding and exceptions; the byte rings and the link state of the BLE
module; events and display codes published by the persistence manager; what is named
under each module in section 2.

Hazards without a property, with the reason, are in `PROJECT.json`. Most are cases where
no document says what should happen (an edit opened before a factory reset, a reset
confirmed by another source, a Modbus session without a time-out).

## 7. Plan

1. `RtuReceiver`: the wrap of the ring with the correction of a position that was read
   before its wrap was counted, the overrun of the ring, and the discard after the start and
   a resume.
2. `CommandSession`: the origin of the working copy (an edit that began before a reset).
3. `BleCommand`: the byte rings of the transport, with put-back against reset, and the
   events each component really pushes in a pass in place of `EventBudget`.
4. `Scheduler`: catch-up across the wrap of a small tick against a reference.
5. Proofs: what holds of the receiver across the wrap of the ring, once that is modelled.
