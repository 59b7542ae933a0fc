--------------------------- MODULE WeighingProfile ---------------------------
(***************************************************************************)
(* App/weighing_profile_manager.c, which switches the converter from one   *)
(* weighing profile to the other in many passes of App_Run, and what it    *)
(* shares the converter with: the state machine of Drivers/cs1237,         *)
(* the storage maintenance of the device manager, the measurement bridge   *)
(* and the commands that change the stored profiles meanwhile.             *)
(*                                                                         *)
(* A pass is: the driver, the switch, the bridge, commands from any source,*)
(* the storage operation, the application state machine.                   *)
(***************************************************************************)
EXTENDS Integers, SequencesExt

CONSTANTS
  Profiles,         \* WeighingProfileId
  DefaultProfile,   \* WEIGHING_PROFILE_HIGH_PRECISION
  Settings,         \* the rates and gains a profile may name
  Defaults,         \* the settings DefaultConfig_Load gives each profile
  Capacity,         \* CS1237_SAMPLE_BUFFER_CAPACITY
  SettlingSamples,  \* CS1237_SETTLING_SAMPLES_10HZ and _40HZ
  MaximumSamples,   \* MEASUREMENT_BRIDGE_MAX_SAMPLES_PER_RUN
  MaxOperations     \* bound: storage operations started in a behaviour

ASSUME ProfileAssumption ==
  DefaultProfile \in Profiles /\ Defaults \in [Profiles -> Settings]
ASSUME CountAssumption ==
  {Capacity, SettlingSamples, MaximumSamples} \subseteq Nat \ {0} /\ MaxOperations \in Nat

VARIABLES
  switch,       \* s_state of the manager
  target,       \* s_target
  previous,     \* s_previous
  active,       \* metrology.active_profile of the context
  settings,     \* metrology.profiles of the context
  driver,       \* s_state of the converter driver, with the phase of its configuration
  configured,   \* s_config of the driver
  settling,     \* s_settling_samples
  fifo,         \* the samples buffered, each as the settings it was taken under
  ready,        \* whether the converter had data ready in this pass
  saving,       \* the storage operation in flight
  maintenance,  \* s_storage_maintenance
  initialized,  \* s_initialized of the device manager
  fault,        \* a converter fault is set
  app,          \* the application state
  phase,        \* where App_Run is
  operations,   \* storage operations started
  disturbed     \* history: storage or an edit overlapped the latest switch

switchVars == <<switch, target, previous>>
configVars == <<active, settings>>
driverVars == <<driver, configured, settling, fifo>>
storageVars == <<saving, maintenance, operations>>
vars == <<switchVars, configVars, driverVars, ready, storageVars, initialized,
          fault, app, phase, disturbed>>

SwitchStates == {"IDLE", "REQUESTED", "PAUSE", "CLEAR_FIFO", "CONFIGURE", "VERIFY",
                 "SETTLING", "RESET_METROLOGY", "COMPLETE", "ROLLBACK", "ERROR"}
DriverStates == {"DISABLED", "POWER_UP_WAIT", "WRITE", "READ_BACK", "SETTLING",
                 "RUNNING", "ERROR"}

TypeOK ==
  /\ switch \in SwitchStates /\ target \in Profiles /\ previous \in Profiles
  /\ active \in Profiles /\ settings \in [Profiles -> Settings]
  /\ driver \in DriverStates /\ configured \in Settings
  /\ settling \in 0 .. SettlingSamples
  /\ driver = "SETTLING" => settling > 0
  /\ fifo \in Seq(Settings) /\ Len(fifo) =< Capacity
  /\ ready \in BOOLEAN
  /\ saving \in {"NONE", "SAVE", "FACTORY_RESET"}
  /\ maintenance \in BOOLEAN /\ initialized \in BOOLEAN /\ fault \in BOOLEAN
  /\ app \in {"WARMUP", "RUN", "FAULT"}
  /\ phase \in {"DRIVER", "SWITCH", "BRIDGE", "COMMANDS", "STORAGE", "STATE"}
  /\ operations \in 0 .. MaxOperations
  /\ disturbed \in SUBSET {"STORAGE", "EDIT"}

\* After DeviceManager_Init has started the converter.
Init ==
  /\ switch = "IDLE" /\ target = DefaultProfile /\ previous = DefaultProfile
  /\ active \in Profiles /\ settings \in [Profiles -> Settings]
  /\ driver = "POWER_UP_WAIT" /\ configured = settings[active]
  /\ settling = 0 /\ fifo = <<>> /\ ready = FALSE
  /\ saving = "NONE" /\ maintenance = FALSE /\ operations = 0
  /\ initialized = TRUE /\ fault = FALSE /\ app = "WARMUP"
  /\ phase = "DRIVER" /\ disturbed = {}

\* WeighingProfileManager_IsBusy.
Busy == switch \notin {"IDLE", "COMPLETE"}

-----------------------------------------------------------------------------
(* The driver: DeviceManager_ProcessFast over CS1237_Process.              *)

\* Mutant: only a running converter is written to.
MutCanWrite == driver = "RUNNING"

\* CS1237_WriteConfig: refused while the converter is disabled.
CanWrite == driver # "DISABLED"
WriteConfig(s) ==
  driver' = "WRITE" /\ configured' = s /\ fifo' = <<>> /\ UNCHANGED settling

\* CS1237_Init.
Restart(s) ==
  driver' = "POWER_UP_WAIT" /\ configured' = s /\ fifo' = <<>> /\ UNCHANGED settling

DriverRuns == initialized /\ ~maintenance

\* The driver ends the step in the given state; an error is a fault at once.
EndDriver(next) ==
  /\ phase = "DRIVER" /\ phase' = "SWITCH"
  /\ driver' = next
  /\ fault' = (fault \/ (DriverRuns /\ next = "ERROR"))
  /\ UNCHANGED <<switchVars, configVars, storageVars, initialized, app, disturbed>>

\* Nothing is due: no data ready, or a state that waits for no data.
DriverWaits ==
  EndDriver(driver) /\ ready' = FALSE /\ UNCHANGED <<configured, settling, fifo>>

PoweredUp ==
  /\ EndDriver("WRITE")
  /\ DriverRuns /\ driver = "POWER_UP_WAIT"
  /\ ready' = FALSE
  /\ UNCHANGED <<configured, settling, fifo>>

\* The converter has data at most every other pass.
DataReady == DriverRuns /\ ~ready /\ ready' = TRUE

\* Mutant: the samples to settle are not counted afresh.
MutConfigStep ==
  /\ DataReady
  /\ \/ driver \in {"WRITE", "READ_BACK"} /\ EndDriver("ERROR")
     \/ driver = "WRITE" /\ EndDriver("READ_BACK")
     \/ driver = "READ_BACK" /\ EndDriver("SETTLING")
  /\ UNCHANGED <<configured, settling, fifo>>

\* The registers are written, then read back and compared.
ConfigStep ==
  /\ DataReady
  /\ \/ /\ driver \in {"WRITE", "READ_BACK"}
        /\ EndDriver("ERROR") /\ UNCHANGED settling
     \/ driver = "WRITE" /\ EndDriver("READ_BACK") /\ UNCHANGED settling
     \/ driver = "READ_BACK" /\ EndDriver("SETTLING") /\ settling' = SettlingSamples
  /\ UNCHANGED <<configured, fifo>>

SettleStep ==
  /\ DataReady
  /\ driver = "SETTLING"
  /\ settling' = IF settling > 0 THEN settling - 1 ELSE 0
  /\ EndDriver(IF settling' = 0 THEN "RUNNING" ELSE "SETTLING")
  /\ UNCHANGED <<configured, fifo>>

\* CS1237_PushSample: a full buffer drops the sample.
Pushed == IF Len(fifo) < Capacity THEN Append(fifo, configured) ELSE fifo

SampleStep ==
  /\ DataReady
  /\ driver = "RUNNING" /\ EndDriver("RUNNING")
  /\ fifo' = Pushed
  /\ UNCHANGED <<configured, settling>>

-----------------------------------------------------------------------------
(* WeighingProfileManager_Process: one step of the switch in every pass.   *)

EndSwitch == phase = "SWITCH" /\ phase' = "BRIDGE"
SwitchOnly == UNCHANGED <<target, previous, ready, storageVars, initialized, app, disturbed>>

MoveTo(from, to) ==
  /\ EndSwitch /\ SwitchOnly
  /\ switch = from /\ switch' = to
  /\ UNCHANGED <<configVars, driverVars, fault>>

SwitchIdle == MoveTo("IDLE", "IDLE")
Pause == MoveTo("REQUESTED", "PAUSE") \/ MoveTo("PAUSE", "CLEAR_FIFO")
Complete == MoveTo("COMPLETE", "IDLE")

\* One buffered sample is thrown away in each pass.
ClearFifo ==
  \/ /\ EndSwitch /\ SwitchOnly
     /\ switch = "CLEAR_FIFO" /\ fifo # <<>>
     /\ fifo' = Tail(fifo)
     /\ UNCHANGED <<switch, configVars, driver, configured, settling, fault>>
  \/ fifo = <<>> /\ MoveTo("CLEAR_FIFO", "CONFIGURE")

Configure ==
  \/ /\ EndSwitch /\ SwitchOnly
     /\ switch = "CONFIGURE" /\ CanWrite
     /\ WriteConfig(settings[target])
     /\ switch' = "VERIFY"
     /\ UNCHANGED <<configVars, fault>>
  \/ ~CanWrite /\ MoveTo("CONFIGURE", "ROLLBACK")

\* VERIFY and SETTLING look at the state of the driver, not at what it runs.
Verify ==
  \/ driver = "SETTLING" /\ MoveTo("VERIFY", "SETTLING")
  \/ driver = "ERROR" /\ MoveTo("VERIFY", "ROLLBACK")
  \/ driver \notin {"SETTLING", "ERROR"} /\ MoveTo("VERIFY", "VERIFY")

Settle ==
  \/ driver = "RUNNING" /\ MoveTo("SETTLING", "RESET_METROLOGY")
  \/ driver = "ERROR" /\ MoveTo("SETTLING", "ROLLBACK")
  \/ driver \notin {"RUNNING", "ERROR"} /\ MoveTo("SETTLING", "SETTLING")

\* The switch is committed, or applying the configuration fails.
Commit ==
  /\ EndSwitch /\ SwitchOnly
  /\ switch = "RESET_METROLOGY"
  /\ switch' = "COMPLETE" /\ active' = target
  /\ UNCHANGED <<settings, driverVars, fault>>
CommitFails == MoveTo("RESET_METROLOGY", "ROLLBACK")

\* Mutant: what is written is the profile that could not be reached.
MutRollback ==
  /\ EndSwitch /\ SwitchOnly
  /\ switch = "ROLLBACK" /\ switch' = "ERROR"
  /\ IF CanWrite THEN WriteConfig(settings[target]) /\ UNCHANGED fault
     ELSE fault' = TRUE /\ UNCHANGED driverVars
  /\ UNCHANGED configVars

Rollback ==
  /\ EndSwitch /\ SwitchOnly
  /\ switch = "ROLLBACK" /\ switch' = "ERROR"
  /\ IF CanWrite THEN WriteConfig(settings[previous]) /\ UNCHANGED fault
     ELSE fault' = TRUE /\ UNCHANGED driverVars
  /\ UNCHANGED configVars

\* Mutant: the switch never leaves its error state.
MutRecover ==
  /\ EndSwitch /\ SwitchOnly
  /\ switch = "ERROR" /\ switch' = "ERROR"
  /\ fault' = (fault \/ driver = "ERROR")
  /\ UNCHANGED <<configVars, driverVars>>

\* PROFILE_SWITCH_ERROR: the switch stays busy until the converter runs again.
Recover ==
  /\ EndSwitch /\ SwitchOnly
  /\ switch = "ERROR"
  /\ switch' = IF driver = "RUNNING" THEN "IDLE" ELSE "ERROR"
  /\ fault' = (fault \/ driver = "ERROR")
  /\ UNCHANGED <<configVars, driverVars>>

SwitchStep ==
  \/ SwitchIdle \/ Pause \/ ClearFifo \/ Configure \/ Verify \/ Settle
  \/ Commit \/ CommitFails \/ Rollback \/ Recover \/ Complete

-----------------------------------------------------------------------------
(* MeasurementBridge_Process.                                              *)

\* Mutant: samples are taken during a switch as well.
MutConsumed == IF maintenance THEN 0 ELSE Min({MaximumSamples, Len(fifo)})

\* How many samples the bridge hands to the metrology in this pass.
Consumed == IF maintenance \/ Busy THEN 0 ELSE Min({MaximumSamples, Len(fifo)})

Bridge ==
  /\ phase = "BRIDGE" /\ phase' = "COMMANDS"
  /\ fifo' = SubSeq(fifo, Consumed + 1, Len(fifo))
  /\ UNCHANGED <<switchVars, configVars, driver, configured, settling, ready,
                 storageVars, initialized, fault, app, disturbed>>

-----------------------------------------------------------------------------
(* Commands of any source, in any number.                                  *)

\* WeighingProfileManager_Request: neither a save nor a fault refuses it.
Request(profile) ==
  /\ phase = "COMMANDS"
  /\ ~Busy /\ profile # active
  /\ previous' = active /\ target' = profile /\ switch' = "REQUESTED"
  /\ disturbed' = IF saving = "NONE" THEN {} ELSE {"STORAGE"}
  /\ UNCHANGED <<configVars, driverVars, ready, storageVars, initialized, fault, app, phase>>

\* CommandService_CommitConfig: what the active profile says of the converter
\* cannot change, what the other says can; a switch does not refuse it.
Edit(profile, s) ==
  /\ phase = "COMMANDS"
  /\ profile # active /\ settings[profile] # s
  /\ settings' = [settings EXCEPT ![profile] = s]
  /\ disturbed' = IF Busy THEN disturbed \cup {"EDIT"} ELSE disturbed
  /\ UNCHANGED <<switchVars, active, driverVars, ready, storageVars, initialized,
                 fault, app, phase>>

\* PersistenceManager_Start: a save that finds nothing new leaves the converter
\* alone; otherwise maintenance switches it off.  A deferred save of Modbus
\* and a confirmed factory reset do not ask whether a switch is busy.
StartOperation(kind) ==
  /\ phase = "COMMANDS"
  /\ saving = "NONE" /\ operations < MaxOperations
  /\ saving' = kind /\ operations' = operations + 1
  /\ \/ kind = "SAVE" /\ UNCHANGED <<driver, maintenance, disturbed>>
     \/ /\ initialized /\ ~maintenance
        /\ maintenance' = TRUE /\ driver' = "DISABLED"
        /\ disturbed' = IF Busy THEN disturbed \cup {"STORAGE"} ELSE disturbed
  /\ UNCHANGED <<switchVars, configVars, configured, settling, fifo, ready,
                 initialized, fault, app, phase>>

EndCommands ==
  /\ phase = "COMMANDS" /\ phase' = "STORAGE"
  /\ UNCHANGED <<switchVars, configVars, driverVars, ready, storageVars, initialized,
                 fault, app, disturbed>>

-----------------------------------------------------------------------------
(* PersistenceManager_Process and the maintenance it ends.                 *)

StorageGoesOn ==
  /\ phase = "STORAGE" /\ phase' = "STATE"
  /\ UNCHANGED <<switchVars, configVars, driverVars, ready, storageVars, initialized,
                 fault, app, disturbed>>

\* DeviceManager_ExitStorageMaintenance restarts the converter for the
\* configuration of the context, as the operation leaves it.
StorageEnds ==
  /\ phase = "STORAGE" /\ phase' = "STATE"
  /\ saving # "NONE" /\ saving' = "NONE"
  /\ \/ UNCHANGED configVars
     \/ /\ saving = "FACTORY_RESET"
        /\ active' = DefaultProfile /\ settings' = Defaults
  /\ IF maintenance /\ initialized
     THEN maintenance' = FALSE /\ Restart(settings'[active'])
     ELSE UNCHANGED <<maintenance, driverVars>>
  /\ UNCHANGED <<switchVars, ready, initialized, fault, app, operations, disturbed>>

-----------------------------------------------------------------------------
(* App_RunStateMachine.                                                    *)

\* A fault of the converter or of anything else: all devices go safe, once.
EnterFault ==
  /\ phase = "STATE" /\ phase' = "DRIVER"
  /\ app # "FAULT"
  /\ app' = "FAULT" /\ initialized' = FALSE /\ driver' = "DISABLED"
  /\ fault' \in {fault} \cup {app = "WARMUP"}
  /\ UNCHANGED <<switchVars, configVars, configured, settling, fifo, ready,
                 storageVars, disturbed>>

StayInState ==
  /\ phase = "STATE" /\ phase' = "DRIVER"
  /\ fault => app = "FAULT"
  /\ app' = IF app = "WARMUP" /\ driver = "RUNNING" THEN "RUN" ELSE app
  /\ UNCHANGED <<switchVars, configVars, driverVars, ready, storageVars, initialized,
                 fault, disturbed>>

MainLoop ==
  \/ DriverWaits \/ SwitchStep \/ Bridge \/ EndCommands \/ StorageGoesOn \/ StayInState
  \/ EnterFault

Next ==
  \/ PoweredUp \/ ConfigStep \/ SettleStep \/ SampleStep
  \/ \E profile \in Profiles : Request(profile)
  \/ \E profile \in Profiles, s \in Settings : Edit(profile, s)
  \/ \E kind \in {"SAVE", "FACTORY_RESET"} : StartOperation(kind)
  \/ StorageEnds
  \/ MainLoop

Spec == Init /\ [][Next]_vars

\* The loop never stops, the converter keeps delivering data, and a storage
\* operation that is given a step for ever ends.
FairSpec ==
  /\ Spec
  /\ WF_vars(MainLoop)
  /\ SF_vars(PoweredUp) /\ SF_vars(ConfigStep) /\ SF_vars(SettleStep)
  /\ SF_vars(StorageEnds)

-----------------------------------------------------------------------------
(* Properties.                                                             *)

Measuring == driver \in {"SETTLING", "RUNNING"} /\ ~Busy

\* Outside a switch the converter runs with the settings of the active
\* profile, through saves, resets, edits and failed switches, unless storage or
\* an edit came into the latest switch.
ConverterMatchesProfile ==
  Measuring /\ disturbed = {} => configured = settings[active]

\* The metrology is given no sample taken under other settings than those of
\* the active profile it filters with.
SamplesMatchProfile ==
  [][phase = "BRIDGE" /\ disturbed = {}
       => \A n \in 1 .. Consumed : fifo[n] = settings[active]]_vars

\* The converter is only ever declared faulty because it failed, did not warm
\* up, or storage came into the switch: a switch that cannot be committed
\* goes back without stopping the scale.
FaultHasCause ==
  [][~fault /\ fault' /\ app # "FAULT"
       => driver' = "ERROR" \/ app = "WARMUP" \/ "STORAGE" \in disturbed]_vars

\* Every switch comes to an end, committed or not, or the scale is in fault.
SwitchEnds == Busy ~> (~Busy \/ app = "FAULT")

\* A committed switch means that the converter runs the settings of the new
\* profile, unless they were edited meanwhile
\* (STAGE5A_MASS_UNITS_PROFILES_REGISTER_MODEL.md:28: the manager "writes the
\* target config, waits for driver verify/settling, resets metrology, and
\* commits active_profile only on success").
CommitMeansConfigured ==
  [][switch = "RESET_METROLOGY" /\ switch' = "COMPLETE"
       /\ app # "FAULT" /\ "EDIT" \notin disturbed
       => configured' = settings'[active']]_vars
=============================================================================
