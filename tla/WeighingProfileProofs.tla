------------------------ MODULE WeighingProfileProofs ------------------------
(***************************************************************************)
(* The properties of WeighingProfile but liveness, for every set of        *)
(* profiles and settings and every size of the buffers.                    *)
(***************************************************************************)
EXTENDS WeighingProfile, TLAPS

\* The converter is off exactly in maintenance and in the safe state.
OffHasReason ==
  /\ driver = "DISABLED" <=> maintenance \/ ~initialized
  /\ ~initialized <=> app = "FAULT"

\* While the devices work, maintenance belongs to the operation in flight; a
\* factory reset never goes without it.
MaintenanceIsStorage ==
  /\ maintenance /\ initialized => saving # "NONE"
  /\ saving = "FACTORY_RESET" => maintenance

\* A switch that storage did not come into has the converter to itself.
SwitchHasConverter ==
  Busy /\ "STORAGE" \notin disturbed
    => ~(maintenance /\ initialized) /\ saving # "FACTORY_RESET"

\* The buffer holds no sample of earlier settings.
SamplesAreCurrent == \A n \in DOMAIN fifo : fifo[n] = configured

\* What an undisturbed switch knows of the converter at each of its states.
SwitchKnowsConverter ==
  disturbed = {}
    => /\ Busy => previous = active
       /\ ~Busy /\ ~maintenance => configured = settings[active]
       /\ switch \in {"VERIFY", "SETTLING", "RESET_METROLOGY"}
            => configured = settings[target]
       /\ switch = "ERROR" /\ driver # "DISABLED" => configured = settings[previous]

\* The type invariant in two parts: the provers differ over the flags.
DataTypes ==
  /\ switch \in SwitchStates /\ target \in Profiles /\ previous \in Profiles
  /\ active \in Profiles /\ settings \in [Profiles -> Settings]
  /\ driver \in DriverStates /\ configured \in Settings
  /\ settling \in 0 .. SettlingSamples
  /\ driver = "SETTLING" => settling > 0
  /\ saving \in {"NONE", "SAVE", "FACTORY_RESET"}
  /\ app \in {"WARMUP", "RUN", "FAULT"}
  /\ phase \in {"DRIVER", "SWITCH", "BRIDGE", "COMMANDS", "STORAGE", "STATE"}
  /\ operations \in 0 .. MaxOperations
  /\ disturbed \in SUBSET {"STORAGE", "EDIT"}
FifoType == fifo \in Seq(Settings) /\ Len(fifo) =< Capacity
Flags ==
  /\ ready \in BOOLEAN /\ maintenance \in BOOLEAN
  /\ initialized \in BOOLEAN /\ fault \in BOOLEAN

\* What the manager, the driver and the storage know of one another.
Knowledge ==
  /\ OffHasReason /\ MaintenanceIsStorage
  /\ SwitchHasConverter /\ SwitchKnowsConverter

IInv == TypeOK /\ Knowledge /\ SamplesAreCurrent

-----------------------------------------------------------------------------
(* Facts about the state.                                                  *)

LEMMA TypeParts == TypeOK <=> DataTypes /\ FifoType /\ Flags
BY DEF TypeOK, DataTypes, FifoType, Flags

LEMMA TypePartsNext == TypeOK' <=> DataTypes' /\ FifoType' /\ Flags'
BY DEF TypeOK, DataTypes, FifoType, Flags

\* The parameters are counts.
LEMMA Counts ==
  /\ Capacity \in Nat /\ Capacity > 0
  /\ SettlingSamples \in Nat /\ SettlingSamples > 0
  /\ MaximumSamples \in Nat /\ MaximumSamples > 0
  /\ MaxOperations \in Nat
BY CountAssumption

\* The bridge hands on no more samples than there are, and none in maintenance
\* or during a switch.
LEMMA ConsumedIsBuffered ==
  ASSUME FifoType
  PROVE  /\ Consumed \in 0 .. Len(fifo)
         /\ Consumed > 0 => ~maintenance /\ ~Busy
<1> DEFINE least == Min({MaximumSamples, Len(fifo)})
<1>1. Len(fifo) \in Nat /\ MaximumSamples \in Nat
  BY Counts DEF FifoType
<1>2. \E x \in {MaximumSamples, Len(fifo)} : \A y \in {MaximumSamples, Len(fifo)} : x =< y
  BY <1>1
<1>3. least \in {MaximumSamples, Len(fifo)}
      /\ \A y \in {MaximumSamples, Len(fifo)} : least =< y
  BY <1>2 DEF Min
<1>4. least \in 0 .. Len(fifo)
  BY <1>1, <1>3
<1> QED
  BY <1>1, <1>4 DEF Consumed

LEMMA InitInvariant == Init => IInv
<1> SUFFICES ASSUME Init PROVE IInv
  OBVIOUS
<1>1. DataTypes
  BY ProfileAssumption, Counts DEF Init, DataTypes, SwitchStates, DriverStates
<1>2. FifoType /\ SamplesAreCurrent
  BY Counts DEF Init, FifoType, SamplesAreCurrent
<1>3. Flags
  BY DEF Init, Flags
<1>4. Knowledge
  BY DEF Init, Knowledge, OffHasReason, MaintenanceIsStorage, SwitchHasConverter,
     SwitchKnowsConverter, Busy
<1> QED
  BY <1>1, <1>2, <1>3, <1>4, TypeParts DEF IInv

-----------------------------------------------------------------------------
(* The steps that touch the buffer.                                        *)

\* A restarted or rewritten converter starts with an empty buffer, a sample is
\* taken under what it runs, and samples leave at the head.
LEMMA FifoStep ==
  ASSUME IInv, Next
  PROVE  FifoType' /\ SamplesAreCurrent'
<1> USE DEF IInv, SamplesAreCurrent
<1>1. FifoType /\ DataTypes
  BY TypeParts
<1>2. ASSUME UNCHANGED <<configured, fifo>> PROVE FifoType' /\ SamplesAreCurrent'
  BY <1>1, <1>2 DEF FifoType
<1>3. ASSUME fifo' = <<>> PROVE FifoType' /\ SamplesAreCurrent'
  BY <1>3, Counts DEF FifoType
<1>4. CASE SampleStep
  <2>1. CASE Len(fifo) < Capacity
    <3>1. fifo' = Append(fifo, configured) /\ configured' = configured
      BY <1>4, <2>1 DEF SampleStep, Pushed
    <3>2. configured \in Settings /\ fifo \in Seq(Settings)
      BY <1>1 DEF DataTypes, FifoType
    <3>3. /\ fifo' \in Seq(Settings) /\ Len(fifo') = Len(fifo) + 1
          /\ \A n \in DOMAIN fifo' : fifo'[n] = IF n = Len(fifo) + 1 THEN configured ELSE fifo[n]
      BY <3>1, <3>2
    <3> QED
      BY <2>1, <3>1, <3>2, <3>3, Counts DEF FifoType
  <2>2. CASE ~(Len(fifo) < Capacity)
    BY <1>2, <1>4, <2>2 DEF SampleStep, Pushed
  <2> QED
    BY <2>1, <2>2
<1>5. CASE ClearFifo
  <2>1. CASE fifo # <<>>
    <3>1. fifo' = Tail(fifo) /\ configured' = configured /\ fifo \in Seq(Settings)
      BY <1>1, <1>5, <2>1 DEF ClearFifo, FifoType
    <3>2. /\ fifo' \in Seq(Settings) /\ Len(fifo') = Len(fifo) - 1
          /\ \A n \in DOMAIN fifo' : n + 1 \in DOMAIN fifo /\ fifo'[n] = fifo[n + 1]
      BY <2>1, <3>1
    <3> QED
      BY <1>1, <3>1, <3>2, Counts DEF FifoType
  <2>2. CASE fifo = <<>>
    BY <1>2, <1>5, <2>2 DEF ClearFifo, MoveTo, driverVars
  <2> QED
    BY <2>1, <2>2
<1>6. CASE Bridge
  <2>1. fifo' = SubSeq(fifo, Consumed + 1, Len(fifo)) /\ configured' = configured
    BY <1>6 DEF Bridge
  <2>2. Consumed \in 0 .. Len(fifo) /\ fifo \in Seq(Settings) /\ Len(fifo) \in Nat
    BY <1>1, ConsumedIsBuffered DEF FifoType
  <2> HIDE DEF Consumed
  <2>3. /\ fifo' \in Seq(Settings) /\ Len(fifo') = Len(fifo) - Consumed
        /\ \A n \in DOMAIN fifo' : n + Consumed \in DOMAIN fifo /\ fifo'[n] = fifo[n + Consumed]
    BY <2>1, <2>2
  <2> QED
    BY <1>1, <2>1, <2>2, <2>3, Counts DEF FifoType
<1>7. CASE DriverWaits \/ PoweredUp \/ ConfigStep \/ SettleStep
  BY <1>2, <1>7 DEF DriverWaits, PoweredUp, ConfigStep, SettleStep
<1>8. CASE SwitchStep /\ ~ClearFifo
  BY <1>2, <1>3, <1>8 DEF SwitchStep, SwitchIdle, Pause, Configure, Verify, Settle,
     Commit, CommitFails, Rollback, Recover, Complete, MoveTo, WriteConfig, driverVars
<1>9. CASE StorageEnds
  BY <1>2, <1>3, <1>9 DEF StorageEnds, Restart, driverVars
<1>10. CASE EndCommands \/ StorageGoesOn \/ StayInState \/ EnterFault
  BY <1>2, <1>10 DEF EndCommands, StorageGoesOn, StayInState, EnterFault, driverVars
<1>11. ASSUME NEW p \in Profiles, Request(p) PROVE UNCHANGED <<configured, fifo>>
  BY <1>11 DEF Request, driverVars
<1>12. ASSUME NEW p \in Profiles, NEW s \in Settings, Edit(p, s)
       PROVE  UNCHANGED <<configured, fifo>>
  BY <1>12 DEF Edit, driverVars
<1>13. ASSUME NEW kind \in {"SAVE", "FACTORY_RESET"}, StartOperation(kind)
       PROVE  UNCHANGED <<configured, fifo>>
  BY <1>13 DEF StartOperation
<1> QED
  BY <1>2, <1>4, <1>5, <1>6, <1>7, <1>8, <1>9, <1>10, <1>11, <1>12, <1>13 DEF Next, MainLoop

-----------------------------------------------------------------------------
(* The other steps, by what they belong to.                                *)

\* A step of the driver.
LEMMA DriverKeeps ==
  ASSUME IInv, DriverWaits \/ PoweredUp \/ ConfigStep \/ SettleStep \/ SampleStep
  PROVE  DataTypes' /\ Flags' /\ Knowledge'
<1> USE DEF IInv
<1>1. DataTypes /\ Flags
  BY TypeParts
<1>2. /\ UNCHANGED <<switch, target, previous, active, settings, configured>>
      /\ UNCHANGED <<saving, maintenance, operations, initialized, app, disturbed>>
  BY DEF DriverWaits, PoweredUp, ConfigStep, SettleStep, SampleStep, EndDriver,
     switchVars, configVars, storageVars
<1>3. /\ driver' = "DISABLED" <=> driver = "DISABLED"
      /\ driver' \in DriverStates /\ phase' = "SWITCH"
  BY <1>1 DEF DriverWaits, PoweredUp, ConfigStep, SettleStep, SampleStep, EndDriver,
     DataReady, DataTypes, DriverStates
<1>4. settling' \in 0 .. SettlingSamples /\ (driver' = "SETTLING" => settling' > 0)
  BY <1>1, Counts DEF DriverWaits, PoweredUp, ConfigStep, SettleStep, SampleStep, EndDriver,
     DataTypes
<1>5. ready' \in BOOLEAN /\ fault' \in BOOLEAN
  BY <1>1 DEF Flags, DriverWaits, PoweredUp, ConfigStep, SettleStep, SampleStep, DataReady,
     EndDriver
<1>6. DataTypes'
  BY <1>1, <1>2, <1>3, <1>4 DEF DataTypes
<1>7. Flags'
  BY <1>1, <1>2, <1>5 DEF Flags
<1>8. Knowledge'
  BY <1>2, <1>3 DEF Knowledge, OffHasReason, MaintenanceIsStorage, SwitchHasConverter,
     SwitchKnowsConverter, Busy
<1> QED
  BY <1>6, <1>7, <1>8

\* A step of the switch.
LEMMA SwitchKeeps ==
  ASSUME IInv, SwitchStep
  PROVE  DataTypes' /\ Flags' /\ Knowledge'
<1> USE DEF IInv
<1>1. DataTypes /\ Flags
  BY TypeParts
<1>2. /\ UNCHANGED <<target, previous, ready, saving, maintenance, operations>>
      /\ UNCHANGED <<initialized, app, disturbed, settings>>
      /\ phase' = "BRIDGE" /\ switch' \in SwitchStates
  BY DEF SwitchStep, SwitchIdle, Pause, ClearFifo, Configure, Verify, Settle, Commit,
     CommitFails, Rollback, Recover, Complete, MoveTo, EndSwitch, SwitchOnly, storageVars,
     configVars, SwitchStates
<1>3. CASE UNCHANGED <<active, driver, configured, settling>>
  <2>1. fault' \in BOOLEAN
    BY <1>1 DEF SwitchStep, SwitchIdle, Pause, ClearFifo, Configure, Verify, Settle, Commit,
       CommitFails, Rollback, Recover, Complete, MoveTo, Flags
  <2>2. DataTypes' /\ Flags'
    BY <1>1, <1>2, <1>3, <2>1 DEF DataTypes, Flags
  <2>3. OffHasReason' /\ MaintenanceIsStorage'
    BY <1>2, <1>3 DEF Knowledge, OffHasReason, MaintenanceIsStorage
  <2>4. SwitchHasConverter' /\ SwitchKnowsConverter'
    BY <1>2, <1>3 DEF SwitchStep, SwitchIdle, Pause, ClearFifo, Configure, Verify, Settle,
       Commit, CommitFails, Rollback, Recover, Complete, MoveTo, WriteConfig, CanWrite,
       Knowledge, OffHasReason, MaintenanceIsStorage, SwitchHasConverter,
       SwitchKnowsConverter, Busy
  <2> QED
    BY <2>2, <2>3, <2>4 DEF Knowledge
<1>4. CASE Configure /\ CanWrite
  <2>1. /\ switch = "CONFIGURE" /\ switch' = "VERIFY" /\ driver # "DISABLED"
        /\ driver' = "WRITE" /\ configured' = settings[target] /\ settling' = settling
        /\ UNCHANGED <<active, fault>>
    BY <1>4 DEF Configure, CanWrite, MoveTo, WriteConfig, configVars
  <2>2. configured' \in Settings
    BY <1>1, <2>1 DEF DataTypes
  <2>3. DataTypes' /\ Flags'
    BY <1>1, <1>2, <2>1, <2>2 DEF DataTypes, Flags, DriverStates
  <2>4. Knowledge'
    BY <1>2, <2>1 DEF Knowledge, OffHasReason, MaintenanceIsStorage, SwitchHasConverter,
       SwitchKnowsConverter, Busy
  <2> QED
    BY <2>3, <2>4
<1>5. CASE Rollback /\ CanWrite
  <2>1. /\ switch = "ROLLBACK" /\ switch' = "ERROR" /\ driver # "DISABLED"
        /\ driver' = "WRITE" /\ configured' = settings[previous] /\ settling' = settling
        /\ UNCHANGED <<active, fault>>
    BY <1>5 DEF Rollback, CanWrite, WriteConfig, configVars
  <2>2. configured' \in Settings
    BY <1>1, <2>1 DEF DataTypes
  <2>3. DataTypes' /\ Flags'
    BY <1>1, <1>2, <2>1, <2>2 DEF DataTypes, Flags, DriverStates
  <2>4. Knowledge'
    BY <1>2, <2>1 DEF Knowledge, OffHasReason, MaintenanceIsStorage, SwitchHasConverter,
       SwitchKnowsConverter, Busy
  <2> QED
    BY <2>3, <2>4
<1>6. CASE Commit
  <2>1. /\ switch = "RESET_METROLOGY" /\ switch' = "COMPLETE" /\ active' = target
        /\ UNCHANGED <<driver, configured, settling, fault>>
    BY <1>6 DEF Commit, driverVars
  <2>2. DataTypes' /\ Flags'
    BY <1>1, <1>2, <2>1 DEF DataTypes, Flags
  <2>3. Knowledge'
    BY <1>2, <2>1 DEF Knowledge, OffHasReason, MaintenanceIsStorage, SwitchHasConverter,
       SwitchKnowsConverter, Busy
  <2> QED
    BY <2>2, <2>3
<1> QED
  BY <1>3, <1>4, <1>5, <1>6 DEF SwitchStep, SwitchIdle, Pause, ClearFifo, Configure, Verify,
     Settle, CommitFails, Rollback, Recover, Complete, MoveTo, configVars, driverVars

\* A command.
LEMMA CommandKeeps ==
  ASSUME IInv,
         \/ \E p \in Profiles : Request(p)
         \/ \E p \in Profiles, s \in Settings : Edit(p, s)
         \/ \E kind \in {"SAVE", "FACTORY_RESET"} : StartOperation(kind)
  PROVE  DataTypes' /\ Flags' /\ Knowledge'
<1> USE DEF IInv
<1>1. DataTypes /\ Flags
  BY TypeParts
<1>2. ASSUME NEW p \in Profiles, Request(p) PROVE DataTypes' /\ Flags' /\ Knowledge'
  <2>1. DataTypes' /\ Flags'
    BY <1>1, <1>2 DEF Request, DataTypes, Flags, SwitchStates, configVars, driverVars,
       storageVars
  <2>2. Knowledge'
    BY <1>2 DEF Request, configVars, driverVars, storageVars, Knowledge, OffHasReason,
       MaintenanceIsStorage, SwitchHasConverter, SwitchKnowsConverter, Busy
  <2> QED
    BY <2>1, <2>2
<1>3. ASSUME NEW p \in Profiles, NEW s \in Settings, Edit(p, s)
      PROVE  DataTypes' /\ Flags' /\ Knowledge'
  <2>1. DataTypes' /\ Flags'
    BY <1>1, <1>3 DEF Edit, DataTypes, Flags, switchVars, driverVars, storageVars
  <2>2. settings'[active] = settings[active]
    BY <1>1, <1>3 DEF Edit, DataTypes
  <2>3. Knowledge'
    BY <1>3, <2>2 DEF Edit, switchVars, driverVars, storageVars, Knowledge, OffHasReason,
       MaintenanceIsStorage, SwitchHasConverter, SwitchKnowsConverter, Busy
  <2> QED
    BY <2>1, <2>3
<1>4. ASSUME NEW kind \in {"SAVE", "FACTORY_RESET"}, StartOperation(kind)
      PROVE  DataTypes' /\ Flags' /\ Knowledge'
  <2>1. DataTypes'
    <3>1. operations' \in 0 .. MaxOperations
      BY <1>1, <1>4, Counts DEF StartOperation, DataTypes
    <3>2. driver' \in DriverStates /\ (driver' = "SETTLING" => settling' > 0)
      BY <1>1, <1>4 DEF StartOperation, DataTypes, DriverStates
    <3>3. disturbed' \in SUBSET {"STORAGE", "EDIT"}
      <4>1. disturbed' = disturbed \/ disturbed' = disturbed \cup {"STORAGE"}
        BY <1>4 DEF StartOperation
      <4> QED
        BY <1>1, <4>1 DEF DataTypes
    <3> QED
      BY <1>1, <1>4, <3>1, <3>2, <3>3 DEF StartOperation, DataTypes, switchVars, configVars
  <2>2. Flags'
    BY <1>1, <1>4 DEF StartOperation, Flags
  <2>3. Knowledge'
    BY <1>4 DEF StartOperation, switchVars, configVars, Knowledge, OffHasReason,
       MaintenanceIsStorage, SwitchHasConverter, SwitchKnowsConverter, Busy
  <2> QED
    BY <2>1, <2>2, <2>3
<1> QED
  BY <1>2, <1>3, <1>4

\* The end of a storage operation, and the state machine of the application.
LEMMA StorageKeeps ==
  ASSUME IInv, StorageEnds \/ EnterFault \/ StayInState
  PROVE  DataTypes' /\ Flags' /\ Knowledge'
<1> USE DEF IInv
<1>1. DataTypes /\ Flags
  BY TypeParts
<1>2. CASE StorageEnds
  <2>1. active' \in Profiles /\ settings' \in [Profiles -> Settings]
    BY <1>1, <1>2, ProfileAssumption DEF StorageEnds, configVars, DataTypes
  <2>2. settings'[active'] \in Settings
    BY <2>1
  <2>3. DataTypes' /\ Flags'
    BY <1>1, <1>2, <2>1, <2>2 DEF StorageEnds, DataTypes, Flags, Restart, switchVars,
       driverVars, DriverStates
  <2>4. Knowledge'
    BY <1>2 DEF StorageEnds, Restart, switchVars, configVars, driverVars, Knowledge,
       OffHasReason, MaintenanceIsStorage, SwitchHasConverter, SwitchKnowsConverter, Busy
  <2> QED
    BY <2>3, <2>4
<1>3. CASE EnterFault
  <2>1. fault' \in BOOLEAN
    BY <1>1, <1>3 DEF EnterFault, Flags
  <2>2. DataTypes' /\ Flags'
    BY <1>1, <1>3, <2>1 DEF EnterFault, DataTypes, Flags, switchVars, configVars,
       storageVars, DriverStates
  <2>3. Knowledge'
    BY <1>3 DEF EnterFault, switchVars, configVars, storageVars, Knowledge, OffHasReason,
       MaintenanceIsStorage, SwitchHasConverter, SwitchKnowsConverter, Busy
  <2> QED
    BY <2>2, <2>3
<1>4. CASE StayInState
  <2>1. DataTypes' /\ Flags'
    BY <1>1, <1>4 DEF StayInState, DataTypes, Flags, switchVars, configVars, driverVars,
       storageVars
  <2>2. Knowledge'
    BY <1>4 DEF StayInState, switchVars, configVars, driverVars, storageVars, Knowledge,
       OffHasReason, MaintenanceIsStorage, SwitchHasConverter, SwitchKnowsConverter, Busy
  <2> QED
    BY <2>1, <2>2
<1> QED
  BY <1>2, <1>3, <1>4

\* A step that only moves the loop on.
LEMMA PhaseKeeps ==
  ASSUME IInv, Bridge \/ EndCommands \/ StorageGoesOn
  PROVE  DataTypes' /\ Flags' /\ Knowledge'
<1> USE DEF IInv
<1>1. DataTypes /\ Flags
  BY TypeParts
<1>2. /\ UNCHANGED <<switch, target, previous, active, settings, driver, configured, settling>>
      /\ UNCHANGED <<ready, saving, maintenance, operations, initialized, fault, app, disturbed>>
      /\ phase' \in {"COMMANDS", "STORAGE", "STATE"}
  BY DEF Bridge, EndCommands, StorageGoesOn, switchVars, configVars, driverVars, storageVars
<1>3. DataTypes' /\ Flags'
  BY <1>1, <1>2 DEF DataTypes, Flags
<1>4. Knowledge'
  BY <1>2 DEF Knowledge, OffHasReason, MaintenanceIsStorage, SwitchHasConverter,
     SwitchKnowsConverter, Busy
<1> QED
  BY <1>3, <1>4

LEMMA StepInvariant == IInv /\ [Next]_vars => IInv'
<1> SUFFICES ASSUME IInv, [Next]_vars PROVE IInv'
  OBVIOUS
<1>1. CASE Next
  <2>1. DataTypes' /\ Flags' /\ Knowledge'
    BY <1>1, DriverKeeps, SwitchKeeps, CommandKeeps, StorageKeeps, PhaseKeeps DEF Next, MainLoop
  <2>2. FifoType' /\ SamplesAreCurrent'
    BY <1>1, FifoStep
  <2> QED
    BY <2>1, <2>2, TypePartsNext DEF IInv
<1>2. CASE UNCHANGED vars
  BY <1>2 DEF vars, switchVars, configVars, driverVars, storageVars, IInv, TypeOK, Knowledge,
     OffHasReason, MaintenanceIsStorage, SwitchHasConverter, SwitchKnowsConverter,
     SamplesAreCurrent, Busy
<1> QED
  BY <1>1, <1>2

-----------------------------------------------------------------------------
(* The theorems.                                                           *)

\* The inductive invariant holds in every reachable state.
THEOREM Invariance == Spec => []IInv
BY InitInvariant, StepInvariant, PTL DEF Spec

\* Type correctness: the buffer keeps its capacity and a converter that settles
\* has samples left to wait for.
THEOREM TypeCorrect == Spec => []TypeOK
BY Invariance, PTL DEF IInv

LEMMA MatchHolds == IInv => ConverterMatchesProfile
BY DEF IInv, Knowledge, OffHasReason, SwitchKnowsConverter, ConverterMatchesProfile, Measuring

\* Outside a switch the converter runs the active profile, through saves,
\* resets, edits and failed switches, unless the latest switch was disturbed.
THEOREM ConverterSafe == Spec => []ConverterMatchesProfile
BY Invariance, MatchHolds, PTL

LEMMA SamplesStep ==
  ASSUME IInv, phase = "BRIDGE", disturbed = {}, NEW n \in 1 .. Consumed
  PROVE  fifo[n] = settings[active]
<1>1. FifoType
  BY TypeParts DEF IInv
<1>2. Consumed \in 0 .. Len(fifo) /\ ~maintenance /\ ~Busy
  BY <1>1, ConsumedIsBuffered
<1>3. n \in DOMAIN fifo
  BY <1>1, <1>2 DEF FifoType
<1> QED
  BY <1>2, <1>3 DEF IInv, SamplesAreCurrent, Knowledge, SwitchKnowsConverter

\* The metrology is given only samples taken under the active profile.
THEOREM SamplesSafe == Spec => SamplesMatchProfile
<1>1. IInv /\ [Next]_vars
        => [phase = "BRIDGE" /\ disturbed = {}
              => \A n \in 1 .. Consumed : fifo[n] = settings[active]]_vars
  BY SamplesStep
<1> QED
  BY Invariance, <1>1, PTL DEF Spec, SamplesMatchProfile

LEMMA FaultStep ==
  ASSUME IInv, Next, ~fault, fault', app # "FAULT"
  PROVE  driver' = "ERROR" \/ app = "WARMUP" \/ "STORAGE" \in disturbed
<1>1. CASE DriverWaits \/ PoweredUp \/ ConfigStep \/ SettleStep \/ SampleStep
  BY <1>1 DEF DriverWaits, PoweredUp, ConfigStep, SettleStep, SampleStep, EndDriver
<1>2. CASE Rollback
  <2>1. driver = "DISABLED" /\ Busy
    BY <1>2 DEF Rollback, CanWrite, Busy
  <2> QED
    BY <2>1 DEF IInv, Knowledge, OffHasReason, SwitchHasConverter
<1>3. CASE Recover
  BY <1>3 DEF Recover, driverVars
<1>4. CASE EnterFault
  BY <1>4 DEF EnterFault
<1> QED
  BY <1>1, <1>2, <1>3, <1>4 DEF Next, MainLoop, SwitchStep, SwitchIdle, Pause, ClearFifo,
     Configure, Verify, Settle, Commit, CommitFails, Complete, MoveTo, Bridge, Request, Edit,
     StartOperation, EndCommands, StorageGoesOn, StorageEnds, StayInState

\* A switch that storage did not come into never stops the scale by itself.
THEOREM FaultSafe == Spec => FaultHasCause
<1>1. IInv /\ [Next]_vars
        => [~fault /\ fault' /\ app # "FAULT"
              => driver' = "ERROR" \/ app = "WARMUP" \/ "STORAGE" \in disturbed]_vars
  BY FaultStep
<1> QED
  BY Invariance, <1>1, PTL DEF Spec, FaultHasCause
=============================================================================
