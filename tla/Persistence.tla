---------------------------- MODULE Persistence ----------------------------
(***************************************************************************)
(* App/persistence_manager.c with what it drives: the revision bookkeeping *)
(* of App/system_context.c, the storage maintenance of                     *)
(* App/device_manager.c and the configuration store.                       *)
(*                                                                         *)
(* The store appears as the atomic configuration it implements             *)
(* (ConfigStoreProofs!Refinement): durable, held and proposal are the      *)
(* variables of AtomicConfig and every call into the store is one of its   *)
(* actions.  ConfigStore_Process and the completion code behind it run in  *)
(* one PersistenceManager_Process, so they are one step here.              *)
(***************************************************************************)
EXTENDS Integers

CONSTANTS
  Payloads,         \* configurations in their encoded form
  NoPayload,
  FactoryDefaults,
  Upgrade,          \* what a loaded record becomes once migrated at startup
  LastRevision,     \* 0xFFFFFFFE
  BootRevisions,    \* sequence numbers a loaded record may carry
  StoreCalls,       \* bound: ConfigStore_Process calls of one operation
  MaxUnsavedEdits   \* bound: revisions the RAM runs ahead of the saved one

Revisions == 0 .. LastRevision

\* What PersistentCodec_Encode produces: never a record of the old schema.
Encodings == {Upgrade[p] : p \in Payloads}

ASSUME PayloadAssumption ==
  /\ NoPayload \notin Payloads
  /\ FactoryDefaults \in Payloads
  /\ Upgrade \in [Payloads -> Payloads]
ASSUME RevisionAssumption ==
  /\ LastRevision \in Nat /\ LastRevision >= 3
  /\ BootRevisions \subseteq Revisions
  /\ StoreCalls \in Nat
  /\ MaxUnsavedEdits \in 1 .. LastRevision

VARIABLES
  durable, held, proposal,  \* the store (AtomicConfig)
  callsLeft,        \* ConfigStore_Process calls before the store must finish
  ram,              \* what the running configuration encodes to
  revision,         \* config_revision
  saved,            \* saved_revision
  dirty,            \* runtime.config_dirty
  hasRecord,        \* storage_has_record
  operation,        \* s_operation
  requested,        \* s_requested_revision
  status,           \* s_status
  factoryResult,    \* s_factory_result
  ready,            \* DeviceManager s_initialized
  maintenance,      \* DeviceManager s_storage_maintenance
  fault,            \* FaultManager_GetActiveMask() # 0
  app,              \* the application state; menu and run are one
  adcLost           \* history: CS1237_Init failed when maintenance ended

storeVars   == <<durable, held, proposal, callsLeft>>
contextVars == <<ram, revision, saved, dirty, hasRecord>>
deviceVars  == <<ready, maintenance, adcLost>>
managerVars == <<operation, requested, status, factoryResult>>
vars == <<storeVars, contextVars, deviceVars, managerVars, fault, app>>

Store == INSTANCE AtomicConfig

Committing == {"SUCCESS", "NO_CHANGE", "COMMITTED_LOCK_ERROR"}
Failing    == {"IO_ERROR", "VERIFY_ERROR", "POWER_UNSAFE"}

TypeOK ==
  /\ Store!TypeOK
  /\ callsLeft \in 0 .. StoreCalls
  /\ ram \in Payloads
  /\ revision \in Revisions /\ saved \in Revisions /\ requested \in Revisions
  /\ dirty \in BOOLEAN /\ hasRecord \in BOOLEAN
  /\ operation \in {"NONE", "SAVE", "FACTORY_RESET"}
  /\ status \in {"IDLE", "SAVING", "FACTORY_RESETTING", "SUCCESS",
                 "NO_CHANGE", "FAILED", "REBOOT_REQUIRED"}
  /\ factoryResult \in {"NONE", "COMPLETED", "FAILED",
                        "COMMITTED_REBOOT_REQUIRED"}
  /\ ready \in BOOLEAN /\ maintenance \in BOOLEAN /\ adcLost \in BOOLEAN
  /\ fault \in BOOLEAN
  /\ app \in {"BOOT", "RUN", "CALIBRATION", "FAULT"}

-----------------------------------------------------------------------------
(* Revisions.                                                              *)

\* Mutant: the revision after the last one.
MutNextRevision(n) == n + 1

NextRevision(n) == IF n = LastRevision THEN 0 ELSE n + 1

\* The number of changes that lead from one revision to another.
Changes(from, to) ==
  IF to >= from THEN to - from ELSE to - from + LastRevision + 1

\* The revision after one to n changes.
Advanced(r, n) == {q \in Revisions : Changes(r, q) \in 1 .. n}

UnsavedEdits == Changes(saved, revision)

\* SystemContext_MarkConfigChanged
MarkConfigChanged ==
  /\ revision' = NextRevision(revision)
  /\ dirty' = (NextRevision(revision) # saved)

\* Mutant: a finished save clears the flag whatever was edited meanwhile.
MutMarkRevisionSaved(s, r) == saved' = s /\ hasRecord' = TRUE /\ dirty' = FALSE

\* SystemContext_MarkRevisionSaved, the revision being r afterwards.
MarkRevisionSaved(s, r) ==
  /\ saved' = s
  /\ hasRecord' = TRUE
  /\ dirty' = (r # s)

-----------------------------------------------------------------------------
(* Startup: the store is loaded, legacy records are migrated in RAM.       *)

Booted(loaded) ==
  /\ saved' \in IF loaded = NoPayload THEN {0} ELSE BootRevisions
  /\ hasRecord' = (loaded # NoPayload)
  /\ ram' = IF loaded = NoPayload THEN FactoryDefaults ELSE Upgrade[loaded]
  /\ dirty' = (loaded # NoPayload /\ Upgrade[loaded] # loaded)
  /\ revision' = IF dirty' THEN NextRevision(saved') ELSE saved'
  /\ operation' = "NONE" /\ requested' = 0
  /\ status' = "IDLE" /\ factoryResult' = "NONE"
  /\ ready' = FALSE /\ maintenance' = FALSE /\ adcLost' = FALSE
  /\ fault' = FALSE /\ app' = "BOOT"
  /\ callsLeft' = 0

PowerCut == Store!Restart /\ Booted(durable')

Init ==
  /\ Store!Init
  /\ saved \in IF durable = NoPayload THEN {0} ELSE BootRevisions
  /\ hasRecord = (durable # NoPayload)
  /\ ram = IF durable = NoPayload THEN FactoryDefaults ELSE Upgrade[durable]
  /\ dirty = (durable # NoPayload /\ Upgrade[durable] # durable)
  /\ revision = IF dirty THEN NextRevision(saved) ELSE saved
  /\ operation = "NONE" /\ requested = 0
  /\ status = "IDLE" /\ factoryResult = "NONE"
  /\ ready = FALSE /\ maintenance = FALSE /\ adcLost = FALSE
  /\ fault = FALSE /\ app = "BOOT"
  /\ callsLeft = 0

-----------------------------------------------------------------------------
(* The rest of the application, as far as it meets persistence.            *)

DeviceInit ==
  /\ app = "BOOT" /\ ~fault
  /\ app' = "RUN" /\ ready' = TRUE
  /\ UNCHANGED <<storeVars, contextVars, managerVars, maintenance, adcLost, fault>>

\* A fault raised elsewhere: a driver, the display, the event queue...
RaiseFault ==
  /\ ~fault
  /\ fault' = TRUE
  /\ UNCHANGED <<storeVars, contextVars, managerVars, deviceVars, app>>

\* App_RunStateMachine: FAULT is terminal and puts the devices in safe state.
EnterFault ==
  /\ fault /\ app # "FAULT"
  /\ app' = "FAULT" /\ ready' = FALSE
  /\ UNCHANGED <<storeVars, contextVars, managerVars, maintenance, adcLost, fault>>

\* A command changes the configuration, the tare or the view.  Two different
\* configurations may encode alike (a tare that is not retained).
Edit(p) ==
  /\ UnsavedEdits < MaxUnsavedEdits
  /\ ram' = p
  /\ MarkConfigChanged
  /\ UNCHANGED <<storeVars, saved, hasRecord, managerVars, deviceVars, fault, app>>

\* SystemContext_ApplyConfig of the configuration already in force.
ApplySame ==
  /\ dirty' = (revision # saved)
  /\ UNCHANGED <<storeVars, ram, revision, saved, hasRecord, managerVars,
                 deviceVars, fault, app>>

\* Mutant: the save in flight is not looked at.
MutBeginCalibration ==
  /\ app = "RUN"
  /\ app' = "CALIBRATION"
  /\ UNCHANGED <<storeVars, contextVars, managerVars, deviceVars, fault>>

\* The menu starts a calibration unless a save is in flight.
BeginCalibration ==
  /\ app = "RUN" /\ operation = "NONE"
  /\ app' = "CALIBRATION"
  /\ UNCHANGED <<storeVars, contextVars, managerVars, deviceVars, fault>>

EndCalibration ==
  /\ app = "CALIBRATION"
  /\ app' = "RUN"
  /\ UNCHANGED <<storeVars, contextVars, managerVars, deviceVars, fault>>

-----------------------------------------------------------------------------
(* PersistenceManager_RequestSave and _RequestFactoryReset.                *)

MayStart == operation = "NONE" /\ app # "CALIBRATION"

NothingToSave(op) == op = "SAVE" /\ ~dirty /\ hasRecord

StartNothing ==
  /\ MayStart /\ NothingToSave("SAVE")
  /\ status' = "NO_CHANGE"
  /\ UNCHANGED <<storeVars, contextVars, deviceVars, operation, requested,
                 factoryResult, fault, app>>

\* The configuration fails validation, or its encoding does.
StartRejected(op) ==
  /\ MayStart /\ ~NothingToSave(op)
  /\ requested' = revision
  /\ status' = "FAILED"
  /\ factoryResult' = IF op = "FACTORY_RESET" THEN "FAILED" ELSE factoryResult
  /\ UNCHANGED <<storeVars, contextVars, deviceVars, operation, fault, app>>

\* ConfigStore_RequestSave finds the encoding it holds: no maintenance.
StartNoChange ==
  /\ MayStart /\ ~NothingToSave("SAVE")
  /\ ram = held
  /\ operation' = "SAVE" /\ requested' = revision /\ status' = "SAVING"
  /\ UNCHANGED <<storeVars, contextVars, deviceVars, factoryResult, fault, app>>

Snapshot(op) == IF op = "SAVE" THEN ram ELSE FactoryDefaults

\* The store accepts; DeviceManager_EnterStorageMaintenance decides.
Start(op) ==
  /\ MayStart /\ ~NothingToSave(op)
  /\ op = "SAVE" => ram # held
  /\ requested' = revision
  /\ \/ /\ ready /\ ~maintenance
        /\ maintenance' = TRUE
        /\ operation' = op
        /\ status' = IF op = "SAVE" THEN "SAVING" ELSE "FACTORY_RESETTING"
        /\ Store!Propose(Snapshot(op))
        /\ callsLeft' = StoreCalls
     \/ /\ status' = "FAILED"     \* not ready, in maintenance, or W02 pulsing
        /\ UNCHANGED <<storeVars, operation, maintenance>>
  /\ factoryResult' = IF op = "FACTORY_RESET" THEN "NONE" ELSE factoryResult
  /\ UNCHANGED <<contextVars, ready, adcLost, fault, app>>

-----------------------------------------------------------------------------
(* PersistenceManager_Process.                                             *)

\* The store is still working.
ProcessBusy ==
  /\ operation # "NONE" /\ proposal # NoPayload
  /\ callsLeft > 0
  /\ callsLeft' = callsLeft - 1
  /\ Store!Write \/ UNCHANGED <<durable, held, proposal>>
  /\ UNCHANGED <<contextVars, managerVars, deviceVars, fault, app>>

\* Mutant: the revision current at completion is marked, not the requested one.
MutBookkeeping(applied) ==
  /\ applied
  /\ MarkRevisionSaved(revision, revision)
  /\ UNCHANGED <<ram, revision>>

\* Bookkeeping of a committed operation; applied: the factory defaults could
\* be put in force.  Configuration, tare and view count as a change each.
Bookkeeping(applied) ==
  CASE ~applied -> UNCHANGED contextVars
    [] applied /\ operation = "SAVE" ->
         /\ MarkRevisionSaved(requested, revision)
         /\ UNCHANGED <<ram, revision>>
    [] applied /\ operation = "FACTORY_RESET" ->
         /\ ram' = FactoryDefaults
         /\ revision' \in Advanced(revision, 3) \cup
                            (IF ram = FactoryDefaults THEN {revision} ELSE {})
         /\ MarkRevisionSaved(revision', revision')

\* Mutant: sampling is not resumed.
MutLeaveMaintenance(adcOk) == UNCHANGED <<maintenance, adcLost>>

\* DeviceManager_ExitStorageMaintenance
LeaveMaintenance(adcOk) ==
  /\ maintenance' = (maintenance /\ ~(ready /\ adcOk))
  /\ adcLost' = (adcLost \/ (ready /\ maintenance /\ ~adcOk))

\* Mutant: the operation stays registered.
MutReport(result, runtimeOk) ==
  /\ status' = IF runtimeOk THEN result ELSE "FAILED"
  /\ UNCHANGED <<factoryResult, fault, operation>>

Report(result, runtimeOk) ==
  LET reset == operation = "FACTORY_RESET"
      rebootRequired == reset /\ result \in Committing /\ ~runtimeOk
  IN  /\ status' =
           CASE rebootRequired -> "REBOOT_REQUIRED"
             [] result \in {"SUCCESS", "NO_CHANGE"} /\ runtimeOk -> result
             [] OTHER -> "FAILED"
      /\ factoryResult' =
           CASE ~reset -> factoryResult
             [] rebootRequired -> "COMMITTED_REBOOT_REQUIRED"
             [] reset /\ result = "SUCCESS" /\ runtimeOk -> "COMPLETED"
             [] OTHER -> "FAILED"
      /\ fault' = (fault \/ result = "POWER_UNSAFE")
      /\ operation' = "NONE"

\* The request had found nothing to write.
ProcessNoChange ==
  /\ operation # "NONE" /\ proposal = NoPayload
  /\ Bookkeeping(TRUE)
  /\ Report("NO_CHANGE", TRUE)
  /\ UNCHANGED <<storeVars, deviceVars, requested, app>>

ProcessCommitted(result) ==
  /\ operation # "NONE"
  /\ Store!Confirm
  /\ \E applied, adcOk, restartOk \in BOOLEAN :
       /\ operation = "SAVE" => applied
       /\ Bookkeeping(applied)
       /\ LeaveMaintenance(adcOk)
       /\ Report(result, applied /\ ready /\ maintenance /\ adcOk /\ restartOk)
  /\ callsLeft' = 0
  /\ UNCHANGED <<ready, requested, app>>

\* Mutant: a failed write marks its revision saved as well.
MutProcessFailed(result) ==
  /\ operation # "NONE"
  /\ Store!GiveUp
  /\ Bookkeeping(operation = "SAVE")
  /\ \E adcOk \in BOOLEAN : LeaveMaintenance(adcOk)
  /\ Report(result, FALSE)
  /\ callsLeft' = 0
  /\ UNCHANGED <<ready, requested, app>>

ProcessFailed(result) ==
  /\ operation # "NONE"
  /\ Store!GiveUp
  /\ dirty' = TRUE
  /\ \E adcOk \in BOOLEAN : LeaveMaintenance(adcOk)
  /\ Report(result, FALSE)
  /\ callsLeft' = 0
  /\ UNCHANGED <<ram, revision, saved, hasRecord, ready, requested, app>>

Process ==
  \/ ProcessBusy
  \/ ProcessNoChange
  \/ \E result \in Committing \ {"NO_CHANGE"} : ProcessCommitted(result)
  \/ \E result \in Failing : ProcessFailed(result)

Next ==
  \/ DeviceInit \/ RaiseFault \/ EnterFault
  \/ \E p \in Encodings : Edit(p)
  \/ ApplySame
  \/ BeginCalibration \/ EndCalibration
  \/ StartNothing \/ StartNoChange
  \/ \E op \in {"SAVE", "FACTORY_RESET"} : StartRejected(op) \/ Start(op)
  \/ Process
  \/ PowerCut

Spec == Init /\ [][Next]_vars

\* App_Run calls PersistenceManager_Process on every pass.
FairSpec == Spec /\ WF_vars(Process)

-----------------------------------------------------------------------------
(* Properties.                                                             *)

\* No unsaved change is ever hidden: whenever the running revision is not the
\* saved one the configuration shows as dirty, whatever edits, saves, failed
\* saves and resets came in between.
UnsavedIsDirty == revision # saved => dirty

\* A save and a calibration never overlap: the menu looks at the save before
\* it starts a calibration, a request looks at the calibration.
CalibrationExcludesSave == app = "CALIBRATION" => operation = "NONE"

\* Sampling is suspended exactly as long as the store writes; it stays
\* suspended afterwards only if the converter failed to come back or the
\* application went to FAULT.
MaintenanceCoversWriting ==
  /\ proposal # NoPayload => maintenance /\ operation # "NONE"
  /\ maintenance /\ operation = "NONE" => adcLost \/ (fault /\ ~ready)

\* When an operation ends and leaves the configuration clean, the store holds
\* the configuration in force: edits made while it ran stay dirty, a failed
\* one leaves everything dirty.
CleanAfterOperation ==
  [][(operation # "NONE" /\ operation' = "NONE" /\ ~dirty' /\ hasRecord'
        /\ status' # "REBOOT_REQUIRED")
       => ram' = held']_vars

\* The saved revision moves at the end of an operation only if what was
\* written is committed, and a restart is what it survives.
SavedMeansCommitted ==
  [][(operation # "NONE" /\ app' # "BOOT" /\ saved' # saved)
       => /\ proposal # NoPayload => held' = proposal /\ durable' = proposal
          /\ proposal' = NoPayload]_vars

\* Every operation ends, so the next one is not answered BUSY for ever.
OperationEnds == (operation # "NONE") ~> (operation = "NONE")

-----------------------------------------------------------------------------
(* The inductive invariant behind the safety properties.                   *)

\* A reset always writes, a save writes unless it found nothing to write.
ProposalBelongsToOperation ==
  /\ operation = "NONE" => proposal = NoPayload
  /\ operation = "FACTORY_RESET" => proposal = FactoryDefaults

\* The requested revision lies between the saved one and the current one;
\* while no edit came in between, the snapshot is the running configuration.
SnapshotIsRequested ==
  operation # "NONE" =>
    /\ Changes(saved, requested) =< UnsavedEdits
    /\ (operation = "SAVE" /\ requested = revision) =>
         ram = IF proposal = NoPayload THEN held ELSE proposal

\* Why the devices may be down, and why maintenance may outlast a write.
DevicesExplained ==
  /\ app = "BOOT" => ~ready /\ ~maintenance /\ proposal = NoPayload
  /\ ~ready => app = "BOOT" \/ fault
  /\ maintenance /\ proposal = NoPayload => adcLost \/ (fault /\ ~ready)

IInv ==
  /\ TypeOK
  /\ UnsavedEdits =< MaxUnsavedEdits
  /\ UnsavedIsDirty
  /\ CalibrationExcludesSave
  /\ MaintenanceCoversWriting
  /\ ProposalBelongsToOperation
  /\ SnapshotIsRequested
  /\ DevicesExplained
=============================================================================
