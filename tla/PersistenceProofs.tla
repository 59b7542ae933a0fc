------------------------- MODULE PersistenceProofs -------------------------
(***************************************************************************)
(* Proofs about the persistence manager over the atomic configuration, for *)
(* every set of configurations, every migration, every range of revisions  *)
(* and every bound on the unsaved edits below that range.                  *)
(***************************************************************************)
EXTENDS Persistence, TLAPS

-----------------------------------------------------------------------------
(* Revisions.                                                              *)

LEMMA RevisionType ==
  ASSUME NEW n \in Revisions
  PROVE  NextRevision(n) \in Revisions
BY RevisionAssumption DEF NextRevision, Revisions

\* A revision is no change away from itself and from no other.
LEMMA ChangesZero ==
  ASSUME NEW m \in Revisions, NEW n \in Revisions
  PROVE  /\ Changes(m, n) \in 0 .. LastRevision
         /\ Changes(m, n) = 0 <=> m = n
BY RevisionAssumption DEF Changes, Revisions

\* One more edit is one more change as long as the range is not used up, also
\* where the counter wraps (SystemContext_MarkConfigChanged).
LEMMA ChangesNext ==
  ASSUME NEW m \in Revisions, NEW n \in Revisions,
         Changes(m, n) < LastRevision
  PROVE  Changes(m, NextRevision(n)) = Changes(m, n) + 1
BY RevisionAssumption DEF Changes, Revisions, NextRevision

\* Counting from a revision passed on the way leaves fewer changes.
LEMMA ChangesLess ==
  ASSUME NEW m \in Revisions, NEW q \in Revisions, NEW n \in Revisions,
         Changes(m, q) =< Changes(m, n)
  PROVE  Changes(q, n) =< Changes(m, n)
BY RevisionAssumption DEF Changes, Revisions

LEMMA ChangesSame ==
  ASSUME NEW m \in Revisions
  PROVE  Changes(m, m) = 0
BY RevisionAssumption DEF Changes, Revisions

LEMMA EncodingsArePayloads == Encodings \subseteq Payloads
BY PayloadAssumption DEF Encodings

-----------------------------------------------------------------------------
(* Types.                                                                  *)

\* Every call into the store keeps its variables configurations or "none".
LEMMA StoreStep ==
  ASSUME Store!TypeOK,
         \/ UNCHANGED <<durable, held, proposal>>
         \/ \E p \in Payloads : Store!Propose(p)
         \/ Store!Write \/ Store!Confirm \/ Store!GiveUp \/ Store!Restart
  PROVE  Store!TypeOK'
BY DEF Store!TypeOK, Store!Propose, Store!Write, Store!Confirm, Store!GiveUp,
       Store!Restart

\* What startup makes of the record that was loaded.
LEMMA BootedTypes ==
  ASSUME NEW loaded \in Payloads \cup {NoPayload}, Store!TypeOK', Booted(loaded)
  PROVE  TypeOK'
<1>1. ram' \in Payloads
  BY PayloadAssumption DEF Booted
<1>2. saved' \in Revisions /\ 0 \in Revisions
  BY RevisionAssumption DEF Booted, Revisions
<1>3. revision' \in Revisions
  BY <1>2, RevisionType DEF Booted
<1>4. dirty' \in BOOLEAN /\ hasRecord' \in BOOLEAN
  BY DEF Booted
<1>5. callsLeft' \in 0 .. StoreCalls
  BY RevisionAssumption DEF Booted
<1>6. QED
  BY <1>1, <1>2, <1>3, <1>4, <1>5 DEF Booted, TypeOK

LEMMA BookkeepingTypes ==
  ASSUME TypeOK, NEW applied \in BOOLEAN, operation # "NONE",
         Bookkeeping(applied)
  PROVE  /\ ram' \in Payloads
         /\ revision' \in Revisions /\ saved' \in Revisions
         /\ dirty' \in BOOLEAN /\ hasRecord' \in BOOLEAN
<1>1. CASE ~applied
  BY <1>1 DEF Bookkeeping, contextVars, TypeOK
<1>2. CASE applied /\ operation = "SAVE"
  BY <1>2 DEF Bookkeeping, MarkRevisionSaved, TypeOK
<1>3. CASE applied /\ operation = "FACTORY_RESET"
  BY <1>3, PayloadAssumption
     DEF Bookkeeping, MarkRevisionSaved, Advanced, TypeOK
<1>4. QED
  BY <1>1, <1>2, <1>3 DEF TypeOK

LEMMA ReportTypes ==
  ASSUME TypeOK, NEW result \in Committing \cup Failing,
         NEW runtimeOk \in BOOLEAN, Report(result, runtimeOk)
  PROVE  /\ status' \in {"SUCCESS", "NO_CHANGE", "FAILED", "REBOOT_REQUIRED"}
         /\ factoryResult' \in {"NONE", "COMPLETED", "FAILED",
                                "COMMITTED_REBOOT_REQUIRED"}
         /\ fault' \in BOOLEAN
         /\ operation' = "NONE"
BY DEF Report, TypeOK, Committing, Failing

LEMMA TypeStep ==
  ASSUME TypeOK, [Next]_vars
  PROVE  TypeOK'
<1> USE DEF TypeOK
<1>1. CASE DeviceInit
  BY <1>1, StoreStep DEF DeviceInit, storeVars, contextVars, managerVars
<1>2. CASE RaiseFault
  BY <1>2, StoreStep
     DEF RaiseFault, storeVars, contextVars, managerVars, deviceVars
<1>3. CASE EnterFault
  BY <1>3, StoreStep DEF EnterFault, storeVars, contextVars, managerVars
<1>4. ASSUME NEW p \in Encodings, Edit(p)
      PROVE  TypeOK'
  BY <1>4, StoreStep, EncodingsArePayloads, RevisionType
     DEF Edit, MarkConfigChanged, storeVars, managerVars, deviceVars
<1>5. CASE ApplySame
  BY <1>5, StoreStep DEF ApplySame, storeVars, managerVars, deviceVars
<1>6. CASE BeginCalibration \/ EndCalibration
  BY <1>6, StoreStep
     DEF BeginCalibration, EndCalibration, storeVars, contextVars,
         managerVars, deviceVars
<1>7. CASE StartNothing \/ StartNoChange
  BY <1>7, StoreStep
     DEF StartNothing, StartNoChange, storeVars, contextVars, deviceVars
<1>8. ASSUME NEW op \in {"SAVE", "FACTORY_RESET"}, StartRejected(op)
      PROVE  TypeOK'
  BY <1>8, StoreStep DEF StartRejected, storeVars, contextVars, deviceVars
<1>9. ASSUME NEW op \in {"SAVE", "FACTORY_RESET"}, Start(op)
      PROVE  TypeOK'
  <2>1. Snapshot(op) \in Payloads
    BY PayloadAssumption DEF Snapshot
  <2>2. Store!TypeOK' /\ callsLeft' \in 0 .. StoreCalls
    BY <1>9, <2>1, StoreStep, RevisionAssumption DEF Start, storeVars
  <2>3. /\ operation' \in {"NONE", "SAVE", "FACTORY_RESET"}
        /\ status' \in {"SAVING", "FACTORY_RESETTING", "FAILED"}
        /\ maintenance' \in BOOLEAN
        /\ requested' \in Revisions
    BY <1>9 DEF Start
  <2>4. factoryResult' \in {"NONE", "COMPLETED", "FAILED",
                            "COMMITTED_REBOOT_REQUIRED"}
    BY <1>9 DEF Start
  <2>5. QED
    BY <1>9, <2>2, <2>3, <2>4 DEF Start, contextVars
<1>10. CASE ProcessBusy
  <2>1. Store!TypeOK'
    BY <1>10, StoreStep DEF ProcessBusy
  <2>2. callsLeft' \in 0 .. StoreCalls
    BY <1>10, RevisionAssumption DEF ProcessBusy
  <2>3. QED
    BY <1>10, <2>1, <2>2
       DEF ProcessBusy, contextVars, managerVars, deviceVars
<1>11. CASE ProcessNoChange
  <2>1. operation # "NONE" /\ Bookkeeping(TRUE) /\ Report("NO_CHANGE", TRUE)
    BY <1>11 DEF ProcessNoChange
  <2>2. "NO_CHANGE" \in Committing \cup Failing
    BY DEF Committing
  <2>3. QED
    BY <1>11, <2>1, <2>2, BookkeepingTypes, ReportTypes, StoreStep
       DEF ProcessNoChange, storeVars, deviceVars
<1>12. ASSUME NEW result \in Committing \ {"NO_CHANGE"}, ProcessCommitted(result)
       PROVE  TypeOK'
  <2>1. PICK applied \in BOOLEAN, adcOk \in BOOLEAN, restartOk \in BOOLEAN :
          /\ Bookkeeping(applied)
          /\ LeaveMaintenance(adcOk)
          /\ Report(result, applied /\ ready /\ maintenance /\ adcOk /\ restartOk)
    BY <1>12 DEF ProcessCommitted
  <2>2. operation # "NONE"
    BY <1>12 DEF ProcessCommitted
  <2>3. maintenance' \in BOOLEAN /\ adcLost' \in BOOLEAN
    BY <2>1 DEF LeaveMaintenance
  <2>4. (applied /\ ready /\ maintenance /\ adcOk /\ restartOk) \in BOOLEAN
    OBVIOUS
  <2>5. Store!TypeOK'
    BY <1>12, StoreStep DEF ProcessCommitted
  <2>6. callsLeft' \in 0 .. StoreCalls
    BY <1>12, RevisionAssumption DEF ProcessCommitted
  <2>7. /\ ram' \in Payloads
        /\ revision' \in Revisions /\ saved' \in Revisions
        /\ dirty' \in BOOLEAN /\ hasRecord' \in BOOLEAN
    BY <2>1, <2>2, BookkeepingTypes
  <2>8. /\ status' \in {"SUCCESS", "NO_CHANGE", "FAILED", "REBOOT_REQUIRED"}
        /\ factoryResult' \in {"NONE", "COMPLETED", "FAILED",
                               "COMMITTED_REBOOT_REQUIRED"}
        /\ fault' \in BOOLEAN
        /\ operation' = "NONE"
    BY <2>1, <2>4, ReportTypes
  <2>9. QED
    BY <1>12, <2>3, <2>5, <2>6, <2>7, <2>8 DEF ProcessCommitted
<1>13. ASSUME NEW result \in Failing, ProcessFailed(result)
       PROVE  TypeOK'
  <2>1. PICK adcOk \in BOOLEAN : LeaveMaintenance(adcOk)
    BY <1>13 DEF ProcessFailed
  <2>2. maintenance' \in BOOLEAN /\ adcLost' \in BOOLEAN
    BY <2>1 DEF LeaveMaintenance
  <2>3. Store!TypeOK'
    BY <1>13, StoreStep DEF ProcessFailed
  <2>4. callsLeft' \in 0 .. StoreCalls
    BY <1>13, RevisionAssumption DEF ProcessFailed
  <2>5. Report(result, FALSE)
    BY <1>13 DEF ProcessFailed
  <2>6. QED
    BY <1>13, <2>2, <2>3, <2>4, <2>5, ReportTypes DEF ProcessFailed
<1>14. CASE PowerCut
  <2>1. Store!TypeOK'
    BY <1>14, StoreStep DEF PowerCut
  <2>2. QED
    BY <1>14, <2>1, BootedTypes DEF PowerCut, Store!TypeOK
<1>15. CASE UNCHANGED vars
  BY <1>15, StoreStep
     DEF vars, storeVars, contextVars, deviceVars, managerVars
<1>16. QED
  BY <1>1, <1>2, <1>3, <1>4, <1>5, <1>6, <1>7, <1>8, <1>9, <1>10, <1>11,
     <1>12, <1>13, <1>14, <1>15 DEF Next, Process

-----------------------------------------------------------------------------
(* What the revisions say of the running configuration.                    *)

\* The three facts about revisions, as one conjunct of the invariant.
RevisionsAgree ==
  /\ UnsavedEdits =< MaxUnsavedEdits
  /\ UnsavedIsDirty
  /\ SnapshotIsRequested

\* After startup at most the migration is unsaved.
LEMMA BootedRevisions ==
  ASSUME NEW loaded \in Payloads \cup {NoPayload}, TypeOK', Booted(loaded)
  PROVE  RevisionsAgree'
<1>1. CASE dirty'
  <2>1. revision' = NextRevision(saved')
    BY <1>1 DEF Booted
  <2>2. Changes(saved', revision') = 1
    BY <2>1, ChangesSame, ChangesNext, RevisionAssumption DEF TypeOK
  <2>3. QED
    BY <1>1, <2>2, RevisionAssumption
       DEF RevisionsAgree, UnsavedEdits, UnsavedIsDirty, SnapshotIsRequested,
           Booted
<1>2. CASE ~dirty'
  <2>1. revision' = saved'
    BY <1>2 DEF Booted
  <2>2. Changes(saved', revision') = 0
    BY <2>1, ChangesSame DEF TypeOK
  <2>3. QED
    BY <2>1, <2>2, RevisionAssumption
       DEF RevisionsAgree, UnsavedEdits, UnsavedIsDirty, SnapshotIsRequested,
           Booted
<1>3. QED
  BY <1>1, <1>2

\* An edit moves the revision away from the saved one and from the one that
\* is being saved, for the number of unsaved edits never fills the range.
LEMMA EditRevisions ==
  ASSUME IInv, NEW p \in Encodings, Edit(p)
  PROVE  RevisionsAgree'
<1>1. Changes(saved, revision) < MaxUnsavedEdits
  BY DEF Edit, UnsavedEdits
<1>2. /\ revision' = NextRevision(revision) /\ dirty' = (revision' # saved)
      /\ UNCHANGED <<saved, operation, requested, proposal, held>>
  BY DEF Edit, MarkConfigChanged, managerVars, storeVars
<1>3. Changes(saved, revision') = Changes(saved, revision) + 1
  BY <1>1, <1>2, ChangesNext, ChangesZero, RevisionAssumption DEF IInv, TypeOK
<1>4. Changes(saved, revision) \in Nat
  BY ChangesZero, RevisionAssumption DEF IInv, TypeOK
<1>5. UnsavedEdits' =< MaxUnsavedEdits
  BY <1>1, <1>2, <1>3, <1>4, RevisionAssumption DEF UnsavedEdits
<1>6. ASSUME operation # "NONE"
      PROVE  Changes(saved, requested) =< Changes(saved, revision)
  BY <1>6 DEF IInv, SnapshotIsRequested, UnsavedEdits
<1>7. Changes(saved, requested) \in Nat
  BY ChangesZero, RevisionAssumption DEF IInv, TypeOK
<1>8. operation # "NONE" => /\ Changes(saved, requested) =< Changes(saved, revision')
                            /\ requested # revision'
  BY <1>3, <1>4, <1>6, <1>7
<1>9. SnapshotIsRequested'
  BY <1>2, <1>8 DEF SnapshotIsRequested, UnsavedEdits
<1>10. QED
  BY <1>2, <1>5, <1>9 DEF RevisionsAgree, UnsavedIsDirty

\* What a committed operation leaves unsaved are the edits made meanwhile.
LEMMA BookkeepingRevisions ==
  ASSUME IInv, NEW applied \in BOOLEAN, operation # "NONE", TypeOK',
         Bookkeeping(applied), operation' = "NONE"
  PROVE  RevisionsAgree'
<1>1. CASE ~applied
  BY <1>1 DEF Bookkeeping, contextVars, RevisionsAgree, IInv, UnsavedEdits,
     UnsavedIsDirty, SnapshotIsRequested
<1>2. CASE applied /\ operation = "SAVE"
  <2>1. /\ saved' = requested /\ revision' = revision
        /\ dirty' = (revision # requested)
    BY <1>2 DEF Bookkeeping, MarkRevisionSaved
  <2>2. Changes(saved, requested) =< Changes(saved, revision)
    BY DEF IInv, SnapshotIsRequested, UnsavedEdits
  <2>3. /\ Changes(requested, revision) =< Changes(saved, revision)
        /\ Changes(requested, revision) \in Int
        /\ Changes(saved, revision) \in Int
    BY <2>2, ChangesLess, ChangesZero DEF IInv, TypeOK
  <2>4. UnsavedEdits' =< MaxUnsavedEdits
    BY <2>1, <2>3, RevisionAssumption DEF UnsavedEdits, IInv
  <2>5. QED
    BY <2>1, <2>4 DEF RevisionsAgree, UnsavedIsDirty, SnapshotIsRequested
<1>3. CASE applied /\ operation = "FACTORY_RESET"
  <2>1. saved' = revision' /\ revision' \in Revisions
    BY <1>3 DEF Bookkeeping, MarkRevisionSaved, TypeOK
  <2>2. QED
    BY <2>1, ChangesSame, RevisionAssumption
       DEF RevisionsAgree, UnsavedEdits, UnsavedIsDirty, SnapshotIsRequested
<1>4. QED
  BY <1>1, <1>2, <1>3 DEF IInv, TypeOK

LEMMA RevisionsStep ==
  ASSUME IInv, [Next]_vars
  PROVE  RevisionsAgree'
<1>1. TypeOK'
  BY TypeStep DEF IInv
<1>2. ASSUME UNCHANGED <<ram, revision, saved, operation, requested, held, proposal>>,
             dirty' = dirty \/ dirty' = (revision # saved)
      PROVE  RevisionsAgree'
  BY <1>2 DEF IInv, RevisionsAgree, UnsavedEdits, UnsavedIsDirty,
     SnapshotIsRequested
<1>3. CASE DeviceInit \/ RaiseFault \/ EnterFault \/ ApplySame
           \/ BeginCalibration \/ EndCalibration \/ UNCHANGED vars
  BY <1>2, <1>3
     DEF DeviceInit, RaiseFault, EnterFault, ApplySame, BeginCalibration,
         EndCalibration, vars, storeVars, contextVars, managerVars
<1>4. ASSUME NEW p \in Encodings, Edit(p)
      PROVE  RevisionsAgree'
  BY <1>4, EditRevisions
<1>5. CASE StartNothing
  BY <1>2, <1>5 DEF StartNothing, storeVars, contextVars, IInv,
     RevisionsAgree, UnsavedEdits, UnsavedIsDirty, SnapshotIsRequested
<1>6. Changes(saved, revision) =< Changes(saved, revision)
  BY ChangesZero DEF IInv, TypeOK
<1>7. CASE StartNoChange
  <2>1. proposal = NoPayload
    BY <1>7 DEF StartNoChange, MayStart, IInv, ProposalBelongsToOperation
  <2>2. QED
    BY <1>6, <1>7, <2>1
       DEF StartNoChange, storeVars, contextVars, IInv, RevisionsAgree,
           UnsavedEdits, UnsavedIsDirty, SnapshotIsRequested
<1>8. ASSUME NEW op \in {"SAVE", "FACTORY_RESET"}, StartRejected(op)
      PROVE  RevisionsAgree'
  BY <1>8 DEF StartRejected, MayStart, contextVars, IInv, RevisionsAgree,
     UnsavedEdits, UnsavedIsDirty, SnapshotIsRequested
<1>9. ASSUME NEW op \in {"SAVE", "FACTORY_RESET"}, Start(op)
      PROVE  RevisionsAgree'
  <2>1. /\ requested' = revision /\ UNCHANGED <<ram, revision, saved, dirty>>
        /\ operation = "NONE"
    BY <1>9 DEF Start, MayStart, contextVars
  <2>2. CASE operation' = op /\ Store!Propose(Snapshot(op))
    <3>1. op = "SAVE" => proposal' = ram
      BY <2>2 DEF Snapshot, Store!Propose
    <3>2. proposal' # NoPayload
      BY <2>2, PayloadAssumption DEF Store!Propose, Snapshot, IInv, TypeOK
    <3>3. QED
      BY <1>6, <2>1, <2>2, <3>1, <3>2
         DEF IInv, RevisionsAgree, UnsavedEdits, UnsavedIsDirty,
             SnapshotIsRequested
  <2>3. CASE operation' = operation
    BY <2>1, <2>3 DEF IInv, RevisionsAgree, UnsavedEdits, UnsavedIsDirty,
       SnapshotIsRequested
  <2>4. QED
    BY <1>9, <2>2, <2>3 DEF Start
<1>10. CASE ProcessBusy
  BY <1>2, <1>10
     DEF ProcessBusy, Store!Write, contextVars, managerVars
<1>11. CASE ProcessNoChange
  BY <1>1, <1>11, BookkeepingRevisions DEF ProcessNoChange, Report
<1>12. ASSUME NEW result \in Committing \ {"NO_CHANGE"}, ProcessCommitted(result)
       PROVE  RevisionsAgree'
  BY <1>1, <1>12, BookkeepingRevisions DEF ProcessCommitted, Report
<1>13. ASSUME NEW result \in Failing, ProcessFailed(result)
       PROVE  RevisionsAgree'
  BY <1>13 DEF ProcessFailed, Report, IInv, RevisionsAgree, UnsavedEdits,
     UnsavedIsDirty, SnapshotIsRequested
<1>14. CASE PowerCut
  BY <1>1, <1>14, BootedRevisions DEF PowerCut, TypeOK, Store!TypeOK
<1>15. QED
  BY <1>3, <1>4, <1>5, <1>7, <1>8, <1>9, <1>10, <1>11, <1>12, <1>13, <1>14
     DEF Next, Process

-----------------------------------------------------------------------------
(* Operations, calibrations and maintenance.                               *)

OperationsAgree ==
  /\ CalibrationExcludesSave
  /\ MaintenanceCoversWriting
  /\ ProposalBelongsToOperation
  /\ DevicesExplained

\* When an operation ends, sampling is back unless the converter is lost or
\* the devices were put in safe state; a fault is never cleared.
LEMMA LeavingMaintenance ==
  ASSUME IInv, operation # "NONE", app' = app, ready' = ready,
         NEW adcOk \in BOOLEAN, LeaveMaintenance(adcOk),
         operation' = "NONE", proposal' = NoPayload,
         fault => fault'
  PROVE  OperationsAgree'
<1>1. CASE maintenance'
  <2>1. maintenance /\ ~(ready /\ adcOk)
    BY <1>1 DEF LeaveMaintenance
  <2>2. CASE ready
    BY <2>1, <2>2 DEF LeaveMaintenance, OperationsAgree, IInv, TypeOK,
       CalibrationExcludesSave, MaintenanceCoversWriting,
       ProposalBelongsToOperation, DevicesExplained
  <2>3. CASE ~ready
    BY <2>1, <2>3 DEF OperationsAgree, IInv,
       CalibrationExcludesSave, MaintenanceCoversWriting,
       ProposalBelongsToOperation, DevicesExplained
  <2>4. QED
    BY <2>2, <2>3
<1>2. CASE ~maintenance'
  BY <1>2 DEF OperationsAgree, IInv, CalibrationExcludesSave,
     MaintenanceCoversWriting, ProposalBelongsToOperation, DevicesExplained
<1>3. QED
  BY <1>1, <1>2

LEMMA OperationsStep ==
  ASSUME IInv, [Next]_vars
  PROVE  OperationsAgree'
<1> USE DEF OperationsAgree, CalibrationExcludesSave, MaintenanceCoversWriting,
            ProposalBelongsToOperation, DevicesExplained
<1>1. CASE DeviceInit
  BY <1>1 DEF DeviceInit, storeVars, managerVars, IInv
<1>2. CASE RaiseFault
  BY <1>2 DEF RaiseFault, storeVars, managerVars, deviceVars, IInv
<1>3. CASE EnterFault
  BY <1>3 DEF EnterFault, storeVars, managerVars, IInv
<1>4. ASSUME NEW p \in Encodings, Edit(p)
      PROVE  OperationsAgree'
  BY <1>4 DEF Edit, storeVars, managerVars, deviceVars, IInv
<1>5. CASE ApplySame
  BY <1>5 DEF ApplySame, storeVars, managerVars, deviceVars, IInv
<1>6. CASE BeginCalibration \/ EndCalibration
  BY <1>6 DEF BeginCalibration, EndCalibration, storeVars, managerVars,
     deviceVars, IInv
<1>7. CASE StartNothing
  BY <1>7 DEF StartNothing, storeVars, deviceVars, IInv
<1>8. CASE StartNoChange
  BY <1>8 DEF StartNoChange, MayStart, storeVars, deviceVars, IInv
<1>9. ASSUME NEW op \in {"SAVE", "FACTORY_RESET"}, StartRejected(op)
      PROVE  OperationsAgree'
  BY <1>9 DEF StartRejected, storeVars, deviceVars, IInv
<1>10. ASSUME NEW op \in {"SAVE", "FACTORY_RESET"}, Start(op)
       PROVE  OperationsAgree'
  <2>1. /\ operation = "NONE" /\ app # "CALIBRATION"
        /\ UNCHANGED <<ready, adcLost, fault, app>>
    BY <1>10 DEF Start, MayStart
  <2>2. CASE /\ ready /\ maintenance' = TRUE /\ operation' = op
             /\ Store!Propose(Snapshot(op))
    <3>1. proposal' = Snapshot(op) /\ Snapshot(op) \in Payloads
      BY <2>2, PayloadAssumption DEF Store!Propose, Snapshot, IInv, TypeOK
    <3>2. op = "FACTORY_RESET" => proposal' = FactoryDefaults
      BY <3>1 DEF Snapshot
    <3>3. QED
      BY <2>1, <2>2, <3>1, <3>2, PayloadAssumption DEF IInv
  <2>3. CASE UNCHANGED <<storeVars, operation, maintenance>>
    BY <2>1, <2>3 DEF storeVars, IInv
  <2>4. QED
    BY <1>10, <2>2, <2>3 DEF Start
<1>11. CASE ProcessBusy
  BY <1>11 DEF ProcessBusy, Store!Write, managerVars, deviceVars, IInv
<1>12. CASE ProcessNoChange
  BY <1>12 DEF ProcessNoChange, Report, storeVars, deviceVars, IInv
<1>13. ASSUME NEW result \in Committing \ {"NO_CHANGE"}, ProcessCommitted(result)
       PROVE  OperationsAgree'
  <2>1. PICK adcOk \in BOOLEAN, runtimeOk \in BOOLEAN :
          LeaveMaintenance(adcOk) /\ Report(result, runtimeOk)
    BY <1>13 DEF ProcessCommitted
  <2>2. QED
    BY <1>13, <2>1, LeavingMaintenance
       DEF ProcessCommitted, Report, Store!Confirm
<1>14. ASSUME NEW result \in Failing, ProcessFailed(result)
       PROVE  OperationsAgree'
  <2>1. PICK adcOk \in BOOLEAN : LeaveMaintenance(adcOk)
    BY <1>14 DEF ProcessFailed
  <2>2. QED
    BY <1>14, <2>1, LeavingMaintenance
       DEF ProcessFailed, Report, Store!GiveUp
<1>15. CASE PowerCut
  BY <1>15 DEF PowerCut, Booted, Store!Restart
<1>16. CASE UNCHANGED vars
  BY <1>16 DEF vars, storeVars, managerVars, deviceVars, IInv
<1>17. QED
  BY <1>1, <1>2, <1>3, <1>4, <1>5, <1>6, <1>7, <1>8, <1>9, <1>10, <1>11,
     <1>12, <1>13, <1>14, <1>15, <1>16 DEF Next, Process

-----------------------------------------------------------------------------
(* The theorems.                                                           *)

LEMMA InitInv == Init => IInv
<1> SUFFICES ASSUME Init
             PROVE  IInv
  OBVIOUS
<1> USE DEF Init
<1>1. ram \in Payloads /\ Store!TypeOK
  BY PayloadAssumption DEF Store!Init, Store!TypeOK
<1>2. saved \in Revisions /\ 0 \in Revisions
  BY RevisionAssumption DEF Revisions
<1>3. revision \in Revisions
  BY <1>2, RevisionType
<1>4. dirty \in BOOLEAN /\ hasRecord \in BOOLEAN
  OBVIOUS
<1>5. TypeOK
  <2>1. callsLeft \in 0 .. StoreCalls
    BY RevisionAssumption
  <2>2. /\ operation \in {"NONE", "SAVE", "FACTORY_RESET"}
        /\ status \in {"IDLE", "SAVING", "FACTORY_RESETTING", "SUCCESS",
                       "NO_CHANGE", "FAILED", "REBOOT_REQUIRED"}
        /\ factoryResult \in {"NONE", "COMPLETED", "FAILED",
                              "COMMITTED_REBOOT_REQUIRED"}
        /\ ready \in BOOLEAN /\ maintenance \in BOOLEAN /\ adcLost \in BOOLEAN
        /\ fault \in BOOLEAN
        /\ app \in {"BOOT", "RUN", "CALIBRATION", "FAULT"}
        /\ requested = 0
    OBVIOUS
  <2>3. QED
    BY <1>1, <1>2, <1>3, <1>4, <2>1, <2>2 DEF TypeOK
<1>6. UnsavedEdits =< MaxUnsavedEdits
  <2>1. Changes(saved, saved) = 0
    BY <1>2, ChangesSame
  <2>2. Changes(saved, NextRevision(saved)) = 1
    BY <1>2, <2>1, ChangesNext, RevisionAssumption
  <2>3. revision = saved \/ revision = NextRevision(saved)
    OBVIOUS
  <2>4. QED
    BY <2>1, <2>2, <2>3, RevisionAssumption DEF UnsavedEdits
<1>7. UnsavedIsDirty
  BY DEF UnsavedIsDirty
<1>8. proposal = NoPayload
  BY DEF Store!Init
<1>9. QED
  BY <1>5, <1>6, <1>7, <1>8
     DEF IInv, CalibrationExcludesSave, MaintenanceCoversWriting,
         ProposalBelongsToOperation, SnapshotIsRequested, DevicesExplained

LEMMA StepInv ==
  ASSUME IInv, [Next]_vars
  PROVE  IInv'
BY TypeStep, RevisionsStep, OperationsStep
   DEF IInv, RevisionsAgree, OperationsAgree

\* The invariant the other theorems rest on.
THEOREM Invariance == Spec => []IInv
BY InitInv, StepInv, PTL DEF Spec

\* Every variable of the persistence manager keeps its type; in particular the
\* revision never takes the value 0xFFFFFFFF.
THEOREM TypeCorrect == Spec => []TypeOK
<1>1. IInv => TypeOK
  BY DEF IInv
<1>2. QED
  BY Invariance, <1>1, PTL

\* Whatever edits, saves, failures and resets come in between, a running
\* revision that is not the saved one shows as dirty.
THEOREM UnsavedSafe == Spec => []UnsavedIsDirty
<1>1. IInv => UnsavedIsDirty
  BY DEF IInv
<1>2. QED
  BY Invariance, <1>1, PTL

\* No save runs during a calibration, nor is one begun during a save.
THEOREM CalibrationSafe == Spec => []CalibrationExcludesSave
<1>1. IInv => CalibrationExcludesSave
  BY DEF IInv
<1>2. QED
  BY Invariance, <1>1, PTL

\* The store writes under maintenance only, and maintenance outlasts a write
\* only when the converter is lost or the application in FAULT.
THEOREM MaintenanceSafe == Spec => []MaintenanceCoversWriting
<1>1. IInv => MaintenanceCoversWriting
  BY DEF IInv
<1>2. QED
  BY Invariance, <1>1, PTL

\* What a completed operation leaves clean is what the store now holds.
LEMMA CleanStep ==
  ASSUME IInv, [Next]_vars,
         operation # "NONE", operation' = "NONE", ~dirty', hasRecord',
         status' # "REBOOT_REQUIRED"
  PROVE  ram' = held'
<1>1. CASE ProcessNoChange
  <2>1. proposal = NoPayload /\ held' = held /\ operation = "SAVE"
    BY <1>1, PayloadAssumption
       DEF ProcessNoChange, storeVars, IInv, ProposalBelongsToOperation, TypeOK
  <2>2. ram' = ram /\ revision = requested
    BY <1>1, <2>1 DEF ProcessNoChange, Bookkeeping, MarkRevisionSaved
  <2>3. QED
    BY <2>1, <2>2 DEF IInv, SnapshotIsRequested
<1>2. ASSUME NEW result \in Committing \ {"NO_CHANGE"}, ProcessCommitted(result)
      PROVE  ram' = held'
  <2>1. PICK applied \in BOOLEAN, runtimeOk \in BOOLEAN :
          /\ operation = "SAVE" => applied
          /\ runtimeOk => applied
          /\ Bookkeeping(applied)
          /\ Report(result, runtimeOk)
    BY <1>2 DEF ProcessCommitted
  <2>2. proposal # NoPayload /\ held' = proposal
    BY <1>2 DEF ProcessCommitted, Store!Confirm
  <2>3. CASE operation = "SAVE"
    <3>1. ram' = ram /\ revision = requested
      BY <2>1, <2>3 DEF Bookkeeping, MarkRevisionSaved
    <3>2. QED
      BY <2>2, <2>3, <3>1 DEF IInv, SnapshotIsRequested
  <2>4. CASE operation = "FACTORY_RESET"
    <3>1. applied
      BY <2>1, <2>4 DEF Report
    <3>2. ram' = FactoryDefaults
      BY <2>1, <2>4, <3>1 DEF Bookkeeping
    <3>3. QED
      BY <2>2, <2>4, <3>2 DEF IInv, ProposalBelongsToOperation
  <2>5. QED
    BY <2>3, <2>4 DEF IInv, TypeOK
<1>3. ASSUME NEW result \in Failing, ProcessFailed(result)
      PROVE  ram' = held'
  BY <1>3 DEF ProcessFailed
<1>4. CASE PowerCut
  <2>1. held' = durable' /\ Booted(durable')
    BY <1>4 DEF PowerCut, Store!Restart
  <2>2. QED
    BY <2>1 DEF Booted
<1>5. ASSUME NEW op \in {"SAVE", "FACTORY_RESET"}, StartRejected(op) \/ Start(op)
      PROVE  FALSE
  BY <1>5 DEF StartRejected, Start, MayStart
<1>6. ~(StartNothing \/ StartNoChange)
  BY DEF StartNothing, StartNoChange, MayStart
<1>7. ~(\/ DeviceInit \/ RaiseFault \/ EnterFault
        \/ \E p \in Encodings : Edit(p)
        \/ ApplySame \/ BeginCalibration \/ EndCalibration \/ ProcessBusy
        \/ UNCHANGED vars)
  BY DEF DeviceInit, RaiseFault, EnterFault, Edit, ApplySame,
     BeginCalibration, EndCalibration, ProcessBusy, vars, managerVars
<1>8. QED
  BY <1>1, <1>2, <1>3, <1>4, <1>5, <1>6, <1>7 DEF Next, Process

\* An operation that ends clean leaves the store with the configuration in
\* force: edits made while the flash was written are never marked saved.
THEOREM CleanCorrect == Spec => CleanAfterOperation
<1>1. IInv /\ [Next]_vars =>
        [(operation # "NONE" /\ operation' = "NONE" /\ ~dirty' /\ hasRecord'
            /\ status' # "REBOOT_REQUIRED")
          => ram' = held']_vars
  BY CleanStep
<1>2. QED
  BY Invariance, <1>1, PTL DEF Spec, CleanAfterOperation

LEMMA SavedStep ==
  ASSUME IInv, [Next]_vars, operation # "NONE", app' # "BOOT", saved' # saved
  PROVE  /\ proposal # NoPayload => held' = proposal /\ durable' = proposal
         /\ proposal' = NoPayload
<1>1. CASE ProcessNoChange
  BY <1>1 DEF ProcessNoChange, storeVars
<1>2. ASSUME NEW result \in Committing \ {"NO_CHANGE"}, ProcessCommitted(result)
      PROVE  held' = proposal /\ durable' = proposal /\ proposal' = NoPayload
  BY <1>2 DEF ProcessCommitted, Store!Confirm
<1>3. ~PowerCut
  BY DEF PowerCut, Booted
<1>4. ASSUME NEW result \in Failing
      PROVE  ~ProcessFailed(result)
  BY DEF ProcessFailed
<1>5. ASSUME NEW op \in {"SAVE", "FACTORY_RESET"}
      PROVE  ~StartRejected(op) /\ ~Start(op)
  BY DEF StartRejected, Start, contextVars
<1>6. ~(\/ DeviceInit \/ RaiseFault \/ EnterFault
        \/ \E p \in Encodings : Edit(p)
        \/ ApplySame \/ BeginCalibration \/ EndCalibration
        \/ StartNothing \/ StartNoChange \/ ProcessBusy \/ UNCHANGED vars)
  BY DEF DeviceInit, RaiseFault, EnterFault, Edit, ApplySame,
     BeginCalibration, EndCalibration, StartNothing, StartNoChange,
     ProcessBusy, vars, contextVars
<1>7. QED
  BY <1>1, <1>2, <1>3, <1>4, <1>5, <1>6 DEF Next, Process

\* While an operation runs, the saved revision moves only when the store
\* confirms what was written, and then a restart loads it.
THEOREM SavedCorrect == Spec => SavedMeansCommitted
<1>1. IInv /\ [Next]_vars =>
        [(operation # "NONE" /\ app' # "BOOT" /\ saved' # saved)
          => /\ proposal # NoPayload => held' = proposal /\ durable' = proposal
             /\ proposal' = NoPayload]_vars
  BY SavedStep
<1>2. QED
  BY Invariance, <1>1, PTL DEF Spec, SavedMeansCommitted
=============================================================================
