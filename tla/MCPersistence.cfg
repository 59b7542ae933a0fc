CONSTANTS
  p1 = p1
  v1 = v1
  dflt = dflt
  none = none
  Payloads <- MCPayloads
  NoPayload = none
  FactoryDefaults = dflt
  Upgrade <- MCUpgrade
  LastRevision = 4
  BootRevisions <- MCBootRevisions
  StoreCalls = 2
  MaxUnsavedEdits = 3
SPECIFICATION FairSpec
INVARIANTS
  TypeOK
  UnsavedIsDirty
  CalibrationExcludesSave
  MaintenanceCoversWriting
PROPERTIES
  CleanAfterOperation
  SavedMeansCommitted
  OperationEnds
