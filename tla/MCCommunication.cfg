CONSTANTS
  Settings = {old, new, other}
  ModbusSettings = {old, new}
  Off = off
  MaxOperations = 2
SPECIFICATION FairSpec
INVARIANTS
  TypeOK
  LineIsActive
PROPERTIES
  ChangeIsQuiet
  WorkEnds
