CONSTANTS
  CharacterTime = 1
  T1_5 = 2
  T3_5 = 6
  MinLength = 2
  MaxLength = 2
  PositionRange = 16
  FirstPosition = 0
  IdleDepth = 2
  MaxPass = 1
  MaxInside = 2
  MaxBytes = 3
  MaxErrors = 1
SPECIFICATION Spec
INVARIANTS
  TypeOK
  FrameIsWhole
  SilenceSettles
  GoodFrameReceived
