CONSTANTS
  CharacterTime = 1
  T1_5 = 2
  T3_5 = 4
  MinLength = 2
  MaxLength = 3
  PositionRange = 8
  FirstPosition = 7
  IdleDepth = 2
  MaxPass = 2
  MaxInside = 1
  MaxBytes = 3
  MaxErrors = 0
SPECIFICATION Spec
INVARIANT RolloverIsHarmless
