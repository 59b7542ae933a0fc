CONSTANTS
  p1 = p1
  p2 = p2
  dflt = dflt
  none = none
  Payloads <- MCPayloads
  FactoryDefaults = dflt
  NoPayload = none
  HalfRange <- MCHalfRange
  BodyChunks = 2
  InitialFlash <- MCInitialFlash
SPECIFICATION FairSpec
INVARIANT NoChangeIsDurable
