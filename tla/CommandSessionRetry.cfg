CONSTANTS
  h0 = h0
  h1 = h1
  r0 = r0
  r1 = r1
  m0 = m0
  m1 = m1
  None = none
  Hardware <- MCHardware
  FactoryHardware = h0
  Raws <- MCRaws
  Masses <- MCMasses
  SessionMod = 3
  Timeout = 2
  Window = 2
  Tokens = {1, 2}
SPECIFICATION FairSpec
PROPERTY RepeatedTokenStagesNothing
