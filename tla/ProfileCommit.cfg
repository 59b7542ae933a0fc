CONSTANTS
  Profiles <- MCProfiles
  DefaultProfile = "HIGH_PRECISION"
  Settings <- MCSettings
  Defaults <- MCDefaults
  Capacity = 2
  SettlingSamples = 1
  MaximumSamples = 1
  MaxOperations = 1
SPECIFICATION Spec
PROPERTIES
  CommitMeansConfigured
