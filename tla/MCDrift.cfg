SPECIFICATION Spec
CONSTANTS
  None = None
  Actions <- Single
  Body <- SingleBodies
  Configurations <- DriftConfigurations
  Tools <- MCTools
  Irreversible = {}
  Readings <- Clock
  Reentrant = TRUE
  MaxEpoch = 3
  MaxCrashes = 1
  MaxActive = 2
  MaxAttempts = 1
  CreatedWindow = 1
  DispatchBudget = 1
  SkewLimit = 1
  EnrichmentWindow = 0
  MinTtl = 1
INVARIANTS
  NoReenroll
  RevocationIsFinal
PROPERTIES
  ConsumedUnderCurrentAuthority
CHECK_DEADLOCK FALSE
