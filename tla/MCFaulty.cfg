SPECIFICATION Spec
CONSTANTS
  None = None
  Actions <- Single
  Body <- SingleBodies
  Configurations <- SingleConfiguration
  Tools <- MCTools
  Irreversible = {}
  Readings <- Clock
  Reentrant = FALSE
  MaxEpoch = 1
  MaxCrashes = 0
  MaxActive = 2
  MaxAttempts = 1
  CreatedWindow = 1
  DispatchBudget = 1
  SkewLimit = 1
  EnrichmentWindow = 0
  MinTtl = 1
INVARIANTS
  AdapterFaultsAreUnknown
CHECK_DEADLOCK FALSE
