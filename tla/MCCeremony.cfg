SPECIFICATION Spec
CONSTANTS
  None = None
  Actions <- Rivals
  Body <- RivalBodies
  Configurations <- RivalConfigurations
  Tools <- MCTools
  Irreversible = {}
  Readings <- Clock
  Reentrant = FALSE
  MaxEpoch = 2
  MaxCrashes = 0
  MaxActive = 2
  MaxAttempts = 1
  CreatedWindow = 1
  DispatchBudget = 1
  SkewLimit = 1
  EnrichmentWindow = 0
  MinTtl = 1
INVARIANTS
  CoordinatorTypeOK
  OperationExclusive
  AuthorizedCommit
  ExportVerifies
  EffectInTime
  EnrichmentBeforeQuorum
CHECK_DEADLOCK FALSE
