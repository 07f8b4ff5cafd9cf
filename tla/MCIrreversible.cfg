SPECIFICATION Spec
CONSTANTS
  None = None
  Actions <- Single
  Body <- NoteBodies
  Configurations <- NoteConfiguration
  Tools <- TwoTools
  Irreversible <- Irreversibles
  Readings <- Clock
  Reentrant = FALSE
  MaxEpoch = 1
  MaxCrashes = 0
  MaxActive = 2
  MaxAttempts = 1
  CreatedWindow = 1
  DispatchBudget = 1
  SkewLimit = 1
  EnrichmentWindow = 0
  MinTtl = 1
INVARIANTS
  IrreversibleNeedsHuman
CHECK_DEADLOCK FALSE
