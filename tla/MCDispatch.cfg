SPECIFICATION PartSpec
CONSTANTS
  None = None
  Actions <- Single
  Body <- SingleBodies
  Configurations <- SingleConfiguration
  Tools <- MCTools
  Irreversible = {}
  Readings <- Clock
  Reentrant = FALSE
  MaxEpoch = 1
  MaxCrashes = 2
  MaxActive = 2
  MaxAttempts = 2
  CreatedWindow = 1
  DispatchBudget = 1
  SkewLimit = 1
  EnrichmentWindow = 0
  MinTtl = 1
  WatchedDispatches <- Pair
  Reported <- Found
  MaxStops = 3
  InboxKeys <- ThreeKeys
  MaxKills = 2
  MaxOutages = 2
INVARIANTS
  AtMostOneDispatch
  NoStrandedDispatch
  OutcomeHonest
  RowFromStream
  OneOutcome
  AckedIsDelivered
  OneAnswerPerKey
PROPERTIES
  ImplementsConsumeOnce
  DispatchResolves
  DispatchesResolve
CHECK_DEADLOCK FALSE
