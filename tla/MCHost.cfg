SPECIFICATION HostSpec
CONSTANTS
  None = None
  Actions <- RivalActions
  Body <- RivalBodies
  Payments <- OnePayment
  GateRevision = None
  Gates = {"g1"}
  Readings <- ShortClock
  MaxVersion = 3
  MaxInFlight = 2
  Proposals <- RivalProposals
  ReqIds = {"r1", "r2"}
  Methods = {"propose", "submit", "commit"}
  MaxActive = 2
  MaxRevision = 3
  MaxCrashes = 1
  Limit = 2
  Window = 3
  MaxBack = 1
  MaxTime = 9
  MaxRestarts = 1
INVARIANTS
  RecordTellsEffects
  RefundsCovered
  RetryIsAnswered
  ShownStateIsCurrent
  WindowBounded
  PatienceRewarded
PROPERTIES
  ImplementsProvider
CHECK_DEADLOCK FALSE
