SPECIFICATION EvidenceSpec
CONSTANTS
  None = None
  Tenants = {"t1"}
  Principals = {"u1"}
  RequestKeys = {"k1"}
  Policies <- PolicySet
  Proofs <- ForkedProofs
  Trust <- PinnedTrust
  Minutes = {1}
  WriteLimit = 5
  VerifyLimit = 1
  DispatchBudget = 3
  Action <- BundleAction
  AuditKeys = {"aud1", "aud2"}
  Trusts <- BundleTrusts
  Frontier = TRUE
  MaxExports = 2
  Outcomes = {"succeeded", "failed", "unknown"}
  MaxRestarts = 2
  MaxDamage = 2
  Candidates <- TallyPolicies
  Seeds = {"s1", "s2", "s3"}
  ActionIds = {"a1", "a2"}
  Subject = "a1"
  MaxPool = 3
INVARIANTS
  HeadIsNewest
  HeadForksQuarantined
  QuarantineJustified
  OneResponsePerKey
  AcceptedIsGenuine
  LossReadsIncomplete
  ExportsVerify
  NoFork
  CountersAgree
  SatisfiedMeansSigners
PROPERTIES
  HeadsOnlyAdvance
CHECK_DEADLOCK FALSE
