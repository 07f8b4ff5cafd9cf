SPECIFICATION AuthoritySpec
CONSTANTS
  None = None
  Configurations <- ReusedConfigurations
  Tools <- MCTools
  Irreversible <- MCTools
  MaxEpoch = 4
INVARIANT NoReenroll
CHECK_DEADLOCK FALSE
