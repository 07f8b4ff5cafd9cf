CONSTANTS
  Port = "python"
  Characters <- MCCharacters
  MaxDepth = 2
  MaxMembers = 2
  MaxArray = 1
  SafeMax = 99
  MaxIntDigits = 4
  Questions <- MCQuestions
SPECIFICATION Spec
INVARIANTS AcceptsExactlyJson CanonicalMeansSame PortsAgree
CHECK_DEADLOCK FALSE
