CONSTANTS
  Port = "python"
  Characters <- MCCharacters
  MaxDepth = 2
  MaxMembers = 2
  MaxArray = 1
  SafeMax = 99
  MaxIntDigits = 4
  Questions <- ForeignQuestions
SPECIFICATION Spec
INVARIANTS AcceptsExactlyJson
CHECK_DEADLOCK FALSE
