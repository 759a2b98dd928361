CONSTANTS
  Suites = {x}
  Calls = {1}
  MaxSha = 1
  FixLimit = 1
  MaxReruns = 1
  MaxInputs = 3
  MaxLost = 1
  ReadsFail = FALSE
SPECIFICATION Spec
CHECK_DEADLOCK FALSE
INVARIANT SequentialDuplicatesIgnored
