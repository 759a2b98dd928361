CONSTANTS
  MaxCycles = 2
  MaxDeferrals = 2
  MaxCiFixes = 1
  MaxPasses = 2
  FailureSets = {a}
  Outcomes = {"approved", "changes", "dismissed", "none"}
  MultiRepo = TRUE
  Updates = TRUE
  Others = FALSE
SPECIFICATION Spec
VIEW WithoutHistory
INVARIANTS FixesInOrder
