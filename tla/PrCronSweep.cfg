CONSTANTS
  MaxCycles = 2
  MaxDeferrals = 2
  MaxCiFixes = 1
  MaxPasses = 3
  FailureSets = {a, b}
  Outcomes = {"approved", "changes", "dismissed", "none"}
  MultiRepo = TRUE
  Updates = FALSE
  Others = FALSE
SPECIFICATION Spec
INVARIANT OwedFixIsQueued
