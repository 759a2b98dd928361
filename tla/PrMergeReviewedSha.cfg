CONSTANTS
  Sessions = {s1, s2}
  NoSession = NoSession
  MaxSha = 2
SPECIFICATION Spec
INVARIANT MergedWasReviewed
CHECK_DEADLOCK FALSE
