CONSTANTS
  Sessions = {s1, s2}
  NoSession = NoSession
  MaxSha = 2
SPECIFICATION Spec
SYMMETRY SessionSymmetry
INVARIANTS OneAtWork NoLeakedLease InFlightIsReviewed
CHECK_DEADLOCK FALSE
