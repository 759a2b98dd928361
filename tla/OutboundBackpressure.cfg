CONSTANTS
  Calls = {r1, r2}
  Bots = {b1, b2}
  NoBot = NoBot
  MaxLinks = 2
SPECIFICATION Spec
INVARIANT ResultIsVerbatim
CHECK_DEADLOCK FALSE
