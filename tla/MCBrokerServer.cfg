CONSTANTS
  Channels = {c1, c2}
  NoChannel = NoChannel
  Bots = {b1}
  NoBot = NoBot
  Shims = {s1, s2}
  Conns = {k1, k2}
  NoConn = NoConn
  MaxMsgs = 1
  MaxDeliveries = 1
  MaxCrashes = 1
  MaxLaunches = 2
SPECIFICATION Spec
SYMMETRY Interchangeable
INVARIANTS ConnectionsInOrder AckedWasEmitted NoCrossChannel
PROPERTIES NeverSilentlyDropped
CHECK_DEADLOCK FALSE
