SPECIFICATION Spec
CONSTANTS
  Bots = {b1, b2}
  Channels = {p, q}
  BrokerChannels = {q}
  None = None
  MaxMsgs = 2
  MaxSessions = 2
  MaxUpsets = 1
  CrashLimit = 0
  RecycleLimit = 1
SYMMETRY Sym
CHECK_DEADLOCK FALSE
INVARIANTS
  NoDroppedInbound
