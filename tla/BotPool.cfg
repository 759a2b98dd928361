SPECIFICATION Spec
CONSTANTS
  Bots = {b1, b2}
  Channels = {p, q}
  BrokerChannels = {q}
  None = None
  MaxMsgs = 1
  MaxSessions = 2
  MaxUpsets = 2
  CrashLimit = 0
  RecycleLimit = 1
SYMMETRY Sym
CHECK_DEADLOCK FALSE
INVARIANTS
  OneBotPerChannel
  BrokerSessionsAreDriven
  BufferIsTransient
