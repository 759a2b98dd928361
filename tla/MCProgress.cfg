CONSTANTS
  MaxActive = 2
  MaxDepth = 2
  Priorities <- HighAndMedium
  MaxTasks = 4
  MaxOthers = 1
  Channels = {c1}
  NoChannel = NoChannel
  MaxMsgs = 1
  MaxDeliveries = 1
  Bots = {b1}
  NoBot = NoBot
  Shims = {s1}
  Conns = {k1, k2}
  NoConn = NoConn
  MaxCrashes = 1
  MaxLaunches = 1
  Calls = {r1, r2}
  MaxLinks = 2
  MaxCycles = 2
  MaxDeferrals = 2
  MaxCiFixes = 1
  MaxPasses = 1
  FailureSets = {a}
  Outcomes = {"changes"}
  MultiRepo = FALSE
  Updates = FALSE
  Others = TRUE
  Builders = {"first", "second", "third"}
  Agents = {"agent"}
  LeaseTtl = 2
  ObservedTtl = 1
  MayRestart = TRUE
SPECIFICATION MCSpec
INVARIANTS WorkConserving AnswersAreTheDaemons BuilderHoldsTree NoPhantomHold
PROPERTIES NoOvertaking AllTasksSettle AllCallsAnswered ConnectedBacklogDrains OwedFixIsHandedOver ObservedHoldKept NoOutage
CHECK_DEADLOCK FALSE
