CONSTANTS
  Calls = {1, 2}
  Suites = {x}
  MaxSha = 2
  FixLimit = 1
  MaxReruns = 1
  MaxInputs = 3
  MaxLost = 1
  ReadsFail = TRUE
  Starts = {1, 2}
  MaxRestarts = 1
  MaxUpsets = 4
  Clients = {1, 2, 3}
  Attempts = {1, 2}
  Threshold = 1
  Branches = {"x", "y"}
  MaxWork = 2
  Issues = {1, 2}
  MaxTriages = 1
  MaxDepth = 1
  MaxFixes = 1
  MaxSessions = 2
  Incidents = {1, 2}
  Posts = {1, 2}
  Days = 2
  Prs = {1}
  Watchers = {"general", "side"}
  Nobody = Nobody
  MaxTurns = 2
  Names = {"n", "m"}
  MaxRooms = 2
  MaxClosings = 2
  Pulls = {"p"}
  Runs = {"r", "s"}
  Handlers = {1, 2}
  MaxCiFixAttempts = 1
  MaxDeployFixAttempts = 2
  SafetyValve = 2
  MaxFailures = 3
  MaxProcs = 2
  MaxSignals = 2
SPECIFICATION Spec
VIEW Running
INVARIANTS
  DispatchesAreBudgeted
  NoSilentDarkness
  OneLiveClient
  OnlySafeTreesRemoved
  QueuedTriageIsDriven
  IncidentsAndThreadsKept
  WatchersAreServed
  SessionsKeptOnce
  SpawnsAreBudgeted
  OneDaemonAtWork
CHECK_DEADLOCK FALSE
