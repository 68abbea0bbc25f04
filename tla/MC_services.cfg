SPECIFICATION ServicesSpec
CONSTANTS
  OwnProxy <- UserProxies
  ProxyBudget <- SomeFaults
  MaxSessions = 4
  MaxSteps = 3
  Phrases = {"", "p"}
  StoreBudget <- StoreSome
  MaxEdits = 3
  Section = {"dns", "log", "route"}
  Bundle <- Templates
  MaxStarts = 3
  MaxUserEdits = 2
  ByteLimit = 1
  MaxTraffic = 3
  MaxRestarts = 2
  na = na
  nb = nb
  nc = nc
  Node = {na, nb, nc}
  NoNode = no_node
  PoolNode = {na, nb}
  Rank <- Ranks
  Speed <- Speeds
  Threshold = 4
  Factor = 2
  Hold = 1
  SlowMark = 2
  ManualHold = 3
  Hour = 6
  Backoff <- Pauses
  MaxPerHour = 2
  MaxClock = 3
  MaxAsked = 2
  MaxFlying = 2
  MaxDrops = 1
  Member = {na, nb, nc}
  Nobody = nobody
  Retries = 1
  MaxVersions = 2
  MaxLaunches = 2
  MaxMishaps = 1
  Watched = {na, nb}
  HostOf <- Hosts
  FirstWatched = na
  Unset = unset
  Suspect = 2
  Cooldown = 1
  MaxSwitches = 1
  MaxBreaks = 1
INVARIANTS
  ProxySafe
  RunnerSafe
  PoolSafe
PROPERTIES
  RunnerKeepsWord
  DataKept
  SmartSafe
  ServicesProgress
\* A behaviour ends when the bounds are reached.
CHECK_DEADLOCK FALSE
