SPECIFICATION UpdatesSpec
CONSTANTS
  MaxVersion = 1
  MaxAuto = 2
  Backoff = 1
  Lifetime = 1
  MaxClock = 3
  MaxUser = 1
  MaxFaults = 1
  File = {f1, f2, f3}
  HasProxy = TRUE
  Stored = TRUE
  b1 = b1
  b2 = b2
  m1 = m1
  m2 = m2
  d1 = d1
  d2 = d2
  SiteName = {b1, b2, m1, m2}
  NobodyWon = nobody
  Boot <- BootNames
  Lists <- SiteLists
  Pages <- EntryPages
  MaxRacers = 2
  FallbackTtl = 1
  ListTtl = 2
  GoodTtl = 3
  MaxNameClock = 2
  MaxTurns = 1
  Mirrors <- MirrorHosts
  ThroughProxy = TRUE
  Attempts = 1
  RoundBudget = 4
  MaxRelease = 2
  MaxTickets = 2
  MaxBreaks = 2
  MaxMisses = 1
  Piece = {p1, p2}
  Patched = {p2}
  Depot = {d1, d2}
  DepotRank <- DepotPlaces
  NoDepot = nowhere
  PieceSize = 2
  Rounds = 2
  MaxRestartsOfFetch = 1
  MaxBases = 1
  MaxReleases = 2
  KeepReleases = 1
  AssetCount = 2
  MaxBreaks2 = 2
  MaxCommits = 2
  MaxGiveUps = 1
  Feeds <- CoreFeeds
  Channel = "stable"
  FirstCore = 1
  MaxJobs = 3
  MaxClicks = 1
  MaxHitches = 1
  MaxSetbacks = 3
INVARIANTS
  RoundsSafe
  OfferedIsReal
  PutTogetherRight
PROPERTIES
  ReachedIsKept
  UpdatesProgress
\* A behaviour ends when the bounds are reached.
CHECK_DEADLOCK FALSE
