SPECIFICATION ServersSpec
CONSTANTS
  s1 = s1
  s2 = s2
  np = np
  nq = nq
  u1 = u1
  u2 = u2
  u3 = u3
  row1 = row1
  row2 = row2
  row3 = row3
  end1 = end1
  end2 = end2
  end3 = end3
  Sub = {s1, s2}
  Item = {np, nq}
  Pinned = {nq}
  Url = {u1, u2, u3}
  NoUrl = no_url
  Original <- FirstOffers
  Present <- PresentSets
  Home <- HomeUrls
  Moves <- MoveUrls
  Host <- HostNames
  Nothing = nothing
  MaxWorkers = 1
  MaxOrders = 2
  MaxNews = 1
  MaxSilence = 1
  MaxWishes = 1
  MaxDone = 3
  HeadStart = 1
  Grace = 2
  Deadline = 4
  Key = {"k", "m"}
  Name = {"x", "y"}
  Mark = {"1", "2"}
  Addr <- SameAddress
  MaxServers = 2
  Row = {row1, row2, row3}
  Endpoint = {end1, end2, end3}
  NoEnd = no_end
  EndOf <- RowEnds
  Address <- Addresses
  MaxRounds = 2
  MaxEdits = 1
INVARIANTS
  HiddenStaysHidden
\* A behaviour ends when the bounds are reached.
CHECK_DEADLOCK FALSE
