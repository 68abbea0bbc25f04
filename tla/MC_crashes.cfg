SPECIFICATION FairSpec
CONSTANTS
  a = a
  b = b
  h = h
  None = None
  Node = {a, b, h}
  Kind <- HybridAndHysteria
  Bypassed = {a, b}
  SitesOn = TRUE
  InitTun = FALSE
  Click = {"toggle", "select", "proxy"}
  Fault = {"plan", "sidecar", "front", "pin", "proxy", "switch", "dns", "zapret", "crash"}
  MaxClicks = 3
  MaxFaults = 2
PROPERTIES
  OneProcess
  Answered
  Settles
\* The behaviour ends where the bounds on clicks and failures are used up.
CHECK_DEADLOCK FALSE
