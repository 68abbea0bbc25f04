SPECIFICATION Spec
CONSTANTS
  a = a
  b = b
  h = h
  None = None
  Node = {a, b, h}
  Kind <- TwoAmnezia
  Bypassed = {}
  SitesOn = FALSE
  InitTun = TRUE
  Click = {"toggle", "select", "tun"}
  Fault = {"front", "sidecar", "crash"}
  MaxClicks = 4
  MaxFaults = 1
INVARIANTS
  SessionIsReal
  NoLeftovers
  NothingForgotten
\* The behaviour ends where the bounds on clicks and failures are used up.
CHECK_DEADLOCK FALSE
