SPECIFICATION Spec
CONSTANTS
  a = a
  b = b
  h = h
  None = None
  Node = {a, b, h}
  Kind <- TwoAmnezia
  Bypassed = {}
  SitesOn = FALSE
  InitTun = FALSE
  Click = {"toggle", "select"}
  Fault = {"plan"}
  MaxClicks = 3
  MaxFaults = 1
INVARIANTS
  SelectionServes
\* The behaviour ends where the bounds on clicks and failures are used up.
CHECK_DEADLOCK FALSE
