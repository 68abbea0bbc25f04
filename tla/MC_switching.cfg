SPECIFICATION Spec
CONSTANTS
  a = a
  b = b
  h = h
  None = None
  Node = {a, b, h}
  Kind <- NativeAndHysteria
  Bypassed = {a, b, h}
  SitesOn = FALSE
  InitTun = FALSE
  Click = {"toggle", "select"}
  Fault = {"plan", "sidecar", "pin", "proxy", "switch", "dns"}
  MaxClicks = 3
  MaxFaults = 1
INVARIANTS
  TypeOK
  ServedAsChosen
  FailureUndone
  Protected
PROPERTIES
  SessionMoves
\* The behaviour ends where the bounds on clicks and failures are used up.
CHECK_DEADLOCK FALSE
