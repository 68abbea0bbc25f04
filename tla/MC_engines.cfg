SPECIFICATION EnginesSpec
CONSTANTS
  HyBudget <- HySome
  MaxHyFaults = 3
  MaxHyStarts = 2
  Server = {s1, s2, s3}
  Sidecar = {s1, s2}
  Nobody = nobody
  MaxTrouble = 3
  MaxAsks = 3
  MaxRetries = 2
  AwgBudget <- AwgSome
  MaxAwgFaults = 3
  MaxAwgStarts = 2
  Peer = {p1, p2}
  Target = {t1, t2}
  ClientLimit = 1
  FlowLimit = 1
  MaxFlowsMade = 2
  MaxBoxStarts = 3
  MaxBoxFaults = 3
  Engines = {"hysteria", "rescue", "amnezia", "relay", "singbox"}
  Document <- Documents
  PlanNode <- PlanNodes
  World <- Worlds
  MaxPlans = 2
  XrayConfig <- XrayConfigs
  XrayWish <- XrayWishes
  MaxXrayPlans = 2
  ZapPreset = {"p", "q"}
  MaxZapClicks = 3
  MaxZapFaults = 1
INVARIANTS
  RecoverySafe
PROPERTIES
  HysteriaSafe
  AmneziaSafe
  RelaySafe
  SingboxSafe
  EnginesProgress
\* A behaviour ends when the bounds are reached.
CHECK_DEADLOCK FALSE
