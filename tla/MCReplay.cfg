SPECIFICATION MCSpec
CONSTANTS
  Inputs <- MCInputs
  Sources <- MCSources
  Configs <- MCConfigs
  Fingerprint <- MCPrint
  Events <- MCEvents
  Plan <- MCPlan
  Capacity = 1
  DropNewest = FALSE
  FaultPlans <- MCFaultPlans
  ConsumerRaises = TRUE
  MaxTroubles = 3
  MaxFrames = 3
  Gaps = {0, 1, 5}
  FirstStamp = 7
  Times = {8, 12}
  Speeds = {0, 2, 3}
  Loops = {1, 2, 3}
INVARIANTS ExactStretch PlanKept
PROPERTIES ImplementsPlayback RunReturns
CHECK_DEADLOCK FALSE
