SPECIFICATION Spec
CONSTANTS
  Stations <- MCStations
  Rover = 4
  Requests <- MCRequests
  Policies <- MCPolicies
  Upstreams <- MCUpstreams
  Results <- MCResults
  Distances <- MCDistances
  ContainedUpTo = 5
  Evidence <- MCEvidence
  MaxRewrites = 1
  MaxDecisions = 2
INVARIANTS  BestReference
CHECK_DEADLOCK FALSE
