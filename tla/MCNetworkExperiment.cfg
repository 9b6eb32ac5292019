SPECIFICATION Spec
CONSTANTS
  Stations = {1, 2, 3, 4}
  LeastNetwork = 3
  LeastDuration = 3
  Definitions <- MCDefinitions
  Workers = 2
  QcResults <- MCQcResults
  Coordinates <- MCCoordinates
  FirstQc <- MCFirstQc
  FirstCoordinates <- MCFirstCoordinates
  MaxRuns = 2
  MaxChanges = 1
  MaxFaults = 1
INVARIANTS  OutputsFollow 
CHECK_DEADLOCK FALSE
