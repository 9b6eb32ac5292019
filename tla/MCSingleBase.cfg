SPECIFICATION Spec
CONSTANTS
  Stations = {1, 2, 3}
  FullWindow <- MCFullWindow
  Jobs <- MCJobs
  Experiments <- MCExperiments
  Outputs <- MCOutputs
  FirstInputs <- MCFirstInputs
  OtherInputs <- MCOtherInputs
  MaxRuns = 2
  MaxChanges = 2
  MaxFaults = 1
INVARIANTS GatedRun CompleteMeasured TablesOfRun
PROPERTIES IdKeepsInputs
CHECK_DEADLOCK FALSE
