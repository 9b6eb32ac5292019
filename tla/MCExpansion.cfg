SPECIFICATION MCSpec
CONSTANTS
  Stations = {"ABFC", "EKAK", "PHRI", "UNEC"}
  Coordinated = {"ABFC", "EKAK", "PHRI"}
  Days = {26, 27}
  CoordinateDay = 26
  Payloads <- MCPayloads
  Damages <- MCDamages
  StationCounts <- MCStationCounts
  Least = 2
  Limits = {0, 1}
  MaxRetries = 1
  MaxRuns = 5
  MaxDamages = 2
  MaxDeaths = 1
INVARIANTS AdmittedSound VerifiedExact 
CHECK_DEADLOCK FALSE
