SPECIFICATION FairSpec
CONSTANTS
  c1 = c1
  f1 = f1
  f2 = f2
  f3 = f3
  Captures <- MCOneCapture
  Frames <- MCFrames
  Passing <- MCPassing
  Size <- MCSize
  MaxBytes = 5
  MaxFrames = 4
  RecoverLive = FALSE
INVARIANTS IndexTracksStream ManifestTruthful
PROPERTIES ImplementsArchive 
CHECK_DEADLOCK FALSE
