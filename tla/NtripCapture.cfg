SPECIFICATION CaptureFairSpec
CONSTANTS
  MaxReconnects = 3
  Capacity = 2
  ByteBudget = 3
  ChunkMax = 2
  CasterFrames = 5
  Faults = {"dial", "silence", "reset", "eof", "refusal", "content"}
  Signals = TRUE
INVARIANTS LimitsKept FramesAccounted StatusHonest
PROPERTIES ImplementsRelay 
CHECK_DEADLOCK FALSE
