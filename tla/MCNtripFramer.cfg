SPECIFICATION FairFramerSpec
CONSTANTS
  Bytes = {0, 1, 2}
  PREAMBLE = 2
  HEADER_LENGTH = 2
  CRC_LENGTH = 1
  MaxFrameLength = 1
  PayloadLength <- MCPayloadLength
  CrcValid <- MCCrcValid
  Chunks <- MCChunks
  WireMax = 8
INVARIANTS PendingBounded ChunkIndependent
PROPERTIES FeedReturns
CHECK_DEADLOCK FALSE
