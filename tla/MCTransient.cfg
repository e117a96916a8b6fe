SPECIFICATION CostSpec
CONSTANTS
  Byte <- MCByte
  Streams <- MCStreams
  StreamIds <- MCStreamIds
  WholeSize <- MCWholeSize
  WholeData <- MCWholeData
  WINDOW_SIZE = 5
  MAX_MATCH = 4
  COMPACT_THRESHOLD = 8
  MAX_INTERNAL_BUFFER = 3
  FeedSizes = {0, 1, 3}
INVARIANTS NeverLeftTransient
CHECK_DEADLOCK FALSE
