SPECIFICATION FilesSpec
CONSTANTS
  Byte <- MCByte
  Streams <- MCStreams
  StreamIds <- MCStreamIds
  WholeSize <- MCWholeSize
  WholeData <- MCWholeData
  Files <- MCFiles
  WellFormed <- MCWellFormed
  PieceSizes <- MCPieceSizes
  WINDOW_SIZE = 5
  MAX_MATCH = 4
  COMPACT_THRESHOLD = 8
  MAX_INTERNAL_BUFFER = 3
  FeedSizes = {}
  SIZE_MOD = 4
INVARIANTS BodyAfterHeader FinishedIsRight NothingHeldBack Refusal
PROPERTIES EveryFeedReturns
CHECK_DEADLOCK FALSE
