SPECIFICATION CostSpec
CONSTANTS
  Byte <- MCByte
  Streams <- MCStreams
  StreamIds <- MCStreamIds
  WholeSize <- MCWholeSize
  WholeData <- MCWholeData
  WINDOW_SIZE = 5
  MAX_MATCH = 4
  COMPACT_THRESHOLD = 12
  MAX_INTERNAL_BUFFER = 3
  FeedSizes = {0, 1, 2, 3, 5, 9}
INVARIANTS EndIsRight TypeOK WindowKept TrailerKept NoUnderflow MemoryBounded CopiesAreRare
PROPERTIES HoldsBackLittle CompleteStreamFinishes FeedReturns ImplementsInflate
CHECK_DEADLOCK FALSE
