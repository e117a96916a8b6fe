SPECIFICATION CallersSpec
CONSTANTS
  Byte <- MCByte
  Streams <- MCStreams
  StreamIds <- MCStreamIds
  WholeSize <- MCWholeSize
  WholeData <- MCWholeData
  WINDOW_SIZE = 5
  MAX_MATCH = 4
  COMPACT_THRESHOLD = 8
  MAX_INTERNAL_BUFFER = 3
  FeedSizes = {}
  BufferSize = 4
  OutSizes = {1, 4}
INVARIANTS EndIsTold
PROPERTIES CallersReturn
CHECK_DEADLOCK FALSE
