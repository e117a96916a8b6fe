SPECIFICATION PartsSpec
CONSTANTS
  Byte <- MCByte
  Buffers <- MCBuffers
  Lengths <- MCLengths
  MaxBuffer = 6
  BASE = 5
  NMAX = 5
  WORD = 71
  MAX_BYTE = 3
  UNROLL = 2
  Updates <- MCUpdates
  MaxSum = 20
  BITS = 2
  WIDTH = 4
  SLICE = 4
  POLYNOMIAL = {2, 3}
  Data <- MCData
  MaxData = 6
  Octet = {0, 1}
  Pieces <- MCPieces
  COMPACT_THRESHOLD = 3
  MaxUnread = 5
INVARIANTS CopiesTheMatch SumsAreExact ChecksumIsCrc MemoryFollowsUnread
INVARIANTS FormatIsFound
PROPERTIES ImplementsQueue PartsReturn
CHECK_DEADLOCK FALSE
