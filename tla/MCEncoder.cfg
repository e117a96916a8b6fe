SPECIFICATION ESpec
CONSTANTS
  Byte = {0, 1}
  Kinds = {"stored", "fixed", "dynamic"}
  Limits = {0, 3}
  MAX_STORED_BLOCK = 3
  MIN_MATCH = 2
  MAX_MATCH = 3
  WINDOW_SIZE = 2
  COMPACT_THRESHOLD = 4
  Coding <- MCCoding
  Pieces <- MCPieces
  Advances = {1}
  ResetsMidway = FALSE
  MaxFed = 5
  MaxElements = 4
INVARIANTS BitsTile NothingLost OneFinalBlock FlushEndsOnByte
PROPERTIES HistoryIsDropped CallReturns
