SPECIFICATION UsersSpec
CONSTANTS
  Byte = {0, 1}
  Kinds = {"stored", "fixed"}
  Limits = {0, 2}
  MAX_STORED_BLOCK = 3
  MIN_MATCH = 2
  MAX_MATCH = 3
  WINDOW_SIZE = 2
  COMPACT_THRESHOLD = 4
  Coding <- MCCoding
  Pieces <- MCPieces
  Advances = {1}
  ResetsMidway = FALSE
  MaxFed = 4
  MaxElements = 0
  SIZE_WRAP = 4
INVARIANTS FilesAreWhole SinksAreStreams
