SPECIFICATION LSpec
CONSTANTS
  Byte = {0, 1}
  Inputs <- MCInputs
  Hashes = {0, 1}
  hash3 <- MCHash
  MIN_MATCH = 3
  MAX_MATCH = 5
  WINDOW_SIZE = 4
  MAX_CHAIN_LEN = 3
  NIL = 7
  MaxCalls = 2
INVARIANTS LongestIsFound ChainIsExact
PROPERTY TokensAreTrue
