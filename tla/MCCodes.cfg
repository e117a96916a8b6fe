SPECIFICATION CodesSpec
CONSTANTS
  N = 5
  Frequencies <- MCFrequencies
  Limits = {3, 4}
  Given <- MCGiven
  SafelyPeek = {0, 1, 2}
  Literals <- MCLiterals
  Distances <- MCDistances
  LITERALS_AT_LEAST = 257
  DISTANCES_AT_LEAST = 1
  BITWIDTHS_AT_LEAST = 4
  BITWIDTH_CODE_ORDER <- MCOrder
  Matches <- MCMatches
INVARIANTS LengthsAreOptimal RefusesNoCode DecodesTheCode CodesReadBack
CHECK_DEADLOCK FALSE
