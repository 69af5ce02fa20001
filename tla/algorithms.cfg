CONSTANTS
  N = 3
  Weights = {0, 1, 3}
  MaxEdges = 3
  Values = {1, 2, 3, 8}
  MaxLength = 3
  Digits = {0, 1, 4, 7}
  Primes = {2, 3, 5, 7, 11, 13}
  Characters = {"%", "d", "s", "x"}
  MaxFormatLength = 4
SPECIFICATION AllSpec
CHECK_DEADLOCK FALSE
INVARIANT GraphsAnswered
INVARIANT AllNumbersAnswered
INVARIANT FormatAnswered
