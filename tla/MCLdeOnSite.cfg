SPECIFICATION MCSpec
CONSTANTS
  P = 97
  Shift = 5
  NBits = 2
  NBitsExt = 3
  QDeg = 2
  FieldBits = 5
  MaxThreads = 3
  Half = 8
  Bits = 6
  SmallP = 13
  AlteredQueries = {1, 7}
  Configs = {}
  Statements = {}
  Draws <- MCDraws
  QueryFields <- MCQueryFields
  Samples <- MCLdeSamples
INVARIANTS
  ExtensionRight
CHECK_DEADLOCK FALSE
