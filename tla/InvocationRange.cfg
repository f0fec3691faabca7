CONSTANTS
  none = none
  IntegerBits = 5
  DoubleBits = 3
  LongDoubleBits = 5
  ScientificFrom = 24
  Keys = {1, 2, 3}
  Words <- MCWords
  NoValue = none
  DashText <- dashes
  Parameters <- MCOneParameter
  TypedParameters <- MCRanged
  Values <- MCTexts
  Documents = {}
  MaxParameters = 1
  MaxPositional = 1
  MaxTextParameters = 0
  MaxTokens = 0
  Layers = 0
  Befores = 0
  Afters = 1
  MaxNext = 0
CHECK_DEADLOCK FALSE
SPECIFICATION Spec
INVARIANTS
  RangesHold
