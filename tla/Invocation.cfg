CONSTANTS
  none = none
  IntegerBits = 5
  DoubleBits = 3
  LongDoubleBits = 5
  ScientificFrom = 24
  Keys = {1, 2, 3}
  Words <- MCWords
  NoValue = none
  DashText <- dashes
  Parameters <- MCParameters
  TypedParameters <- MCTypedParameters
  Values <- MCValues
  Documents <- MCDocuments
  MaxParameters = 3
  MaxPositional = 3
  MaxTextParameters = 0
  MaxTokens = 3
  Layers = 2
  Befores = 2
  Afters = 2
  MaxNext = 2
CHECK_DEADLOCK FALSE
SPECIFICATION Spec
INVARIANTS
  ReadAsMeant
  BoundAsDeclared
  
  
  FailureIsReported
