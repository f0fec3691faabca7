CONSTANTS
  wifi = wifi
  gpio = gpio
  h1 = h1
  h2 = h2
  Names <- MCNames
  Handles <- MCHandles
  PathRemoval = TRUE
  Aliasing = TRUE
  MaxNodes = 4
  MaxDepth = 2
SPECIFICATION Spec
SYMMETRY RegistrationSymmetry
INVARIANTS
  TypeOK
  SiblingNamesDistinct
  HandleOwnsItsNode
  MirrorIsExact
PROPERTIES
  NotifiedAsChanged
  
