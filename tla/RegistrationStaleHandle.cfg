CONSTANTS
  wifi = wifi
  gpio = gpio
  h1 = h1
  h2 = h2
  Names <- MCNames
  Handles <- MCHandles
  PathRemoval = TRUE
  Aliasing = FALSE
  MaxNodes = 2
  MaxDepth = 1
SPECIFICATION Spec
PROPERTIES
  HandlesAreOwnershipSafe
