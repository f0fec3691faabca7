CONSTANTS
  d1 = d1
  none = none
  e1 = e1
  status = status
  blink = blink
  Capacity = 1
  RequestIds = {0, 1}
  Destinations <- MCDestinations
  NoDestination = none
  Expirers <- MCExpirers
  CountModulus = 1
  CallbackMayThrow = FALSE
  MaxTime = 1
  MaxRequests = 2
  Paths <- MCPaths
  Timeouts <- MCTimeouts
  InitialDefault = 1
  Budget = 3
  Results = {"ok"}
  QueueDepth = 1
SPECIFICATION Spec
SYMMETRY PathSymmetry
INVARIANTS
  TypeOK
  
  LateAnswersIgnored
  WaitsAsConfigured
CHECK_DEADLOCK FALSE
