CONSTANTS
  d1 = d1
  none = none
  e1 = e1
  e2 = e2
  Capacity = 2
  RequestIds <- MCRequestIds3
  Destinations <- MCDestinations
  NoDestination = none
  Expirers <- MCExpirers
  CountModulus = 2
  CallbackMayThrow = TRUE
  MaxTime = 1
  MaxRequests = 3
SPECIFICATION Spec
INVARIANTS
  TypeOK
  UniqueActiveIds
  TrackedOnce
  NoEarlyTimeout
PROPERTIES
  OutcomeIsFinal
  ImplementsTracker
