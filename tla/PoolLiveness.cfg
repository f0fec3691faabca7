CONSTANTS
  d1 = d1
  none = none
  e1 = e1
  e2 = e2
  Capacity = 2
  RequestIds <- MCRequestIds
  Destinations <- MCDestinations
  NoDestination = none
  Expirers <- MCOneExpirer
  CountModulus = 2
  CallbackMayThrow = FALSE
  MaxTime = 2
  MaxRequests = 2
SPECIFICATION FairSpec
PROPERTIES
  EveryRequestResolved
