CONSTANTS
  d1 = d1
  d2 = d2
  c1 = c1
  c2 = c2
  remote = remote
  acknowledge = acknowledge
  other = other
  none = none
  NoEvent = none
  Dispatchers <- MCDispatchers
  Controllers <- MCControllers
  Events <- MCEvents
  Inbound <- MCInbound
  Remote <- MCInbound
  Completing <- MCCompleting
  QueueDepth = 1
  MaxPrepares = 2
SPECIFICATION FairSpec
INVARIANTS
  TypeOK
  ReferencesBalanced
  RegistryOutlivesWork
  FlagTellsTheTruth
  AnnouncedAsSent
PROPERTIES
  AdmittedIsSettled
CHECK_DEADLOCK FALSE
