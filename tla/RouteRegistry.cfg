CONSTANTS
  t1 = t1
  t2 = t2
  wifi = wifi
  serial = serial
  null = null
  Threads <- MCThreads
  Transports <- MCTransports
  NoTransport = null
  IdModulus = 8
  MaxRegistrations = 3
SPECIFICATION FairSpec
INVARIANTS
  TypeOK
  IdsNeverShared
  LiveRoutesKept
  NothingOverlooked
  NeverMisrouted
  UnregisteredStaysSilent
PROPERTIES
  WalkTerminates
CHECK_DEADLOCK FALSE
