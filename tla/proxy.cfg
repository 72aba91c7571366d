SPECIFICATION FairSpec
CONSTANTS
  Clients = {a, b}
  SocksClients = {a}
  a = a
  b = b
CHECK_DEADLOCK FALSE
INVARIANTS
  TypeOK
  NoRelayAfterShutdown
  ShutdownWaits
  NoLeak
PROPERTIES
  HandlersProgress
  ShutdownEndsHandlers
