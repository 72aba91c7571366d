SPECIFICATION FairSpec
CONSTANTS
  Routes <- MCRoutes
  Keep <- MCKeep
  Profiles <- MCProfiles
  Networks <- FewNetworks
  PollInterval = 3
  Debounce = 2
  MaxEvents = 1
  MaxFaults = 1
CHECK_DEADLOCK FALSE
INVARIANTS
  TypeOK
  Agree
  NoLostWakeup
PROPERTIES
  Converges
  ShutdownCompletes
