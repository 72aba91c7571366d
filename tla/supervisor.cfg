SPECIFICATION FairSpec
CONSTANTS
  Routes = {r1}
  SocksRoutes = {r1}
  Users = {u1}
  MaxRuns = 3
  MaxFaults = 2
  NoFile = NoFile
  Leftover = Leftover
  None = None
  r1 = r1
  u1 = u1
CHECK_DEADLOCK FALSE
INVARIANTS
  TypeOK
  OneLiveRun
  StopReapsLatest
PROPERTIES
  ImplementsTunnel
  TunnelKept
  StopCompletes
  CancelledRunsEnd
