SPECIFICATION FairSpec
CONSTANTS
  Routes = {r1, r2}
  Categories = {auth}
  ErrorsCap = 1
  ErrChCap = 1
  Cooldown = 2
  MaxFaults = 1
  Recv = Recv
  Ended = Ended
  r1 = r1
  r2 = r2
  auth = auth
CHECK_DEADLOCK FALSE
INVARIANTS
  CooldownKept
PROPERTIES
  PersistentFailureShown
  ForwardersEnd
