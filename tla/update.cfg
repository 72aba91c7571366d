SPECIFICATION Spec
CONSTANTS
  u1 = u1
  u2 = u2
  Updaters = {u1, u2}
  b1 = b1
  b2 = b2
  Builds = {b1, b2}
  Tags <- MCTags
  Options <- MCOptions
CHECK_DEADLOCK FALSE
SYMMETRY Symmetry
INVARIANTS
  TypeOK
  VerifiedExe
  ServiceCurrent
  TempRemoved
PROPERTY NoDowngrade
