SPECIFICATION BackoffSpec
CONSTANTS
  Width = 8
  ShiftCap = 4
  Second = 2
  Bases <- MCBases
  Maxs <- MCMaxs
  MaxAttempt = 7
INVARIANTS
  
  CappedExponential
