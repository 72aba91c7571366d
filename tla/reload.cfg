SPECIFICATION FairSpec
CONSTANTS
  MaxEdits = 3
  Edits = {"early", "old", "missing"}
CHECK_DEADLOCK FALSE
INVARIANTS
  TypeOK
  OneRunOnce
  FatalStartsOnly
  NoLostEdit
PROPERTIES
  EditApplied
  RunReturns
