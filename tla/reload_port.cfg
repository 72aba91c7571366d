SPECIFICATION Spec
CONSTANTS
  MaxEdits = 1
  Edits = {}
CHECK_DEADLOCK FALSE
INVARIANTS
  NoBindRace
