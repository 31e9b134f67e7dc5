SPECIFICATION Spec
CONSTANTS
  Calls = {ls, rm}
  Broad = {ls}
  MaxInputs = 6
  MaxQueue = 2
  MaxTurns = 3
  MaxCrashes = 1
INVARIANTS TypeOK NoCallForgotten WaitingIsShown DiskTellsAll ShownIsRemembered
CHECK_DEADLOCK FALSE
