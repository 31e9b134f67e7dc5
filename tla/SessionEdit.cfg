SPECIFICATION Spec
CONSTANTS
  Calls = {ls, rm}
  Broad = {ls}
  MaxInputs = 6
  MaxQueue = 2
  MaxTurns = 3
  MaxCrashes = 1
INVARIANT QueueNeverRejects
CHECK_DEADLOCK FALSE
