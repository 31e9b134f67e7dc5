SPECIFICATION Spec
CONSTANTS
  Ids = {a}
  MaxGen = 2
  MaxAlive = 1
  MaxMessages = 1
  MaxStops = 1
  MaxQueue = 3
  MaxLines = 1
  Faults = {"crash", "host", "fork", "slow", "background", "log"}
  Asked = {"remove", "hibernate", "drain"}
  NoObj = NoObj
  Idle = {}
INVARIANTS TypeOK SavedTellsOfWork RemovedIsOver NoReuseWhileDeleting DrainLeavesNothing SweepAlone
PROPERTY StopWins
CHECK_DEADLOCK FALSE
