SPECIFICATION IdleFairSpec
CONSTANTS
  Ids = {a, b, c}
  MaxGen = 1
  MaxAlive = 2
  MaxMessages = 2
  MaxStops = 0
  MaxQueue = 2
  MaxLines = 2
  Faults = {}
  Asked = {"drain"}
  NoObj = NoObj
  Idle = {a, b}
INVARIANTS OneStartPerVictim NoWaitCycle AloneNotDropped
PROPERTIES Answered DrainCloses
CHECK_DEADLOCK FALSE
