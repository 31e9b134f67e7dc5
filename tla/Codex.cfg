SPECIFICATION FairSpec
CONSTANTS
  a = a
  b = b
  Agents = {a, b}
  MaxMessages = 2
  MaxExtras = 2
  MaxQueue = 2
  Existing = {b}
  Faults = {"crash", "initialize", "refuse", "idle", "log", "host"}
INVARIANTS TypeOK WorkingMeansWork AnsweredNotDropped
PROPERTIES TurnsAreDue StopEndsTurn
CHECK_DEADLOCK FALSE
