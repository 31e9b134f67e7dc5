SPECIFICATION FairSpec
CONSTANTS
  MaxTurns = 2
  MaxFaults = 2
  MaxClears = 1
  Faults = {"conn", "timeout", "host", "relay", "crash", "refuse", "invalid", "background"}
INVARIANTS TypeOK EndsOnOwn StopBeforeSendHolds ClearedIsGone
PROPERTIES TurnsSettle
CHECK_DEADLOCK FALSE
