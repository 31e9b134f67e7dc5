SPECIFICATION Spec
CONSTANTS
  MaxTurns = 2
  MaxFaults = 1
  MaxClears = 1
  Faults = {"conn", "timeout", "host", "relay", "crash", "refuse", "invalid", "background"}
INVARIANTS StoppedIsNotDelivered
CHECK_DEADLOCK FALSE
