SPECIFICATION Spec
CONSTANTS
  Principal = p
  Workers = {a, b}
  MaxMessages = 2
  MaxReports = 1
  Urgency = {FALSE}
  MaxAsked = 2
  Asked = {"turn", "stop", "resume", "remove", "restore"}
  MaxFaults = 1
  MaxBoth = 2
INVARIANTS TypeOK NoReportLost ReadersAreLive QueuedUntilTaken
CHECK_DEADLOCK FALSE
SYMMETRY Symmetric
