SPECIFICATION FairSpec
CONSTANTS
  Principal = p
  Workers = {a, b}
  MaxMessages = 2
  MaxReports = 1
  Urgency = {TRUE, FALSE}
  MaxAsked = 1
  Asked = {"stop"}
  MaxFaults = 1
  MaxBoth = 1
PROPERTIES QueuesMove DueIsTold
CHECK_DEADLOCK FALSE
