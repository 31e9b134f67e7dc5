SPECIFICATION FairSpec
CONSTANTS
  Principal = p
  Workers = {a, b}
  MaxMessages = 2
  MaxReports = 1
  Urgency = {TRUE, FALSE}
  MaxAsked = 1
  Asked = {"stop"}
  MaxFaults = 0
  MaxBoth = 2
PROPERTIES RoundIsTold
CHECK_DEADLOCK FALSE
