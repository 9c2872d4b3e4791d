\* One request at a time and no fault at all.
SPECIFICATION Spec
CONSTANTS
  Clients = {c1}
  Horizon = 3
  MaxRequests = 1
  MaxFaults = 0
PROPERTY ScheduleReplacesTimer
CHECK_DEADLOCK FALSE
