\* One request at a time beside the scheduler worker, with times to reschedule to before
\* and after the first, and one fault.
SPECIFICATION FairSpec
CONSTANTS
  Clients = {c1}
  Horizon = 3
  MaxRequests = 2
  MaxFaults = 1
INVARIANT TypeOK
PROPERTIES
  EditReplacesTimer
  TimerFires
  FailedTimerStays
\* Time ends.
CHECK_DEADLOCK FALSE
