\* The schema as it is, and no fault at all.
SPECIFICATION Spec
CONSTANTS
  Contacts = {c1}
  Enqueuers = {e1}
  Workers = {w1}
  BatchSize = 1
  InsertBatch = 1
  MaxAttempts = 2
  MaxStalls = 1
  MaxFaults = 0
  MaxDenials = 0
  InitBalance = 3
  MessageColumns <- SchemaColumns
  CanReopen = FALSE
INVARIANT NoDoubleSend
CHECK_DEADLOCK FALSE
