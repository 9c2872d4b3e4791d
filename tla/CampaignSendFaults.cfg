\* A table with the column the worker writes: two slots share one job of two messages, and
\* one fault of any kind strikes anywhere, a lost lock among them.
SPECIFICATION Spec
CONSTANTS
  Contacts = {c1, c2}
  Enqueuers = {e1}
  Workers = {w1, w2}
  BatchSize = 2
  InsertBatch = 1
  MaxAttempts = 2
  MaxStalls = 1
  MaxFaults = 1
  MaxDenials = 1
  InitBalance = 3
  MessageColumns <- ExpectedColumns
  CanReopen = TRUE
SYMMETRY Symmetry
INVARIANTS
  SentHasReceipt
  
CHECK_DEADLOCK FALSE
