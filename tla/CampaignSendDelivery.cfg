\* A table with the column the worker writes; no faults, one refusal of the rate limiter
\* for two attempts, two slots with a job each (the race of callers is CampaignSend.cfg).
SPECIFICATION FairSpec
CONSTANTS
  Contacts = {c1, c2}
  Enqueuers = {e1}
  Workers = {w1, w2}
  BatchSize = 1
  InsertBatch = 2
  MaxAttempts = 2
  MaxStalls = 1
  MaxFaults = 0
  MaxDenials = 1
  InitBalance = 3
  MessageColumns <- ExpectedColumns
  CanReopen = FALSE
INVARIANTS
  TypeOK
  NoDoubleSend
PROPERTIES
  OutcomeIsFinal
  EveryMessageSettles
CHECK_DEADLOCK FALSE
