\* The schema as it is: CampaignMessage has no column updatedAt.  Two callers race for the
\* campaign, and one fault of any kind strikes anywhere.
SPECIFICATION Spec
CONSTANTS
  Contacts = {c1, c2}
  Enqueuers = {e1, e2}
  Workers = {w1}
  BatchSize = 1
  InsertBatch = 2
  MaxAttempts = 2
  MaxStalls = 1
  MaxFaults = 1
  MaxDenials = 1
  InitBalance = 3
  MessageColumns <- SchemaColumns
  CanReopen = FALSE
SYMMETRY Symmetry
INVARIANTS
  DebitsBacked
  CreditsConserved
  OneMessagePerContact
  BoundedResends
\* The calls and the jobs come to an end.
CHECK_DEADLOCK FALSE
