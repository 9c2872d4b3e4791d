\* Two batches of a tenant, each tried again once, and one failing command; and the rest.
CONSTANTS
  b1 = b1
  b2 = b2
  t1 = t1
  Batches = {b1, b2}
  Tenants = {t1}
  TenantOf <- Pair
  Account = account
  AccountMax = 1
  TenantMax = 1
  Window = 2
  Ttl = 3
  Attempts = 2
  MaxLag = 1
  MaxTime = 3
  MaxFaults = 1
  Topups = {"top-up"}
  Packages = {"package"}
  Mispriced = {"top-up"}
  Units = 2
  Handlers = {b1, b2}
  PurchaseColumns <- Columns
  RequiredColumns <- Required
  MaxCopies = 1
  MaxSpends = 1
  PaymentFaults = 0
  Subs = {"s1"}
  Plans = {"starter", "pro"}
  Worker = "w1"
  SubscriptionFaults = 1
  SomePlans = {"starter"}
  Workers = {b1, b2}
  MaxCycles = 1
  MaxVerifies = 1
  Renewals = 2
  PlanChanges = 1
  N = 2
  Limit = 2
  Refreshers = {"r1"}
  BodySize = 2
  Outcomes = {"Delivered", "Failure", "Expired"}
  HasUpdatedAt = TRUE
  Writers = 1
  Lost = 0
  Stores = {"o1"}
  Customers = {"c1", "c2"}
  StoreOf <- OneStore
  Present = {"c1"}
  Born = {"c1", "c2"}
  Runs = {"run"}
  Editors = {b1, b2}
  Credits = 2
  MaxEdits = 2
  SendFaults = 1
  FewEditors = {"q1"}
  FewCredits = 1
  MaxActive = 2
  FewEdits = 1
  MoreFaults = 2
  Owners = {"o1", "o2"}
  Phones = {"p1"}
  Forms = {b1, b2}
  Jobs = {"j1"}
  Files <- OneLine
  StopForms = {"plus", "zeros", "national"}
  MaxRows = 2
  ImportFaults = 0
SPECIFICATION OverlapSpec
SYMMETRY Alike
CHECK_DEADLOCK FALSE
INVARIANTS WindowHolds RankWasEarned  RowAgrees  SpentWasSent 
