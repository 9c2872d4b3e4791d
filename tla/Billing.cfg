\* A top-up and a package, two webhook requests and one fault; a subscription that renews twice.
CONSTANTS
  Topups = {t1}
  Packages = {p1}
  Mispriced = {}
  Units = 2
  Handlers = {h1, h2}
  Overlap = FALSE
  PurchaseColumns <- ExpectedColumns
  RequiredColumns <- ExpectedRequired
  MaxCopies = 0
  MaxSpends = 0
  MaxFaults = 1
SPECIFICATION BillingSpec
PROPERTIES SettlesOnce PaymentIsCredited CancellationArrives
CHECK_DEADLOCK FALSE
