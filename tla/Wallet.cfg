\* Three overlapping calls of any type; 0 is an invalid amount, and 2 against 1
\* makes a debit that a concurrent credit would have covered.
SPECIFICATION Spec
CONSTANTS
  Txns = {t1, t2, t3}
  Amounts = {0, 1, 2}
INVARIANTS
  TypeOK
  NeverOverdrawn
  LedgerExplainsBalance
  OneRowPerCommit
PROPERTIES
  ImplementsStaleLedger
  FreshCommitIsAtomic
\* Every call ends and the system stops.
CHECK_DEADLOCK FALSE
