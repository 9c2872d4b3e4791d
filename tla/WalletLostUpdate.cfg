\* Two overlapping calls are enough to lose one.
SPECIFICATION Spec
CONSTANTS
  Txns = {t1, t2}
  Amounts = {1, 2}
INVARIANT NoLostUpdate
CHECK_DEADLOCK FALSE
