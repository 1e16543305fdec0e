SPECIFICATION Spec
CHECK_DEADLOCK FALSE
CONSTANTS
  NoUnit = NoUnit
  NoWorker = NoWorker
  Units = {u1}
  Invoices = {i1, i2}
  Payments = {p1, p2}
  Workers = {w1}
  Totals <- BelowAndAbove
  Fees = {0, 1}
  Parts = {2}
CONSTRAINT Bounded
SYMMETRY Symmetry
INVARIANTS LedgerChain PaidIsAllocated LedgerIsDues StatusFitsAmounts BilledOnce
PROPERTIES SettledIsFinal
