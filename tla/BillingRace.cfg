SPECIFICATION Spec
CHECK_DEADLOCK FALSE
CONSTANTS
  NoUnit = NoUnit
  NoWorker = NoWorker
  Units = {u1}
  Invoices = {i1, i2}
  Payments = {p1}
  Workers = {w1, w2}
  Totals = {2}
  Fees = {0, 1}
  Parts = {1, 2}
SYMMETRY Symmetry
INVARIANT LedgerChain
