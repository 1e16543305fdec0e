SPECIFICATION FairSpec
CONSTANTS
  Visitors = {v1}
  Requests = {r1}
  Passes = {p1}
  Entries = {e1, e2}
  Approvers = {a1}
  Workers = {w1, w2}
  Suspects = {v1}
  MaxUses = 1
  None = None
  Policies <- Standard
  v1 = v1
  r1 = r1
  p1 = p1
  e1 = e1
  e2 = e2
  a1 = a1
  w1 = w1
  w2 = w2
INVARIANT AdmissionWasApproved
INVARIANT PassWithinLimit
PROPERTY SettledIsFinal
PROPERTY OverdueIsSettled
