SPECIFICATION Spec
CONSTANTS
  Visitors = {v1, v2}
  Requests = {r1, r2}
  Passes = {p1}
  Entries = {e1, e2}
  Approvers = {a1, a2}
  Workers = {w1}
  Suspects = {}
  MaxUses = 1
  None = None
  Policies <- StrictOrLax
  v1 = v1
  v2 = v2
  r1 = r1
  r2 = r2
  p1 = p1
  e1 = e1
  e2 = e2
  a1 = a1
  a2 = a2
  w1 = w1
CONSTRAINT FewDecisions
SYMMETRY Symmetry
INVARIANT InsideOncePerWorker
INVARIANT EnteredIffInside
INVARIANT DecisionsAgree
INVARIANT UseCountIsEntries
