SPECIFICATION Spec
CONSTANTS
  Visitors = {v1, v2}
  Requests = {r1}
  Passes = {}
  Entries = {e1, e2}
  Approvers = {a1}
  Workers = {w1}
  Suspects = {}
  MaxUses = 1
  None = None
  Policies <- Standard
  v1 = v1
  v2 = v2
  r1 = r1
  e1 = e1
  e2 = e2
  a1 = a1
  w1 = w1
INVARIANT PartyMemberIsAdmitted
