SPECIFICATION FairSpec
CHECK_DEADLOCK FALSE
CONSTANTS
  r1 = r1
  g1 = g1
  p1 = p1
  w1 = w1
  w2 = w2
  Residents <- OneResident
  Staff <- OneGuard
  Emergency = TRUE
  Publishers <- OneRequest
  Workers <- TwoWorkers
  Letters <- Rows
  MaxRetries = 1
  MaxAttempts = 2
  MaxFaults = 2
INVARIANTS NobodyForgotten ToldAsMeant
PROPERTY EverybodySettled
