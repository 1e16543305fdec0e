SPECIFICATION FairSpec
CHECK_DEADLOCK FALSE
CONSTANTS
  w1 = w1
  w2 = w2
  Workers <- TwoWorkers
  Rows <- ThreeRows
  NoRow = 0
  ResponseDue = 0
  RiskDue = 1
  ResolutionDue = 2
  EscalationDue = 3
  LastHour = 3
  MaxActive = 2
INVARIANTS LateIsBreached CheckRefusesOverlapOnly
PROPERTIES LifecycleKept EscalationRises SecondExecutorIsRace OverdueIsEscalated
