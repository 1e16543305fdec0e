SPECIFICATION Spec
CHECK_DEADLOCK FALSE
CONSTANTS
  a = a
  b = b
  Tabs <- TwoPages
  Planned = 2
  PerFloor = 2
  MaxFloor = 4
  FloorPage = 1
  UnitPage = 1
  MaxEvents = 2
INVARIANTS TotalCoversFloors WizardCounts
PROPERTY GeneratedMeansThere
