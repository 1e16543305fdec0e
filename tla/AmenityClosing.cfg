SPECIFICATION FairSpec
CHECK_DEADLOCK FALSE
CONSTANTS
  early = early
  late = late
  anna = anna
  bert = bert
  NoWorker = NoWorker
  Slots <- OneSlot
  Residents <- OneResident
  UnitOf <- HerUnit
  Clash <- Alone
  SlotCapacity <- Shared
  Bookings = {b1, b2}
  Workers = {w1, w2}
  Capacities = {1, 2}
  Limits = {1, 2}
  MaxParty = 1
PROPERTIES SettledIsFinal PastIsClosed
