SPECIFICATION Spec
CHECK_DEADLOCK FALSE
CONSTANTS
  early = early
  late = late
  anna = anna
  bert = bert
  NoWorker = NoWorker
  Slots <- BothSlots
  Residents <- Neighbours
  UnitOf <- OwnUnit
  Clash <- Overlapping
  SlotCapacity <- OneOwnCapacity
  Bookings = {b1, b2}
  Workers = {w1, w2}
  Capacities = {1, 2}
  Limits = {1}
  MaxParty = 2
SYMMETRY Symmetry
CONSTRAINT OnlySeats
INVARIANTS NoDuplicateBooking NeverOverfull NothingOutlivesAmenity
PROPERTIES BookingIsAtomic
