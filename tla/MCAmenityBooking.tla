--------------------------- MODULE MCAmenityBooking ---------------------------
(* Instances of AmenityBooking for TLC.                                      *)
EXTENDS AmenityBooking, TLC

CONSTANTS early, late,      \* slots that overlap
          anna, bert        \* residents of a unit each

BothSlots == {early, late}
Neighbours == {anna, bert}
OwnUnit == [r \in Neighbours |-> r]
OneResident == {anna}
HerUnit == [r \in OneResident |-> r]
Overlapping == [s \in BothSlots |-> BothSlots]
\* one slot takes the amenity's capacity, the other has its own
OneOwnCapacity == (early :> 0) @@ (late :> 2)

OneSlot == {early}
Alone == [s \in OneSlot |-> OneSlot]
Shared == [s \in OneSlot |-> 0]

\* Both slots on offer and ahead, nothing blocked: leaves the seats, the amenity's
\* capacity and its deletion to vary (the other runs vary the rest).
OnlySeats ==
  /\ active /\ blocked = {}
  /\ exists => \A s \in Slots : slot[s] = "active"
  /\ \A s \in Slots : phase[s] = "ahead"

Symmetry == Permutations(Bookings) \cup Permutations(Workers) \cup Permutations(Neighbours)
=============================================================================
