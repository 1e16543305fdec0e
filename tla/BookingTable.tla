---------------------------- MODULE BookingTable ----------------------------
(* The amenity_bookings table of one amenity and what must hold of it: the   *)
(* vocabulary of AtomicBooking (the promise) and AmenityBooking (the code).  *)
(* A slot here is a weekly amenity_slots row on one date.                    *)
EXTENDS Naturals, FiniteSets, Functions

CONSTANTS
  Bookings,      \* ids of amenity_bookings rows
  Slots,         \* bookable windows of the amenity
  Residents,     \* users who book
  UnitOf,        \* the unit a resident's active occupancy names
  Clash,         \* for each slot the slots whose time range overlaps its own
  SlotCapacity,  \* amenity_slots.capacity; 0 where it is not set
  Capacities,    \* values an administrator may give amenities.capacity
  Limits,        \* values of max_active_per_unit; one out of reach is no rule
  MaxParty       \* bound on participant_count

ASSUME BookingsAssumption == IsFiniteSet(Bookings)
ASSUME ClashAssumption ==
  /\ Clash \in [Slots -> SUBSET Slots]
  /\ \A s \in Slots : s \in Clash[s]
  /\ \A s, t \in Slots : s \in Clash[t] => t \in Clash[s]
ASSUME CapacityAssumption ==
  /\ SlotCapacity \in [Slots -> Nat]
  /\ Capacities \subseteq Nat
ASSUME LimitAssumption == Limits \subseteq Nat
ASSUME MaxPartyAssumption == MaxParty \in Nat

VARIABLES
  booking,   \* amenity_bookings
  capacity   \* amenities.capacity

Final == {"cancelled", "completed", "no_show"}
Absent == [status |-> "absent"]
BookingRow == [status : {"confirmed"} \cup Final, slot : Slots,
               resident : Residents, count : 1..MaxParty]

Exists(b) == booking[b].status # "absent"
Confirmed == {b \in Bookings : booking[b].status = "confirmed"}

\* participants of the confirmed bookings that overlap a set of slots
Load(slots) ==
  SumFunction([b \in {b \in Confirmed : booking[b].slot \in slots} |-> booking[b].count])

\* active_count_for_unit
OfUnit(u) == {b \in Confirmed : UnitOf[booking[b].resident] = u}

\* the check for an identical booking by the same user
Duplicate(s, r) ==
  \E b \in Confirmed : booking[b].slot = s /\ booking[b].resident = r

\* slot.capacity or amenity.capacity
Capacity(s, shared) == IF SlotCapacity[s] # 0 THEN SlotCapacity[s] ELSE shared

-----------------------------------------------------------------------------
(* What must hold of the table however bookings race                         *)

\* Two simultaneous bookings of one resident never both get the same slot
\* (the duplicate check of book, which no unique index backs).
NoDuplicateBooking ==
  \A a, b \in Confirmed :
    /\ booking[a].slot = booking[b].slot
    /\ booking[a].resident = booking[b].resident
    => a = b

\* A unit never holds more confirmed bookings than some value of the rule
\* max_active_per_unit allowed, however its residents' calls interleave (book).
UnitWithinLimit ==
  \A r \in Residents :
    \E l \in Limits \cup {0} : Cardinality(OfUnit(UnitOf[r])) <= l

\* At no instant is the amenity fuller than its roomiest slot allows: any slots
\* that overlap one another hold together at most the largest of their
\* capacities, under the largest amenity capacity there ever was (book and the
\* capacity trigger, which only look at the new booking's own overlaps).
NeverOverfull ==
  \A together \in (SUBSET Slots) \ {{}} :
    (\A s, t \in together : s \in Clash[t]) =>
      \E s \in together, c \in Capacities : Load(together) <= Capacity(s, c)
=============================================================================
