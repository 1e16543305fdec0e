---------------------------- MODULE AtomicBooking ----------------------------
(* What the amenity lock promises (app/modules/amenities): booking is one    *)
(* atomic step that looks at the whole table, and bookings only ever end.    *)
(* AmenityBooking, where a booking takes several steps of a transaction and  *)
(* other transactions run in between, implements this specification.         *)
EXTENDS BookingTable

Init ==
  /\ booking = [b \in Bookings |-> Absent]
  /\ capacity \in Capacities

Book(b) ==
  \E s \in Slots, r \in Residents, n \in 1..MaxParty :
    /\ ~Exists(b)
    /\ ~Duplicate(s, r)
    /\ \E l \in Limits : Cardinality(OfUnit(UnitOf[r])) < l
    /\ Load(Clash[s]) + n <= Capacity(s, capacity)
    /\ booking' = [booking EXCEPT ![b] =
         [status |-> "confirmed", slot |-> s, resident |-> r, count |-> n]]
    /\ UNCHANGED capacity

\* cancelled, completed or marked a no-show; the sweep ends several at once
End ==
  \E over \in SUBSET {b \in Bookings : Exists(b)}, how \in Final :
    /\ booking' = [b \in Bookings |->
         IF b \in over THEN [booking[b] EXCEPT !.status = how] ELSE booking[b]]
    /\ UNCHANGED capacity

\* the amenity is deleted, and its bookings with it
Purge ==
  /\ booking' = [b \in Bookings |-> Absent]
  /\ UNCHANGED capacity

\* bookings made under a larger capacity stand
SetCapacity ==
  /\ capacity' \in Capacities
  /\ UNCHANGED booking

Next == (\E b \in Bookings : Book(b)) \/ End \/ Purge \/ SetCapacity

Spec == Init /\ [][Next]_<<booking, capacity>>
=============================================================================
