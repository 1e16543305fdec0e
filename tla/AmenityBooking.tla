--------------------------- MODULE AmenityBooking ---------------------------
(* Amenity bookings (app/modules/amenities) as database transactions at READ *)
(* COMMITTED.  book reads the amenity and the slot, takes the amenity's row  *)
(* lock, runs its checks under the lock and inserts; a trigger re-checks the *)
(* capacity on the INSERT.  Cancellation, marking, the closing sweep and the *)
(* administration take no lock.  A refused call writes nothing.  A definition *)
(* marked `faulty` is a plausible slip in the next one; Next never uses it.   *)
EXTENDS BookingTable

CONSTANTS
  Workers,   \* transactions that may be open at once
  NoWorker   \* the amenity row is not locked

ASSUME NoWorkerAssumption == NoWorker \notin Workers

VARIABLES
  exists,    \* the amenities row has not been deleted
  active,    \* amenities.is_active
  slot,      \* amenity_slots: no row yet, active or disabled
  blocked,   \* slots an amenity_blocks row overlaps
  limit,     \* the rule max_active_per_unit
  phase,     \* the clock: a slot lies ahead, has started, or is over
  holder,    \* the transaction that holds the amenity's row lock
  txn        \* what each worker's open transaction has read

vars == <<booking, capacity, exists, active, slot, blocked, limit, phase, holder, txn>>
admin == <<capacity, exists, active, slot, blocked, limit>>

Idle == [op |-> "idle"]
Txn ==
  {Idle}
  \cup [op : {"waiting", "locked", "checked"}, slot : Slots, resident : Residents,
        count : 1..MaxParty, cap : Nat]
  \cup [op : {"end"}, booking : Bookings, how : Final]
  \cup [op : {"sweep"}, past : SUBSET Bookings]
  \cup [op : {"delete"}]

Begin(w, t) == txn[w] = Idle /\ txn' = [txn EXCEPT ![w] = t]
Holds(w, op) == txn[w].op = op
Stage(w, op) == txn' = [txn EXCEPT ![w].op = op]

\* commit or rollback releases the row lock
Finish(w) ==
  /\ txn' = [txn EXCEPT ![w] = Idle]
  /\ holder' = IF holder = w THEN NoWorker ELSE holder

-----------------------------------------------------------------------------
(* book                                                                      *)

\* The checks before the lock.  The advance and duration rules only narrow
\* which slots that lie ahead may be asked for.
BeginBook(w) ==
  \E s \in Slots, r \in Residents, n \in 1..MaxParty :
    /\ exists /\ active /\ slot[s] = "active"
    /\ phase[s] = "ahead"
    /\ Begin(w, [op |-> "waiting", slot |-> s, resident |-> r, count |-> n,
                 cap |-> Capacity(s, capacity)])
    /\ UNCHANGED <<booking, admin, phase, holder>>

\* SELECT ... FOR UPDATE waits for the row.  Of a deleted amenity it returns
\* nothing, which the caller does not look at.
LockAnyway(w) ==   \* faulty
  /\ Holds(w, "waiting")
  /\ holder' = IF exists THEN w ELSE holder
  /\ Stage(w, "locked")
  /\ UNCHANGED <<booking, admin, phase>>
LockAmenity(w) ==
  /\ Holds(w, "waiting")
  /\ exists => holder = NoWorker
  /\ holder' = IF exists THEN w ELSE holder
  /\ Stage(w, "locked")
  /\ UNCHANGED <<booking, admin, phase>>

\* the checks under the lock, against the capacity read before it
UsedInSlot(s) == Load({s})   \* faulty
Used(s) == Load(Clash[s])

UnitFree(r) == Cardinality(OfUnit(UnitOf[r])) < limit

Permitted(t) ==
  /\ UnitFree(t.resident)
  /\ t.slot \notin blocked
  /\ Used(t.slot) + t.count <= t.cap
  /\ ~Duplicate(t.slot, t.resident)

CheckBooking(w) ==
  /\ Holds(w, "locked")
  /\ IF Permitted(txn[w]) THEN Stage(w, "checked") /\ UNCHANGED holder
                          ELSE Finish(w)
  /\ UNCHANGED <<booking, admin, phase>>

\* gs_amenity_booking_capacity_guard: the amenity must be there, and the
\* capacity is read and the overlaps summed again
NoGuard(t) == TRUE   \* faulty
CapacityGuard(t) ==
  /\ exists
  /\ Used(t.slot) + t.count <= Capacity(t.slot, capacity)

CommitBook(w) ==
  /\ Holds(w, "checked")
  /\ CapacityGuard(txn[w])
  /\ \E b \in Bookings :
       /\ ~Exists(b)
       /\ booking' = [booking EXCEPT ![b] =
            [status |-> "confirmed", slot |-> txn[w].slot,
             resident |-> txn[w].resident, count |-> txn[w].count]]
  /\ Finish(w)
  /\ UNCHANGED <<admin, phase>>

\* the trigger raises; the IntegrityError is answered 409
RefuseBook(w) ==
  /\ Holds(w, "checked")
  /\ ~CapacityGuard(txn[w])
  /\ Finish(w)
  /\ UNCHANGED <<booking, admin, phase>>

-----------------------------------------------------------------------------
(* cancel_booking, mark_booking and the closing sweep, without a lock        *)

\* Staff may cancel at any time, so min_cancel_hours bars only some callers.
MayEndUnlessCancelled(b) == Exists(b) /\ booking[b].status # "cancelled"   \* faulty
MayEnd(b) == b \in Confirmed

EndStatus == Final

BeginEnd(w) ==
  \E b \in Bookings, how \in EndStatus :
    /\ MayEnd(b)
    /\ Begin(w, [op |-> "end", booking |-> b, how |-> how])
    /\ UNCHANGED <<booking, admin, phase, holder>>

SetStatus(bs, how) ==
  booking' = [b \in Bookings |->
    IF b \in bs THEN [booking[b] EXCEPT !.status = how] ELSE booking[b]]

\* an UPDATE of a row deleted meanwhile matches nothing and raises
CommitEnd(w) ==
  /\ Holds(w, "end")
  /\ IF Exists(txn[w].booking) THEN SetStatus({txn[w].booking}, txn[w].how)
                               ELSE UNCHANGED booking
  /\ Finish(w)
  /\ UNCHANGED <<admin, phase>>

PastStarted == {b \in Confirmed : phase[booking[b].slot] = "started"}   \* faulty
Past == {b \in Confirmed : phase[booking[b].slot] = "over"}

BeginSweep(w) ==
  /\ Past # {}
  /\ Begin(w, [op |-> "sweep", past |-> Past])
  /\ UNCHANGED <<booking, admin, phase, holder>>

CommitSweep(w) ==
  /\ Holds(w, "sweep")
  /\ IF \A b \in txn[w].past : Exists(b) THEN SetStatus(txn[w].past, "completed")
                                         ELSE UNCHANGED booking
  /\ Finish(w)
  /\ UNCHANGED <<admin, phase>>

-----------------------------------------------------------------------------
(* Administration                                                            *)

NothingBooked == Confirmed = {}

BeginDelete(w) ==
  /\ exists /\ NothingBooked
  /\ Begin(w, [op |-> "delete"])
  /\ UNCHANGED <<booking, admin, phase, holder>>

\* DELETE waits for the row lock; slots, rules, blocks and bookings cascade
CommitDelete(w) ==
  /\ Holds(w, "delete")
  /\ holder = NoWorker
  /\ exists' = FALSE
  /\ booking' = [b \in Bookings |-> Absent]
  /\ slot' = [s \in Slots |-> "absent"] /\ blocked' = {}
  /\ Finish(w)
  /\ UNCHANGED <<capacity, active, limit, phase>>

\* an UPDATE of the amenity waits for its row lock
UpdateAmenity ==
  /\ exists /\ holder = NoWorker
  /\ capacity' \in Capacities /\ active' \in BOOLEAN
  /\ UNCHANGED <<booking, exists, slot, blocked, limit, phase, holder, txn>>

CreateSlot(s) ==
  /\ exists /\ slot[s] = "absent"
  /\ slot' = [slot EXCEPT ![s] = "active"]
  /\ UNCHANGED <<booking, capacity, exists, active, blocked, limit, phase, holder, txn>>

\* delete_slot disables the row; its bookings stay
DeleteSlot(s) ==
  /\ slot[s] = "active"
  /\ slot' = [slot EXCEPT ![s] = "disabled"]
  /\ UNCHANGED <<booking, capacity, exists, active, blocked, limit, phase, holder, txn>>

UpsertRule ==
  /\ exists
  /\ limit' \in Limits
  /\ UNCHANGED <<booking, capacity, exists, active, slot, blocked, phase, holder, txn>>

\* create_block and delete_block; bookings inside the window are left as they are
CreateBlock(s) ==
  /\ exists /\ s \notin blocked
  /\ blocked' = blocked \cup {s}
  /\ UNCHANGED <<booking, capacity, exists, active, slot, limit, phase, holder, txn>>

DeleteBlock(s) ==
  /\ s \in blocked
  /\ blocked' = blocked \ {s}
  /\ UNCHANGED <<booking, capacity, exists, active, slot, limit, phase, holder, txn>>

-----------------------------------------------------------------------------
(* Failure and the clock                                                     *)

\* a lost connection or worker rolls the open transaction back
Crash(w) ==
  /\ txn[w] # Idle
  /\ Finish(w)
  /\ UNCHANGED <<booking, admin, phase>>

TimePasses(s) ==
  /\ phase[s] # "over"
  /\ phase' = [phase EXCEPT ![s] = IF @ = "ahead" THEN "started" ELSE "over"]
  /\ UNCHANGED <<booking, admin, holder, txn>>

-----------------------------------------------------------------------------

Init ==
  /\ booking = [b \in Bookings |-> Absent]
  /\ exists = TRUE /\ active = TRUE
  /\ capacity \in Capacities /\ limit \in Limits
  /\ slot \in [Slots -> {"absent", "active"}] /\ blocked = {}
  /\ phase = [s \in Slots |-> "ahead"]
  /\ holder = NoWorker
  /\ txn = [w \in Workers |-> Idle]

Start(w) == BeginBook(w) \/ BeginEnd(w) \/ BeginSweep(w) \/ BeginDelete(w)

Proceed(w) ==
  \/ LockAmenity(w) \/ CheckBooking(w) \/ CommitBook(w) \/ RefuseBook(w)
  \/ CommitEnd(w) \/ CommitSweep(w) \/ CommitDelete(w) \/ Crash(w)

Outside ==
  \/ UpdateAmenity \/ UpsertRule
  \/ \E s \in Slots :
       CreateSlot(s) \/ DeleteSlot(s) \/ CreateBlock(s) \/ DeleteBlock(s) \/ TimePasses(s)

Next == (\E w \in Workers : Start(w) \/ Proceed(w)) \/ Outside

Spec == Init /\ [][Next]_vars

-----------------------------------------------------------------------------
(* What must hold however the transactions overlap                           *)

\* Every row and every open transaction has the columns the schema gives it.
TypeOK ==
  /\ booking \in [Bookings -> BookingRow \cup {Absent}]
  /\ exists \in BOOLEAN /\ active \in BOOLEAN
  /\ capacity \in Capacities /\ limit \in Limits
  /\ slot \in [Slots -> {"absent", "active", "disabled"}]
  /\ blocked \subseteq Slots
  /\ phase \in [Slots -> {"ahead", "started", "over"}]
  /\ holder \in Workers \cup {NoWorker}
  /\ txn \in [Workers -> Txn]

\* The amenity row is locked by exactly the transaction that is past its lock
\* statement, so that two bookings of one amenity never check at the same time
\* (book's atomic conflict check); a deleted amenity locks nobody.
LockDiscipline ==
  /\ holder # NoWorker => exists /\ txn[holder].op \in {"locked", "checked"}
  /\ \A w \in Workers : exists /\ txn[w].op \in {"locked", "checked"} => holder = w

\* A booking of several steps takes effect as one atomic step that respects the
\* capacity of that moment, the unit's limit and the resident's other bookings.
Atomic == INSTANCE AtomicBooking
BookingIsAtomic == Atomic!Spec

\* whether the open transaction t is about to write b's status
Overwrites(t, b) ==
  \/ t.op = "end" /\ t.booking = b
  \/ t.op = "sweep" /\ b \in t.past

Settled(b) ==
  /\ booking[b].status \in Final
  /\ \A w \in Workers : ~Overwrites(txn[w], b)

\* Once a booking has ended and the transactions that read it as confirmed have
\* ended too, it stays as it is until the amenity is deleted: no cancellation,
\* marking or sweep started later touches it (the `confirmed` filters).
SettledIsFinal ==
  [][\A b \in Bookings :
       Settled(b) /\ booking'[b] # Absent
         => Settled(b)' /\ booking'[b] = booking[b]]_vars

\* No booking outlives its amenity or is made in a deleted one, although one that
\* waits for the lock is let on by the deletion of the row it waits for
\* (lock_amenity's result is not looked at; the foreign keys and the trigger are).
NothingOutlivesAmenity == ~exists => \A b \in Bookings : ~Exists(b)

-----------------------------------------------------------------------------
(* Liveness                                                                  *)

\* Transactions end, and the beat schedule keeps starting the sweep until one
\* run commits.
Fairness ==
  /\ \A w \in Workers : WF_vars(Proceed(w))
  /\ SF_vars(\E w \in Workers : BeginSweep(w))
  /\ SF_vars(\E w \in Workers : CommitSweep(w))

FairSpec == Spec /\ Fairness

\* A confirmed booking whose slot is over is closed eventually, even when sweeps
\* are lost or bookings are committed after their slot ended.
PastIsClosed ==
  \A b \in Bookings :
    (booking[b].status = "confirmed" /\ phase[booking[b].slot] = "over")
      ~> booking[b].status # "confirmed"
=============================================================================
