------------------------ MODULE AmenityBookingProofs ------------------------
(* The amenity lock makes booking atomic: AmenityBooking implements          *)
(* AtomicBooking, for any number of residents, slots and overlapping         *)
(* transactions.  The argument: the row lock is held from before the checks  *)
(* to the commit, and only its holder adds a confirmed booking, so that what *)
(* the checks found (no duplicate, room under the unit's limit) still holds  *)
(* at the commit.  The seats are kept by the trigger instead: they are a sum *)
(* over the confirmed bookings, which a commit raises by what the trigger    *)
(* found room for.  The handlers without a lock only write rows that were    *)
(* confirmed when they read them.                                            *)
EXTENDS AmenityBooking, Integers, FiniteSetTheorems, WellFoundedInduction, TLAPS

\* What the checks under the lock found out about a booking
Bookable(t) ==
  /\ ~Duplicate(t.slot, t.resident)
  /\ \E l \in Limits : Cardinality(OfUnit(UnitOf[t.resident])) < l

\* It stays true until the commit
CheckedStands ==
  \A w \in Workers : exists /\ txn[w].op = "checked" => Bookable(txn[w])

IInv ==
  /\ TypeOK
  /\ LockDiscipline
  /\ NothingOutlivesAmenity
  /\ CheckedStands
  /\ NoDuplicateBooking
  /\ UnitWithinLimit
  /\ NeverOverfull

BookTxn == [op : {"waiting", "locked", "checked"}, slot : Slots, resident : Residents,
            count : 1..MaxParty, cap : Nat]

-----------------------------------------------------------------------------
(* Sums.  SumFunctionOnSet chooses a function over the subsets of a set; by  *)
(* the well-foundedness of < on the cardinalities that function exists, and  *)
(* a sum obeys the laws one expects.  The laws are the ones the proofs of    *)
(* BillingLedger rest on; each module of proofs stands by itself.            *)

\* A nonempty part of a well-founded set has a minimal element.
LEMMA Minimal ==
  ASSUME NEW R, NEW S, NEW X, IsWellFoundedOn(R, S), X \subseteq S, X # {}
  PROVE  \E n \in X : \A m \in X : ~(<<m, n>> \in R)
  BY WFMin

\* A nonempty set of natural numbers has a least element.
LEMMA LeastNatural ==
  ASSUME NEW X, X \subseteq Nat, X # {}
  PROVE  \E n \in X : \A m \in X : ~(m < n)
<1> DEFINE Less == {p \in Nat \X Nat : p[1] < p[2]}
<1>1. IsWellFoundedOn(Less, Nat)
  BY NatLessThanWellFounded DEF OpToRel
<1>2. PICK n \in X : \A m \in X : ~(<<m, n>> \in Less)
  <2> HIDE DEF Less
  <2> QED BY <1>1, Minimal
<1>3. \A m \in X : <<m, n>> \in Less <=> m < n
  BY SMT
<1> QED BY <1>2, <1>3

\* Induction over the subsets of a finite set, as a fact about sets.
LEMMA SubsetInduction ==
  ASSUME NEW S, IsFiniteSet(S), NEW Good,
         \A T \in SUBSET S : (\A U \in SUBSET T : U # T => U \in Good) => T \in Good
  PROVE  \A T \in SUBSET S : T \in Good
<1> SUFFICES ASSUME NEW T \in SUBSET S, T \notin Good PROVE FALSE
  OBVIOUS
<1> DEFINE Bad == {U \in SUBSET S : U \notin Good}
           Sizes == {n \in Nat : \E U \in Bad : Cardinality(U) = n}
<1>1. \A U \in SUBSET S : IsFiniteSet(U) /\ Cardinality(U) \in Nat
  BY FS_Subset, FS_CardinalityType
<1>2. Sizes # {} /\ Sizes \subseteq Nat
  BY <1>1
<1>4. PICK n \in Sizes : \A m \in Sizes : ~(m < n)
  <2> HIDE DEF Sizes
  <2> QED BY <1>2, LeastNatural
<1>5. PICK U \in Bad : Cardinality(U) = n
  OBVIOUS
<1>6. ASSUME NEW V \in SUBSET U, V # U PROVE V \in Good
  <2>1. Cardinality(V) < Cardinality(U)
    BY <1>1, <1>6, FS_Subset
  <2>2. Cardinality(V) \notin Sizes
    BY <1>4, <1>5, <2>1
  <2> QED BY <1>1, <2>2
<1> QED BY <1>5, <1>6

\* The element a sum takes next.
First(s) == CHOOSE x \in s : TRUE

IsSum(g, f, S) ==
  g = [s \in SUBSET S |-> IF s = {} THEN 0 ELSE f[First(s)] + g[s \ {First(s)}]]

\* The sum over S as the library defines it: the value at S of the one function
\* that adds a chosen element to the sum over the others.
LEMMA SumDef ==
  ASSUME NEW f, NEW S
  PROVE  SumFunctionOnSet(f, S) = (CHOOSE g : IsSum(g, f, S))[S]
  BY DEF SumFunctionOnSet, FoldFunctionOnSet, MapThenFoldSet, IsSum, First

\* Two such functions agree where both are defined.
LEMMA SumsAgree ==
  ASSUME NEW f, NEW S, NEW T, NEW g, NEW h, IsSum(g, f, S), IsSum(h, f, T),
         NEW U \in SUBSET (S \cap T), IsFiniteSet(U)
  PROVE  g[U] = h[U]
<1> DEFINE Good == {V \in SUBSET U : g[V] = h[V]}
<1>1. ASSUME NEW V \in SUBSET U, \A W \in SUBSET V : W # V => W \in Good
      PROVE  V \in Good
  <2>1. CASE V = {}
    BY <2>1 DEF IsSum
  <2>2. CASE V # {}
    <3>1. First(V) \in V
      BY <2>2 DEF First
    <3>2. g[V \ {First(V)}] = h[V \ {First(V)}]
      BY <1>1, <3>1
    <3>3. /\ g[V] = f[First(V)] + g[V \ {First(V)}]
          /\ h[V] = f[First(V)] + h[V \ {First(V)}]
      BY <2>2, <3>1 DEF IsSum
    <3> QED BY <3>2, <3>3
  <2> QED BY <2>1, <2>2
<1>2. U \in Good
  <2> HIDE DEF Good
  <2> QED BY <1>1, SubsetInduction
<1> QED BY <1>2

\* There is one for each finite set.
LEMMA SumExists ==
  ASSUME NEW f, NEW S, IsFiniteSet(S)
  PROVE  \E g : IsSum(g, f, S)
<1> DEFINE Good == {T \in SUBSET S : \E g : IsSum(g, f, T)}
           sum(T) == SumFunctionOnSet(f, T)
<1>1. ASSUME NEW T \in SUBSET S, \A U \in SUBSET T : U # T => U \in Good
      PROVE  T \in Good
  <2> DEFINE h == [s \in SUBSET T |-> IF s = {} THEN 0
                                      ELSE f[First(s)] + sum(s \ {First(s)})]
  <2>1. ASSUME NEW s \in SUBSET T, s # {}
        PROVE  h[s \ {First(s)}] = sum(s \ {First(s)})
    <3> DEFINE u == s \ {First(s)}
               g == CHOOSE g : IsSum(g, f, u)
    <3>1. First(s) \in s
      BY <2>1 DEF First
    <3>2. u \in SUBSET T /\ u # T /\ u \in Good
      BY <1>1, <3>1
    <3>3. IsSum(g, f, u) /\ sum(u) = g[u]
      BY <3>2, SumDef
    <3>4. CASE u = {}
      BY <3>2, <3>3, <3>4 DEF IsSum
    <3>5. CASE u # {}
      <4> DEFINE v == u \ {First(u)}
                 k == CHOOSE k : IsSum(k, f, v)
      <4>1. First(u) \in u
        BY <3>5 DEF First
      <4>2. v \in SUBSET T /\ v # T /\ v \in Good /\ v \in SUBSET (u \cap v)
        BY <1>1, <3>2, <4>1
      <4>3. IsSum(k, f, v) /\ sum(v) = k[v]
        BY <4>2, SumDef
      <4>4. IsFiniteSet(v)
        BY <4>2, FS_Subset
      <4>5. g[v] = k[v]
        <5> HIDE DEF g, k, u, v
        <5> QED BY <3>3, <4>2, <4>3, <4>4, SumsAgree
      <4>6. g[u] = f[First(u)] + g[v]
        BY <3>3, <3>5, <4>1 DEF IsSum
      <4>7. h[u] = f[First(u)] + sum(v)
        BY <3>2, <3>5
      <4> QED BY <3>3, <4>3, <4>5, <4>6, <4>7
    <3> QED BY <3>4, <3>5
  <2>2. IsSum(h, f, T)
    <3> HIDE DEF sum
    <3> QED BY <2>1 DEF IsSum
  <2> QED BY <2>2
<1>2. S \in Good
  <2> HIDE DEF Good
  <2> QED BY <1>1, SubsetInduction
<1> QED BY <1>2

\* A sum is the term of a chosen index plus the sum over the others.
LEMMA SumStep ==
  ASSUME NEW f, NEW S, IsFiniteSet(S)
  PROVE  SumFunctionOnSet(f, S) =
           IF S = {} THEN 0 ELSE f[First(S)] + SumFunctionOnSet(f, S \ {First(S)})
<1> DEFINE g == CHOOSE g : IsSum(g, f, S)
           u == S \ {First(S)}
           h == CHOOSE h : IsSum(h, f, u)
<1>1. IsFiniteSet(u)
  BY FS_Subset
<1>2. IsSum(g, f, S) /\ IsSum(h, f, u)
  BY <1>1, SumExists
<1>3. SumFunctionOnSet(f, S) = g[S] /\ SumFunctionOnSet(f, u) = h[u]
  BY SumDef
<1>4. CASE S = {}
  BY <1>2, <1>3, <1>4 DEF IsSum
<1>5. CASE S # {}
  <2>1. First(S) \in S /\ u \in SUBSET (S \cap u)
    BY <1>5 DEF First
  <2>2. g[u] = h[u]
    <3> HIDE DEF g, h, u
    <3> QED BY <1>1, <1>2, <2>1, SumsAgree
  <2>3. g[S] = f[First(S)] + g[u]
    BY <1>2, <1>5, <2>1 DEF IsSum
  <2> QED BY <1>3, <1>5, <2>2, <2>3
<1> QED BY <1>4, <1>5

\* A sum of integers is an integer.
LEMMA SumType ==
  ASSUME NEW f, NEW S, IsFiniteSet(S), \A x \in S : f[x] \in Int
  PROVE  SumFunctionOnSet(f, S) \in Int
<1> DEFINE Good == {T \in SUBSET S : SumFunctionOnSet(f, T) \in Int}
<1>1. ASSUME NEW T \in SUBSET S, \A U \in SUBSET T : U # T => U \in Good
      PROVE  T \in Good
  <2>1. IsFiniteSet(T)
    BY FS_Subset
  <2>2. CASE T = {}
    BY <2>1, <2>2, SumStep
  <2>3. CASE T # {}
    <3>1. First(T) \in T
      BY <2>3 DEF First
    <3>2. SumFunctionOnSet(f, T \ {First(T)}) \in Int
      BY <1>1, <3>1
    <3> QED BY <2>1, <2>3, <3>1, <3>2, SumStep
  <2> QED BY <2>2, <2>3
<1>2. S \in Good
  <2> HIDE DEF Good
  <2> QED BY <1>1, SubsetInduction
<1> QED BY <1>2

\* It does not matter which element is taken first.
LEMMA SumRemove ==
  ASSUME NEW f, NEW S, IsFiniteSet(S), \A x \in S : f[x] \in Int, NEW a \in S
  PROVE  SumFunctionOnSet(f, S) = f[a] + SumFunctionOnSet(f, S \ {a})
<1> DEFINE sum(T) == SumFunctionOnSet(f, T)
           Good == {T \in SUBSET S : \A b \in T : sum(T) = f[b] + sum(T \ {b})}
<1>1. ASSUME NEW T \in SUBSET S, \A U \in SUBSET T : U # T => U \in Good
      PROVE  T \in Good
  <2> SUFFICES ASSUME NEW b \in T PROVE sum(T) = f[b] + sum(T \ {b})
    OBVIOUS
  <2> DEFINE c == First(T)
  <2>1. c \in T
    BY DEF First
  <2>2. IsFiniteSet(T) /\ IsFiniteSet(T \ {b}) /\ IsFiniteSet(T \ {c})
        /\ IsFiniteSet((T \ {b}) \ {c})
    BY FS_Subset
  <2>3. sum(T) = f[c] + sum(T \ {c})
    BY <2>2, SumStep
  <2>4. CASE b = c
    BY <2>3, <2>4
  <2>5. CASE b # c
    <3>1. sum(T \ {c}) = f[b] + sum((T \ {c}) \ {b})
      BY <1>1, <2>1, <2>5
    <3>2. sum(T \ {b}) = f[c] + sum((T \ {b}) \ {c})
      BY <1>1, <2>1, <2>5
    <3>3. (T \ {b}) \ {c} = (T \ {c}) \ {b}
      OBVIOUS
    <3>4. sum((T \ {b}) \ {c}) \in Int /\ f[b] \in Int /\ f[c] \in Int
      BY <2>1, <2>2, SumType
    <3>5. sum(T \ {c}) = f[b] + sum((T \ {b}) \ {c})
      BY <3>1, <3>3
    <3> QED BY <2>3, <3>2, <3>4, <3>5
  <2> QED BY <2>4, <2>5
<1>2. S \in Good
  <2> HIDE DEF Good
  <2> QED BY <1>1, SubsetInduction
<1> QED BY <1>2

\* A sum over no index is 0.
LEMMA SumEmpty == \A f : SumFunctionOnSet(f, {}) = 0
  BY SumStep, FS_EmptySet

\* An index more adds its term.
LEMMA SumAdd ==
  ASSUME NEW f, NEW S, IsFiniteSet(S), NEW a, a \notin S, \A x \in S \cup {a} : f[x] \in Int
  PROVE  SumFunctionOnSet(f, S \cup {a}) = f[a] + SumFunctionOnSet(f, S)
<1>1. IsFiniteSet(S \cup {a}) /\ (S \cup {a}) \ {a} = S
  BY FS_AddElement
<1> DEFINE T == S \cup {a}
<1>2. SumFunctionOnSet(f, T) = f[a] + SumFunctionOnSet(f, T \ {a})
  <2>1. IsFiniteSet(T) /\ a \in T /\ \A x \in T : f[x] \in Int
    BY <1>1
  <2> HIDE DEF T
  <2> QED BY <2>1, SumRemove
<1> QED BY <1>1, <1>2

\* A sum depends on the values at its indices alone.
LEMMA SumSame ==
  ASSUME NEW S, IsFiniteSet(S), NEW f, NEW g, \A x \in S : f[x] \in Int /\ g[x] = f[x]
  PROVE  SumFunctionOnSet(g, S) = SumFunctionOnSet(f, S)
<1> DEFINE Good == {T \in SUBSET S : SumFunctionOnSet(g, T) = SumFunctionOnSet(f, T)}
<1>1. ASSUME NEW T \in SUBSET S, \A U \in SUBSET T : U # T => U \in Good
      PROVE  T \in Good
  <2>1. IsFiniteSet(T)
    BY FS_Subset
  <2>2. CASE T = {}
    BY <2>2, SumEmpty
  <2>3. CASE T # {}
    <3>1. First(T) \in T
      BY <2>3 DEF First
    <3>2. SumFunctionOnSet(g, T \ {First(T)}) = SumFunctionOnSet(f, T \ {First(T)})
      BY <1>1, <3>1
    <3>3. g[First(T)] = f[First(T)]
      BY <3>1
    <3> QED BY <2>1, <2>3, <3>2, <3>3, SumStep
  <2> QED BY <2>2, <2>3
<1>2. S \in Good
  <2> HIDE DEF Good
  <2> QED BY <1>1, SubsetInduction
<1> QED BY <1>2

\* A sum of naturals is a natural number, and no less over more indices.
LEMMA SumPart ==
  ASSUME NEW S, IsFiniteSet(S), NEW f, \A x \in S : f[x] \in Nat, NEW T \in SUBSET S
  PROVE  /\ SumFunctionOnSet(f, T) \in Nat /\ SumFunctionOnSet(f, S) \in Nat
         /\ SumFunctionOnSet(f, T) <= SumFunctionOnSet(f, S)
<1> DEFINE sum(U) == SumFunctionOnSet(f, U)
           Good == {U \in SUBSET S : /\ sum(U) \in Nat /\ sum(U \cap T) \in Nat
                                     /\ sum(U \cap T) <= sum(U)}
<1>1. ASSUME NEW U \in SUBSET S, \A V \in SUBSET U : V # U => V \in Good
      PROVE  U \in Good
  <2>1. IsFiniteSet(U) /\ IsFiniteSet(U \cap T)
    BY FS_Subset
  <2>2. CASE U = {}
    BY <2>2, SumEmpty
  <2>3. CASE U # {}
    <3> DEFINE a == First(U)
               V == U \ {a}
    <3>1. a \in U /\ f[a] \in Nat
      BY <2>3 DEF First
    <3>2. sum(V) \in Nat /\ sum(V \cap T) \in Nat /\ sum(V \cap T) <= sum(V)
      BY <1>1, <3>1
    <3>3. sum(U) = f[a] + sum(V)
      BY <2>1, <2>3, SumStep
    <3>4. CASE a \in T
      <4>1. a \in U \cap T /\ (U \cap T) \ {a} = V \cap T /\ \A x \in U \cap T : f[x] \in Int
        BY <3>1, <3>4
      <4>2. sum(U \cap T) = f[a] + sum(V \cap T)
        <5>1. sum(U \cap T) = f[a] + sum((U \cap T) \ {a})
          <6> HIDE DEF a
          <6> QED BY <2>1, <4>1, SumRemove
        <5> QED BY <4>1, <5>1
      <4> HIDE DEF sum, a, V
      <4> QED BY <3>1, <3>2, <3>3, <4>2
    <3>5. CASE a \notin T
      <4>1. U \cap T = V \cap T
        BY <3>5
      <4> HIDE DEF sum, a, V
      <4> QED BY <3>1, <3>2, <3>3, <4>1
    <3> QED BY <3>4, <3>5
  <2> QED BY <2>2, <2>3
<1>2. S \in Good
  <2> HIDE DEF Good
  <2> QED BY <1>1, SubsetInduction
<1>3. S \cap T = T
  OBVIOUS
<1> QED BY <1>2, <1>3

-----------------------------------------------------------------------------
(* Types                                                                     *)

\* The table of transactions, one kind at a time.
LEMMA TxnShape ==
  ASSUME NEW t \in Txn
  PROVE  /\ t.op \in {"waiting", "locked", "checked"} => t \in BookTxn
         /\ t.op = "end" => t.booking \in Bookings /\ t.how \in Final
         /\ t.op = "sweep" => t.past \in SUBSET Bookings
  BY DEF Txn, Idle, BookTxn

\* A booking that takes the next stage is still a transaction.
LEMMA StageType ==
  ASSUME NEW t \in BookTxn, NEW op \in {"locked", "checked"}
  PROVE  [t EXCEPT !.op = op] \in Txn
  BY DEF BookTxn, Txn

\* A capacity is a natural number.
LEMMA CapacityIsNat ==
  ASSUME NEW s \in Slots, NEW c \in Capacities
  PROVE  Capacity(s, c) \in Nat
  BY CapacityAssumption DEF Capacity

\* Closing a transaction keeps the types.
LEMMA FinishType ==
  ASSUME TypeOK, NEW w \in Workers, Finish(w)
  PROVE  /\ txn' \in [Workers -> Txn]
         /\ holder' \in Workers \cup {NoWorker}
  BY DEF TypeOK, Finish, Txn

\* Ending bookings keeps the types.
LEMMA EndsType ==
  ASSUME TypeOK, NEW bs \in SUBSET Bookings, NEW how \in Final,
         \A b \in bs : Exists(b), SetStatus(bs, how)
  PROVE  booking' \in [Bookings -> BookingRow \cup {Absent}]
  <1>1. ASSUME NEW b \in Bookings
        PROVE  booking'[b] \in BookingRow \cup {Absent}
    <2>1. CASE b \in bs
      <3>1. booking[b] \in BookingRow
        BY <2>1 DEF TypeOK, Exists, Absent
      <3>2. booking'[b] = [booking[b] EXCEPT !.status = how]
        BY <2>1 DEF SetStatus
      <3> QED
        BY <3>1, <3>2 DEF BookingRow
    <2>2. CASE b \notin bs
      BY <2>2 DEF SetStatus, TypeOK
    <2> QED
      BY <2>1, <2>2
  <1> QED
    BY <1>1 DEF SetStatus

\* Every step keeps the types.
LEMMA TypeStep ==
  ASSUME TypeOK, [Next]_vars
  PROVE  TypeOK'
  <1> USE DEF admin
  <1>1. ASSUME NEW w \in Workers, BeginBook(w)
        PROVE  TypeOK'
    <2>1. PICK s \in Slots, r \in Residents, n \in 1..MaxParty :
            /\ Begin(w, [op |-> "waiting", slot |-> s, resident |-> r, count |-> n,
                         cap |-> Capacity(s, capacity)])
            /\ UNCHANGED <<booking, admin, phase, holder>>
      BY <1>1 DEF BeginBook
    <2>2. Capacity(s, capacity) \in Nat
      BY CapacityIsNat DEF TypeOK
    <2> QED
      BY <2>1, <2>2 DEF TypeOK, Begin, Txn
  <1>2. ASSUME NEW w \in Workers, LockAmenity(w)
        PROVE  TypeOK'
    <2>1. txn[w] \in BookTxn
      BY <1>2, TxnShape DEF TypeOK, LockAmenity, Holds
    <2>2. [txn[w] EXCEPT !.op = "locked"] \in Txn
      BY <2>1, StageType
    <2> QED
      BY <1>2, <2>2 DEF TypeOK, LockAmenity, Stage
  <1>3. ASSUME NEW w \in Workers, CheckBooking(w)
        PROVE  TypeOK'
    <2>1. txn[w] \in BookTxn
      BY <1>3, TxnShape DEF TypeOK, CheckBooking, Holds
    <2>2. [txn[w] EXCEPT !.op = "checked"] \in Txn
      BY <2>1, StageType
    <2>3. CASE Permitted(txn[w])
      BY <1>3, <2>2, <2>3 DEF TypeOK, CheckBooking, Stage
    <2>4. CASE ~Permitted(txn[w])
      BY <1>3, <2>4, FinishType DEF TypeOK, CheckBooking
    <2> QED
      BY <2>3, <2>4
  <1>4. ASSUME NEW w \in Workers, CommitBook(w)
        PROVE  TypeOK'
    <2>1. txn[w] \in BookTxn
      BY <1>4, TxnShape DEF TypeOK, CommitBook, Holds
    <2> DEFINE row == [status |-> "confirmed", slot |-> txn[w].slot,
                       resident |-> txn[w].resident, count |-> txn[w].count]
    <2>2. row \in BookingRow
      BY <2>1 DEF BookTxn, BookingRow
    <2>3. PICK b \in Bookings : booking' = [booking EXCEPT ![b] = row]
      BY <1>4 DEF CommitBook
    <2> HIDE DEF row
    <2>4. booking' \in [Bookings -> BookingRow \cup {Absent}]
      BY <2>2, <2>3 DEF TypeOK
    <2> QED
      BY <1>4, <2>4, FinishType DEF TypeOK, CommitBook
  <1>5. ASSUME NEW w \in Workers, RefuseBook(w) \/ Crash(w)
        PROVE  TypeOK'
    BY <1>5, FinishType DEF TypeOK, RefuseBook, Crash
  <1>6. ASSUME NEW w \in Workers, BeginEnd(w)
        PROVE  TypeOK'
    BY <1>6 DEF TypeOK, BeginEnd, EndStatus, Begin, Txn
  <1>7. ASSUME NEW w \in Workers, CommitEnd(w)
        PROVE  TypeOK'
    <2>1. txn[w].booking \in Bookings /\ txn[w].how \in Final
      BY <1>7, TxnShape DEF TypeOK, CommitEnd, Holds
    <2>2. booking' \in [Bookings -> BookingRow \cup {Absent}]
      <3>1. CASE Exists(txn[w].booking)
        <4>1. /\ SetStatus({txn[w].booking}, txn[w].how)
              /\ \A b \in {txn[w].booking} : Exists(b)
          BY <1>7, <3>1 DEF CommitEnd
        <4> QED
          BY <2>1, <4>1, EndsType
      <3>2. CASE ~Exists(txn[w].booking)
        BY <1>7, <3>2 DEF CommitEnd, TypeOK
      <3> QED
        BY <3>1, <3>2
    <2> QED
      BY <1>7, <2>2, FinishType DEF TypeOK, CommitEnd
  <1>8. ASSUME NEW w \in Workers, BeginSweep(w)
        PROVE  TypeOK'
    <2>1. Past \in SUBSET Bookings
      BY DEF Past, Confirmed
    <2> QED
      BY <1>8, <2>1 DEF TypeOK, BeginSweep, Begin, Txn
  <1>9. ASSUME NEW w \in Workers, CommitSweep(w)
        PROVE  TypeOK'
    <2>1. txn[w].past \in SUBSET Bookings
      BY <1>9, TxnShape DEF TypeOK, CommitSweep, Holds
    <2>2. "completed" \in Final
      BY DEF Final
    <2>3. booking' \in [Bookings -> BookingRow \cup {Absent}]
      BY <1>9, <2>1, <2>2, EndsType DEF CommitSweep, TypeOK
    <2> QED
      BY <1>9, <2>3, FinishType DEF TypeOK, CommitSweep
  <1>10. ASSUME NEW w \in Workers, BeginDelete(w)
         PROVE  TypeOK'
    BY <1>10 DEF TypeOK, BeginDelete, Begin, Txn
  <1>11. ASSUME NEW w \in Workers, CommitDelete(w)
         PROVE  TypeOK'
    BY <1>11, FinishType DEF TypeOK, CommitDelete
  <1>12. CASE Outside
    BY <1>12 DEF TypeOK, Outside, UpdateAmenity, UpsertRule, CreateSlot, DeleteSlot,
                 CreateBlock, DeleteBlock, TimePasses
  <1>13. CASE UNCHANGED vars
    BY <1>13 DEF TypeOK, vars
  <1> QED
    BY <1>1, <1>2, <1>3, <1>4, <1>5, <1>6, <1>7, <1>8, <1>9, <1>10, <1>11, <1>12, <1>13
    DEF Next, Start, Proceed
-----------------------------------------------------------------------------
(* The lock                                                                  *)

\* Every step keeps the lock with the booking that is past its lock statement.
LEMMA LockStep ==
  ASSUME TypeOK, LockDiscipline, [Next]_vars
  PROVE  LockDiscipline'
  <1> USE NoWorkerAssumption DEF admin, TypeOK, LockDiscipline
  <1>1. ASSUME NEW w \in Workers,
               BeginBook(w) \/ BeginEnd(w) \/ BeginSweep(w) \/ BeginDelete(w)
        PROVE  LockDiscipline'
    <2>1. PICK t : /\ txn[w] = Idle
                   /\ txn' = [txn EXCEPT ![w] = t]
                   /\ t.op \in {"waiting", "end", "sweep", "delete"}
      BY <1>1 DEF BeginBook, BeginEnd, BeginSweep, BeginDelete, Begin
    <2>2. UNCHANGED <<exists, holder>>
      BY <1>1 DEF BeginBook, BeginEnd, BeginSweep, BeginDelete
    <2> QED
      BY <2>1, <2>2 DEF Idle
  <1>2. ASSUME NEW w \in Workers, LockAmenity(w)
        PROVE  LockDiscipline'
    BY <1>2 DEF LockAmenity, Stage, Holds
  <1>3. ASSUME NEW w \in Workers, CheckBooking(w)
        PROVE  LockDiscipline'
    <2>1. txn[w].op = "locked" /\ UNCHANGED exists
      BY <1>3 DEF CheckBooking, Holds
    <2>2. CASE Finish(w)
      BY <2>1, <2>2 DEF Finish, Idle
    <2>3. CASE Stage(w, "checked") /\ UNCHANGED holder
      BY <2>1, <2>3 DEF Stage
    <2> QED
      BY <1>3, <2>2, <2>3 DEF CheckBooking
  <1>4. ASSUME NEW w \in Workers,
               CommitBook(w) \/ RefuseBook(w) \/ CommitEnd(w) \/ CommitSweep(w) \/ Crash(w)
        PROVE  LockDiscipline'
    <2>1. Finish(w) /\ UNCHANGED exists
      BY <1>4 DEF CommitBook, RefuseBook, CommitEnd, CommitSweep, Crash
    <2> QED
      BY <2>1 DEF Finish, Idle
  <1>5. ASSUME NEW w \in Workers, CommitDelete(w)
        PROVE  LockDiscipline'
    BY <1>5 DEF CommitDelete, Holds, Finish, Idle
  <1>6. CASE Outside
    BY <1>6 DEF Outside, UpdateAmenity, UpsertRule, CreateSlot, DeleteSlot,
                CreateBlock, DeleteBlock, TimePasses
  <1>7. CASE UNCHANGED vars
    BY <1>7 DEF vars
  <1> QED
    BY <1>1, <1>2, <1>3, <1>4, <1>5, <1>6, <1>7 DEF Next, Start, Proceed

-----------------------------------------------------------------------------
(* The table: every step but CommitBook leaves no new confirmed booking      *)

Fewer == \A b \in Bookings :
           booking'[b].status = "confirmed" => booking'[b] = booking[b]

\* Ending bookings confirms none.
LEMMA EndsFewer ==
  ASSUME TypeOK, NEW bs \in SUBSET Bookings, NEW how \in Final,
         \A b \in bs : Exists(b), SetStatus(bs, how)
  PROVE  Fewer
  <1>1. ASSUME NEW b \in bs
        PROVE  booking'[b].status # "confirmed"
    <2>1. booking[b] \in BookingRow
      BY DEF TypeOK, Exists, Absent
    <2>2. booking'[b] = [booking[b] EXCEPT !.status = how]
      BY DEF SetStatus
    <2> QED
      BY <2>1, <2>2 DEF BookingRow, Final
  <1> QED
    BY <1>1 DEF Fewer, SetStatus

\* Only the commit of book adds a confirmed booking.
LEMMA OnlyCommitAdds ==
  ASSUME TypeOK, [Next]_vars,
         \A w \in Workers : ~CommitBook(w)
  PROVE  Fewer
  <1> USE DEF admin
  <1>1. CASE UNCHANGED booking
    BY <1>1 DEF Fewer
  <1>2. ASSUME NEW w \in Workers, CommitEnd(w)
        PROVE  Fewer
    <2>1. txn[w].booking \in Bookings /\ txn[w].how \in Final
      BY <1>2, TxnShape DEF TypeOK, CommitEnd, Holds
    <2> QED
      BY <1>1, <1>2, <2>1, EndsFewer DEF CommitEnd
  <1>3. ASSUME NEW w \in Workers, CommitSweep(w)
        PROVE  Fewer
    <2>1. txn[w].past \in SUBSET Bookings
      BY <1>3, TxnShape DEF TypeOK, CommitSweep, Holds
    <2>2. "completed" \in Final
      BY DEF Final
    <2> QED
      BY <1>1, <1>3, <2>1, <2>2, EndsFewer DEF CommitSweep
  <1>4. ASSUME NEW w \in Workers, CommitDelete(w)
        PROVE  Fewer
    BY <1>4 DEF CommitDelete, Fewer, Absent
  <1>5. ASSUME NEW w \in Workers,
               \/ BeginBook(w) \/ BeginEnd(w) \/ BeginSweep(w) \/ BeginDelete(w)
               \/ LockAmenity(w) \/ CheckBooking(w) \/ RefuseBook(w) \/ Crash(w)
        PROVE  UNCHANGED booking
    BY <1>5 DEF BeginBook, BeginEnd, BeginSweep, BeginDelete, LockAmenity, CheckBooking,
                RefuseBook, Crash
  <1>6. CASE Outside
    BY <1>1, <1>6 DEF Outside, UpdateAmenity, UpsertRule, CreateSlot, DeleteSlot,
                CreateBlock, DeleteBlock, TimePasses
  <1>7. CASE UNCHANGED vars
    BY <1>1, <1>7 DEF vars
  <1> QED
    BY <1>1, <1>2, <1>3, <1>4, <1>5, <1>6, <1>7 DEF Next, Start, Proceed

\* The confirmed bookings, and each unit's, are finitely many.
LEMMA ConfirmedFinite ==
  /\ IsFiniteSet(Confirmed)
  /\ \A u : IsFiniteSet(OfUnit(u)) /\ Cardinality(OfUnit(u)) \in Nat
  <1>1. Confirmed \subseteq Bookings /\ IsFiniteSet(Confirmed)
    BY BookingsAssumption, FS_Subset DEF Confirmed
  <1>2. \A u : OfUnit(u) \subseteq Confirmed
    BY DEF OfUnit
  <1> QED
    BY <1>1, <1>2, FS_Subset, FS_CardinalityType

\* Where nothing is confirmed, no unit gains a booking and no duplicate appears.
LEMMA FewerBooked ==
  ASSUME Fewer
  PROVE  /\ Confirmed' \subseteq Confirmed
         /\ \A b \in Confirmed' : booking'[b] = booking[b]
         /\ \A s, r : Duplicate(s, r)' => Duplicate(s, r)
         /\ \A u : /\ Cardinality(OfUnit(u))' \in Nat
                  /\ Cardinality(OfUnit(u)) \in Nat
                  /\ Cardinality(OfUnit(u))' <= Cardinality(OfUnit(u))
  <1>1. Confirmed' \subseteq Confirmed /\ \A b \in Confirmed' : booking'[b] = booking[b]
    BY DEF Fewer, Confirmed
  <1>2. \A s, r : Duplicate(s, r)' => Duplicate(s, r)
    BY <1>1 DEF Duplicate
  <1>3. \A u : OfUnit(u)' \subseteq OfUnit(u)
    BY <1>1 DEF OfUnit
  <1>4. \A u : IsFiniteSet(OfUnit(u)) /\ Cardinality(OfUnit(u)) \in Nat
    BY ConfirmedFinite
  <1>5. \A u : /\ Cardinality(OfUnit(u)') \in Nat
              /\ Cardinality(OfUnit(u)') <= Cardinality(OfUnit(u))
    BY <1>3, <1>4, FS_Subset, FS_CardinalityType
  <1> QED
    BY <1>1, <1>2, <1>4, <1>5

\* A commit confirms one unused row, as the transaction asked for it.
LEMMA CommitAdds ==
  ASSUME TypeOK, CheckedStands, NEW w \in Workers, CommitBook(w)
  PROVE  \E b \in Bookings :
           /\ ~Exists(b)
           /\ txn[w] \in BookTxn
           /\ Bookable(txn[w])
           /\ booking' = [booking EXCEPT ![b] =
                [status |-> "confirmed", slot |-> txn[w].slot,
                 resident |-> txn[w].resident, count |-> txn[w].count]]
           /\ booking'[b].status = "confirmed"
           /\ booking'[b].slot = txn[w].slot
           /\ booking'[b].resident = txn[w].resident
           /\ booking'[b].count = txn[w].count
           /\ b \notin Confirmed
           /\ Confirmed' = Confirmed \cup {b}
           /\ \A a \in Bookings \ {b} : booking'[a] = booking[a]
           /\ \A a \in Confirmed : booking'[a] = booking[a]
  <1> DEFINE row == [status |-> "confirmed", slot |-> txn[w].slot,
                     resident |-> txn[w].resident, count |-> txn[w].count]
  <1>1. txn[w] \in BookTxn
    BY TxnShape DEF TypeOK, CommitBook, Holds
  <1>2. Bookable(txn[w])
    BY DEF CommitBook, Holds, CapacityGuard, CheckedStands
  <1>3. PICK b \in Bookings : ~Exists(b) /\ booking' = [booking EXCEPT ![b] = row]
    BY DEF CommitBook
  <1>4. booking'[b] = row /\ \A a \in Bookings \ {b} : booking'[a] = booking[a]
    BY <1>3 DEF TypeOK
  <1>5. b \notin Confirmed
    <2>1. CASE booking[b] = Absent
      BY <2>1 DEF Confirmed, Absent
    <2>2. CASE booking[b] \in BookingRow
      BY <1>3, <2>2 DEF Exists, BookingRow, Final
    <2> QED
      BY <2>1, <2>2 DEF TypeOK
  <1>6. Confirmed' = Confirmed \cup {b}
    BY <1>4 DEF Confirmed
  <1>7. \A a \in Confirmed : booking'[a] = booking[a]
    BY <1>4, <1>5 DEF Confirmed
  <1>8. /\ booking'[b].status = "confirmed"
        /\ booking'[b].slot = txn[w].slot
        /\ booking'[b].resident = txn[w].resident
        /\ booking'[b].count = txn[w].count
    BY <1>4
  <1> WITNESS b \in Bookings
  <1> QED
    BY <1>1, <1>2, <1>3, <1>4, <1>5, <1>6, <1>7, <1>8

\* Every step keeps the table free of duplicates.
LEMMA DuplicateStep ==
  ASSUME IInv, [Next]_vars
  PROVE  NoDuplicateBooking'
  <1>1. CASE \A w \in Workers : ~CommitBook(w)
    <2>1. Fewer
      BY <1>1, OnlyCommitAdds DEF IInv
    <2> QED
      BY <2>1, FewerBooked DEF IInv, NoDuplicateBooking
  <1>2. ASSUME NEW w \in Workers, CommitBook(w)
        PROVE  NoDuplicateBooking'
    <2>1. PICK b \in Bookings :
            /\ Bookable(txn[w])
            /\ booking'[b].slot = txn[w].slot
            /\ booking'[b].resident = txn[w].resident
            /\ Confirmed' = Confirmed \cup {b}
            /\ \A a \in Confirmed : booking'[a] = booking[a]
      BY <1>2, CommitAdds DEF IInv
    <2>2. \A a \in Confirmed :
            ~(booking[a].slot = txn[w].slot /\ booking[a].resident = txn[w].resident)
      BY <2>1 DEF Bookable, Duplicate
    <2> QED
      BY <2>1, <2>2 DEF IInv, NoDuplicateBooking
  <1> QED
    BY <1>1, <1>2

\* Every step keeps every unit within some limit.
LEMMA LimitStep ==
  ASSUME IInv, [Next]_vars
  PROVE  UnitWithinLimit'
  <1> SUFFICES ASSUME NEW r \in Residents
               PROVE  \E l \in Limits \cup {0} : Cardinality(OfUnit(UnitOf[r]))' <= l
    BY DEF UnitWithinLimit
  <1> DEFINE u == UnitOf[r]
  <1>0. PICK k \in Limits \cup {0} : Cardinality(OfUnit(u)) <= k
    BY DEF IInv, UnitWithinLimit
  <1>1. CASE \A w \in Workers : ~CommitBook(w)
    <2>1. Fewer
      BY <1>1, OnlyCommitAdds DEF IInv
    <2>2. /\ Cardinality(OfUnit(u))' \in Nat
          /\ Cardinality(OfUnit(u)) \in Nat
          /\ Cardinality(OfUnit(u))' <= Cardinality(OfUnit(u))
      BY <2>1, FewerBooked
    <2> QED
      BY <1>0, <2>2, LimitAssumption
  <1>2. ASSUME NEW w \in Workers, CommitBook(w)
        PROVE  \E l \in Limits \cup {0} : Cardinality(OfUnit(u))' <= l
    <2>1. PICK b \in Bookings :
            /\ Bookable(txn[w])
            /\ booking'[b].resident = txn[w].resident
            /\ b \notin Confirmed
            /\ Confirmed' = Confirmed \cup {b}
            /\ \A a \in Confirmed : booking'[a] = booking[a]
      BY <1>2, CommitAdds DEF IInv
    <2>2. CASE UnitOf[txn[w].resident] = u
      <3>1. OfUnit(u)' = OfUnit(u) \cup {b} /\ b \notin OfUnit(u)
        BY <2>1, <2>2 DEF OfUnit
      <3>2. IsFiniteSet(OfUnit(u)) /\ Cardinality(OfUnit(u)) \in Nat
        BY ConfirmedFinite
      <3>3. Cardinality(OfUnit(u)') = Cardinality(OfUnit(u)) + 1
        BY <3>1, <3>2, FS_AddElement
      <3>4. PICK l \in Limits : Cardinality(OfUnit(u)) < l
        BY <2>1, <2>2 DEF Bookable
      <3>5. Cardinality(OfUnit(u)') <= l
        BY <3>2, <3>3, <3>4, LimitAssumption
      <3> QED
        BY <3>5
    <2>3. CASE UnitOf[txn[w].resident] # u
      <3>1. OfUnit(u)' = OfUnit(u)
        BY <2>1, <2>3 DEF OfUnit
      <3> QED
        BY <1>0, <3>1
    <2> QED
      BY <2>2, <2>3
  <1> QED
    BY <1>1, <1>2

-----------------------------------------------------------------------------
(* The seats taken                                                           *)

Rows == [Bookings -> BookingRow \cup {Absent}]

\* The confirmed bookings in a set of slots, and their participants
In(table, slots) ==
  {b \in Bookings : table[b].status = "confirmed" /\ table[b].slot \in slots}
Seats(table, slots) == SumFunction([b \in In(table, slots) |-> table[b].count])

\* Load is the number of seats taken, before and after a step.
LEMMA LoadIsSeats ==
  ASSUME NEW slots
  PROVE  Load(slots) = Seats(booking, slots) /\ Load(slots)' = Seats(booking', slots)
  <1>1. {b \in Confirmed : booking[b].slot \in slots} = In(booking, slots)
    BY DEF In, Confirmed
  <1>2. {b \in Confirmed' : booking'[b].slot \in slots} = In(booking', slots)
    BY DEF In, Confirmed
  <1> QED
    BY <1>1, <1>2 DEF Load, Seats

\* The seats are a sum over any function that agrees with the table.
LEMMA SeatsAre ==
  ASSUME NEW table \in Rows, NEW slots
  PROVE  /\ IsFiniteSet(In(table, slots))
         /\ \A b \in In(table, slots) : table[b].count \in Nat
         /\ Seats(table, slots) \in Nat
         /\ \A f : (\A b \in In(table, slots) : f[b] = table[b].count)
                     => Seats(table, slots) = SumFunctionOnSet(f, In(table, slots))
  <1> DEFINE all == In(table, slots)
             counts == [b \in all |-> table[b].count]
  <1>1. IsFiniteSet(all)
    BY BookingsAssumption, FS_Subset DEF In
  <1>2. \A b \in all : table[b].count \in Nat
    BY MaxPartyAssumption DEF In, Rows, BookingRow, Absent
  <1>3. Seats(table, slots) = SumFunctionOnSet(counts, all)
    BY DEF Seats, SumFunction
  <1>4. \A b \in all : counts[b] \in Nat /\ counts[b] = table[b].count
    BY <1>2
  <1> HIDE DEF counts, all
  <1>5. SumFunctionOnSet(counts, all) \in Nat
    BY <1>1, <1>4, SumPart
  <1>6. ASSUME NEW f, \A b \in all : f[b] = table[b].count
        PROVE  SumFunctionOnSet(f, all) = SumFunctionOnSet(counts, all)
    BY <1>1, <1>4, <1>6, SumSame
  <1> QED
    BY <1>1, <1>2, <1>3, <1>5, <1>6 DEF all

\* Fewer bookings, or fewer slots, take no more seats.
LEMMA SeatsPart ==
  ASSUME NEW old \in Rows, NEW new \in Rows, NEW few, NEW slots,
         In(new, few) \subseteq In(old, slots),
         \A b \in In(new, few) : new[b] = old[b]
  PROVE  Seats(new, few) <= Seats(old, slots)
  <1> DEFINE f == [b \in Bookings |-> old[b].count]
  <1>1. /\ \A b \in In(old, slots) : f[b] = old[b].count /\ f[b] \in Nat
        /\ \A b \in In(new, few) : f[b] = new[b].count
    BY SeatsAre DEF In
  <1>2. /\ Seats(old, slots) = SumFunctionOnSet(f, In(old, slots))
        /\ Seats(new, few) = SumFunctionOnSet(f, In(new, few))
    <2> HIDE DEF f
    <2> QED
      BY <1>1, SeatsAre
  <1>3. IsFiniteSet(In(old, slots))
    BY SeatsAre
  <1> HIDE DEF f
  <1>4. SumFunctionOnSet(f, In(new, few)) <= SumFunctionOnSet(f, In(old, slots))
    BY <1>1, <1>3, SumPart
  <1> QED
    BY <1>2, <1>4

\* A new booking takes as many seats as it has participants, in its own slot.
LEMMA SeatsAdd ==
  ASSUME NEW old \in Rows, NEW new \in Rows, NEW slots, NEW b \in Bookings,
         b \notin In(old, slots), new[b].status = "confirmed", new[b].slot \in slots,
         \A a \in Bookings \ {b} : new[a] = old[a]
  PROVE  Seats(new, slots) = new[b].count + Seats(old, slots)
  <1> DEFINE f == [a \in Bookings |-> new[a].count]
  <1>1. In(new, slots) = In(old, slots) \cup {b}
    BY DEF In
  <1>2. \A a \in In(new, slots) : f[a] = new[a].count /\ f[a] \in Int
    <2>1. \A a \in In(new, slots) : new[a].count \in Nat
      BY SeatsAre
    <2> QED
      BY <2>1 DEF In
  <1>3. \A a \in In(old, slots) : f[a] = old[a].count
    BY DEF In
  <1>4. f[b] = new[b].count
    OBVIOUS
  <1> HIDE DEF f
  <1>5. /\ Seats(new, slots) = SumFunctionOnSet(f, In(new, slots))
        /\ Seats(old, slots) = SumFunctionOnSet(f, In(old, slots))
        /\ IsFiniteSet(In(old, slots))
    BY <1>2, <1>3, SeatsAre
  <1>6. SumFunctionOnSet(f, In(old, slots) \cup {b})
          = f[b] + SumFunctionOnSet(f, In(old, slots))
    BY <1>1, <1>2, <1>5, SumAdd
  <1> QED
    BY <1>1, <1>4, <1>5, <1>6

\* The guard of a commit keeps every group of slots that overlap the booked one,
\* and the booked one among them, within its capacity; no other step fills a slot.
LEMMA OverfullStep ==
  ASSUME IInv, TypeOK', [Next]_vars
  PROVE  NeverOverfull'
  <1> SUFFICES ASSUME NEW together \in (SUBSET Slots) \ {{}},
                      \A s, t \in together : s \in Clash[t]
               PROVE  \E s \in together, c \in Capacities :
                        Seats(booking', together) <= Capacity(s, c)
    BY LoadIsSeats DEF NeverOverfull, Capacity
  <1>1. booking \in Rows /\ booking' \in Rows /\ capacity \in Capacities
    BY DEF IInv, TypeOK, Rows
  <1>2. PICK s \in together, c \in Capacities : Seats(booking, together) <= Capacity(s, c)
    BY LoadIsSeats DEF IInv, NeverOverfull
  <1>3. /\ Seats(booking, together) \in Nat /\ Seats(booking', together) \in Nat
        /\ Capacity(s, c) \in Nat
    BY <1>1, SeatsAre, CapacityIsNat
  <1>4. ASSUME Seats(booking', together) <= Seats(booking, together)
        PROVE  Seats(booking', together) <= Capacity(s, c)
    BY <1>2, <1>3, <1>4
  <1>5. CASE \A w \in Workers : ~CommitBook(w)
    <2>1. Fewer
      BY <1>5, OnlyCommitAdds DEF IInv
    <2>2. /\ In(booking', together) \subseteq In(booking, together)
          /\ \A b \in In(booking', together) : booking'[b] = booking[b]
      BY <2>1 DEF Fewer, In
    <2> QED
      BY <1>1, <1>4, <2>2, SeatsPart
  <1>6. ASSUME NEW w \in Workers, CommitBook(w)
        PROVE  \E x \in together, k \in Capacities :
                 Seats(booking', together) <= Capacity(x, k)
    <2>1. PICK b \in Bookings :
            /\ txn[w] \in BookTxn
            /\ b \notin Confirmed
            /\ booking'[b].status = "confirmed"
            /\ booking'[b].slot = txn[w].slot
            /\ booking'[b].count = txn[w].count
            /\ \A a \in Bookings \ {b} : booking'[a] = booking[a]
      BY <1>6, CommitAdds DEF IInv
    <2> DEFINE x == txn[w].slot
    <2>2. b \notin In(booking, together)
      BY <2>1 DEF In, Confirmed
    <2>3. CASE x \notin together
      <3>1. /\ In(booking', together) \subseteq In(booking, together)
            /\ \A a \in In(booking', together) : booking'[a] = booking[a]
        BY <2>1, <2>3 DEF In
      <3> QED
        BY <1>1, <1>4, <3>1, SeatsPart
    <2>4. CASE x \in together
      <3>1. Seats(booking', together) = txn[w].count + Seats(booking, together)
        BY <1>1, <2>1, <2>2, <2>4, SeatsAdd
      <3>2. Seats(booking, together) <= Seats(booking, Clash[x])
        <4>1. together \subseteq Clash[x]
          BY <2>4
        <4>2. In(booking, together) \subseteq In(booking, Clash[x])
          BY <4>1 DEF In
        <4> QED
          BY <1>1, <4>2, SeatsPart
      <3>3. Seats(booking, Clash[x]) + txn[w].count <= Capacity(x, capacity)
        BY <1>6, LoadIsSeats DEF CommitBook, CapacityGuard, Used
      <3>4. /\ Seats(booking, Clash[x]) \in Nat
            /\ Capacity(x, capacity) \in Nat
            /\ txn[w].count \in Nat
        BY <1>1, <2>1, <2>4, SeatsAre, CapacityIsNat, MaxPartyAssumption DEF BookTxn
      <3>5. Seats(booking', together) <= Capacity(x, capacity)
        BY <1>3, <3>1, <3>2, <3>3, <3>4
      <3> QED
        BY <1>1, <2>4, <3>5
    <2> QED
      BY <2>3, <2>4
  <1> QED
    BY <1>2, <1>4, <1>5, <1>6

-----------------------------------------------------------------------------
(* What was checked stands until the commit                                  *)

\* Only the check of book makes a booking a checked one.
LEMMA OnlyCheckChecks ==
  ASSUME TypeOK, [Next]_vars, \A w \in Workers : ~CheckBooking(w)
  PROVE  /\ exists' => exists
         /\ \A v \in Workers : txn'[v].op = "checked" => txn'[v] = txn[v]
  <1> USE DEF admin, TypeOK
  <1>1. ASSUME NEW w \in Workers,
               BeginBook(w) \/ BeginEnd(w) \/ BeginSweep(w) \/ BeginDelete(w)
        PROVE  /\ exists' => exists
               /\ \A v \in Workers : txn'[v].op = "checked" => txn'[v] = txn[v]
    <2>1. PICK t : /\ txn' = [txn EXCEPT ![w] = t]
                   /\ t.op \in {"waiting", "end", "sweep", "delete"}
      BY <1>1 DEF BeginBook, BeginEnd, BeginSweep, BeginDelete, Begin
    <2>2. UNCHANGED exists
      BY <1>1 DEF BeginBook, BeginEnd, BeginSweep, BeginDelete
    <2> QED
      BY <2>1, <2>2
  <1>2. ASSUME NEW w \in Workers, LockAmenity(w)
        PROVE  /\ exists' => exists
               /\ \A v \in Workers : txn'[v].op = "checked" => txn'[v] = txn[v]
    <2>1. /\ txn' = [txn EXCEPT ![w].op = "locked"]
          /\ txn[w].op = "waiting"
          /\ UNCHANGED exists
      BY <1>2 DEF LockAmenity, Stage, Holds
    <2>2. txn[w] \in BookTxn
      BY <2>1, TxnShape
    <2>3. txn'[w].op = "locked"
      BY <2>1, <2>2 DEF BookTxn
    <2> QED
      BY <2>1, <2>3
  <1>3. ASSUME NEW w \in Workers,
               \/ CommitBook(w) \/ RefuseBook(w) \/ CommitEnd(w) \/ CommitSweep(w)
               \/ CommitDelete(w) \/ Crash(w)
        PROVE  /\ exists' => exists
               /\ \A v \in Workers : txn'[v].op = "checked" => txn'[v] = txn[v]
    <2>1. txn' = [txn EXCEPT ![w] = Idle] /\ (exists' => exists)
      BY <1>3 DEF CommitBook, RefuseBook, CommitEnd, CommitSweep, CommitDelete, Crash, Finish
    <2> QED
      BY <2>1 DEF Idle
  <1>4. CASE Outside
    BY <1>4 DEF Outside, UpdateAmenity, UpsertRule, CreateSlot, DeleteSlot,
                CreateBlock, DeleteBlock, TimePasses
  <1>5. CASE UNCHANGED vars
    BY <1>5 DEF vars
  <1> QED
    BY <1>1, <1>2, <1>3, <1>4, <1>5 DEF Next, Start, Proceed

\* What the checks found stands while the booking holds the lock.
LEMMA CheckedStep ==
  ASSUME IInv, [Next]_vars
  PROVE  CheckedStands'
  <1> SUFFICES ASSUME NEW v \in Workers, exists', txn'[v].op = "checked"
               PROVE  Bookable(txn[v])'
    BY DEF CheckedStands
  <1>1. ASSUME NEW w \in Workers, CheckBooking(w)
        PROVE  Bookable(txn[v])'
    <2>1. UNCHANGED booking /\ exists
      BY <1>1 DEF CheckBooking, admin
    <2>2. CASE v # w
      <3>1. txn'[v] = txn[v]
        BY <1>1, <2>2 DEF CheckBooking, Stage, Finish, IInv, TypeOK
      <3> QED
        BY <2>1, <3>1 DEF IInv, CheckedStands, Bookable, Duplicate, OfUnit, Confirmed
    <2>3. CASE v = w
      <3>1. Permitted(txn[w]) /\ txn' = [txn EXCEPT ![w].op = "checked"]
        BY <1>1, <2>3 DEF CheckBooking, Stage, Finish, Idle, IInv, TypeOK
      <3>2. txn[w] \in BookTxn
        BY <1>1, TxnShape DEF CheckBooking, Holds, IInv, TypeOK
      <3>3. txn'[w].slot = txn[w].slot /\ txn'[w].resident = txn[w].resident
        BY <3>1, <3>2 DEF IInv, TypeOK, BookTxn
      <3>4. Bookable(txn[w])
        BY <3>1 DEF Permitted, UnitFree, Bookable, IInv, TypeOK
      <3> QED
        BY <2>1, <2>3, <3>3, <3>4 DEF Bookable, Duplicate, OfUnit, Confirmed
    <2> QED
      BY <2>2, <2>3
  <1>2. CASE \A w \in Workers : ~CheckBooking(w)
    <2>1. exists /\ txn'[v] = txn[v] /\ Bookable(txn[v])
      BY <1>2, OnlyCheckChecks DEF IInv, CheckedStands
    <2>2. \A w \in Workers : ~CommitBook(w)
      <3> SUFFICES ASSUME NEW w \in Workers, CommitBook(w)
                   PROVE  FALSE
        OBVIOUS
      <3>1. v = w
        BY <2>1 DEF CommitBook, Holds, IInv, LockDiscipline
      <3>2. txn'[w] = Idle
        BY DEF CommitBook, Finish, IInv, TypeOK
      <3> QED
        BY <3>1, <3>2 DEF Idle
    <2>3. Fewer
      BY <2>2, OnlyCommitAdds DEF IInv
    <2>4. ~Duplicate(txn[v].slot, txn[v].resident)'
      BY <2>1, <2>3, FewerBooked DEF Bookable
    <2>5. PICK l \in Limits : Cardinality(OfUnit(UnitOf[txn[v].resident])) < l
      BY <2>1 DEF Bookable
    <2> QED
      BY <2>1, <2>3, <2>4, <2>5, FewerBooked, LimitAssumption DEF Bookable
  <1> QED
    BY <1>1, <1>2

\* A deleted amenity stays without bookings: the deletion takes the rows along,
\* and of the later steps only a commit adds one, which the trigger refuses.
LEMMA DeletedStep ==
  ASSUME IInv, [Next]_vars
  PROVE  NothingOutlivesAmenity'
  <1> USE DEF admin
  <1>1. ASSUME NEW w \in Workers, CommitDelete(w)
        PROVE  NothingOutlivesAmenity'
    BY <1>1 DEF CommitDelete, NothingOutlivesAmenity, Exists, Absent
  <1>2. ASSUME NEW w \in Workers, CommitBook(w)
        PROVE  NothingOutlivesAmenity'
    BY <1>2 DEF CommitBook, CapacityGuard, NothingOutlivesAmenity
  <1>3. CASE \A w \in Workers : ~CommitBook(w) /\ ~CommitDelete(w)
    <2>1. UNCHANGED exists
      BY <1>3 DEF Next, Start, Proceed, Outside, vars, BeginBook, BeginEnd, BeginSweep,
                  BeginDelete, LockAmenity, CheckBooking, RefuseBook, CommitEnd,
                  CommitSweep, Crash, UpdateAmenity, UpsertRule, CreateSlot, DeleteSlot,
                  CreateBlock, DeleteBlock, TimePasses
    <2>2. ASSUME NEW bs, NEW how, \A b \in bs : Exists(b), SetStatus(bs, how),
                 NEW a \in Bookings, ~Exists(a)
          PROVE  ~Exists(a)'
      BY <2>2 DEF SetStatus, Exists
    <2>3. ASSUME NEW a \in Bookings, ~Exists(a)
          PROVE  ~Exists(a)'
      <3>1. CASE UNCHANGED booking
        BY <2>3, <3>1 DEF Exists
      <3>2. ASSUME NEW w \in Workers, CommitEnd(w)
            PROVE  ~Exists(a)'
        <4>1. CASE Exists(txn[w].booking)
          <5>1. SetStatus({txn[w].booking}, txn[w].how)
            BY <3>2, <4>1 DEF CommitEnd
          <5> QED
            BY <2>2, <2>3, <4>1, <5>1
        <4>2. CASE ~Exists(txn[w].booking)
          BY <3>1, <3>2, <4>2 DEF CommitEnd
        <4> QED
          BY <4>1, <4>2
      <3>3. ASSUME NEW w \in Workers, CommitSweep(w)
            PROVE  ~Exists(a)'
        <4>1. CASE \A b \in txn[w].past : Exists(b)
          BY <2>2, <2>3, <3>3, <4>1 DEF CommitSweep
        <4>2. CASE ~\A b \in txn[w].past : Exists(b)
          BY <3>1, <3>3, <4>2 DEF CommitSweep
        <4> QED
          BY <4>1, <4>2
      <3>4. CASE \/ Outside \/ UNCHANGED vars
                 \/ \E w \in Workers : \/ Start(w) \/ LockAmenity(w) \/ CheckBooking(w)
                                       \/ RefuseBook(w) \/ Crash(w)
        <4>1. UNCHANGED booking
          BY <3>4 DEF Start, Outside, vars, BeginBook, BeginEnd, BeginSweep,
                      BeginDelete, LockAmenity, CheckBooking, RefuseBook, Crash,
                      UpdateAmenity, UpsertRule, CreateSlot, DeleteSlot,
                      CreateBlock, DeleteBlock, TimePasses
        <4> QED
          BY <3>1, <4>1
      <3> QED
        BY <1>3, <3>2, <3>3, <3>4 DEF Next, Proceed
    <2> QED
      BY <2>1, <2>3 DEF IInv, NothingOutlivesAmenity
  <1> QED
    BY <1>1, <1>2, <1>3

-----------------------------------------------------------------------------
(* The invariant                                                             *)

\* The invariant holds at first.
LEMMA InitIInv ==
  ASSUME Init
  PROVE  IInv
  <1>1. Confirmed = {}
    BY DEF Init, Confirmed, Absent
  <1>2. TypeOK
    BY DEF Init, TypeOK, Txn
  <1>3. LockDiscipline /\ CheckedStands
    BY NoWorkerAssumption DEF Init, LockDiscipline, CheckedStands, Idle
  <1>4. UnitWithinLimit
    <2>1. \A u : OfUnit(u) = {}
      BY <1>1 DEF OfUnit
    <2> QED
      BY <2>1, FS_EmptySet DEF UnitWithinLimit
  <1>5. NeverOverfull
    <2>1. ASSUME NEW slots
          PROVE  Load(slots) = 0
      <3>1. {b \in Confirmed : booking[b].slot \in slots} = {}
        BY <1>1
      <3> QED
        BY <3>1, SumEmpty DEF Load, SumFunction
    <2>2. capacity \in Capacities
      BY <1>2 DEF TypeOK
    <2> QED
      BY <2>1, <2>2, CapacityIsNat DEF NeverOverfull
  <1> QED
    BY <1>1, <1>2, <1>3, <1>4, <1>5 DEF IInv, Init, NothingOutlivesAmenity, NoDuplicateBooking

\* Every step keeps the invariant.
LEMMA IInvStep ==
  ASSUME IInv, [Next]_vars
  PROVE  IInv'
  <1>1. TypeOK' /\ LockDiscipline'
    BY TypeStep, LockStep DEF IInv
  <1> QED
    BY <1>1, DuplicateStep, LimitStep, OverfullStep, CheckedStep, DeletedStep DEF IInv

\* The invariant holds of every behaviour.
LEMMA Invariance == Spec => []IInv
  BY InitIInv, IInvStep, PTL DEF Spec

\* Whatever the number of transactions, rows and transactions keep their columns.
THEOREM TypeCorrect == Spec => []TypeOK
  <1>1. IInv => TypeOK
    BY DEF IInv
  <1> QED
    BY <1>1, Invariance, PTL

\* The row lock of the amenity serialises the checks of book.
THEOREM LockHeld == Spec => []LockDiscipline
  <1>1. IInv => LockDiscipline
    BY DEF IInv
  <1> QED
    BY <1>1, Invariance, PTL

\* No resident gets one slot twice, however the calls race.
THEOREM NoDuplicates == Spec => []NoDuplicateBooking
  <1>1. IInv => NoDuplicateBooking
    BY DEF IInv
  <1> QED
    BY <1>1, Invariance, PTL

\* No unit exceeds the active-booking limit, however the calls race.
THEOREM LimitKept == Spec => []UnitWithinLimit
  <1>1. IInv => UnitWithinLimit
    BY DEF IInv
  <1> QED
    BY <1>1, Invariance, PTL

\* At no moment do slots that overlap one another hold more participants than the
\* roomiest of them admits, however the calls race and the capacity is edited.
THEOREM CapacityKept == Spec => []NeverOverfull
  <1>1. IInv => NeverOverfull
    BY DEF IInv
  <1> QED
    BY <1>1, Invariance, PTL

-----------------------------------------------------------------------------
(* Refinement                                                                *)

\* The table starts as the abstract one does.
LEMMA InitRefines ==
  ASSUME Init
  PROVE  Atomic!Init
  BY DEF Init, Atomic!Init, Absent, Atomic!Absent

\* Ending bookings is the abstract End.
LEMMA EndsRefine ==
  ASSUME NEW bs \in SUBSET Bookings, NEW how \in Final,
         \A b \in bs : Exists(b), SetStatus(bs, how), UNCHANGED capacity
  PROVE  Atomic!End
  <1>1. bs \in SUBSET {b \in Bookings : Atomic!Exists(b)}
    BY DEF Exists, Atomic!Exists
  <1> QED
    BY <1>1 DEF Atomic!End, SetStatus, Final, Atomic!Final

\* A commit of book is the abstract Book: duplicate, limit and capacity hold at
\* that very step.
LEMMA BookRefines ==
  ASSUME IInv, NEW w \in Workers, CommitBook(w)
  PROVE  \E b \in Bookings : Atomic!Book(b)
  <1>1. PICK b \in Bookings :
          /\ ~Exists(b)
          /\ txn[w] \in BookTxn
          /\ Bookable(txn[w])
          /\ booking' = [booking EXCEPT ![b] =
               [status |-> "confirmed", slot |-> txn[w].slot,
                resident |-> txn[w].resident, count |-> txn[w].count]]
    BY CommitAdds DEF IInv
  <1>2. UNCHANGED capacity
    BY DEF CommitBook, admin
  <1>3. Load(Clash[txn[w].slot]) + txn[w].count <= Capacity(txn[w].slot, capacity)
    BY DEF CommitBook, CapacityGuard, Used
  <1>4. txn[w].slot \in Slots /\ txn[w].resident \in Residents /\ txn[w].count \in 1..MaxParty
    BY <1>1 DEF BookTxn
  <1>5. Atomic!Confirmed = Confirmed
    BY DEF Confirmed, Atomic!Confirmed
  <1>6. Atomic!Duplicate(txn[w].slot, txn[w].resident) = Duplicate(txn[w].slot, txn[w].resident)
    BY <1>5 DEF Duplicate, Atomic!Duplicate
  <1>7. Atomic!OfUnit(UnitOf[txn[w].resident]) = OfUnit(UnitOf[txn[w].resident])
    BY <1>5 DEF OfUnit, Atomic!OfUnit
  <1>8. Atomic!Load(Clash[txn[w].slot]) = Load(Clash[txn[w].slot])
    BY <1>5 DEF Load, Atomic!Load, SumFunction, Atomic!SumFunction,
                SumFunctionOnSet, Atomic!SumFunctionOnSet, FoldFunctionOnSet,
                Atomic!FoldFunctionOnSet, MapThenFoldSet, Atomic!MapThenFoldSet
  <1>10. \A S : Atomic!Cardinality(S) = Cardinality(S)
    BY DEF Cardinality, Atomic!Cardinality
  <1>9. Atomic!Capacity(txn[w].slot, capacity) = Capacity(txn[w].slot, capacity)
    BY DEF Capacity, Atomic!Capacity
  <1>11. Atomic!Book(b)
    BY <1>1, <1>2, <1>3, <1>4, <1>6, <1>7, <1>8, <1>9, <1>10
    DEF Atomic!Book, Bookable, Exists, Atomic!Exists
  <1> QED
    BY <1>11

\* Every step is an abstract step or leaves the table alone.
LEMMA StepRefines ==
  ASSUME IInv, [Next]_vars
  PROVE  [Atomic!Next]_<<booking, capacity>>
  <1> USE DEF admin
  <1>1. CASE UNCHANGED <<booking, capacity>>
    BY <1>1
  <1>2. ASSUME NEW w \in Workers, CommitBook(w)
        PROVE  Atomic!Next
    BY <1>2, BookRefines DEF Atomic!Next
  <1>3. ASSUME NEW w \in Workers, CommitEnd(w)
        PROVE  [Atomic!Next]_<<booking, capacity>>
    <2>1. txn[w].booking \in Bookings /\ txn[w].how \in Final
      BY <1>3, TxnShape DEF IInv, TypeOK, CommitEnd, Holds
    <2>2. UNCHANGED capacity
      BY <1>3 DEF CommitEnd
    <2>3. CASE Exists(txn[w].booking)
      <3>1. /\ SetStatus({txn[w].booking}, txn[w].how)
            /\ \A b \in {txn[w].booking} : Exists(b)
        BY <1>3, <2>3 DEF CommitEnd
      <3> QED
        BY <2>1, <2>2, <3>1, EndsRefine DEF Atomic!Next
    <2>4. CASE ~Exists(txn[w].booking)
      BY <1>1, <1>3, <2>2, <2>4 DEF CommitEnd
    <2> QED
      BY <2>3, <2>4
  <1>4. ASSUME NEW w \in Workers, CommitSweep(w)
        PROVE  [Atomic!Next]_<<booking, capacity>>
    <2>1. txn[w].past \in SUBSET Bookings /\ "completed" \in Final
      BY <1>4, TxnShape DEF IInv, TypeOK, CommitSweep, Holds, Final
    <2>2. UNCHANGED capacity
      BY <1>4 DEF CommitSweep
    <2>3. CASE \A b \in txn[w].past : Exists(b)
      <3>1. SetStatus(txn[w].past, "completed")
        BY <1>4, <2>3 DEF CommitSweep
      <3> QED
        BY <2>1, <2>2, <2>3, <3>1, EndsRefine DEF Atomic!Next
    <2>4. CASE ~\A b \in txn[w].past : Exists(b)
      BY <1>1, <1>4, <2>2, <2>4 DEF CommitSweep
    <2> QED
      BY <2>3, <2>4
  <1>5. ASSUME NEW w \in Workers, CommitDelete(w)
        PROVE  Atomic!Next
    BY <1>5 DEF CommitDelete, Atomic!Next, Atomic!Purge, Absent, Atomic!Absent
  <1>6. ASSUME NEW w \in Workers,
               \/ BeginBook(w) \/ BeginEnd(w) \/ BeginSweep(w) \/ BeginDelete(w)
               \/ LockAmenity(w) \/ CheckBooking(w) \/ RefuseBook(w) \/ Crash(w)
        PROVE  UNCHANGED <<booking, capacity>>
    BY <1>6 DEF BeginBook, BeginEnd, BeginSweep, BeginDelete, LockAmenity, CheckBooking,
                RefuseBook, Crash
  <1>7. CASE Outside
    <2>1. CASE UpdateAmenity
      BY <2>1 DEF UpdateAmenity, Atomic!Next, Atomic!SetCapacity
    <2>2. CASE ~UpdateAmenity
      BY <1>1, <1>7, <2>2 DEF Outside, UpsertRule, CreateSlot, DeleteSlot,
                CreateBlock, DeleteBlock, TimePasses
    <2> QED
      BY <2>1, <2>2
  <1>8. CASE UNCHANGED vars
    BY <1>1, <1>8 DEF vars
  <1> QED
    BY <1>1, <1>2, <1>3, <1>4, <1>5, <1>6, <1>7, <1>8 DEF Next, Start, Proceed

\* The transactions implement the atomic booking table: seen from the table,
\* the lock, the checks and the trigger make one step of every booking.
THEOREM BookingRefinement == Spec => BookingIsAtomic
  BY InitRefines, StepRefines, Invariance, PTL DEF Spec, BookingIsAtomic, Atomic!Spec

-----------------------------------------------------------------------------
(* Ended bookings and the deleted amenity, whatever transactions overlap     *)

\* No booking is left of a deleted amenity and none is made in it, although a
\* booking that waited for the deleted row's lock goes on (the capacity trigger).
THEOREM DeletedForGood == Spec => []NothingOutlivesAmenity
  BY Invariance, PTL DEF IInv

\* A step that writes neither b nor a transaction that would.
LEMMA StillSettled ==
  ASSUME TypeOK, NEW b \in Bookings, Settled(b), booking'[b] = booking[b],
         NEW w \in Workers, \A v \in Workers \ {w} : txn'[v] = txn[v],
         ~Overwrites(txn'[w], b)
  PROVE  Settled(b)'
  <1>1. \A v \in Workers : ~Overwrites(txn'[v], b)
    BY DEF Settled
  <1> QED
    BY <1>1 DEF Settled

\* A transaction that has finished is about to write nothing.
LEMMA FinishSettled ==
  ASSUME TypeOK, NEW b \in Bookings, Settled(b), booking'[b] = booking[b],
         NEW w \in Workers, Finish(w)
  PROVE  Settled(b)'
  <1>1. txn'[w] = Idle /\ \A v \in Workers \ {w} : txn'[v] = txn[v]
    BY DEF Finish, TypeOK
  <1>2. ~Overwrites(Idle, b)
    BY DEF Overwrites, Idle
  <1> QED
    BY <1>1, <1>2, StillSettled

\* Ending other bookings leaves b alone.
LEMMA EndsOthers ==
  ASSUME NEW b \in Bookings, NEW bs, NEW how, SetStatus(bs, how), b \notin bs
  PROVE  booking'[b] = booking[b]
  BY DEF SetStatus

\* No transaction that reads a booking after it ended goes on to write it.
LEMMA BeginLeavesSettled ==
  ASSUME TypeOK, NEW w \in Workers, Start(w), NEW b \in Bookings, Settled(b)
  PROVE  Settled(b)' /\ booking'[b] = booking[b]
  <1>1. booking'[b] = booking[b]
    BY DEF Start, BeginBook, BeginEnd, BeginSweep, BeginDelete
  <1>2. b \notin Confirmed
    BY DEF Settled, Confirmed, Final
  <1>3. ASSUME NEW t, Begin(w, t), ~Overwrites(t, b)
        PROVE  Settled(b)'
    <2>1. txn'[w] = t /\ \A v \in Workers \ {w} : txn'[v] = txn[v]
      BY <1>3 DEF Begin, TypeOK
    <2> QED
      BY <1>1, <1>3, <2>1, StillSettled
  <1>4. CASE BeginBook(w)
    <2>1. PICK s \in Slots, r \in Residents, n \in 1..MaxParty :
            Begin(w, [op |-> "waiting", slot |-> s, resident |-> r, count |-> n,
                      cap |-> Capacity(s, capacity)])
      BY <1>4, Zenon DEF BeginBook
    <2> DEFINE t == [op |-> "waiting", slot |-> s, resident |-> r, count |-> n,
                     cap |-> Capacity(s, capacity)]
    <2>2. ~Overwrites(t, b)
      BY DEF Overwrites
    <2> QED
      BY <1>1, <1>3, <2>1, <2>2
  <1>5. CASE BeginEnd(w)
    <2>1. PICK a \in Bookings, how \in EndStatus :
            MayEnd(a) /\ Begin(w, [op |-> "end", booking |-> a, how |-> how])
      BY <1>5, Zenon DEF BeginEnd
    <2>2. ~Overwrites([op |-> "end", booking |-> a, how |-> how], b)
      BY <1>2, <2>1 DEF Overwrites, MayEnd
    <2> QED
      BY <1>1, <1>3, <2>1, <2>2
  <1>6. CASE BeginSweep(w)
    <2>1. ~Overwrites([op |-> "sweep", past |-> Past], b)
      BY <1>2 DEF Overwrites, Past
    <2>2. Begin(w, [op |-> "sweep", past |-> Past])
      BY <1>6, Zenon DEF BeginSweep
    <2> QED
      BY <1>1, <1>3, <2>1, <2>2
  <1>7. CASE BeginDelete(w)
    <2>1. ~Overwrites([op |-> "delete"], b)
      BY DEF Overwrites
    <2>2. Begin(w, [op |-> "delete"])
      BY <1>7, Zenon DEF BeginDelete
    <2> QED
      BY <1>1, <1>3, <2>1, <2>2
  <1> QED
    BY <1>4, <1>5, <1>6, <1>7, <1>1 DEF Start

\* No commit but the amenity's deletion reaches a settled booking.
LEMMA ProceedLeavesSettled ==
  ASSUME TypeOK, CheckedStands, NEW w \in Workers, Proceed(w),
         NEW b \in Bookings, Settled(b), booking'[b] # Absent
  PROVE  Settled(b)' /\ booking'[b] = booking[b]
  <1>1. ~Overwrites(txn[w], b)
    BY DEF Settled
  <1>2. CASE LockAmenity(w) \/ CheckBooking(w)
    <2>1. booking'[b] = booking[b]
      BY <1>2 DEF LockAmenity, CheckBooking
    <2>2. txn[w] \in BookTxn
      BY <1>2, TxnShape DEF LockAmenity, CheckBooking, Holds, TypeOK
    <2>3. CASE Finish(w)
      BY <2>1, <2>3, FinishSettled
    <2>4. ASSUME NEW op \in {"locked", "checked"}, Stage(w, op)
          PROVE  Settled(b)'
      <3>1. /\ txn'[w].op = op
            /\ \A v \in Workers \ {w} : txn'[v] = txn[v]
        BY <2>2, <2>4 DEF Stage, TypeOK, BookTxn
      <3>2. ~Overwrites(txn'[w], b)
        BY <3>1 DEF Overwrites
      <3> QED
        BY <2>1, <3>1, <3>2, StillSettled
    <2> QED
      BY <1>2, <2>1, <2>3, <2>4 DEF LockAmenity, CheckBooking
  <1>3. CASE CommitBook(w)
    <2>1. PICK a \in Bookings :
            /\ ~Exists(a)
            /\ \A c \in Bookings \ {a} : booking'[c] = booking[c]
      BY <1>3, CommitAdds
    <2>2. a # b
      BY <2>1 DEF Settled, Exists, Final
    <2>3. booking'[b] = booking[b] /\ Finish(w)
      BY <1>3, <2>1, <2>2 DEF CommitBook
    <2> QED
      BY <2>3, FinishSettled
  <1>4. CASE RefuseBook(w) \/ Crash(w)
    BY <1>4, FinishSettled DEF RefuseBook, Crash
  <1>5. CASE CommitEnd(w)
    <2>1. b \notin {txn[w].booking}
      BY <1>1, <1>5 DEF CommitEnd, Holds, Overwrites
    <2>2. booking'[b] = booking[b] /\ Finish(w)
      BY <1>5, <2>1, EndsOthers DEF CommitEnd
    <2> QED
      BY <2>2, FinishSettled
  <1>6. CASE CommitSweep(w)
    <2>1. b \notin txn[w].past
      BY <1>1, <1>6 DEF CommitSweep, Holds, Overwrites
    <2>2. booking'[b] = booking[b] /\ Finish(w)
      BY <1>6, <2>1, EndsOthers DEF CommitSweep
    <2> QED
      BY <2>2, FinishSettled
  <1>7. CASE CommitDelete(w)
    BY <1>7 DEF CommitDelete
  <1> QED
    BY <1>2, <1>3, <1>4, <1>5, <1>6, <1>7 DEF Proceed

\* A booking that has ended and that no open transaction is about to write stays
\* as it is until the amenity goes, whatever transactions overlap (the
\* `confirmed` filters of cancel_booking, mark_booking and the closing sweep).
THEOREM SettledForGood == Spec => SettledIsFinal
  <1>1. IInv /\ [Next]_vars
          => [\A b \in Bookings : Settled(b) /\ booking'[b] # Absent
                => Settled(b)' /\ booking'[b] = booking[b]]_vars
    <2> SUFFICES ASSUME IInv, [Next]_vars, NEW b \in Bookings, Settled(b),
                        booking'[b] # Absent
                 PROVE  Settled(b)' /\ booking'[b] = booking[b]
      OBVIOUS
    <2>1. CASE Outside \/ UNCHANGED vars
      <3>1. UNCHANGED <<booking, txn>>
        BY <2>1 DEF vars, admin, Outside, UpdateAmenity, UpsertRule, CreateSlot, DeleteSlot,
                    CreateBlock, DeleteBlock, TimePasses
      <3> QED
        BY <3>1 DEF Settled
    <2> QED
      BY <2>1, BeginLeavesSettled, ProceedLeavesSettled DEF Next, IInv
  <1> QED
    BY <1>1, Invariance, PTL DEF Spec, SettledIsFinal
=============================================================================
