--------------------------- MODULE LiveScreenProofs ---------------------------
(***************************************************************************)
(* What holds of one tab for any screens, sockets, query keys and bounds:  *)
(* a screen that misses a change has something on its way, or a named      *)
(* cause, however many ticket requests and sockets the client has; and the *)
(* connection is sound, the client's part of it as long as no answer has   *)
(* replaced a socket that was still there.                                 *)
(***************************************************************************)
EXTENDS LiveScreen, SequenceTheorems, TLAPS

\* What a screen shows, or is about to show.
Seen(q) == IF fetch[q] = "read" THEN answer[q] ELSE shown[q]

\* The data: nothing is shown or answered that has not been committed, and an answer is
\* never older than what its screen shows.
Data ==
  /\ version \in 0..MaxChanges
  /\ outgoing \subseteq [change : 1..version, actor : Actors]
  /\ shown \in [Screens -> 0..version] /\ answer \in [Screens -> 0..version]
  /\ fetch \in [Screens -> {"idle", "asked", "read"}]
  /\ \A q \in Screens : fetch[q] = "read" => shown[q] <= answer[q]

\* The steps that touch none of the variables in Data.
Elsewhere ==
  \/ Mutate \/ MutationFails \/ Broker \/ RedisFails \/ Revoke
  \/ \E s \in Sockets : Hub(s) \/ Drop(s) \/ WatchdogFails(s) \/ Ticket(s) \/ Close(s) \/ Deliver(s)
  \/ \E q \in Screens : Unauthorized(q)
  \/ Client \/ Flicker

-----------------------------------------------------------------------------
(* The data. *)

LEMMA ElsewhereKeepsData ==
  ASSUME Elsewhere PROVE UNCHANGED <<version, outgoing, shown, answer, fetch>>
<1>1. CASE Mutate \/ MutationFails \/ Broker \/ RedisFails \/ Revoke
  BY <1>1 DEF Mutate, MutationFails, Broker, RedisReturns, Subscribe, RedisFails, Revoke,
              server, screens
<1>2. CASE \E s \in Sockets : Hub(s) \/ Drop(s) \/ WatchdogFails(s)
  BY <1>2 DEF Hub, Accept, Refuse, Register, Grant, Send, Watchdog, Drop, WatchdogFails,
              server, world, screens
<1>3. CASE \E s \in Sockets : Ticket(s) \/ Close(s) \/ Deliver(s)
  BY <1>3 DEF Ticket, Close, Deliver, server, screens
<1>4. CASE \E q \in Screens : Unauthorized(q)
  BY <1>4 DEF Unauthorized, world
<1>5. CASE Client \/ Flicker
  BY <1>5 DEF Client, SignIn, RetryTimer, TicketUnauthorized, TicketFails, Flicker, server,
              world, screens
<1> QED
  BY <1>1, <1>2, <1>3, <1>4, <1>5 DEF Elsewhere

LEMMA Steps ==
  ASSUME Next
  PROVE  \/ Elsewhere \/ ChangeElsewhere \/ MutationCommits \/ MutationSettles \/ Flush
         \/ \E u \in outgoing : Publish(u)
         \/ \E s \in Sockets : Open(s)
         \/ \E q \in Screens : Poll(q) \/ Read(q) \/ Show(q)
BY DEF Next, Elsewhere, Query, Mutation, PublishAny, Tab

\* A refetch leaves every screen it does not name alone.
LEMMA RefetchKeepsData ==
  ASSUME Data, NEW S, Refetch(S), UNCHANGED <<version, outgoing, shown, answer>>
  PROVE  Data'
BY DEF Data, Refetch

LEMMA CommitKeepsData ==
  ASSUME Data, NEW a \in Actors, Commit(a), UNCHANGED <<shown, answer, fetch>>
  PROVE  Data'
<1>1. version' \in 0..MaxChanges /\ version' = version + 1
  BY BoundsAssumption DEF Data, Commit
<1>2. outgoing' \subseteq [change : 1..version', actor : Actors]
  BY <1>1 DEF Data, Commit
<1>3. 0..version \subseteq 0..version'
  BY <1>1 DEF Data
<1>4. shown' \in [Screens -> 0..version'] /\ answer' \in [Screens -> 0..version']
  BY <1>3 DEF Data
<1> QED
  BY <1>1, <1>2, <1>4 DEF Data

LEMMA DataStep == ASSUME Data, [Next]_vars PROVE Data'
<1>1. ASSUME UNCHANGED <<version, outgoing, shown, answer, fetch>> PROVE Data'
  BY <1>1 DEF Data
<1>2. CASE Elsewhere
  BY <1>1, <1>2, ElsewhereKeepsData
<1>3. CASE ChangeElsewhere
  BY <1>3, CommitKeepsData DEF ChangeElsewhere, screens, Actors
<1>4. CASE MutationCommits
  BY <1>4, CommitKeepsData DEF MutationCommits, screens, Actors
<1>5. CASE MutationSettles
  BY <1>5, RefetchKeepsData DEF MutationSettles, server
<1>6. CASE Flush
  BY <1>1, <1>6, RefetchKeepsData DEF Flush, server
<1>7. ASSUME NEW u \in outgoing, Publish(u) PROVE Data'
  BY <1>7 DEF Publish, Data, screens
<1>8. ASSUME NEW s \in Sockets, Open(s) PROVE Data'
  BY <1>1, <1>8, RefetchKeepsData DEF Open, server
<1>9. ASSUME NEW q \in Screens, Poll(q) \/ Read(q) \/ Show(q) PROVE Data'
  <2>1. CASE Poll(q)
    BY <2>1 DEF Poll, Data, server
  <2>2. CASE Read(q)
    BY <2>2 DEF Read, Data, server
  <2>3. CASE Show(q)
    BY <2>3 DEF Show, Data, server
  <2> QED
    BY <1>9, <2>1, <2>2, <2>3
<1> QED
  BY <1>1, <1>2, <1>3, <1>4, <1>5, <1>6, <1>7, <1>8, <1>9, Steps DEF vars

LEMMA DataInvariant == Spec => []Data
<1>1. Init => Data
  BY BoundsAssumption DEF Init, Data
<1> QED
  BY <1>1, DataStep, PTL DEF Spec

\* A page that has been left stays left.
LEMMA HereBefore == ASSUME [Next]_vars, here' PROVE here
<1>1. CASE Mutate \/ MutationFails \/ Broker \/ RedisFails \/ Revoke
  BY <1>1 DEF Mutate, MutationFails, Broker, RedisReturns, Subscribe, RedisFails, Revoke
<1>2. CASE \E s \in Sockets : Hub(s) \/ Drop(s) \/ WatchdogFails(s)
  BY <1>2 DEF Hub, Accept, Refuse, Register, Grant, Send, Watchdog, Drop, WatchdogFails
<1>3. CASE \E s \in Sockets : Ticket(s) \/ Close(s) \/ Deliver(s) \/ Open(s)
  BY <1>3 DEF Ticket, Close, Deliver, Open
<1>4. CASE \E q \in Screens : Query(q)
  BY <1>4 DEF Query, Poll, Read, Show, Unauthorized
<1>5. CASE Client \/ Flicker \/ Flush
  BY <1>5 DEF Client, SignIn, RetryTimer, TicketUnauthorized, TicketFails, Flicker, Flush
<1>6. CASE ChangeElsewhere \/ MutationCommits \/ MutationSettles \/ PublishAny
  BY <1>6 DEF ChangeElsewhere, MutationCommits, MutationSettles, PublishAny, Publish
<1>7. CASE UNCHANGED vars
  BY <1>7 DEF vars
<1> QED
  BY <1>1, <1>2, <1>3, <1>4, <1>5, <1>6, <1>7 DEF Next, Mutation, Tab

-----------------------------------------------------------------------------
(* The records and what the operators do to them. *)

Conns ==
  [client : {"none", "connecting", "open"}, server : {"none", "accepted", "registered", "gone"},
   granted : BOOLEAN, subscribe : BOOLEAN, outbox : Seq(Hints), wire : Seq(Hints),
   sender : {"get", "sent"}, overflowed : BOOLEAN, watched : BOOLEAN]

Clients ==
  [wanted : BOOLEAN, status : {"idle", "connecting", "open", "closed"}, ws : Sockets \cup {0},
   failed : Nat, tickets : Nat, retry : BOOLEAN, stray : Nat, wasDown : BOOLEAN,
   replaced : BOOLEAN]

Bridges == [pending : SUBSET Screens, resync : BOOLEAN, timer : BOOLEAN]

\* b is connection a with nothing changed but the state of its outbox.
SameEnds(a, b) ==
  /\ b.client = a.client /\ b.server = a.server
  /\ b.granted = a.granted /\ b.subscribe = a.subscribe

\* A message that is on the connection, and one that stands for all of them.
On(c, m) ==
  \/ \E i \in DOMAIN c.outbox : c.outbox[i] = m
  \/ \E i \in DOMAIN c.wire : c.wire[i] = m

\* Whatever a carries, b carries too, or will replace by a resync.
CarriesOn(a, b) ==
  /\ a.overflowed => b.overflowed \/ On(b, Resync)
  /\ \A m \in Hints : On(a, m) => On(b, m)

\* An overflow that will end in a resync.
OverflowEnds(c) == c.overflowed => c.outbox # <<>> \/ c.sender = "sent"

LEMMA HintTypes ==
  /\ Resync \in Hints /\ Hello \in Hints /\ Community \in Hints /\ Personal \in Hints
  /\ Community # Hello /\ Personal # Hello /\ Resync # Hello
  /\ Hello.type = "hello" /\ Resync.type = "resync"
  /\ Community.type = "invalidate" /\ Personal.type = "invalidate"
BY DEF Hints, Resync, Hello, Community, Personal

LEMMA RestTypes ==
  /\ NoConn \in Conns /\ NoConn.client = "none" /\ NoConn.server = "none"
  /\ ~NoConn.overflowed /\ NoConn.outbox = <<>> /\ NoConn.wire = <<>>
  /\ Idle \in Clients /\ Quiet \in Bridges
<1>1. <<>> \in Seq(Hints)
  OBVIOUS
<1> QED
  BY <1>1 DEF NoConn, Conns, Idle, Clients, Quiet, Bridges

\* One offer, in connection c, of message m.
LEMMA OfferFacts ==
  ASSUME NEW c \in Conns, NEW m \in Hints
  PROVE  /\ Offer(c, m) \in Conns /\ SameEnds(c, Offer(c, m)) /\ CarriesOn(c, Offer(c, m))
         /\ Offer(c, m).overflowed \/ On(Offer(c, m), m)
         /\ OverflowEnds(c) => OverflowEnds(Offer(c, m))
<1>1. CASE c.overflowed
  BY <1>1 DEF Offer, SameEnds, CarriesOn
<1>2. CASE ~c.overflowed /\ Len(c.outbox) < OutboxSize
  <2> DEFINE b == Append(c.outbox, m)
  <2>1. /\ c.outbox \in Seq(Hints) /\ b \in Seq(Hints) /\ DOMAIN b = 1..Len(c.outbox) + 1
        /\ b[Len(c.outbox) + 1] = m /\ \A i \in DOMAIN c.outbox : i \in DOMAIN b /\ b[i] = c.outbox[i]
    BY DEF Conns
  <2>2. Offer(c, m) = [c EXCEPT !.outbox = b]
    BY <1>2 DEF Offer
  <2> HIDE DEF b
  <2>3. /\ Offer(c, m) \in Conns /\ SameEnds(c, Offer(c, m)) /\ Offer(c, m).outbox = b
        /\ Offer(c, m).wire = c.wire /\ Offer(c, m).overflowed = FALSE
    BY <1>2, <2>1, <2>2 DEF Conns, SameEnds
  <2>4. Len(c.outbox) + 1 \in DOMAIN b
    BY <2>1, LenProperties
  <2>5. On(Offer(c, m), m)
    BY <2>1, <2>3, <2>4 DEF On
  <2>6. CarriesOn(c, Offer(c, m))
    <3>1. ASSUME NEW k \in Hints, On(c, k) PROVE On(Offer(c, m), k)
      BY <2>1, <2>3, <3>1 DEF On
    <3> QED
      BY <1>2, <3>1 DEF CarriesOn
  <2> QED
    BY <2>3, <2>5, <2>6 DEF OverflowEnds
<1>3. CASE ~c.overflowed /\ ~(Len(c.outbox) < OutboxSize)
  <2>1. Offer(c, m) = [c EXCEPT !.overflowed = TRUE]
    BY <1>3 DEF Offer
  <2>2. /\ Offer(c, m) \in Conns /\ SameEnds(c, Offer(c, m)) /\ Offer(c, m).overflowed = TRUE
        /\ Offer(c, m).wire = c.wire /\ Offer(c, m).outbox = c.outbox
    BY <2>1 DEF Conns, SameEnds
  <2>3. c.outbox # <<>>
    BY <1>3, OutboxAssumption DEF Conns
  <2> QED
    BY <1>3, <2>2, <2>3 DEF CarriesOn, On, OverflowEnds
<1> QED
  BY <1>1, <1>2, <1>3

LEMMA CarriesOnTrans ==
  ASSUME NEW a, NEW b, NEW c, CarriesOn(a, b), CarriesOn(b, c)
  PROVE  CarriesOn(a, c)
<1>1. Resync \in Hints
  BY HintTypes
<1> QED
  BY <1>1, Zenon DEF CarriesOn

\* The hints of one change: at most two, each a message of the protocol.
LEMMA HintsForCases ==
  ASSUME NEW s, NEW a
  PROVE  HintsFor(s, a) \in {<<>>, <<Community>>, <<Personal>>, <<Community, Personal>>}
<1>1. ASSUME NEW x, NEW y
      PROVE  /\ <<>> \o <<>> = <<>> /\ <<>> \o <<y>> = <<y>> /\ <<x>> \o <<>> = <<x>>
             /\ <<x>> \o <<y>> = <<x, y>>
  <2>1. <<x>> \in Seq({x, y}) /\ <<y>> \in Seq({x, y}) /\ <<>> \in Seq({x, y})
    OBVIOUS
  <2>2. <<x>> \o <<y>> \in Seq({x, y}) /\ Len(<<x>> \o <<y>>) = 2
    BY <2>1
  <2>3. (<<x>> \o <<y>>)[1] = x /\ (<<x>> \o <<y>>)[2] = y
    BY <2>1
  <2>4. <<x>> \o <<y>> = <<x, y>>
    <3>1. /\ <<x, y>> \in Seq({x, y}) /\ Len(<<x, y>>) = 2
          /\ <<x, y>>[1] = x /\ <<x, y>>[2] = y
      OBVIOUS
    <3>2. \A i \in 1..2 : (<<x>> \o <<y>>)[i] = <<x, y>>[i]
      BY <2>3, <3>1
    <3> QED
      BY <2>2, <3>1, <3>2, SeqEqual
  <2> QED
    BY <2>1, <2>4
<1> QED
  BY <1>1 DEF HintsFor

LEMMA OfferAllFacts ==
  ASSUME NEW c \in Conns, NEW ms \in {<<>>, <<Community>>, <<Personal>>, <<Community, Personal>>}
  PROVE  /\ OfferAll(c, ms) \in Conns /\ SameEnds(c, OfferAll(c, ms)) /\ CarriesOn(c, OfferAll(c, ms))
         /\ \A i \in DOMAIN ms : OfferAll(c, ms).overflowed \/ On(OfferAll(c, ms), ms[i])
                                   \/ On(OfferAll(c, ms), Resync)
         /\ OverflowEnds(c) => OverflowEnds(OfferAll(c, ms))
<1>1. CASE ms = <<>>
  BY <1>1 DEF OfferAll, SameEnds, CarriesOn
<1>2. ASSUME NEW m \in {Community, Personal}, ms = <<m>>
      PROVE  /\ OfferAll(c, ms) = Offer(c, m) /\ m \in Hints
             /\ \A i \in DOMAIN ms : ms[i] = m
  BY <1>2, HintTypes DEF OfferAll
<1>3. CASE ms = <<Community, Personal>>
  <2> DEFINE d == Offer(c, Community)
             e == Offer(d, Personal)
  <2>1. OfferAll(c, ms) = e
    BY <1>3 DEF OfferAll
  <2>2. \A i \in DOMAIN ms : ms[i] = Community \/ ms[i] = Personal
    BY <1>3
  <2>3. /\ d \in Conns /\ SameEnds(c, d) /\ CarriesOn(c, d) /\ (d.overflowed \/ On(d, Community))
        /\ OverflowEnds(c) => OverflowEnds(d)
    BY OfferFacts, HintTypes
  <2>4. /\ e \in Conns /\ SameEnds(d, e) /\ CarriesOn(d, e) /\ (e.overflowed \/ On(e, Personal))
        /\ OverflowEnds(d) => OverflowEnds(e)
    BY OfferFacts, HintTypes, <2>3
  <2> HIDE DEF d, e
  <2>5. SameEnds(c, e) /\ CarriesOn(c, e)
    BY <2>3, <2>4, CarriesOnTrans DEF SameEnds
  <2>6. e.overflowed \/ On(e, Community) \/ On(e, Resync)
    BY <2>3, <2>4, HintTypes DEF CarriesOn
  <2> QED
    BY <2>1, <2>2, <2>3, <2>4, <2>5, <2>6
<1> QED
  BY <1>1, <1>2, <1>3, OfferFacts, HintTypes

\* The sender: a message moves to the wire, or a resync replaces what was dropped.
LEMMA SenderFacts ==
  ASSUME NEW c \in Conns, NEW d, \/ CanTake(c) /\ d = Take(c)
                                 \/ CanCheck(c) /\ d = Check(c)
  PROVE  /\ d \in Conns /\ SameEnds(c, d) /\ CarriesOn(c, d)
         /\ OverflowEnds(c) => OverflowEnds(d)
         /\ ~c.overflowed => ~d.overflowed
<1>0. c.outbox \in Seq(Hints) /\ c.wire \in Seq(Hints)
  BY DEF Conns
<1>1. CASE CanTake(c) /\ d = Take(c)
  <2> DEFINE h == Head(c.outbox)
             t == Tail(c.outbox)
             w == Append(c.wire, h)
  <2>1. c.outbox # <<>>
    BY <1>1 DEF CanTake
  <2>2. /\ h \in Hints /\ t \in Seq(Hints) /\ w \in Seq(Hints)
        /\ DOMAIN w = 1..Len(c.wire) + 1 /\ w[Len(c.wire) + 1] = h
        /\ \A i \in DOMAIN c.wire : i \in DOMAIN w /\ w[i] = c.wire[i]
    BY <1>0, <2>1
  <2>3. \A i \in DOMAIN c.outbox : c.outbox[i] = h \/ (i - 1 \in DOMAIN t /\ t[i - 1] = c.outbox[i])
    BY <1>0, <2>1
  <2>4. d = [c EXCEPT !.outbox = t, !.wire = w, !.sender = "sent"]
    BY <1>1 DEF Take
  <2>5. Len(c.wire) + 1 \in DOMAIN w
    BY <1>0, <2>2, LenProperties
  <2> HIDE DEF h, t, w
  <2>6. /\ d \in Conns /\ SameEnds(c, d) /\ d.outbox = t /\ d.wire = w /\ d.sender = "sent"
        /\ d.overflowed = c.overflowed
    BY <2>2, <2>4 DEF Conns, SameEnds
  <2>7. ASSUME NEW m \in Hints, On(c, m) PROVE On(d, m)
    BY <2>2, <2>3, <2>5, <2>6, <2>7 DEF On
  <2> QED
    BY <2>6, <2>7 DEF CarriesOn, OverflowEnds
<1>2. CASE CanCheck(c) /\ d = Check(c) /\ c.overflowed /\ c.outbox = <<>>
  <2> DEFINE w == Append(c.wire, Resync)
  <2>1. /\ w \in Seq(Hints) /\ DOMAIN w = 1..Len(c.wire) + 1 /\ w[Len(c.wire) + 1] = Resync
        /\ \A i \in DOMAIN c.wire : i \in DOMAIN w /\ w[i] = c.wire[i]
    BY <1>0, HintTypes
  <2>2. d = [c EXCEPT !.overflowed = FALSE, !.wire = w, !.sender = "get"]
    BY <1>2 DEF Check
  <2>3. Len(c.wire) + 1 \in DOMAIN w
    BY <1>0, <2>1, LenProperties
  <2> HIDE DEF w
  <2>4. /\ d \in Conns /\ SameEnds(c, d) /\ d.outbox = c.outbox /\ d.wire = w
        /\ d.overflowed = FALSE
    BY <2>1, <2>2 DEF Conns, SameEnds
  <2>5. ASSUME NEW m \in Hints, On(c, m) PROVE On(d, m)
    BY <2>1, <2>4, <2>5 DEF On
  <2>6. On(d, Resync)
    BY <2>1, <2>3, <2>4 DEF On
  <2> QED
    BY <2>4, <2>5, <2>6 DEF CarriesOn, OverflowEnds
<1>3. CASE CanCheck(c) /\ d = Check(c) /\ ~(c.overflowed /\ c.outbox = <<>>)
  <2>1. d = [c EXCEPT !.sender = "get"]
    BY <1>3 DEF Check
  <2>2. /\ d \in Conns /\ SameEnds(c, d) /\ d.outbox = c.outbox /\ d.wire = c.wire
        /\ d.overflowed = c.overflowed
    BY <2>1 DEF Conns, SameEnds
  <2> QED
    BY <1>3, <2>2 DEF CarriesOn, On, OverflowEnds
<1> QED
  BY <1>1, <1>2, <1>3

\* setStatus and what is built on it: which fields each leaves alone.
LEMMA SetStatusFacts ==
  ASSUME NEW c \in Clients, NEW st \in {"idle", "connecting", "open", "closed"}
  PROVE  /\ SetStatus(c, st) \in Clients /\ SetStatus(c, st).status = st
         /\ SetStatus(c, st).wanted = c.wanted /\ SetStatus(c, st).ws = c.ws
         /\ SetStatus(c, st).failed = c.failed /\ SetStatus(c, st).tickets = c.tickets
         /\ SetStatus(c, st).retry = c.retry /\ SetStatus(c, st).stray = c.stray
         /\ SetStatus(c, st).replaced = c.replaced
BY DEF SetStatus, Clients

LEMMA ScheduleRetryFacts ==
  ASSUME NEW c \in Clients
  PROVE  /\ ScheduleRetry(c) \in Clients
         /\ ScheduleRetry(c).wanted = c.wanted /\ ScheduleRetry(c).ws = c.ws
         /\ ScheduleRetry(c).failed = c.failed /\ ScheduleRetry(c).replaced = c.replaced
         /\ ~c.wanted => ScheduleRetry(c) = c
         /\ c.wanted => /\ ScheduleRetry(c).status = "closed"
                        /\ ScheduleRetry(c).retry \/ ScheduleRetry(c).failed >= MaxFailed
<1>1. CASE ~c.wanted
  BY <1>1 DEF ScheduleRetry
<1>2. CASE c.wanted
  <2> DEFINE d == SetStatus(c, "closed")
             t == IF d.retry THEN d.stray + 1 ELSE d.stray
             e == [d EXCEPT !.retry = TRUE]
             f == [e EXCEPT !.stray = t]
  <2>1. /\ d \in Clients /\ d.status = "closed" /\ d.wanted = c.wanted /\ d.ws = c.ws
        /\ d.failed = c.failed /\ d.replaced = c.replaced /\ d.stray \in Nat
    BY SetStatusFacts DEF Clients
  <2>2. ScheduleRetry(c) = IF d.failed >= MaxFailed THEN d ELSE f
    BY <1>2 DEF ScheduleRetry
  <2>3. MaxFailed \in Nat /\ d.failed \in Nat /\ t \in Nat
    BY <2>1, BoundsAssumption DEF Clients
  <2> HIDE DEF d, t
  <2>4. /\ e \in Clients /\ e.status = d.status /\ e.wanted = d.wanted /\ e.ws = d.ws
        /\ e.failed = d.failed /\ e.replaced = d.replaced /\ e.retry
    BY <2>1 DEF Clients
  <2> HIDE DEF e
  <2>5. /\ f \in Clients /\ f.status = e.status /\ f.wanted = e.wanted /\ f.ws = e.ws
        /\ f.failed = e.failed /\ f.replaced = e.replaced /\ f.retry = e.retry
    BY <2>3, <2>4 DEF Clients
  <2> HIDE DEF f
  <2> QED
    BY <1>2, <2>1, <2>2, <2>4, <2>5
<1> QED
  BY <1>1, <1>2 DEF Clients

LEMMA ConnectFacts ==
  ASSUME NEW c \in Clients
  PROVE  /\ Connect(c) \in Clients
         /\ Connect(c).wanted = c.wanted /\ Connect(c).ws = c.ws
         /\ Connect(c).replaced = c.replaced
         /\ ~c.wanted => Connect(c) = c
         /\ c.wanted => Connect(c).status = "connecting" /\ Connect(c).tickets > 0
<1>1. CASE ~c.wanted
  BY <1>1 DEF Connect
<1>2. CASE c.wanted
  <2> DEFINE d == SetStatus(c, "connecting")
  <2>1. /\ d \in Clients /\ d.status = "connecting" /\ d.wanted = c.wanted /\ d.ws = c.ws
        /\ d.replaced = c.replaced
    BY SetStatusFacts
  <2>2. Connect(c) = [d EXCEPT !.tickets = d.tickets + 1]
    BY <1>2 DEF Connect
  <2> HIDE DEF d
  <2>3. /\ Connect(c) \in Clients /\ Connect(c).status = d.status /\ Connect(c).wanted = d.wanted
        /\ Connect(c).ws = d.ws /\ Connect(c).replaced = d.replaced
        /\ Connect(c).tickets > 0
    BY <2>1, <2>2 DEF Clients
  <2> QED
    BY <1>2, <2>1, <2>3
<1> QED
  BY <1>1, <1>2 DEF Clients

LEMMA StartFacts ==
  ASSUME NEW c \in Clients
  PROVE  /\ Start(c) \in Clients
         /\ Start(c).ws = c.ws /\ Start(c).replaced = c.replaced
         /\ c.wanted => Start(c) = c
         /\ ~c.wanted => Start(c).status = "connecting" /\ Start(c).tickets > 0
<1>1. CASE c.wanted
  BY <1>1 DEF Start
<1>2. CASE ~c.wanted
  <2> DEFINE d == [c EXCEPT !.wanted = TRUE]
  <2>1. d \in Clients /\ d.wanted = TRUE /\ d.ws = c.ws /\ d.replaced = c.replaced
    BY DEF Clients
  <2>2. Start(c) = Connect(d)
    BY <1>2 DEF Start
  <2> HIDE DEF d
  <2> QED
    BY <1>2, <2>1, <2>2, ConnectFacts
<1> QED
  BY <1>1, <1>2 DEF Clients

LEMMA StopFacts ==
  ASSUME NEW c \in Clients
  PROVE  /\ Stop(c) \in Clients /\ Stop(c).replaced = c.replaced
         /\ ~Stop(c).wanted /\ Stop(c).ws = 0 /\ Stop(c).status = "idle"
<1> DEFINE d == SetStatus(c, "idle")
           e == [d EXCEPT !.wanted = FALSE, !.ws = 0]
           f == [e EXCEPT !.failed = 0]
<1>1. d \in Clients /\ d.status = "idle" /\ d.replaced = c.replaced
  BY SetStatusFacts
<1>2. Stop(c) = [f EXCEPT !.retry = FALSE]
  BY DEF Stop
<1> HIDE DEF d
<1>3. e \in Clients /\ e.ws = 0 /\ ~e.wanted /\ e.status = d.status /\ e.replaced = d.replaced
  BY <1>1 DEF Clients
<1> HIDE DEF e
<1>4. /\ f \in Clients /\ f.ws = e.ws /\ f.wanted = e.wanted
      /\ f.status = e.status /\ f.replaced = e.replaced
  BY <1>3 DEF Clients
<1> HIDE DEF f
<1>5. /\ Stop(c) \in Clients /\ Stop(c).ws = f.ws /\ Stop(c).wanted = f.wanted
      /\ Stop(c).status = f.status /\ Stop(c).replaced = f.replaced
  BY <1>2, <1>4 DEF Clients
<1> QED
  BY <1>1, <1>3, <1>4, <1>5

LEMMA AnsweredFacts ==
  ASSUME client \in Clients, client.tickets > 0
  PROVE  /\ Answered \in Clients
         /\ Answered.wanted = client.wanted /\ Answered.ws = client.ws
         /\ Answered.failed = client.failed /\ Answered.replaced = client.replaced
         /\ Answered.status = client.status
BY DEF Answered, Clients

-----------------------------------------------------------------------------
(* Types. *)

Kept ==
  /\ net \in Nets /\ ownKeys \in Owns
  /\ {redis, subscriber, session, me, here} \subseteq BOOLEAN
  /\ conn \in [Sockets -> Conns] /\ client \in Clients /\ bridge \in Bridges
  /\ mutating \in {"no", "sent", "done"}
  /\ lost \in [Screens -> SUBSET Causes]
  /\ faults \in 0..MaxFaults

\* What a connection's two ends can rely on: only a registered one carries anything, and
\* its overflow ends.
ConnSound(c) ==
  /\ c.server # "registered" => ~c.overflowed /\ c.outbox = <<>> /\ c.wire = <<>>
  /\ c.server = "registered" => OverflowEnds(c)

\* The hub's end of socket s takes a step: the connection becomes d, and the socket is hung
\* up or carries what it carried.
HubStep(s, d) ==
  /\ conn' = [conn EXCEPT ![s] = d]
  /\ d \in Conns /\ d.client = conn[s].client
  /\ conn[s] # NoConn /\ conn[s].server # "gone"
  /\ ConnSound(conn[s]) => ConnSound(d)
  /\ \/ HangUp(s) /\ d.server = "gone"
     \/ CarriesOn(conn[s], d) /\ UNCHANGED lost

LEMMA HubSteps ==
  ASSUME Kept, NEW s \in Sockets, Hub(s) \/ Drop(s) \/ WatchdogFails(s)
  PROVE  \E d : HubStep(s, d)
<1> DEFINE c == conn[s]
<1>1. c \in Conns /\ c.outbox \in Seq(Hints) /\ c.wire \in Seq(Hints)
  BY DEF Kept, Conns
<1>2. c.client # "none" \/ c.server # "none" => c # NoConn
  BY RestTypes
<1>3. CASE Accept(s)
  <2> DEFINE d == [c EXCEPT !.server = "accepted"]
  <2>1. conn' = [conn EXCEPT ![s] = d] /\ c.client = "connecting" /\ c.server = "none"
    BY <1>3 DEF Accept, Kept
  <2>a. UNCHANGED lost
    BY <1>3 DEF Accept
  <2>2. /\ d \in Conns /\ d.client = c.client /\ d.server = "accepted" /\ d.outbox = c.outbox
        /\ d.wire = c.wire /\ d.overflowed = c.overflowed
    BY <1>1 DEF Conns
  <2>3. HubStep(s, d)
    BY <1>2, <2>a, <2>1, <2>2 DEF HubStep, ConnSound, CarriesOn, On
  <2> QED
    BY <2>3
<1>4. CASE Refuse(s)
  <2> DEFINE d == [c EXCEPT !.server = "gone"]
  <2>1. conn' = [conn EXCEPT ![s] = d] /\ c.client = "connecting" /\ c.server = "none"
    BY <1>4 DEF Refuse, Kept
  <2>2. /\ d \in Conns /\ d.client = c.client /\ d.server = "gone" /\ d.outbox = c.outbox
        /\ d.wire = c.wire /\ d.overflowed = c.overflowed
    BY <1>1 DEF Conns
  <2>3. UNCHANGED lost
    BY <1>4 DEF Refuse
  <2>4. HubStep(s, d)
    BY <1>2, <2>1, <2>2, <2>3 DEF HubStep, ConnSound, CarriesOn, On
  <2> QED
    BY <2>4
<1>5. CASE Register(s)
  <2> DEFINE w == Append(c.wire, Hello)
  <2>1. PICK g \in BOOLEAN :
          conn' = [conn EXCEPT ![s] = [c EXCEPT !.server = "registered", !.granted = g,
                                                !.watched = TRUE, !.wire = w]]
    BY <1>5 DEF Register, Kept
  <2>2. c.server = "accepted" /\ UNCHANGED lost
    BY <1>5 DEF Register
  <2>3. /\ w \in Seq(Hints) /\ \A i \in DOMAIN c.wire : i \in DOMAIN w /\ w[i] = c.wire[i]
    BY <1>1, HintTypes
  <2> DEFINE d == [c EXCEPT !.server = "registered", !.granted = g, !.watched = TRUE, !.wire = w]
  <2> HIDE DEF w
  <2>4. /\ d \in Conns /\ d.client = c.client /\ d.server = "registered" /\ d.outbox = c.outbox
        /\ d.wire = w /\ d.overflowed = c.overflowed
    BY <1>1, <2>3 DEF Conns
  <2>5. conn' = [conn EXCEPT ![s] = d]
    BY <2>1
  <2> HIDE DEF d
  <2>6. CarriesOn(c, d)
    <3>1. ASSUME NEW m \in Hints, On(c, m) PROVE On(d, m)
      BY <2>3, <2>4, <3>1 DEF On
    <3> QED
      BY <2>4, <3>1 DEF CarriesOn
  <2>7. HubStep(s, d)
    BY <1>2, <2>2, <2>4, <2>5, <2>6 DEF HubStep, ConnSound, OverflowEnds
  <2> QED
    BY <2>7
<1>6. CASE Grant(s)
  <2> DEFINE d == [c EXCEPT !.granted = TRUE, !.subscribe = FALSE]
  <2>1. conn' = [conn EXCEPT ![s] = d] /\ c.server = "registered" /\ UNCHANGED lost
    BY <1>6 DEF Grant, Registered, Kept
  <2>2. /\ d \in Conns /\ d.client = c.client /\ d.server = c.server /\ d.outbox = c.outbox
        /\ d.wire = c.wire /\ d.overflowed = c.overflowed /\ d.sender = c.sender
    BY <1>1 DEF Conns
  <2>3. HubStep(s, d)
    BY <1>2, <2>1, <2>2 DEF HubStep, ConnSound, CarriesOn, On, OverflowEnds
  <2> QED
    BY <2>3
<1>7. CASE Send(s)
  <2>1. PICK d : /\ conn' = [conn EXCEPT ![s] = d]
                 /\ \/ CanTake(c) /\ d = Take(c)
                    \/ CanCheck(c) /\ d = Check(c)
    <3>1. CASE CanTake(c) /\ conn' = [conn EXCEPT ![s] = Take(c)]
      BY <3>1
    <3>2. CASE CanCheck(c) /\ conn' = [conn EXCEPT ![s] = Check(c)]
      BY <3>2
    <3> QED
      BY <1>7, <3>1, <3>2 DEF Send, Kept
  <2>2. c.server = "registered" /\ UNCHANGED lost
    BY <1>7 DEF Send, Registered
  <2>3. /\ d \in Conns /\ SameEnds(c, d) /\ CarriesOn(c, d)
        /\ OverflowEnds(c) => OverflowEnds(d)
    BY <1>1, <2>1, SenderFacts
  <2>4. HubStep(s, d)
    BY <1>2, <2>1, <2>2, <2>3 DEF HubStep, ConnSound, SameEnds
  <2> QED
    BY <2>4
<1>8. CASE Watchdog(s) \/ Drop(s)
  <2> DEFINE d == [c EXCEPT !.server = "gone", !.outbox = <<>>, !.wire = <<>>,
                            !.overflowed = FALSE]
  <2>1. /\ HangUp(s) /\ conn' = [conn EXCEPT ![s] = d]
        /\ c.server # "gone" /\ (c.client # "none" \/ c.server # "none")
    BY <1>8 DEF Watchdog, Drop, HangUp, Registered, Kept
  <2>2. <<>> \in Seq(Hints)
    OBVIOUS
  <2>3. /\ d \in Conns /\ d.client = c.client /\ d.server = "gone"
        /\ d.outbox = <<>> /\ d.wire = <<>> /\ ~d.overflowed
    BY <1>1, <2>2 DEF Conns
  <2> HIDE DEF d
  <2>4. HubStep(s, d)
    BY <1>2, <2>1, <2>3 DEF HubStep, ConnSound
  <2> QED
    BY <2>4
<1>9. CASE WatchdogFails(s)
  <2> DEFINE d == [c EXCEPT !.watched = FALSE]
  <2>1. conn' = [conn EXCEPT ![s] = d] /\ c.server = "registered" /\ UNCHANGED lost
    BY <1>9 DEF WatchdogFails, Registered, Kept
  <2>2. /\ d \in Conns /\ d.client = c.client /\ d.server = c.server /\ d.outbox = c.outbox
        /\ d.wire = c.wire /\ d.overflowed = c.overflowed /\ d.sender = c.sender
    BY <1>1 DEF Conns
  <2>3. HubStep(s, d)
    BY <1>2, <2>1, <2>2 DEF HubStep, ConnSound, CarriesOn, On, OverflowEnds
  <2> QED
    BY <2>3
<1> QED
  BY <1>3, <1>4, <1>5, <1>6, <1>7, <1>8, <1>9 DEF Hub

\* Dispatch leaves a connection that is not registered alone and offers the others the hints.
Dispatched(a) ==
  conn' = [s \in Sockets |->
             IF redis /\ subscriber THEN OfferAll(conn[s], HintsFor(s, a)) ELSE conn[s]]

LEMMA DispatchFacts ==
  ASSUME conn \in [Sockets -> Conns], NEW a, Dispatched(a), NEW s \in Sockets
  PROVE  /\ conn'[s] \in Conns /\ SameEnds(conn[s], conn'[s]) /\ CarriesOn(conn[s], conn'[s])
         /\ ConnSound(conn[s]) => ConnSound(conn'[s])
         /\ conn[s] = NoConn => conn'[s] = NoConn
         /\ redis /\ subscriber => \A i \in DOMAIN HintsFor(s, a) :
              conn'[s].overflowed \/ On(conn'[s], HintsFor(s, a)[i]) \/ On(conn'[s], Resync)
<1> DEFINE c == conn[s]
           d == OfferAll(c, HintsFor(s, a))
<1>1. c \in Conns /\ conn'[s] = IF redis /\ subscriber THEN d ELSE c
  BY DEF Dispatched
<1>2. /\ d \in Conns /\ SameEnds(c, d) /\ CarriesOn(c, d)
      /\ \A i \in DOMAIN HintsFor(s, a) : d.overflowed \/ On(d, HintsFor(s, a)[i]) \/ On(d, Resync)
      /\ OverflowEnds(c) => OverflowEnds(d)
  BY <1>1, OfferAllFacts, HintsForCases
<1>3. c.server # "registered" => d = c
  BY DEF HintsFor, OfferAll, Registered
<1>4. SameEnds(c, c) /\ CarriesOn(c, c)
  BY DEF SameEnds, CarriesOn
<1>5. NoConn.server = "none"
  BY RestTypes
<1>6. ConnSound(c) => ConnSound(d)
  <2>1. CASE c.server # "registered"
    BY <1>3, <2>1
  <2>2. CASE c.server = "registered"
    BY <1>2, <2>2 DEF SameEnds, ConnSound
  <2> QED
    BY <2>1, <2>2
<1> HIDE DEF c, d
<1>7. /\ conn'[s] \in Conns /\ SameEnds(c, conn'[s]) /\ CarriesOn(c, conn'[s])
      /\ ConnSound(c) => ConnSound(conn'[s])
      /\ c = NoConn => conn'[s] = NoConn
      /\ redis /\ subscriber => conn'[s] = d
  BY <1>1, <1>2, <1>3, <1>4, <1>5, <1>6
<1> QED
  BY <1>2, <1>7 DEF c

LEMMA BridgeType ==
  ASSUME bridge \in Bridges, NEW m \in Hints PROVE OnHint(m) \in Bridges
<1>1. m.module \in DOMAIN Keys => KeysOf(m) \subseteq Screens
  BY ScreensAssumption DEF KeysOf
<1> QED
  BY <1>1 DEF OnHint, Bridges

LEMMA MissType ==
  ASSUME lost \in [Screens -> SUBSET Causes], NEW S, NEW cause \in Causes,
         Miss(S, cause) \/ UNCHANGED lost
  PROVE  lost' \in [Screens -> SUBSET Causes]
BY DEF Miss

LEMMA FaultType ==
  ASSUME faults \in 0..MaxFaults, Fault PROVE faults' \in 0..MaxFaults /\ faults' = faults + 1
BY BoundsAssumption DEF Fault

\* The connection a client's steps leave behind.
LEMMA CloseOwnType ==
  ASSUME conn \in [Sockets -> Conns], CloseOwn
  PROVE  /\ conn' \in [Sockets -> Conns]
         /\ \A s \in Sockets : conn'[s] = IF s = client.ws THEN NoConn ELSE conn[s]
BY RestTypes DEF CloseOwn

\* b is connection a, but for a subscribe on its way.
SameButSubscribe(a, b) ==
  /\ b.client = a.client /\ b.server = a.server /\ b.outbox = a.outbox /\ b.wire = a.wire
  /\ b.sender = a.sender /\ b.overflowed = a.overflowed

LEMMA DeliverFacts ==
  ASSUME conn \in [Sockets -> Conns], NEW s \in Sockets, Deliver(s)
  PROVE  LET m == Head(conn[s].wire) IN
           /\ conn' \in [Sockets -> Conns]
           /\ \A r \in Sockets \ {s} : SameButSubscribe(conn[r], conn'[r])
           /\ m \in Hints /\ conn[s].client = "open" /\ conn[s].wire # <<>>
           /\ conn'[s].client = "open" /\ conn'[s].server = conn[s].server
           /\ conn'[s].outbox = conn[s].outbox /\ conn'[s].sender = conn[s].sender
           /\ conn'[s].overflowed = conn[s].overflowed
           /\ \A k \in Hints : On(conn[s], k) => k = m \/ On(conn'[s], k)
           /\ m = Hello \/ bridge' = OnHint(m)
           /\ m = Hello => UNCHANGED bridge
<1> DEFINE c == conn[s]
           m == Head(c.wire)
           w == Tail(c.wire)
           t(r) == IF r = s THEN w ELSE conn[r].wire
           b(r) == conn[r].subscribe \/ (r = client.ws /\ conn[r].client = "open" /\ ~c.granted)
<1>1. c \in Conns /\ c.wire \in Seq(Hints) /\ c.wire # <<>> /\ c.client = "open"
  BY DEF Deliver, Conns
<1>2. /\ m \in Hints /\ w \in Seq(Hints)
      /\ \A i \in DOMAIN c.wire : c.wire[i] = m \/ (i - 1 \in DOMAIN w /\ w[i - 1] = c.wire[i])
  BY <1>1
<1>3. \A r \in Sockets : conn[r] \in Conns /\ t(r) \in Seq(Hints) /\ b(r) \in BOOLEAN
  BY <1>2 DEF Conns
<1>4. /\ m = Hello \/ bridge' = OnHint(m)
      /\ m = Hello => UNCHANGED bridge
  BY DEF Deliver
<1>5. CASE m = Hello
  <2>1. conn' = [r \in Sockets |-> [conn[r] EXCEPT !.wire = t(r), !.subscribe = b(r)]]
    BY <1>5 DEF Deliver
  <2> HIDE DEF t, b
  <2>2. ASSUME NEW r \in Sockets
        PROVE  /\ conn'[r] \in Conns /\ conn'[r].wire = t(r)
               /\ conn'[r].client = conn[r].client /\ conn'[r].server = conn[r].server
               /\ conn'[r].outbox = conn[r].outbox /\ conn'[r].sender = conn[r].sender
               /\ conn'[r].overflowed = conn[r].overflowed
    <3>1. conn'[r] = [conn[r] EXCEPT !.wire = t(r), !.subscribe = b(r)]
      BY <2>1
    <3> QED
      BY <1>3, <3>1 DEF Conns
  <2>3. conn' \in [Sockets -> Conns]
    BY <2>1, <2>2
  <2>4. \A r \in Sockets \ {s} : SameButSubscribe(conn[r], conn'[r])
    BY <2>2 DEF t, SameButSubscribe
  <2>5. conn'[s].wire = w /\ conn'[s].outbox = c.outbox
    BY <2>2 DEF t
  <2> HIDE DEF w
  <2>6. ASSUME NEW k \in Hints, On(c, k) PROVE k = m \/ On(conn'[s], k)
    BY <1>2, <2>5, <2>6 DEF On
  <2> QED
    BY <1>1, <1>2, <1>4, <2>2, <2>3, <2>4, <2>6
<1>6. CASE m # Hello
  <2> DEFINE d == [c EXCEPT !.wire = w]
  <2>1. conn' = [conn EXCEPT ![s] = d]
    BY <1>6 DEF Deliver
  <2> HIDE DEF w
  <2>2. /\ d \in Conns /\ d.client = c.client /\ d.server = c.server /\ d.outbox = c.outbox
        /\ d.sender = c.sender /\ d.overflowed = c.overflowed /\ d.wire = w
    BY <1>1, <1>2 DEF Conns
  <2>3. conn'[s] = d /\ conn' \in [Sockets -> Conns] /\ \A r \in Sockets \ {s} : conn'[r] = conn[r]
    BY <2>1, <2>2
  <2> HIDE DEF d
  <2>4. \A r \in Sockets \ {s} : SameButSubscribe(conn[r], conn'[r])
    BY <2>3 DEF SameButSubscribe
  <2>5. ASSUME NEW k \in Hints, On(c, k) PROVE k = m \/ On(conn'[s], k)
    BY <1>2, <2>2, <2>3, <2>5 DEF On
  <2> QED
    BY <1>1, <1>2, <1>4, <2>2, <2>3, <2>4, <2>5
<1> HIDE DEF m
<1> QED
  BY <1>5, <1>6 DEF m

LEMMA OpenFacts ==
  ASSUME conn \in [Sockets -> Conns], client \in Clients, NEW s \in Sockets, Open(s)
  PROVE  \E d \in Conns :
           /\ conn' = [conn EXCEPT ![s] = d] /\ conn[s].client = "connecting"
           /\ d.client = "open" /\ d.server = conn[s].server /\ d.outbox = conn[s].outbox
           /\ d.wire = conn[s].wire
           /\ d.sender = conn[s].sender /\ d.overflowed = conn[s].overflowed
           /\ client' \in Clients /\ client'.status = "open"
           /\ client'.wanted = client.wanted /\ client'.ws = client.ws
           /\ client'.replaced = client.replaced
<1> DEFINE d == [conn[s] EXCEPT !.client = "open"]
           e == SetStatus(client, "open")
<1>1. conn' = [conn EXCEPT ![s] = d] /\ conn[s].client = "connecting"
  BY DEF Open
<1>2. /\ d \in Conns /\ d.client = "open" /\ d.server = conn[s].server
      /\ d.outbox = conn[s].outbox /\ d.wire = conn[s].wire
      /\ d.sender = conn[s].sender /\ d.overflowed = conn[s].overflowed
  BY DEF Conns
<1>3. /\ e \in Clients /\ e.status = "open" /\ e.wanted = client.wanted /\ e.ws = client.ws
      /\ e.replaced = client.replaced
  BY SetStatusFacts
<1>4. client' = [e EXCEPT !.failed = 0]
  BY DEF Open
<1> HIDE DEF e, d
<1>5. /\ client' \in Clients /\ client'.status = "open"
      /\ client'.wanted = e.wanted /\ client'.ws = e.ws /\ client'.replaced = e.replaced
  BY <1>3, <1>4 DEF Clients
<1> QED
  BY <1>1, <1>2, <1>3, <1>5

\* onclose of the client's socket, up to the retry.
LEMMA CloseFacts ==
  ASSUME conn \in [Sockets -> Conns], client \in Clients, NEW s \in Sockets, Close(s)
  PROVE  /\ conn' = [conn EXCEPT ![s] = NoConn]
         /\ client.ws # s => UNCHANGED client
         /\ client.ws = s => \E d \in Clients :
              /\ client' = ScheduleRetry(d)
              /\ d.ws = 0 /\ d.status = "closed" /\ d.replaced = client.replaced
<1>1. conn' = [conn EXCEPT ![s] = NoConn] /\ (client.ws # s => UNCHANGED client)
  BY DEF Close
<1>2. ASSUME client.ws = s
      PROVE  \E d \in Clients :
              /\ client' = ScheduleRetry(d)
              /\ d.ws = 0 /\ d.status = "closed" /\ d.replaced = client.replaced
  <2> DEFINE a == [client EXCEPT !.ws = 0, !.retry = FALSE]
             b == SetStatus(a, "closed")
             e == [b EXCEPT !.failed = b.failed + 1]
  <2>1. a \in Clients /\ a.ws = 0 /\ a.replaced = client.replaced
    BY DEF Clients
  <2> HIDE DEF a
  <2>2. b \in Clients /\ b.ws = a.ws /\ b.replaced = a.replaced /\ b.status = "closed"
    BY <2>1, SetStatusFacts
  <2> HIDE DEF b
  <2>3. e \in Clients /\ e.ws = b.ws /\ e.replaced = b.replaced /\ e.status = b.status
    BY <2>2 DEF Clients
  <2>4. client' = ScheduleRetry(IF conn[s].client = "open" THEN b ELSE e)
    BY <1>2 DEF Close, a, b
  <2> HIDE DEF e
  <2>5. CASE conn[s].client = "open"
    BY <2>1, <2>2, <2>4, <2>5
  <2>6. CASE conn[s].client # "open"
    BY <2>1, <2>2, <2>3, <2>4, <2>6
  <2> QED
    BY <2>5, <2>6
<1> QED
  BY <1>1, <1>2

LEMMA TicketFacts ==
  ASSUME conn \in [Sockets -> Conns], client \in Clients, NEW s \in Sockets, Ticket(s)
  PROVE  /\ conn[s] = NoConn
         /\ client' \in Clients /\ client'.wanted = client.wanted
         /\ client'.status = client.status /\ client'.failed = client.failed
         /\ client.wanted => /\ client'.ws = s
                             /\ client'.replaced = (client.replaced \/ client.ws # 0)
                             /\ \E d \in Conns : /\ conn' = [conn EXCEPT ![s] = d]
                                                 /\ d.client = "connecting" /\ ConnSound(d)
         /\ ~client.wanted => /\ client'.ws = client.ws /\ client'.replaced = client.replaced
                              /\ UNCHANGED <<conn, lost>>
<1>1. client.tickets > 0 /\ conn[s] = NoConn
  BY DEF Ticket
<1>2. /\ Answered \in Clients
      /\ Answered.wanted = client.wanted /\ Answered.ws = client.ws
      /\ Answered.failed = client.failed /\ Answered.replaced = client.replaced
      /\ Answered.status = client.status
  BY <1>1, AnsweredFacts
<1>3. CASE ~client.wanted
  BY <1>1, <1>2, <1>3 DEF Ticket
<1>4. CASE client.wanted
  <2> DEFINE d == [NoConn EXCEPT !.client = "connecting"]
             r == Answered.replaced \/ client.ws # 0
             e == [Answered EXCEPT !.ws = s]
  <2>1. conn' = [conn EXCEPT ![s] = d] /\ client' = [e EXCEPT !.replaced = r]
    BY <1>1, <1>4 DEF Ticket
  <2>2. /\ NoConn \in Conns /\ NoConn.server = "none" /\ ~NoConn.overflowed
        /\ NoConn.outbox = <<>> /\ NoConn.wire = <<>>
    BY RestTypes
  <2>3. /\ d \in Conns /\ d.client = "connecting" /\ d.server = NoConn.server
        /\ d.overflowed = NoConn.overflowed /\ d.outbox = NoConn.outbox /\ d.wire = NoConn.wire
    BY <2>2 DEF Conns
  <2>4. ConnSound(d)
    BY <2>2, <2>3 DEF ConnSound
  <2>5. /\ e \in Clients /\ e.ws = s /\ e.wanted = Answered.wanted
        /\ e.status = Answered.status /\ e.failed = Answered.failed
    BY <1>2 DEF Clients
  <2>6. r \in BOOLEAN /\ r = (client.replaced \/ client.ws # 0)
    BY <1>2 DEF Clients
  <2> HIDE DEF d, e, r
  <2>7. /\ client' \in Clients /\ client'.ws = e.ws /\ client'.wanted = e.wanted
        /\ client'.status = e.status /\ client'.failed = e.failed /\ client'.replaced = r
    BY <2>1, <2>5, <2>6 DEF Clients
  <2> QED
    BY <1>1, <1>2, <1>4, <2>1, <2>3, <2>4, <2>5, <2>6, <2>7
<1> QED
  BY <1>3, <1>4

LEMMA TicketFailsFacts ==
  ASSUME client \in Clients, TicketFails
  PROVE  \E d \in Clients :
           /\ client' = ScheduleRetry(d)
           /\ d.wanted = client.wanted /\ d.ws = client.ws
           /\ d.status = client.status /\ d.replaced = client.replaced
<1> DEFINE d == [Answered EXCEPT !.failed = Answered.failed + 1]
<1>1. client.tickets > 0 /\ client' = ScheduleRetry(d)
  BY DEF TicketFails
<1>2. /\ Answered \in Clients
      /\ Answered.wanted = client.wanted /\ Answered.ws = client.ws
      /\ Answered.status = client.status /\ Answered.replaced = client.replaced
  BY <1>1, AnsweredFacts
<1>3. /\ d \in Clients /\ d.wanted = Answered.wanted /\ d.ws = Answered.ws
      /\ d.status = Answered.status /\ d.replaced = Answered.replaced
  BY <1>2 DEF Clients
<1> HIDE DEF d
<1> QED
  BY <1>1, <1>2, <1>3

LEMMA RetryTimerFacts ==
  ASSUME client \in Clients, RetryTimer
  PROVE  \E d \in Clients :
           /\ client' = Connect(d)
           /\ d.wanted = client.wanted /\ d.ws = client.ws
           /\ d.status = client.status /\ d.replaced = client.replaced
<1>1. CASE client.retry /\ client' = Connect([client EXCEPT !.retry = FALSE])
  <2> DEFINE d == [client EXCEPT !.retry = FALSE]
  <2>1. /\ d \in Clients /\ d.wanted = client.wanted /\ d.ws = client.ws
        /\ d.status = client.status /\ d.replaced = client.replaced
    BY DEF Clients
  <2> QED
    BY <1>1, <2>1
<1>2. CASE client.stray > 0 /\ client' = Connect([client EXCEPT !.stray = client.stray - 1])
  <2> DEFINE d == [client EXCEPT !.stray = client.stray - 1]
  <2>1. /\ d \in Clients /\ d.wanted = client.wanted /\ d.ws = client.ws
        /\ d.status = client.status /\ d.replaced = client.replaced
    BY <1>2 DEF Clients
  <2> QED
    BY <1>2, <2>1
<1> QED
  BY <1>1, <1>2 DEF RetryTimer

\* The types of everything the step of a connection or of the client does not touch.
Flags ==
  /\ net \in Nets /\ ownKeys \in Owns
  /\ {redis, subscriber, session, me, here} \subseteq BOOLEAN
  /\ mutating \in {"no", "sent", "done"}
  /\ lost \in [Screens -> SUBSET Causes]
  /\ faults \in 0..MaxFaults

LEMMA FlagsStep == ASSUME Kept, [Next]_vars PROVE Flags'
<1> USE DEF Flags, Kept
<1>1. CASE Elsewhere
  <2>a. ASSUME NEW s \in Sockets, HangUp(s)
        PROVE  subscriber' \in BOOLEAN /\ lost' \in [Screens -> SUBSET Causes]
    <3>1. UNCHANGED lost \/ Miss(Unaided({s}), "replaced")
      BY <2>a DEF HangUp
    <3>2. lost' \in [Screens -> SUBSET Causes]
      BY <3>1, MissType DEF Causes
    <3> QED
      BY <2>a, <3>2 DEF HangUp, Removed
  <2>b. CloseOwn => subscriber' \in BOOLEAN
    BY DEF CloseOwn, Removed
  <2>1. CASE Mutate \/ MutationFails \/ Broker
    BY <2>1 DEF Mutate, MutationFails, Broker, RedisReturns, Subscribe, server
  <2>2. CASE RedisFails \/ Revoke
    BY <2>2, FaultType DEF RedisFails, Revoke
  <2>3. CASE \E s \in Sockets : Hub(s)
    <3>1. CASE \E s \in Sockets : Accept(s) \/ Refuse(s) \/ Register(s) \/ Grant(s) \/ Send(s)
      BY <3>1 DEF Accept, Refuse, Register, Grant, Send, server
    <3>2. CASE \E s \in Sockets : Watchdog(s)
      BY <2>a, <3>2 DEF Watchdog, world
    <3> QED
      BY <2>3, <3>1, <3>2 DEF Hub
  <2>4. CASE \E s \in Sockets : Drop(s)
    BY <2>a, <2>4, FaultType DEF Drop, world
  <2>5. CASE \E s \in Sockets : WatchdogFails(s)
    BY <2>5, FaultType DEF WatchdogFails, server
  <2>6. CASE \E s \in Sockets : Close(s) \/ Deliver(s)
    BY <2>6 DEF Close, Deliver, server
  <2>7. CASE \E s \in Sockets : Ticket(s)
    <3>1. UNCHANGED lost \/ Miss(Unaided({}), "replaced")
      BY <2>7 DEF Ticket
    <3>2. lost' \in [Screens -> SUBSET Causes]
      BY <3>1, MissType DEF Causes
    <3> QED
      BY <2>7, <3>2 DEF Ticket, server
  <2>8. CASE \E q \in Screens : Unauthorized(q)
    BY <2>8 DEF Unauthorized, Removed, world
  <2>9. CASE SignIn \/ RetryTimer \/ TicketFails
    BY <2>9 DEF SignIn, RetryTimer, TicketFails, server
  <2>10. CASE TicketUnauthorized
    BY <2>b, <2>10 DEF TicketUnauthorized, world
  <2>11. CASE Flicker
    BY <2>b, <2>11, FaultType DEF Flicker, world
  <2> QED
    BY <1>1, <2>1, <2>2, <2>3, <2>4, <2>5, <2>6, <2>7, <2>8, <2>9, <2>10, <2>11
    DEF Elsewhere, Client
<1>2. CASE ChangeElsewhere \/ MutationCommits \/ MutationSettles
  BY <1>2 DEF ChangeElsewhere, MutationCommits, MutationSettles, server
<1>3. CASE Flush
  <2>1. Miss(Due, "mutating") \/ UNCHANGED lost
    BY <1>3 DEF Flush
  <2>2. lost' \in [Screens -> SUBSET Causes]
    BY <2>1, MissType DEF Causes
  <2> QED
    BY <1>3, <2>2 DEF Flush, server
<1>4. ASSUME NEW u \in outgoing, Publish(u) PROVE Flags'
  <2>1. \/ UNCHANGED lost \/ Miss(Screens \ ownKeys, "own") \/ Miss(Screens, "own")
        \/ Miss(Screens, "redis") \/ Miss(Untold("other"), "untold")
    BY <1>4 DEF Publish
  <2>2. lost' \in [Screens -> SUBSET Causes]
    BY <2>1, MissType DEF Causes
  <2> QED
    BY <1>4, <2>2 DEF Publish
<1>5. ASSUME NEW s \in Sockets, Open(s) PROVE Flags'
  <2>1. UNCHANGED lost \/ Miss(Unaided({}), "opening")
    BY <1>5 DEF Open
  <2>2. lost' \in [Screens -> SUBSET Causes]
    BY <2>1, MissType DEF Causes
  <2> QED
    BY <1>5, <2>2 DEF Open, server
<1>6. ASSUME NEW q \in Screens, Poll(q) \/ Read(q) \/ Show(q) PROVE Flags'
  BY <1>6 DEF Poll, Read, Show, server
<1>7. CASE UNCHANGED vars
  BY <1>7 DEF vars
<1> QED
  BY <1>1, <1>2, <1>3, <1>4, <1>5, <1>6, <1>7, Steps

\* The steps that leave the connections, the client and the bridge alone.
Apart ==
  \/ Mutate \/ Mutation \/ ChangeElsewhere \/ Broker \/ RedisFails \/ Revoke
  \/ \E q \in Screens : Poll(q) \/ Read(q) \/ Show(q)

LEMMA ApartSteps == ASSUME Apart PROVE UNCHANGED <<conn, client, bridge>>
<1>1. CASE Mutate \/ Mutation \/ ChangeElsewhere
  BY <1>1 DEF Mutate, Mutation, MutationCommits, MutationSettles, MutationFails, ChangeElsewhere
<1>2. CASE Broker \/ RedisFails \/ Revoke
  BY <1>2 DEF Broker, RedisReturns, Subscribe, RedisFails, Revoke
<1>3. CASE \E q \in Screens : Poll(q) \/ Read(q) \/ Show(q)
  BY <1>3 DEF Poll, Read, Show
<1> QED
  BY <1>1, <1>2, <1>3 DEF Apart

LEMMA MoreSteps ==
  ASSUME Next
  PROVE  \/ Apart \/ SignIn \/ RetryTimer \/ TicketUnauthorized \/ TicketFails \/ Flicker \/ Flush
         \/ \E u \in outgoing : Publish(u)
         \/ \E s \in Sockets : \/ Hub(s) \/ Drop(s) \/ WatchdogFails(s)
                            \/ Ticket(s) \/ Open(s) \/ Close(s) \/ Deliver(s)
         \/ \E q \in Screens : Unauthorized(q)
BY DEF Next, Apart, Query, PublishAny, Tab, Client

LEMMA RecordsStep ==
  ASSUME Kept, [Next]_vars
  PROVE  conn' \in [Sockets -> Conns] /\ client' \in Clients /\ bridge' \in Bridges
<1> DEFINE Goal == conn' \in [Sockets -> Conns] /\ client' \in Clients /\ bridge' \in Bridges
<1> USE DEF Kept
<1>1. CASE Apart
  BY <1>1, ApartSteps
<1>2. CASE SignIn
  BY <1>2, StartFacts DEF SignIn
<1>3. CASE RetryTimer
  BY <1>3, RetryTimerFacts, ConnectFacts DEF RetryTimer
<1>4. CASE TicketUnauthorized
  BY <1>4, AnsweredFacts, StopFacts, CloseOwnType DEF TicketUnauthorized
<1>5. CASE TicketFails
  BY <1>5, TicketFailsFacts, ScheduleRetryFacts DEF TicketFails
<1>6. CASE Flicker
  BY <1>6, StopFacts, CloseOwnType DEF Flicker
<1>7. CASE Flush
  BY <1>7, RestTypes DEF Flush
<1>8. ASSUME NEW u \in outgoing, Publish(u) PROVE Goal
  <2>1. Dispatched(u.actor) /\ UNCHANGED <<client, bridge>>
    BY <1>8 DEF Publish, Dispatched
  <2>2. \A s \in Sockets : conn'[s] \in Conns
    BY <2>1, DispatchFacts
  <2>3. conn' = [s \in Sockets |-> conn'[s]]
    BY <2>1 DEF Dispatched
  <2> QED
    BY <2>1, <2>2, <2>3
<1>9. ASSUME NEW s \in Sockets, Hub(s) \/ Drop(s) \/ WatchdogFails(s) PROVE Goal
  <2>1. UNCHANGED <<client, bridge>>
    BY <1>9 DEF Hub, Accept, Refuse, Register, Grant, Send, Watchdog, Drop, WatchdogFails
  <2>2. PICK d : HubStep(s, d)
    BY <1>9, HubSteps
  <2> QED
    BY <2>1, <2>2 DEF HubStep
<1>10. ASSUME NEW s \in Sockets, Ticket(s) PROVE Goal
  <2>1. client' \in Clients /\ bridge' \in Bridges
    BY <1>10, TicketFacts DEF Ticket
  <2>2. UNCHANGED conn \/ \E d \in Conns : conn' = [conn EXCEPT ![s] = d]
    BY <1>10, TicketFacts
  <2>3. conn' \in [Sockets -> Conns]
    <3>1. CASE UNCHANGED conn
      BY <3>1
    <3>2. ASSUME NEW d \in Conns, conn' = [conn EXCEPT ![s] = d] PROVE conn' \in [Sockets -> Conns]
      BY <3>2
    <3> QED
      BY <2>2, <3>1, <3>2
  <2> QED
    BY <2>1, <2>3
<1>11. ASSUME NEW s \in Sockets, Open(s) PROVE Goal
  <2>1. client' \in Clients /\ \E d \in Conns : conn' = [conn EXCEPT ![s] = d]
    BY <1>11, OpenFacts
  <2>2. UNCHANGED bridge
    BY <1>11 DEF Open
  <2> QED
    BY <2>1, <2>2
<1>12. ASSUME NEW s \in Sockets, Close(s) PROVE Goal
  <2>1. client' \in Clients
    BY <1>12, CloseFacts, ScheduleRetryFacts
  <2>2. conn' = [conn EXCEPT ![s] = NoConn]
    BY <1>12, CloseFacts
  <2> QED
    BY <1>12, <2>1, <2>2, RestTypes DEF Close
<1>13. ASSUME NEW s \in Sockets, Deliver(s) PROVE Goal
  <2>1. conn' \in [Sockets -> Conns] /\ (bridge' = bridge \/ \E m \in Hints : bridge' = OnHint(m))
    BY <1>13, DeliverFacts
  <2> QED
    BY <1>13, <2>1, BridgeType DEF Deliver
<1>14. ASSUME NEW q \in Screens, Unauthorized(q) PROVE Goal
  BY <1>14, RestTypes DEF Unauthorized
<1>15. CASE UNCHANGED vars
  BY <1>15 DEF vars
<1> QED
  BY <1>1, <1>2, <1>3, <1>4, <1>5, <1>6, <1>7, <1>8, <1>9, <1>10, <1>11, <1>12, <1>13, <1>14,
     <1>15, MoreSteps

LEMMA KeptInit == ASSUME Init PROVE Kept
<1>1. conn \in [Sockets -> Conns] /\ client \in Clients /\ bridge \in Bridges
  BY RestTypes DEF Init
<1>2. faults \in 0..MaxFaults
  BY BoundsAssumption DEF Init
<1>3. lost \in [Screens -> SUBSET Causes]
  BY DEF Init
<1> QED
  BY <1>1, <1>2, <1>3 DEF Init, Kept

LEMMA KeptStep == ASSUME Kept, [Next]_vars PROVE Kept'
BY FlagsStep, RecordsStep DEF Flags, Kept

-----------------------------------------------------------------------------
(* The connection is sound. *)

\* The client's socket is the only one there is, and the client wants no connection that
\* nothing is working on.
Linked(cn, c) ==
  /\ \A s \in Sockets : cn[s] # NoConn => s = c.ws
  /\ c.ws # 0 => cn[c.ws].client # "none"
  /\ c.status = "open" => c.ws # 0 /\ cn[c.ws].client = "open"
  /\ c.wanted => \/ c.tickets > 0 \/ c.retry \/ c.stray > 0 \/ c.ws # 0
                 \/ c.failed >= MaxFailed /\ c.status = "closed"

\* It is so until an answer replaces a socket that is still there.
Sound ==
  /\ ~client.replaced => Linked(conn, client)
  /\ \A s \in Sockets : ConnSound(conn[s])

LEMMA NoConnSound == ConnSound(NoConn)
BY RestTypes DEF ConnSound

\* Steps that change no connection's type of end.
LEMMA SameClientEnds ==
  ASSUME Kept, Linked(conn, client), UNCHANGED client,
         \A s \in Sockets : /\ conn[s] = NoConn => conn'[s] = NoConn
                            /\ conn'[s].client = conn[s].client
  PROVE  Linked(conn', client')
<1>1. client.ws # 0 => client.ws \in Sockets
  BY DEF Kept, Clients
<1> QED
  BY <1>1 DEF Linked

LEMMA NothingOpen ==
  ASSUME Linked(conn, client), client.ws = 0 PROVE \A s \in Sockets : conn[s] = NoConn
BY SocketsAssumption DEF Linked

\* Nothing is open and nothing says it is.
LEMMA RestSound ==
  ASSUME NEW c \in Clients, c.ws = 0, c.status # "open",
         \/ ~c.wanted \/ c.tickets > 0 \/ c.retry
         \/ c.failed >= MaxFailed /\ c.status = "closed",
         NEW cn, \A s \in Sockets : cn[s] = NoConn
  PROVE  Linked(cn, c)
BY DEF Linked

LEMMA SoundStep ==
  ASSUME Kept, Kept', Sound, [Next]_vars PROVE Sound'
<1> DEFINE Conns1 == \A s \in Sockets : ConnSound(conn'[s])
           Linked1 == ~client'.replaced => Linked(conn', client')
<1> SUFFICES Conns1 /\ Linked1
  BY DEF Sound
<1>0. /\ client \in Clients /\ client' \in Clients /\ conn \in [Sockets -> Conns]
      /\ \A s \in Sockets : ConnSound(conn[s])
      /\ ~client.replaced => Linked(conn, client)
  BY DEF Kept, Sound
<1>1. ASSUME UNCHANGED <<conn, client>> PROVE Conns1 /\ Linked1
  BY <1>0, <1>1
<1>2. CASE Apart
  BY <1>1, <1>2, ApartSteps
<1>3. CASE SignIn
  <2>1. client' = Start(client) /\ UNCHANGED conn
    BY <1>3 DEF SignIn
  <2>2. CASE client.wanted
    BY <1>0, <1>1, <2>1, <2>2, StartFacts
  <2>3. CASE ~client.wanted
    <3>1. /\ client'.ws = client.ws /\ client'.replaced = client.replaced
          /\ client'.status = "connecting" /\ client'.tickets > 0
      BY <1>0, <2>1, <2>3, StartFacts
    <3> QED
      BY <1>0, <2>1, <3>1 DEF Linked
  <2> QED
    BY <2>2, <2>3
<1>4. CASE RetryTimer
  <2>1. UNCHANGED conn
    BY <1>4 DEF RetryTimer
  <2>2. PICK d \in Clients :
           /\ client' = Connect(d)
           /\ d.wanted = client.wanted /\ d.ws = client.ws
           /\ d.status = client.status /\ d.replaced = client.replaced
    BY <1>0, <1>4, RetryTimerFacts
  <2>3. /\ client'.wanted = d.wanted /\ client'.ws = d.ws /\ client'.replaced = d.replaced
        /\ d.wanted => client'.status = "connecting" /\ client'.tickets > 0
        /\ ~d.wanted => client' = d
    BY <2>2, ConnectFacts
  <2>4. CASE client.wanted
    BY <1>0, <2>1, <2>2, <2>3, <2>4 DEF Linked
  <2>5. CASE ~client.wanted
    BY <1>0, <2>1, <2>2, <2>3, <2>5 DEF Linked
  <2> QED
    BY <2>4, <2>5
<1>5. ASSUME NEW c \in Clients, c.replaced = client.replaced, client' = Stop(c), CloseOwn
      PROVE  Conns1 /\ Linked1
  <2>1. /\ ~client'.wanted /\ client'.ws = 0 /\ client'.status = "idle"
        /\ client'.replaced = client.replaced
    BY <1>5, StopFacts
  <2>2. \A s \in Sockets : conn'[s] = IF s = client.ws THEN NoConn ELSE conn[s]
    BY <1>0, <1>5, CloseOwnType
  <2>3. Conns1
    BY <1>0, <2>2, NoConnSound
  <2>4. ~client.replaced => \A s \in Sockets : conn'[s] = NoConn
    BY <1>0, <2>2 DEF Linked
  <2> QED
    BY <1>0, <2>1, <2>3, <2>4, RestSound
<1>6. CASE TicketUnauthorized
  <2>1. client.tickets > 0 /\ client' = Stop(Answered) /\ CloseOwn
    BY <1>6 DEF TicketUnauthorized
  <2>2. Answered \in Clients /\ Answered.replaced = client.replaced
    BY <1>0, <2>1, AnsweredFacts
  <2> QED
    BY <1>5, <2>1, <2>2
<1>7. CASE Flicker
  BY <1>0, <1>5, <1>7 DEF Flicker
<1>8. CASE TicketFails
  <2>1. PICK d \in Clients :
           /\ client' = ScheduleRetry(d)
           /\ d.wanted = client.wanted /\ d.ws = client.ws
           /\ d.status = client.status /\ d.replaced = client.replaced
    BY <1>0, <1>8, TicketFailsFacts
  <2>2. /\ client'.wanted = d.wanted /\ client'.ws = d.ws /\ client'.replaced = d.replaced
        /\ ~d.wanted => client' = d
        /\ d.wanted => client'.status = "closed" /\ (client'.retry \/ client'.failed >= MaxFailed)
    BY <2>1, ScheduleRetryFacts
  <2>3. UNCHANGED conn
    BY <1>8 DEF TicketFails
  <2>4. CASE client.wanted
    BY <1>0, <2>1, <2>2, <2>3, <2>4 DEF Linked
  <2>5. CASE ~client.wanted
    BY <1>0, <2>1, <2>2, <2>3, <2>5 DEF Linked
  <2> QED
    BY <2>4, <2>5
<1>9. ASSUME NEW s \in Sockets, Close(s) PROVE Conns1 /\ Linked1
  <2>1. /\ conn' = [conn EXCEPT ![s] = NoConn] /\ conn[s] # NoConn
        /\ client.ws # s => UNCHANGED client
    BY <1>0, <1>9, CloseFacts, RestTypes DEF Close
  <2>2. Conns1
    BY <1>0, <2>1, NoConnSound
  <2>3. ASSUME ~client'.replaced PROVE Linked(conn', client')
    <3>1. CASE client.replaced
      <4>1. client.ws = s
        BY <2>1, <2>3, <3>1
      <4> QED
        BY <1>0, <1>9, <2>3, <3>1, <4>1, CloseFacts, ScheduleRetryFacts
    <3>2. CASE ~client.replaced
      <4>1. client.ws = s
        BY <1>0, <2>1, <3>2 DEF Linked
      <4>2. PICK d \in Clients :
              /\ client' = ScheduleRetry(d)
              /\ d.ws = 0 /\ d.status = "closed" /\ d.replaced = client.replaced
        BY <1>0, <1>9, <4>1, CloseFacts
      <4>3. /\ client'.ws = 0 /\ client'.status = "closed"
            /\ ~client'.wanted \/ client'.retry \/ client'.failed >= MaxFailed
        BY <4>2, ScheduleRetryFacts
      <4>4. \A t \in Sockets : conn'[t] = NoConn
        BY <1>0, <2>1, <3>2, <4>1 DEF Linked
      <4> QED
        BY <1>0, <4>3, <4>4, RestSound
    <3> QED
      BY <3>1, <3>2
  <2> QED
    BY <2>2, <2>3
<1>10. ASSUME NEW s \in Sockets, Ticket(s) PROVE Conns1 /\ Linked1
  <2>1. /\ conn[s] = NoConn /\ s # 0
        /\ client'.wanted = client.wanted /\ client'.status = client.status
    BY <1>0, <1>10, TicketFacts, SocketsAssumption
  <2>2. CASE client.wanted
    <3>1. client'.ws = s /\ client'.replaced = (client.replaced \/ client.ws # 0)
      BY <1>0, <1>10, <2>2, TicketFacts
    <3>2. PICK d \in Conns : /\ conn' = [conn EXCEPT ![s] = d]
                             /\ d.client = "connecting" /\ ConnSound(d)
      BY <1>0, <1>10, <2>2, TicketFacts
    <3>3. \A t \in Sockets : conn'[t] = IF t = s THEN d ELSE conn[t]
      BY <1>0, <3>2
    <3>4. ASSUME ~client'.replaced PROVE Linked(conn', client')
      <4>1. ~client.replaced /\ client.ws = 0 /\ client.status # "open"
        BY <1>0, <3>1, <3>4 DEF Linked
      <4>2. \A t \in Sockets : conn[t] = NoConn
        BY <1>0, <4>1, NothingOpen
      <4> QED
        BY <2>1, <3>1, <3>2, <3>3, <4>1, <4>2 DEF Linked
    <3> QED
      BY <1>0, <3>2, <3>3, <3>4
  <2>3. CASE ~client.wanted
    <3>1. client'.ws = client.ws /\ client'.replaced = client.replaced /\ UNCHANGED conn
      BY <1>0, <1>10, <2>3, TicketFacts
    <3> QED
      BY <1>0, <2>1, <2>3, <3>1 DEF Linked
  <2> QED
    BY <2>2, <2>3
<1>11. ASSUME NEW s \in Sockets, Open(s) PROVE Conns1 /\ Linked1
  <2>1. PICK d \in Conns :
           /\ conn' = [conn EXCEPT ![s] = d] /\ conn[s].client = "connecting"
           /\ d.client = "open" /\ d.server = conn[s].server /\ d.outbox = conn[s].outbox
           /\ d.wire = conn[s].wire
           /\ d.sender = conn[s].sender /\ d.overflowed = conn[s].overflowed
           /\ client'.status = "open" /\ client'.wanted = client.wanted
           /\ client'.ws = client.ws /\ client'.replaced = client.replaced
    BY <1>0, <1>11, OpenFacts
  <2>2. conn[s] # NoConn /\ s # 0
    BY <2>1, RestTypes, SocketsAssumption
  <2>3. \A t \in Sockets : conn'[t] = IF t = s THEN d ELSE conn[t]
    BY <1>0, <2>1
  <2>4. ConnSound(conn[s])
    BY <1>0
  <2>5. ConnSound(d)
    BY <2>1, <2>4 DEF ConnSound, OverflowEnds
  <2>6. ASSUME ~client.replaced PROVE Linked(conn', client')
    <3>1. client.ws = s
      BY <1>0, <2>2, <2>6 DEF Linked
    <3> QED
      BY <1>0, <2>1, <2>2, <2>3, <2>6, <3>1 DEF Linked
  <2> QED
    BY <1>0, <2>1, <2>3, <2>5, <2>6
<1>12. ASSUME NEW s \in Sockets, Deliver(s) PROVE Conns1 /\ Linked1
  <2>1. /\ \A r \in Sockets \ {s} : SameButSubscribe(conn[r], conn'[r])
        /\ conn[s].client = "open" /\ conn[s].wire # <<>>
        /\ conn'[s].client = "open" /\ conn'[s].server = conn[s].server
        /\ conn'[s].outbox = conn[s].outbox /\ conn'[s].sender = conn[s].sender
        /\ conn'[s].overflowed = conn[s].overflowed
    BY <1>0, <1>12, DeliverFacts
  <2>2. UNCHANGED client
    BY <1>12 DEF Deliver
  <2>3. conn[s].server = "registered" /\ ConnSound(conn'[s])
    BY <1>0, <2>1 DEF ConnSound, OverflowEnds
  <2>4. ASSUME NEW r \in Sockets \ {s} PROVE ConnSound(conn'[r])
    <3>1. SameButSubscribe(conn[r], conn'[r]) /\ ConnSound(conn[r])
      BY <1>0, <2>1
    <3> QED
      BY <3>1 DEF SameButSubscribe, ConnSound, OverflowEnds
  <2>5. ASSUME ~client.replaced PROVE Linked(conn', client')
    <3>1. client.ws = s
      BY <1>0, <2>1, <2>5, RestTypes DEF Linked
    <3>2. \A r \in Sockets \ {s} : conn'[r] = conn[r]
      <4>1. CASE Head(conn[s].wire) = Hello
        <5>1. ASSUME NEW r \in Sockets \ {s} PROVE conn'[r] = conn[r]
          <6>1. conn'[r] = [conn[r] EXCEPT !.wire = conn[r].wire, !.subscribe = conn[r].subscribe]
            <7>1. r # client.ws /\ conn[r].subscribe \in BOOLEAN
              BY <1>0, <3>1 DEF Conns
            <7>2. conn'[r] = [conn[r] EXCEPT !.wire = IF r = s THEN Tail(conn[r].wire) ELSE conn[r].wire,
                                !.subscribe = conn[r].subscribe \/ (r = client.ws
                                   /\ conn[r].client = "open" /\ ~conn[s].granted)]
              BY <1>12, <4>1 DEF Deliver
            <7> QED
              BY <7>1, <7>2
          <6> QED
            BY <1>0, <6>1 DEF Conns
        <5> QED
          BY <5>1
      <4>2. CASE Head(conn[s].wire) # Hello
        <5>1. \E w : conn' = [conn EXCEPT ![s] = w]
          BY <1>12, <4>2 DEF Deliver
        <5> QED
          BY <1>0, <5>1
      <4> QED
        BY <4>1, <4>2
    <3>3. \A r \in Sockets : /\ conn[r] = NoConn => conn'[r] = NoConn
                             /\ conn'[r].client = conn[r].client
      BY <2>1, <3>2, RestTypes
    <3> QED
      BY <1>0, <2>2, <2>5, <3>3, SameClientEnds
  <2> QED
    BY <2>2, <2>3, <2>4, <2>5
<1>13. ASSUME NEW s \in Sockets, Hub(s) \/ Drop(s) \/ WatchdogFails(s) PROVE Conns1 /\ Linked1
  <2>1. UNCHANGED client
    BY <1>13 DEF Hub, Accept, Refuse, Register, Grant, Send, Watchdog, Drop, WatchdogFails
  <2>2. PICK d : HubStep(s, d)
    BY <1>13, HubSteps
  <2>3. \A t \in Sockets : conn'[t] = IF t = s THEN d ELSE conn[t]
    BY <1>0, <2>2 DEF HubStep
  <2>4. ConnSound(d) /\ d.client = conn[s].client /\ conn[s] # NoConn
    BY <1>0, <2>2 DEF HubStep
  <2>5. ~client.replaced => Linked(conn', client')
    BY <1>0, <2>1, <2>3, <2>4, SameClientEnds
  <2> QED
    BY <1>0, <2>1, <2>3, <2>4, <2>5
<1>14. ASSUME NEW u \in outgoing, Publish(u) PROVE Conns1 /\ Linked1
  <2>1. Dispatched(u.actor) /\ UNCHANGED client
    BY <1>14 DEF Publish, Dispatched
  <2>2. \A s \in Sockets : /\ conn'[s].client = conn[s].client
                           /\ ConnSound(conn[s]) => ConnSound(conn'[s])
                           /\ conn[s] = NoConn => conn'[s] = NoConn
    BY <1>0, <2>1, DispatchFacts DEF SameEnds
  <2> QED
    BY <1>0, <2>1, <2>2, SameClientEnds
<1>15. ASSUME NEW q \in Screens, Unauthorized(q) PROVE Conns1 /\ Linked1
  <2>1. client' = Idle /\ \A s \in Sockets : conn'[s] = NoConn
    BY <1>15 DEF Unauthorized
  <2>2. Linked(conn', client')
    BY <1>0, <2>1, RestSound DEF Idle
  <2> QED
    BY <2>1, <2>2, NoConnSound
<1>16. CASE Flush
  BY <1>1, <1>16 DEF Flush
<1>17. CASE UNCHANGED vars
  BY <1>1, <1>17 DEF vars
<1> HIDE DEF Conns1, Linked1
<1> QED
  BY <1>2, <1>3, <1>4, <1>6, <1>7, <1>8, <1>9, <1>10, <1>11, <1>12, <1>13, <1>14, <1>15, <1>16,
     <1>17, MoreSteps

LEMMA SoundInit == ASSUME Init PROVE Sound
<1>1. client = Idle /\ \A s \in Sockets : conn[s] = NoConn
  BY DEF Init
<1>2. Linked(conn, client)
  BY <1>1, RestSound, RestTypes DEF Idle
<1> QED
  BY <1>1, <1>2, NoConnSound DEF Sound

-----------------------------------------------------------------------------
(* What a screen misses is on its way. *)

\* The connection holds something that ends in a refetch of q; some connection does; the
\* bridge does.
Brings(c, q) == c.overflowed \/ \E m \in Hints : On(c, m) /\ Refreshes(m, q)
Arrives(q) == \E s \in Sockets : Brings(conn[s], q)
Waits(q) == bridge.timer /\ (bridge.resync \/ q \in bridge.pending)

Excused(q) ==
  Coming(q) \/ (mutating = "done" /\ q \in ownKeys) \/ Closing \/ lost[q] # {}

GapsExcused == \A q \in Screens : client.status = "open" /\ Missing(q) # {} => Excused(q)

\* A change of this tab whose hint, not meant for it, is still to be published: the
\* mutation's own keys have seen it, fetch it, or will with the mutation's answer.
OwnCovered ==
  \A u \in outgoing, q \in ownKeys :
    u.actor = "here" => mutating = "done" \/ fetch[q] = "asked" \/ u.change <= Seen(q)

Told == here => GapsExcused /\ OwnCovered

LEMMA CarriedBrings ==
  ASSUME NEW a, NEW b, NEW q, CarriesOn(a, b), Brings(a, q) PROVE Brings(b, q)
<1>1. Resync \in Hints /\ Refreshes(Resync, q)
  BY HintTypes DEF Refreshes
<1> QED
  BY <1>1 DEF CarriesOn, Brings

LEMMA ComingOverCases ==
  ASSUME Kept, NEW q \in Screens, NEW S \in SUBSET Sockets, ComingOver(S, q)
  PROVE  (\E s \in S : Brings(conn[s], q)) \/ Waits(q) \/ fetch[q] = "asked"
<1>1. ASSUME NEW s \in S, NEW i \in DOMAIN conn[s].outbox,
             Refreshes(conn[s].outbox[i], q)
      PROVE  Brings(conn[s], q)
  <2>1. conn[s].outbox[i] \in Hints
    <3>1. conn[s].outbox \in Seq(Hints)
      BY DEF Kept, Conns
    <3> QED
      BY <3>1
  <2> QED
    BY <1>1, <2>1 DEF Brings, On
<1>2. ASSUME NEW s \in S, NEW i \in DOMAIN conn[s].wire,
             Refreshes(conn[s].wire[i], q)
      PROVE  Brings(conn[s], q)
  <2>1. conn[s].wire[i] \in Hints
    <3>1. conn[s].wire \in Seq(Hints)
      BY DEF Kept, Conns
    <3> QED
      BY <3>1
  <2> QED
    BY <1>2, <2>1 DEF Brings, On
<1> QED
  BY <1>1, <1>2 DEF ComingOver, Brings, Waits

LEMMA ComingCases ==
  ASSUME Kept, NEW q \in Screens, Coming(q)
  PROVE  Arrives(q) \/ Waits(q) \/ fetch[q] = "asked"
BY ComingOverCases DEF Coming, Arrives

LEMMA ComingThen ==
  ASSUME NEW q, Arrives(q)' \/ Waits(q)' \/ fetch'[q] = "asked" PROVE Coming(q)'
<1>1. ASSUME Arrives(q)' PROVE Coming(q)'
  BY <1>1 DEF Arrives, Brings, On, Coming, ComingOver
<1> QED
  BY <1>1 DEF Waits, Coming, ComingOver

\* The connections of Arrives, when only one of them changes.
LEMMA ArrivesStill ==
  ASSUME conn \in [Sockets -> Conns], NEW q, NEW s \in Sockets, NEW d,
         conn' = [conn EXCEPT ![s] = d], Brings(conn[s], q) => Brings(d, q), Arrives(q)
  PROVE  Arrives(q)'
<1>1. PICK t \in Sockets : Brings(conn[t], q)
  BY DEF Arrives
<1>2. conn'[t] = IF t = s THEN d ELSE conn[t]
  OBVIOUS
<1>3. Brings(conn'[t], q)
  BY <1>1, <1>2
<1> QED
  BY <1>3 DEF Arrives, Brings

LEMMA OwnStep ==
  ASSUME Data, Kept, OwnCovered, here', [Next]_vars PROVE OwnCovered'
<1>0. ownKeys \subseteq Screens
  BY ScreensAssumption DEF Kept
<1>1. ASSUME UNCHANGED <<outgoing, ownKeys, shown, answer, fetch>>, UNCHANGED mutating \/ mutating # "done"
      PROVE  OwnCovered'
  BY <1>1 DEF OwnCovered, Seen
<1>2. ASSUME UNCHANGED <<outgoing, ownKeys, mutating, shown, answer>>, NEW S, Refetch(S)
      PROVE  OwnCovered'
  <2>1. \A q \in Screens : fetch'[q] = IF q \in S THEN "asked" ELSE fetch[q]
    BY <1>2 DEF Refetch
  <2> QED
    BY <1>0, <1>2, <2>1 DEF OwnCovered, Seen
<1>3. CASE Elsewhere
  <2>1. UNCHANGED <<outgoing, shown, answer, fetch>>
    BY <1>3, ElsewhereKeepsData
  <2>2. UNCHANGED ownKeys /\ (UNCHANGED mutating \/ mutating # "done")
    <3>1. CASE Mutate \/ MutationFails \/ Broker \/ RedisFails \/ Revoke
      BY <3>1 DEF Mutate, MutationFails, Broker, RedisReturns, Subscribe, RedisFails, Revoke, server
    <3>2. CASE \E s \in Sockets : Hub(s) \/ Drop(s) \/ WatchdogFails(s)
      BY <3>2 DEF Hub, Accept, Refuse, Register, Grant, Send, Watchdog, Drop, WatchdogFails,
                  server, world
    <3>3. CASE \E s \in Sockets : Ticket(s) \/ Close(s) \/ Deliver(s)
      BY <3>3 DEF Ticket, Close, Deliver, server
    <3>4. CASE \E q \in Screens : Unauthorized(q)
      BY <3>4 DEF Unauthorized
    <3>5. CASE Client \/ Flicker
      BY <3>5 DEF Client, SignIn, RetryTimer, TicketUnauthorized, TicketFails, Flicker, server,
                  world
    <3> QED
      BY <1>3, <3>1, <3>2, <3>3, <3>4, <3>5 DEF Elsewhere
  <2> QED
    BY <1>1, <2>1, <2>2
<1>4. CASE ChangeElsewhere
  <2>1. PICK a \in {"other", "elsewhere"} :
          outgoing' = outgoing \cup {[change |-> version + 1, actor |-> a]}
    BY <1>4 DEF ChangeElsewhere, Commit
  <2>2. \A u \in outgoing' : u.actor = "here" => u \in outgoing
    BY <2>1
  <2>3. UNCHANGED <<ownKeys, shown, answer, fetch, mutating>>
    BY <1>4 DEF ChangeElsewhere, screens
  <2> QED
    BY <2>2, <2>3 DEF OwnCovered, Seen
<1>5. CASE MutationCommits
  BY <1>5 DEF MutationCommits, OwnCovered
<1>6. CASE MutationSettles
  <2>1. \A q \in ownKeys' : fetch'[q] = "asked"
    BY <1>0, <1>6 DEF MutationSettles, Refetch, server
  <2> QED
    BY <2>1 DEF OwnCovered
<1>7. CASE Flush
  <2>1. UNCHANGED <<outgoing, ownKeys, shown, answer, mutating>> /\ (UNCHANGED fetch \/ Refetch(Due))
    BY <1>7 DEF Flush, server
  <2> QED
    BY <1>1, <1>2, <2>1
<1>8. ASSUME NEW u \in outgoing, Publish(u) PROVE OwnCovered'
  BY <1>8 DEF Publish, screens, OwnCovered, Seen
<1>9. ASSUME NEW s \in Sockets, Open(s) PROVE OwnCovered'
  <2>1. UNCHANGED <<outgoing, ownKeys, shown, answer, mutating>> /\ (UNCHANGED fetch \/ Refetch(Screens))
    BY <1>9 DEF Open, server
  <2> QED
    BY <1>1, <1>2, <2>1
<1>10. ASSUME NEW q \in Screens, Poll(q) \/ Read(q) \/ Show(q) PROVE OwnCovered'
  <2>1. UNCHANGED <<version, outgoing, ownKeys, mutating>>
    BY <1>10 DEF Poll, Read, Show, server
  <2>2. \A u \in outgoing : u.change <= version
    BY DEF Data
  <2>3. ASSUME NEW p \in ownKeys, NEW u \in outgoing, u.actor = "here"
        PROVE  mutating' = "done" \/ fetch'[p] = "asked" \/ u.change <= Seen(p)'
    <3>1. mutating = "done" \/ fetch[p] = "asked" \/ u.change <= Seen(p)
      BY <2>3 DEF OwnCovered
    <3>2. CASE p # q
      BY <1>0, <1>10, <2>1, <3>1, <3>2 DEF Poll, Read, Show, Seen, Data
    <3>3. CASE p = q /\ Poll(q)
      BY <3>3 DEF Poll, Data
    <3>4. CASE p = q /\ Read(q)
      BY <2>2, <3>4 DEF Read, Data, Seen
    <3>5. CASE p = q /\ Show(q)
      BY <2>1, <3>1, <3>5 DEF Show, Data, Seen
    <3> QED
      BY <1>10, <3>2, <3>3, <3>4, <3>5
  <2> QED
    BY <2>1, <2>3 DEF OwnCovered
<1>11. CASE UNCHANGED vars
  BY <1>1, <1>11 DEF vars
<1> QED
  BY <1>3, <1>4, <1>5, <1>6, <1>7, <1>8, <1>9, <1>10, <1>11, Steps

\* A screen whose data, whose connections, bridge and causes stay as they are misses nothing new.
LEMMA SameMissing ==
  ASSUME NEW q, UNCHANGED <<version, outgoing, shown, answer, fetch>>
  PROVE  Missing(q)' = Missing(q)
BY DEF Missing

\* A change committed is among those whose hints are still to be published.
LEMMA CommitMissing ==
  ASSUME Data, NEW a \in Actors, Commit(a), UNCHANGED <<shown, answer, fetch>>, NEW q \in Screens
  PROVE  Missing(q)' \subseteq Missing(q)
<1> DEFINE X == IF fetch[q] = "read" THEN answer[q] ELSE shown[q]
<1>1. version \in Nat /\ X \in Nat /\ version' = version + 1
  BY DEF Data, Commit
<1>2. \A v \in X + 1 .. version + 1 : v \in X + 1 .. version \/ v = version + 1
  BY <1>1
<1>3. version + 1 \in {u.change : u \in outgoing'}
  <2>1. [change |-> version + 1, actor |-> a] \in outgoing'
    BY DEF Commit
  <2> QED
    BY <2>1
<1>4. {u.change : u \in outgoing} \subseteq {u.change : u \in outgoing'}
  BY DEF Commit
<1>5. /\ Missing(q)' = (X + 1 .. version + 1) \ {u.change : u \in outgoing'}
      /\ Missing(q) = (X + 1 .. version) \ {u.change : u \in outgoing}
  BY <1>1 DEF Missing
<1> QED
  BY <1>2, <1>3, <1>4, <1>5

\* Publication makes one more change miss, that of the hint.
LEMMA PublishMissing ==
  ASSUME NEW u \in outgoing, outgoing' = outgoing \ {u},
         UNCHANGED <<version, shown, answer, fetch>>, NEW q
  PROVE  Missing(q)' \subseteq Missing(q) \cup {u.change}
BY DEF Missing

LEMMA BridgeKeeps ==
  ASSUME bridge \in Bridges, NEW m \in Hints, bridge' = OnHint(m), NEW q \in Screens
  PROVE  Waits(q) \/ Refreshes(m, q) => Waits(q)'
<1>1. CASE m.type = "resync"
  <2>1. bridge'.timer /\ bridge'.resync
    BY <1>1 DEF OnHint, Bridges
  <2> QED
    BY <2>1 DEF Waits
<1>2. CASE m.type # "resync" /\ m.module \notin DOMAIN Keys
  <2>1. bridge' = bridge
    BY <1>2 DEF OnHint
  <2>2. ~Refreshes(m, q)
    BY <1>2 DEF Refreshes, KeysOf
  <2> QED
    BY <2>1, <2>2 DEF Waits
<1>3. CASE m.type # "resync" /\ m.module \in DOMAIN Keys
  <2>1. /\ bridge'.timer /\ bridge'.pending = bridge.pending \cup KeysOf(m)
        /\ bridge'.resync = bridge.resync
    BY <1>3 DEF OnHint, Bridges
  <2> QED
    BY <1>3, <2>1 DEF Waits, Refreshes
<1> QED
  BY <1>1, <1>2, <1>3

\* A step that leaves the data alone and keeps each excuse keeps GapsExcused.
LEMMA KeepsExcuses ==
  ASSUME GapsExcused, UNCHANGED <<version, outgoing, shown, answer, fetch>>,
         client'.status = "open" => client.status = "open",
         \A q \in Screens : client'.status = "open" /\ Excused(q) => Excused(q)'
  PROVE  GapsExcused'
BY SameMissing DEF GapsExcused

LEMMA ConnectionKept ==
  ASSUME Kept, UNCHANGED <<conn, bridge, client>>, NEW q \in Screens,
         fetch[q] = "asked" => fetch'[q] = "asked"
  PROVE  /\ Coming(q) => Coming(q)'
         /\ Closing' = Closing
<1>1. Coming(q) => Arrives(q)' \/ Waits(q)' \/ fetch'[q] = "asked"
  BY ComingCases DEF Arrives, Brings, Waits
<1> QED
  BY <1>1, ComingThen DEF Closing

LEMMA GapsApart ==
  ASSUME Data, Kept, GapsExcused, Apart PROVE GapsExcused'
<1>0. UNCHANGED <<conn, client, bridge>>
  BY ApartSteps
<1>1. CASE Mutate \/ MutationFails \/ Broker \/ RedisFails \/ Revoke
  <2>1. /\ UNCHANGED <<version, outgoing, shown, answer, fetch, lost, ownKeys>>
        /\ UNCHANGED mutating \/ mutating # "done"
    BY <1>1 DEF Mutate, MutationFails, Broker, RedisReturns, Subscribe, RedisFails, Revoke, server,
       screens
  <2>2. \A q \in Screens : Excused(q) => Excused(q)'
    BY <1>0, <2>1, ConnectionKept DEF Excused
  <2> QED
    BY <1>0, <2>1, <2>2, KeepsExcuses
<1>2. CASE ChangeElsewhere \/ MutationCommits
  <2>1. PICK a \in Actors : Commit(a) /\ UNCHANGED <<shown, answer, fetch, lost, ownKeys>>
    BY <1>2 DEF ChangeElsewhere, MutationCommits, screens, Actors
  <2>2. UNCHANGED mutating \/ mutating # "done"
    BY <1>2 DEF ChangeElsewhere, MutationCommits
  <2>3. ASSUME NEW q \in Screens, client'.status = "open" /\ Missing(q)' # {} PROVE Excused(q)'
    <3>1. Excused(q)
      BY <1>0, <2>1, <2>3, CommitMissing DEF GapsExcused
    <3> QED
      BY <1>0, <2>1, <2>2, <3>1, ConnectionKept DEF Excused
  <2> QED
    BY <2>3 DEF GapsExcused
<1>3. CASE MutationSettles
  <2>1. /\ UNCHANGED <<version, outgoing, shown, answer, lost, ownKeys>>
        /\ \A q \in Screens : fetch'[q] = IF q \in ownKeys THEN "asked" ELSE fetch[q]
    BY <1>3 DEF MutationSettles, Refetch, server
  <2>2. ASSUME NEW q \in Screens, client'.status = "open" /\ Missing(q)' # {} PROVE Excused(q)'
    <3>1. CASE q \in ownKeys
      BY <2>1, <3>1, ComingThen DEF Excused
    <3>2. CASE q \notin ownKeys
      <4>1. Missing(q)' = Missing(q)
        BY <2>1, <3>2 DEF Missing
      <4>2. Excused(q)
        BY <1>0, <2>2, <4>1 DEF GapsExcused
      <4> QED
        BY <1>0, <2>1, <3>2, <4>2, ConnectionKept DEF Excused
    <3> QED
      BY <3>1, <3>2
  <2> QED
    BY <2>2 DEF GapsExcused
<1>4. ASSUME NEW p \in Screens, Poll(p) \/ Read(p) \/ Show(p) PROVE GapsExcused'
  <2>1. UNCHANGED <<version, outgoing, ownKeys, mutating>>
    BY <1>4 DEF Poll, Read, Show, server
  <2>2. ASSUME NEW q \in Screens, client'.status = "open" /\ Missing(q)' # {} PROVE Excused(q)'
    <3>1. CASE p # q
      <4>1. shown'[q] = shown[q] /\ answer'[q] = answer[q] /\ fetch'[q] = fetch[q] /\ lost'[q] = lost[q]
        BY <1>4, <3>1 DEF Poll, Read, Show, Data, Kept
      <4>2. Missing(q)' = Missing(q)
        BY <2>1, <4>1 DEF Missing
      <4>3. Excused(q)
        BY <1>0, <2>2, <4>2 DEF GapsExcused
      <4> QED
        BY <1>0, <2>1, <4>1, <4>3, ConnectionKept DEF Excused
    <3>2. CASE p = q /\ Poll(q)
      <4>1. fetch'[q] = "asked"
        BY <3>2 DEF Poll, Data
      <4> QED
        BY <4>1, ComingThen DEF Excused
    <3>3. CASE p = q /\ Read(q)
      <4>1. fetch'[q] = "read" /\ answer'[q] = version /\ version \in Nat
        BY <3>3 DEF Read, Data
      <4>2. Missing(q)' = {}
        BY <2>1, <4>1 DEF Missing
      <4> QED
        BY <2>2, <4>2
    <3>4. CASE p = q /\ Show(q)
      <4>1. fetch[q] = "read" /\ fetch'[q] = "idle" /\ shown'[q] = answer[q] /\ lost' = lost
        BY <3>4 DEF Show, Data
      <4>2. Missing(q)' = Missing(q)
        BY <2>1, <4>1 DEF Missing
      <4>3. Excused(q)
        BY <1>0, <2>2, <4>2 DEF GapsExcused
      <4> QED
        BY <1>0, <2>1, <4>1, <4>3, ConnectionKept DEF Excused
    <3> QED
      BY <1>4, <3>1, <3>2, <3>3, <3>4
  <2> QED
    BY <2>2 DEF GapsExcused
<1> QED
  BY <1>1, <1>2, <1>3, <1>4 DEF Apart, Mutation

\* What a socket carried is lost when it is hung up: then it is the client's own, whose end
\* is on its way, or the cause is named.
LEMMA GapsHub ==
  ASSUME Kept, GapsExcused, NEW s \in Sockets, Hub(s) \/ Drop(s) \/ WatchdogFails(s)
  PROVE  GapsExcused'
<1>1. UNCHANGED <<version, outgoing, shown, answer, fetch, client, bridge, mutating, ownKeys>>
  BY DEF Hub, Accept, Refuse, Register, Grant, Send, Watchdog, Drop, WatchdogFails, server,
     world, screens
<1>2. PICK d : HubStep(s, d)
  BY HubSteps
<1>3. conn \in [Sockets -> Conns] /\ \A t \in Sockets : conn'[t] = IF t = s THEN d ELSE conn[t]
  BY <1>2 DEF HubStep, Kept
<1>4. Closing => Closing'
  <2>1. Closing => client.ws # s /\ client.ws \in Sockets
    BY <1>2 DEF Closing, HubStep, Kept, Clients
  <2> QED
    BY <1>1, <1>3, <2>1 DEF Closing
<1>5. ASSUME NEW q \in Screens, client.status = "open", Missing(q) # {}, Excused(q) PROVE Excused(q)'
  <2>1. CASE HangUp(s) /\ d.server = "gone" /\ (s = client.ws \/ Closing)
    <3>1. Closing'
      BY <1>1, <1>3, <1>4, <2>1, SocketsAssumption DEF Closing
    <3> QED
      BY <3>1 DEF Excused
  <2>2. CASE HangUp(s) /\ ~(s = client.ws \/ Closing)
    <3>1. Miss(Unaided({s}), "replaced")
      BY <1>5, <2>2 DEF HangUp
    <3>2. CASE ComingOver(Sockets \ {s}, q)
      <4>1. (\E t \in Sockets \ {s} : Brings(conn[t], q)) \/ Waits(q) \/ fetch[q] = "asked"
        BY <3>2, ComingOverCases
      <4>2. ASSUME NEW t \in Sockets \ {s}, Brings(conn[t], q) PROVE Arrives(q)'
        <5>1. conn'[t] = conn[t]
          BY <1>3
        <5> QED
          BY <4>2, <5>1 DEF Arrives, Brings
      <4>3. Coming(q)'
        BY <1>1, <4>1, <4>2, ComingThen DEF Waits
      <4> QED
        BY <4>3 DEF Excused
    <3>3. CASE ~ComingOver(Sockets \ {s}, q)
      <4>1. q \in Unaided({s})
        BY <1>5, <3>3 DEF Unaided
      <4>2. lost'[q] = lost[q] \cup {"replaced"}
        BY <3>1, <4>1 DEF Miss
      <4> QED
        BY <4>2 DEF Excused
    <3> QED
      BY <3>2, <3>3
  <2>3. CASE CarriesOn(conn[s], d) /\ UNCHANGED lost
    <3>1. Arrives(q) => Arrives(q)'
      BY <1>2, <1>3, <2>3, ArrivesStill, CarriedBrings DEF HubStep
    <3>2. Coming(q) => Coming(q)'
      BY <1>1, <3>1, ComingCases, ComingThen DEF Waits
    <3> QED
      BY <1>1, <1>4, <1>5, <2>3, <3>2 DEF Excused
  <2> QED
    BY <1>2, <2>1, <2>2, <2>3 DEF HubStep
<1> QED
  BY <1>1, <1>5, SameMissing DEF GapsExcused

LEMMA GapsTicket ==
  ASSUME Kept, GapsExcused, NEW s \in Sockets, Ticket(s) PROVE GapsExcused'
<1>1. UNCHANGED <<version, outgoing, shown, answer, fetch, bridge, mutating, ownKeys>>
  BY DEF Ticket, server, screens
<1>2. conn \in [Sockets -> Conns] /\ client \in Clients
  BY DEF Kept
<1>3. conn[s] = NoConn /\ client'.status = client.status
  BY <1>2, TicketFacts
<1>4. ASSUME NEW q \in Screens, Coming(q) PROVE Coming(q)'
  <2>1. Brings(conn[s], q) => FALSE
    BY <1>3, RestTypes DEF Brings, On
  <2>2. Arrives(q) => Arrives(q)'
    <3>1. CASE UNCHANGED conn
      BY <3>1 DEF Arrives, Brings
    <3>2. ASSUME NEW d, conn' = [conn EXCEPT ![s] = d] PROVE Arrives(q) => Arrives(q)'
      BY <1>2, <2>1, <3>2, ArrivesStill
    <3> QED
      BY <1>2, <3>1, <3>2, TicketFacts
  <2> QED
    BY <1>1, <1>4, <2>2, ComingCases, ComingThen DEF Waits
<1>5. CASE client.wanted /\ client.status = "open" /\ Closing
  <2>1. Miss(Unaided({}), "replaced")
    BY <1>5 DEF Ticket
  <2>2. ASSUME NEW q \in Screens, Missing(q) # {} PROVE Excused(q)'
    <3>1. CASE Coming(q)
      BY <1>4, <3>1 DEF Excused
    <3>2. CASE ~Coming(q)
      <4>1. q \in Unaided({})
        <5>1. Sockets \ {} = Sockets
          OBVIOUS
        <5> QED
          BY <2>2, <3>2, <5>1 DEF Unaided, Coming
      <4>2. lost'[q] = lost[q] \cup {"replaced"}
        BY <2>1, <4>1 DEF Miss
      <4> QED
        BY <4>2 DEF Excused
    <3> QED
      BY <3>1, <3>2
  <2> QED
    BY <1>1, <2>2, SameMissing DEF GapsExcused
<1>6. CASE client.wanted /\ ~(client.status = "open" /\ Closing)
  <2>1. UNCHANGED lost
    BY <1>6 DEF Ticket
  <2>2. ASSUME client'.status = "open", NEW q \in Screens, Excused(q) PROVE Excused(q)'
    BY <1>1, <1>3, <1>4, <1>6, <2>1, <2>2 DEF Excused
  <2> QED
    BY <1>1, <1>3, <2>2, KeepsExcuses
<1>7. CASE ~client.wanted
  <2>1. client'.ws = client.ws /\ UNCHANGED <<conn, lost>>
    BY <1>2, <1>7, TicketFacts
  <2>2. ASSUME NEW q \in Screens, Excused(q) PROVE Excused(q)'
    BY <1>1, <1>4, <2>1, <2>2 DEF Excused, Closing
  <2> QED
    BY <1>1, <1>3, <2>2, KeepsExcuses
<1> QED
  BY <1>5, <1>6, <1>7

\* A closed socket carries nothing, so nothing is gone with it.
LEMMA GapsClose ==
  ASSUME Kept, Sound, GapsExcused, NEW s \in Sockets, Close(s) PROVE GapsExcused'
<1>1. UNCHANGED <<version, outgoing, shown, answer, fetch, bridge, mutating, ownKeys, lost>>
  BY DEF Close, server, screens
<1>2. conn \in [Sockets -> Conns] /\ client \in Clients
  BY DEF Kept
<1>3. CASE client.ws = s
  <2>1. PICK d \in Clients : client' = ScheduleRetry(d) /\ d.status = "closed"
    BY <1>2, <1>3, CloseFacts
  <2>2. client'.status = "closed"
    BY <2>1, ScheduleRetryFacts
  <2> QED
    BY <2>2 DEF GapsExcused
<1>4. CASE client.ws # s
  <2>1. UNCHANGED client /\ conn' = [conn EXCEPT ![s] = NoConn]
    BY <1>2, <1>4, CloseFacts
  <2>2. Closing => Closing'
    <3>1. client.ws # 0 => conn'[client.ws] = conn[client.ws]
      BY <1>2, <1>4, <2>1 DEF Clients
    <3> QED
      BY <2>1, <3>1 DEF Closing
  <2>3. ~conn[s].overflowed /\ conn[s].outbox = <<>> /\ conn[s].wire = <<>>
    <3>1. conn[s].server = "gone" /\ ConnSound(conn[s])
      BY DEF Close, Sound
    <3> QED
      BY <3>1 DEF ConnSound
  <2>4. ASSUME NEW q \in Screens, Coming(q) PROVE Coming(q)'
    <3>1. ~Brings(conn[s], q)
      BY <2>3 DEF Brings, On
    <3>2. Arrives(q) => Arrives(q)'
      BY <1>2, <2>1, <3>1, ArrivesStill
    <3> QED
      BY <1>1, <2>4, <3>2, ComingCases, ComingThen DEF Waits
  <2>5. ASSUME NEW q \in Screens, Excused(q) PROVE Excused(q)'
    BY <1>1, <2>2, <2>4, <2>5 DEF Excused
  <2> QED
    BY <1>1, <2>1, <2>5, KeepsExcuses
<1> QED
  BY <1>3, <1>4

LEMMA GapsDeliver ==
  ASSUME Kept, GapsExcused, NEW s \in Sockets, Deliver(s) PROVE GapsExcused'
<1>1. UNCHANGED <<version, outgoing, shown, answer, fetch, client, mutating, ownKeys, lost>>
  BY DEF Deliver, server, screens
<1>2. conn \in [Sockets -> Conns] /\ bridge \in Bridges /\ client \in Clients
  BY DEF Kept
<1> DEFINE m == Head(conn[s].wire)
<1>3. /\ \A r \in Sockets \ {s} : SameButSubscribe(conn[r], conn'[r])
      /\ m \in Hints
      /\ conn'[s].server = conn[s].server /\ conn'[s].overflowed = conn[s].overflowed
      /\ \A k \in Hints : On(conn[s], k) => k = m \/ On(conn'[s], k)
      /\ m = Hello \/ bridge' = OnHint(m)
      /\ m = Hello => UNCHANGED bridge
  BY <1>2, DeliverFacts
<1> HIDE DEF m
<1>4. Closing => Closing'
  <2>1. \A r \in Sockets : conn'[r].server = conn[r].server
    BY <1>3 DEF SameButSubscribe
  <2> QED
    BY <1>1, <1>2, <2>1 DEF Closing, Clients
<1>5. ASSUME NEW q \in Screens, Coming(q) PROVE Coming(q)'
  <2>1. Waits(q) \/ Refreshes(m, q) => Waits(q)'
    <3>1. CASE m = Hello
      BY <1>3, <3>1, HintTypes DEF Waits, Refreshes
    <3>2. CASE m # Hello
      BY <1>2, <1>3, <3>2, BridgeKeeps
    <3> QED
      BY <3>1, <3>2
  <2>2. CASE Refreshes(m, q)
    BY <2>1, <2>2, ComingThen
  <2>3. CASE ~Refreshes(m, q)
    <3>1. Brings(conn[s], q) => Brings(conn'[s], q)
      BY <1>3, <2>3 DEF Brings
    <3>2. \A r \in Sockets \ {s} : Brings(conn[r], q) => Brings(conn'[r], q)
      BY <1>3 DEF Brings, On, SameButSubscribe
    <3>3. \A r \in Sockets : Brings(conn[r], q) => Brings(conn'[r], q)
      BY <3>1, <3>2
    <3>4. Arrives(q) => Arrives(q)'
      BY <3>3 DEF Arrives, Brings
    <3> QED
      BY <1>1, <1>5, <2>1, <3>4, ComingCases, ComingThen
  <2> QED
    BY <2>2, <2>3
<1>6. \A q \in Screens : Excused(q) => Excused(q)'
  BY <1>1, <1>4, <1>5 DEF Excused
<1> QED
  BY <1>1, <1>6, KeepsExcuses

LEMMA GapsOpen ==
  ASSUME Kept, GapsExcused, NEW s \in Sockets, Open(s) PROVE GapsExcused'
<1>1. UNCHANGED <<version, outgoing, shown, answer, bridge, mutating, ownKeys>>
  BY DEF Open, server
<1>2. conn \in [Sockets -> Conns] /\ client \in Clients
  BY DEF Kept
<1>3. CASE Refetch(Screens)
  <2>1. \A q \in Screens : fetch'[q] = "asked"
    BY <1>3 DEF Refetch
  <2> QED
    BY <2>1, ComingThen DEF GapsExcused, Excused
<1>4. PICK d \in Conns :
         /\ conn' = [conn EXCEPT ![s] = d] /\ d.outbox = conn[s].outbox
         /\ d.wire = conn[s].wire /\ d.overflowed = conn[s].overflowed
         /\ d.server = conn[s].server
         /\ client'.ws = client.ws
  BY <1>2, OpenFacts
<1>5. ASSUME UNCHANGED fetch, NEW q \in Screens, Coming(q) PROVE Coming(q)'
  <2>1. Arrives(q) => Arrives(q)'
    BY <1>2, <1>4, ArrivesStill DEF Brings, On
  <2> QED
    BY <1>1, <1>5, <2>1, ComingCases, ComingThen DEF Waits
<1>6. CASE UNCHANGED fetch /\ Miss(Unaided({}), "opening")
  <2>1. ASSUME NEW q \in Screens, Missing(q)' # {} PROVE Excused(q)'
    <3>1. Missing(q) # {}
      BY <1>1, <1>6, <2>1, SameMissing
    <3>2. CASE Coming(q)
      BY <1>5, <1>6, <3>2 DEF Excused
    <3>3. CASE ~Coming(q)
      <4>1. q \in Unaided({})
        <5>1. Sockets \ {} = Sockets
          OBVIOUS
        <5> QED
          BY <3>1, <3>3, <5>1 DEF Unaided, Coming
      <4>2. lost'[q] = lost[q] \cup {"opening"}
        BY <1>6, <4>1 DEF Miss
      <4> QED
        BY <4>2 DEF Excused
    <3> QED
      BY <3>2, <3>3
  <2> QED
    BY <2>1 DEF GapsExcused
<1>7. CASE client.status = "open" /\ UNCHANGED <<fetch, lost>>
  <2>1. Closing => Closing'
    <3>1. client.ws # 0 => client.ws \in Sockets
      BY <1>2 DEF Clients
    <3>2. \A t \in Sockets : conn'[t].server = conn[t].server
      BY <1>2, <1>4
    <3> QED
      BY <1>4, <3>1, <3>2 DEF Closing
  <2>2. ASSUME NEW q \in Screens, Excused(q) PROVE Excused(q)'
    BY <1>1, <1>5, <1>7, <2>1, <2>2 DEF Excused
  <2> QED
    BY <1>1, <1>7, <2>2, KeepsExcuses
<1> QED
  BY <1>3, <1>6, <1>7 DEF Open

LEMMA GapsPublish ==
  ASSUME Data, Kept, GapsExcused, OwnCovered, NEW u \in outgoing, Publish(u)
  PROVE  GapsExcused'
<1>1. UNCHANGED <<version, shown, answer, fetch, client, bridge, mutating, ownKeys>>
  BY DEF Publish, screens
<1>2. outgoing' = outgoing \ {u} /\ Dispatched(u.actor) /\ conn \in [Sockets -> Conns]
  BY DEF Publish, Dispatched, Kept
<1>3. \A s \in Sockets :
        /\ SameEnds(conn[s], conn'[s]) /\ CarriesOn(conn[s], conn'[s])
        /\ redis /\ subscriber => \A i \in DOMAIN HintsFor(s, u.actor) :
             \/ conn'[s].overflowed \/ On(conn'[s], Resync)
             \/ On(conn'[s], HintsFor(s, u.actor)[i])
  BY <1>2, DispatchFacts
<1>4. client.ws # 0 => client.ws \in Sockets
  BY DEF Kept, Clients
<1>5. Closing => Closing'
  BY <1>1, <1>3, <1>4 DEF Closing, SameEnds
<1>6. \A q \in Screens : lost[q] \subseteq lost'[q]
  BY DEF Publish, Miss, Kept
<1>7. ASSUME NEW q \in Screens, Excused(q) PROVE Excused(q)'
  <2>1. Arrives(q) => Arrives(q)'
    BY <1>3, CarriedBrings DEF Arrives, Brings
  <2>2. Coming(q) => Coming(q)'
    BY <1>1, <2>1, ComingCases, ComingThen DEF Waits
  <2> QED
    BY <1>1, <1>5, <1>6, <1>7, <2>2 DEF Excused
<1>8. ASSUME NEW q \in Screens, client'.status = "open" /\ Missing(q)' # {} PROVE Excused(q)'
  <2>1. Missing(q) # {} \/ u.change \in Missing(q)'
    BY <1>1, <1>2, <1>8, PublishMissing
  <2>2. CASE Missing(q) # {}
    BY <1>1, <1>7, <1>8, <2>2 DEF GapsExcused
  <2>3. CASE u.change \in Missing(q)' /\ Closing
    BY <1>5, <2>3 DEF Excused
  <2>4. CASE u.change \in Missing(q)' /\ ~Closing
    <3>1. \/ u.actor = "here"      /\ Miss(Screens \ ownKeys, "own")
          \/ u.actor = "elsewhere" /\ Miss(Screens, "own")
          \/ u.actor = "other"     /\ ~(redis /\ subscriber) /\ Miss(Screens, "redis")
          \/ u.actor = "other"     /\ redis /\ subscriber /\ Miss(Untold("other"), "untold")
      BY <1>1, <1>8, <2>4 DEF Publish
    <3>2. ASSUME NEW S, NEW cause, q \in S, Miss(S, cause) PROVE Excused(q)'
      <4>1. lost'[q] = lost[q] \cup {cause}
        BY <3>2 DEF Miss
      <4> QED
        BY <4>1 DEF Excused
    <3>3. CASE u.actor = "here" /\ q \in ownKeys
      <4>1. mutating = "done" \/ fetch[q] = "asked" \/ u.change <= Seen(q)
        BY <3>3 DEF OwnCovered
      <4>2. ~(u.change <= Seen(q))
        <5>1. u.change \in Seen(q) + 1 .. version
          BY <1>1, <2>4 DEF Missing, Seen
        <5>2. Seen(q) \in Nat /\ version \in Nat
          BY DEF Seen, Data
        <5> QED
          BY <5>1, <5>2
      <4> QED
        BY <1>1, <3>3, <4>1, <4>2, ComingThen DEF Excused
    <3>4. CASE u.actor = "other" /\ redis /\ subscriber /\ q \notin Untold("other")
      <4>0. PICK s \in Sockets :
              \E i \in DOMAIN HintsFor(s, "other") : Refreshes(HintsFor(s, "other")[i], q)
        BY <3>4 DEF Untold
      <4>1. PICK i \in DOMAIN HintsFor(s, "other") : Refreshes(HintsFor(s, "other")[i], q)
        BY <4>0
      <4>2. HintsFor(s, "other")[i] \in Hints
        BY HintsForCases, HintTypes
      <4>3. Brings(conn'[s], q)
        <5>1. Resync \in Hints /\ Refreshes(Resync, q)
          BY HintTypes DEF Refreshes
        <5> QED
          BY <1>3, <3>4, <4>1, <4>2, <5>1 DEF Brings
      <4> QED
        BY <4>3, ComingThen DEF Arrives, Excused, Brings
    <3> QED
      BY <3>1, <3>2, <3>3, <3>4
  <2> QED
    BY <2>1, <2>2, <2>3, <2>4
<1> QED
  BY <1>8 DEF GapsExcused

LEMMA GapsFlush ==
  ASSUME Data, Kept, GapsExcused, Flush PROVE GapsExcused'
<1>1. UNCHANGED <<version, outgoing, shown, answer, client, conn, mutating, ownKeys>>
  BY DEF Flush, server
<1>2. ASSUME NEW q \in Screens, client'.status = "open" /\ Missing(q)' # {} PROVE Excused(q)'
  <2>1. CASE q \in Due /\ mutating = "no"
    <3>1. fetch'[q] = "asked"
      BY <2>1 DEF Flush, Refetch
    <3> QED
      BY <3>1, ComingThen DEF Excused
  <2>2. CASE q \in Due /\ mutating # "no"
    <3>1. lost'[q] = lost[q] \cup {"mutating"}
      BY <2>2 DEF Flush, Miss
    <3> QED
      BY <3>1 DEF Excused
  <2>3. CASE q \notin Due
    <3>1. fetch'[q] = fetch[q] /\ lost'[q] = lost[q]
      BY <2>3 DEF Flush, Refetch, Miss
    <3>2. Missing(q)' = Missing(q)
      BY <1>1, <3>1 DEF Missing
    <3>3. Excused(q)
      BY <1>1, <1>2, <3>2 DEF GapsExcused
    <3>4. ~Waits(q)
      BY <2>3 DEF Due, Waits
    <3>5. Coming(q) => Coming(q)'
      BY <1>1, <3>1, <3>4, ComingCases, ComingThen DEF Arrives, Brings
    <3> QED
      BY <1>1, <3>1, <3>3, <3>5 DEF Excused, Closing
  <2> QED
    BY <2>1, <2>2, <2>3
<1> QED
  BY <1>2 DEF GapsExcused

LEMMA ToldStep ==
  ASSUME Data, Kept, Sound, Told, [Next]_vars PROVE Told'
<1> SUFFICES ASSUME here' PROVE GapsExcused' /\ OwnCovered'
  BY DEF Told
<1>0. here /\ GapsExcused /\ OwnCovered
  BY HereBefore DEF Told
<1>1. OwnCovered'
  BY <1>0, OwnStep
<1> SUFFICES GapsExcused'
  BY <1>1
<1>2. ASSUME client'.status # "open" PROVE GapsExcused'
  BY <1>2 DEF GapsExcused
<1>3. client \in Clients /\ conn \in [Sockets -> Conns]
  BY DEF Kept
<1>4. ASSUME UNCHANGED <<version, outgoing, shown, answer, fetch, conn, bridge, mutating, ownKeys, lost>>,
             client'.status = client.status, client'.ws = client.ws
      PROVE  GapsExcused'
  <2>1. ASSUME NEW q \in Screens, Excused(q) PROVE Excused(q)'
    <3>1. Coming(q) => Coming(q)'
      <4>1. Coming(q) => Arrives(q)' \/ Waits(q)' \/ fetch'[q] = "asked"
        BY <1>4, ComingCases DEF Arrives, Brings, Waits
      <4> QED
        BY <4>1, ComingThen
    <3> QED
      BY <1>4, <2>1, <3>1 DEF Excused, Closing
  <2> QED
    BY <1>0, <1>4, <2>1, KeepsExcuses
<1>5. CASE Apart
  BY <1>0, <1>5, GapsApart
<1>6. CASE SignIn
  <2>1. client' = Start(client) /\ UNCHANGED <<version, outgoing, shown, answer, fetch, conn, bridge,
                                               mutating, ownKeys, lost>>
    BY <1>6 DEF SignIn, server, screens
  <2>2. CASE client.wanted
    BY <1>3, <1>4, <2>1, <2>2, StartFacts
  <2>3. CASE ~client.wanted
    BY <1>2, <1>3, <2>1, <2>3, StartFacts
  <2> QED
    BY <2>2, <2>3
<1>7. CASE RetryTimer
  <2>1. PICK d \in Clients :
           /\ client' = Connect(d) /\ d.wanted = client.wanted /\ d.ws = client.ws
           /\ d.status = client.status
    BY <1>3, <1>7, RetryTimerFacts
  <2>2. UNCHANGED <<version, outgoing, shown, answer, fetch, conn, bridge, mutating, ownKeys, lost>>
    BY <1>7 DEF RetryTimer, server, screens
  <2>3. CASE client.wanted
    BY <1>2, <2>1, <2>3, ConnectFacts
  <2>4. CASE ~client.wanted
    BY <1>4, <2>1, <2>2, <2>4, ConnectFacts
  <2> QED
    BY <2>3, <2>4
<1>8. CASE TicketUnauthorized
  <2>1. client' = Stop(Answered) /\ Answered \in Clients
    BY <1>3, <1>8, AnsweredFacts DEF TicketUnauthorized
  <2> QED
    BY <1>2, <2>1, StopFacts
<1>9. CASE TicketFails
  <2>1. PICK d \in Clients :
           /\ client' = ScheduleRetry(d) /\ d.wanted = client.wanted /\ d.ws = client.ws
           /\ d.status = client.status
    BY <1>3, <1>9, TicketFailsFacts
  <2>2. UNCHANGED <<version, outgoing, shown, answer, fetch, conn, bridge, mutating, ownKeys, lost>>
    BY <1>9 DEF TicketFails, server, screens
  <2>3. CASE client.wanted
    BY <1>2, <2>1, <2>3, ScheduleRetryFacts
  <2>4. CASE ~client.wanted
    BY <1>4, <2>1, <2>2, <2>4, ScheduleRetryFacts
  <2> QED
    BY <2>3, <2>4
<1>10. CASE Flicker
  <2>1. client' = Stop(client)
    BY <1>10 DEF Flicker
  <2> QED
    BY <1>2, <1>3, <2>1, StopFacts
<1>11. CASE Flush
  BY <1>0, <1>11, GapsFlush
<1>12. ASSUME NEW u \in outgoing, Publish(u) PROVE GapsExcused'
  BY <1>0, <1>12, GapsPublish
<1>13. ASSUME NEW s \in Sockets, Hub(s) \/ Drop(s) \/ WatchdogFails(s) PROVE GapsExcused'
  BY <1>0, <1>13, GapsHub
<1>14. ASSUME NEW s \in Sockets, Ticket(s) PROVE GapsExcused'
  BY <1>0, <1>14, GapsTicket
<1>15. ASSUME NEW s \in Sockets, Open(s) PROVE GapsExcused'
  BY <1>0, <1>15, GapsOpen
<1>16. ASSUME NEW s \in Sockets, Close(s) PROVE GapsExcused'
  BY <1>0, <1>16, GapsClose
<1>17. ASSUME NEW s \in Sockets, Deliver(s) PROVE GapsExcused'
  BY <1>0, <1>17, GapsDeliver
<1>18. ASSUME NEW q \in Screens, Unauthorized(q) PROVE GapsExcused'
  BY <1>18 DEF Unauthorized
<1>19. CASE UNCHANGED vars
  BY <1>4, <1>19 DEF vars
<1> QED
  BY <1>5, <1>6, <1>7, <1>8, <1>9, <1>10, <1>11, <1>12, <1>13, <1>14, <1>15, <1>16, <1>17, <1>18,
     <1>19, MoreSteps

-----------------------------------------------------------------------------
(* The theorems. *)

IInv == Data /\ Kept /\ Sound /\ Told

LEMMA InitIInv == Init => IInv
<1> SUFFICES ASSUME Init PROVE IInv
  OBVIOUS
<1>0. Data
  BY BoundsAssumption DEF Init, Data
<1>1. Data /\ Kept /\ Sound
  BY <1>0, KeptInit, SoundInit
<1>2. client.status # "open" /\ outgoing = {}
  BY DEF Init, Idle
<1>3. Told
  BY <1>2 DEF Told, GapsExcused, OwnCovered
<1> QED
  BY <1>1, <1>3 DEF IInv

LEMMA NextIInv == IInv /\ [Next]_vars => IInv'
<1> SUFFICES ASSUME IInv, [Next]_vars PROVE IInv'
  OBVIOUS
<1>1. Data' /\ Kept'
  BY DataStep, KeptStep DEF IInv
<1>2. Sound' /\ Told'
  BY <1>1, SoundStep, ToldStep DEF IInv
<1> QED
  BY <1>1, <1>2 DEF IInv

LEMMA InductiveInvariant == Spec => []IInv
BY InitIInv, NextIInv, PTL DEF Spec

\* The types hold, an overflow always ends in a resync, and the states of the socket and of
\* the client fit each other as long as no answer has replaced a socket that is still there:
\* for any number of sockets, ticket requests, stray timers and faults, and whatever the
\* circuit breaker's limit.
THEOREM ConnectionSound == Spec => []ConnectionIsSound
<1>1. IInv => ConnectionIsSound
  <2> SUFFICES ASSUME IInv PROVE ConnectionIsSound
    OBVIOUS
  <2>1. Data /\ Kept /\ Sound /\ client \in Clients /\ conn \in [Sockets -> Conns]
    BY DEF IInv, Kept
  <2>2. \A s \in Sockets : conn[s].outbox \in Seq(Hints) /\ conn[s].wire \in Seq(Hints)
    BY <2>1 DEF Conns
  <2>3. \A s \in Sockets :
          /\ conn[s].client \in {"none", "connecting", "open"}
          /\ conn[s].server \in {"none", "accepted", "registered", "gone"}
          /\ \A i \in DOMAIN conn[s].outbox : conn[s].outbox[i] \in Hints
          /\ \A i \in DOMAIN conn[s].wire : conn[s].wire[i] \in Hints
    BY <2>1, <2>2 DEF Conns
  <2>4. /\ client.status \in {"idle", "connecting", "open", "closed"}
        /\ client.ws \in Sockets \cup {0} /\ {client.failed, client.tickets, client.stray} \subseteq Nat
    BY <2>1 DEF Clients
  <2>5. TypeOK
    BY <2>1, <2>3, <2>4 DEF TypeOK, Data, Kept, Bridges
  <2>6. OverflowEndsInResync
    BY <2>1 DEF Sound, ConnSound, OverflowEnds, OverflowEndsInResync, Registered
  <2>7. ~client.replaced => OpenMeansConnected /\ NeverStranded
    BY <2>1 DEF Sound, Linked, OpenMeansConnected, NeverStranded
  <2> QED
    BY <2>5, <2>6, <2>7 DEF ConnectionIsSound
<1> QED
  BY <1>1, InductiveInvariant, PTL

\* Whatever is lost, dropped, refused, replaced or reconnected, a screen that misses a
\* published change while the status open has stopped its polling has something on its way
\* that ends in a refetch, or a named cause: for any screens, query keys, hints, outbox,
\* sockets and faults.
THEOREM NothingIsForgotten == Spec => []NothingForgotten
<1>1. IInv => NothingForgotten
  BY DEF IInv, Told, GapsExcused, Excused, NothingForgotten
<1> QED
  BY <1>1, InductiveInvariant, PTL
=============================================================================
