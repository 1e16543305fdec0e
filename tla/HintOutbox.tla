----------------------------- MODULE HintOutbox ------------------------------
(* The bounded outbox of one connection of the hub                           *)
(* (app/modules/realtime/hub.py, Connection): what offer and the sender task *)
(* do to it, as operators on the connection's record.                        *)
EXTENDS Naturals, Sequences

CONSTANTS
  OutboxSize,           \* OUTBOX_SIZE
  WireSize              \* frames the socket takes before send_text waits

ASSUME OutboxAssumption == OutboxSize \in Nat \ {0} /\ WireSize \in Nat \ {0}

Resync == [type |-> "resync", scope |-> "none", module |-> "none"]
Hello  == [type |-> "hello",  scope |-> "none", module |-> "none"]

\* offer: dropped silently once the outbox has overflowed, and a full one overflows
Offer(c, m) ==
  IF c.overflowed THEN c
  ELSE IF Len(c.outbox) < OutboxSize THEN [c EXCEPT !.outbox = Append(@, m)]
  ELSE [c EXCEPT !.overflowed = TRUE]

CanTake(c) == c.sender = "get" /\ c.outbox # <<>> /\ Len(c.wire) < WireSize

\* outbox.get and send_text; offers may come in before send_text returns
Take(c) ==
  [c EXCEPT !.outbox = Tail(@), !.wire = Append(@, Head(c.outbox)), !.sender = "sent"]

CanCheck(c) == c.sender = "sent" /\ (c.overflowed /\ c.outbox = <<>> => Len(c.wire) < WireSize)

\* faulty
CheckForgetsResync(c) == [c EXCEPT !.overflowed = FALSE, !.sender = "get"]

\* after send_text: one resync stands for everything the overflow dropped
Check(c) ==
  IF c.overflowed /\ c.outbox = <<>>
  THEN [c EXCEPT !.overflowed = FALSE, !.wire = Append(@, Resync), !.sender = "get"]
  ELSE [c EXCEPT !.sender = "get"]
=============================================================================
