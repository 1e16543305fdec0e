------------------------- MODULE ServiceDeskProofs -------------------------
(***************************************************************************)
(* What holds of a service ticket for any number of overlapping requests   *)
(* and sweeps and any due times.  The argument: a transaction that nobody  *)
(* overtook writes the difference between the committed ticket and a       *)
(* ticket its handler made of that same one, so that the result is exactly *)
(* what the handler decided; an overtaken one mixes columns of two         *)
(* decisions, and only what every decision guarantees column by column     *)
(* (a stamp goes with its reason) survives.                                *)
(***************************************************************************)
EXTENDS ServiceDesk, FiniteSetTheorems, TLAPS

\* What every handler makes of the ticket it read.
Decision(t, new) ==
  /\ new \in Tickets
  /\ Accepted(new)
  /\ new.status = t.status \/ new.status \in LegalNext[t.status]
  /\ Order[new.escalation] >= Order[t.escalation]

\* A transaction nobody overtook writes a decision on the ticket as it is.
FreshDecides ==
  \A w \in Workers : work[w] # Idle /\ ~ work[w].stale =>
    \E new \in Tickets : Decision(ticket, new) /\ work[w].writes = Dirty(ticket, new)

\* A late response and a breach are written with the stamp, or after it; nobody takes it back.
WritesStamp ==
  \A w \in Workers :
    /\ work[w].writes.breach # "none"
    /\ work[w].writes.response = "late" \/ work[w].writes.escalation = "breached" =>
         "stamped" \in {work[w].writes.breach, ticket.breach}

\* An assignment nobody overtook replaces the active one.
FreshReplaces ==
  \A w \in Workers :
    work[w].step = "write" /\ work[w].assigns /\ ~ work[w].stale =>
      work[w].previous \in active \/ active = {}

IInv ==
  /\ TypeOK
  /\ Accepted(ticket)
  /\ LateIsBreached
  /\ FreshDecides
  /\ WritesStamp
  /\ FreshReplaces

-----------------------------------------------------------------------------
(* The columns of an UPDATE. *)

LEMMA DirtyType ==
  ASSUME NEW t \in Tickets, NEW new \in Tickets
  PROVE  Dirty(t, new) \in Writes
  BY DEF Dirty, Tickets, Writes, Same, Statuses, Escalations

LEMMA UpdatedType ==
  ASSUME NEW t \in Tickets, NEW writes \in Writes
  PROVE  Updated(t, writes) \in Tickets
  BY DEF Updated, Tickets, Writes, Same, Statuses, Escalations

\* Writing the difference to the row it was taken from gives the new row.
LEMMA DirtyThenUpdated ==
  ASSUME NEW t \in Tickets, NEW new \in Tickets
  PROVE  Updated(t, Dirty(t, new)) = new
  BY DEF Updated, Dirty, Tickets, Same, Statuses, Escalations

LEMMA IdleType == Idle \in [step : {"idle", "assign", "write"}, writes : Writes,
                            assigns : BOOLEAN, previous : Rows \cup {NoRow}, stale : BOOLEAN]
  BY DEF Idle, Nothing, Writes, Same

LEMMA MarkType ==
  ASSUME NEW t \in Tickets, NEW now
  PROVE  /\ MarkFirstResponse(t, now) \in Tickets
         /\ MarkFirstResponse(t, now).status = t.status
         /\ MarkFirstResponse(t, now).confirmation = t.confirmation
         /\ MarkFirstResponse(t, now).escalation = t.escalation
         /\ t.breach = "stamped" => MarkFirstResponse(t, now).breach = "stamped"
         /\ MarkFirstResponse(t, now).response = "late" =>
              t.response = "late" \/ MarkFirstResponse(t, now).breach = "stamped"
  BY DEF MarkFirstResponse, Tickets

-----------------------------------------------------------------------------
(* What each handler decides. *)

\* A stamp is never taken back, and comes with the reason for it.
KeepsStamps(t, new) ==
  /\ t.breach = "stamped" => new.breach = "stamped"
  /\ new.response = "late" => t.response = "late" \/ new.breach = "stamped"
  /\ new.escalation = "breached" => t.escalation = "breached" \/ new.breach = "stamped"

LEMMA OrderType == \A e \in Escalations : Order[e] \in 0 .. 3
  BY DEF Order, Escalations

LEMMA AssignDecides ==
  ASSUME NEW t \in Tickets, NEW now, Accepted(t), t.status \notin {"closed", "cancelled"},
         NEW moved,
         moved = IF t.status \in {"created", "reopened"} THEN [t EXCEPT !.status = "assigned"] ELSE t
  PROVE  /\ Decision(t, MarkFirstResponse(moved, now))
         /\ KeepsStamps(t, MarkFirstResponse(moved, now))
<1>1. moved \in Tickets /\ moved.breach = t.breach /\ moved.response = t.response
      /\ moved.escalation = t.escalation /\ moved.confirmation = t.confirmation
      /\ (moved.status = t.status \/ moved.status \in LegalNext[t.status])
      /\ moved.status # "closed"
  BY DEF Tickets, Statuses, LegalNext
<1>2. t.escalation \in Escalations
  BY DEF Tickets
<1> DEFINE new == MarkFirstResponse(moved, now)
<1>3. /\ new \in Tickets /\ new.status = moved.status /\ new.confirmation = t.confirmation
      /\ new.escalation = t.escalation
      /\ (t.breach = "stamped" => new.breach = "stamped")
      /\ (new.response = "late" => t.response = "late" \/ new.breach = "stamped")
  BY <1>1, MarkType
<1> HIDE DEF new
<1>4. Decision(t, new) /\ KeepsStamps(t, new)
  BY <1>1, <1>2, <1>3, OrderType DEF Decision, KeepsStamps, Accepted
<1> QED
  BY <1>4 DEF new

LEMMA TransitionDecides ==
  ASSUME NEW t \in Tickets, NEW now, Accepted(t), NEW target \in Targets,
         target \in TicketActions[t.status],
         NEW new,
         new = IF target = "resolved" THEN Resolve(t, now) ELSE Move(t, target, now)
  PROVE  /\ Decision(t, new)
         /\ KeepsStamps(t, new)
<1>0. t.status \in Statuses /\ t.escalation \in Escalations
  BY DEF Tickets
<1>1. /\ target = "resolved" => "resident_confirmation" \in LegalNext[t.status]
      /\ target # "resolved" => target \in LegalNext[t.status]
      /\ target \in {"assigned", "acknowledged", "in_progress", "resolved", "cancelled"}
  BY <1>0 DEF TicketActions, LegalNext, Statuses
<1>2. CASE target = "resolved"
  <2>1. new = Resolve(t, now)
    BY <1>2
  <2>2. /\ new \in Tickets /\ new.status = "resident_confirmation"
        /\ new.escalation = t.escalation /\ new.response = t.response
        /\ (t.breach = "stamped" => new.breach = "stamped")
    BY <2>1 DEF Resolve, Tickets, Statuses
  <2> QED
    BY <1>0, <1>1, <1>2, <2>2, OrderType DEF Decision, KeepsStamps, Accepted
<1>3. CASE target # "resolved"
  <2> DEFINE moved == [t EXCEPT !.status = target]
  <2>1. /\ moved \in Tickets /\ moved.status = target /\ moved.escalation = t.escalation
        /\ moved.response = t.response /\ moved.breach = t.breach
    BY <1>1, <1>3 DEF Tickets, Statuses
  <2>2. new \in {moved, MarkFirstResponse(moved, now)}
    BY <1>3 DEF Move
  <2> HIDE DEF moved
  <2> QED
    BY <1>0, <1>1, <1>3, <2>1, <2>2, MarkType, OrderType DEF Decision, KeepsStamps, Accepted
<1> QED
  BY <1>2, <1>3

LEMMA ConfirmDecides ==
  ASSUME NEW t \in Tickets, t.status = "resident_confirmation",
         NEW verdict \in {"confirmed", "disputed"}, NEW new,
         new = [t EXCEPT !.confirmation = verdict,
                  !.status = IF verdict = "confirmed" THEN "closed" ELSE "reopened"]
  PROVE  Decision(t, new) /\ KeepsStamps(t, new)
<1>1. /\ new \in Tickets /\ new.status \in {"closed", "reopened"}
      /\ new.status = "closed" => new.confirmation = "confirmed"
      /\ new.escalation = t.escalation /\ new.response = t.response /\ new.breach = t.breach
  BY DEF Tickets, Statuses
<1>2. {"closed", "reopened"} \subseteq LegalNext[t.status] /\ t.escalation \in Escalations
  BY DEF LegalNext, Tickets, Statuses
<1> QED
  BY <1>1, <1>2, OrderType DEF Decision, KeepsStamps, Accepted

LEMMA MessageDecides ==
  ASSUME NEW t \in Tickets, NEW now, Accepted(t)
  PROVE  /\ Decision(t, MarkFirstResponse(t, now))
         /\ KeepsStamps(t, MarkFirstResponse(t, now))
         /\ MarkFirstResponse(t, now).status = t.status
<1>1. t.escalation \in Escalations
  BY DEF Tickets
<1> QED
  BY <1>1, MarkType, OrderType DEF Decision, KeepsStamps, Accepted

LEMMA SweepDecides ==
  ASSUME NEW t \in Tickets, NEW now, Accepted(t),
         Order[TargetState(now)] > Order[t.escalation]
  PROVE  /\ Decision(t, Escalated(t, TargetState(now)))
         /\ KeepsStamps(t, Escalated(t, TargetState(now)))
         /\ Escalated(t, TargetState(now)).status = t.status
<1>1. TargetState(now) \in Escalations /\ t.escalation \in Escalations
  BY DEF TargetState, Escalations, Tickets
<1> DEFINE new == Escalated(t, TargetState(now))
<1>2. /\ new \in Tickets /\ new.status = t.status /\ new.confirmation = t.confirmation
      /\ new.response = t.response /\ new.escalation = TargetState(now)
      /\ (t.breach = "stamped" => new.breach = "stamped")
      /\ (new.escalation = "breached" => new.breach = "stamped")
  BY <1>1 DEF Escalated, Tickets, Escalations
<1> HIDE DEF new
<1>3. Decision(t, new) /\ KeepsStamps(t, new) /\ new.status = t.status
  BY <1>1, <1>2, OrderType DEF Decision, KeepsStamps, Accepted
<1> QED
  BY <1>3 DEF new

-----------------------------------------------------------------------------
(* Inductiveness. *)

LEMMA Initially == Init => IInv
<1> SUFFICES ASSUME Init PROVE IInv
  OBVIOUS
<1>1. TypeOK
  BY IdleType, DueAssumption DEF Init, TypeOK, Tickets, Statuses, Escalations
<1>2. Accepted(ticket) /\ LateIsBreached
  BY DEF Init, Accepted, LateIsBreached
<1>3. FreshDecides /\ WritesStamp /\ FreshReplaces
  BY DEF Init, Idle, Nothing, Same, FreshDecides, WritesStamp,
         FreshReplaces
<1> QED
  BY <1>1, <1>2, <1>3 DEF IInv

\* A transaction that begins with a decision on the committed ticket, assigning or not.
LEMMA BeginStep ==
  ASSUME IInv, NEW w \in Workers, work[w] = Idle,
         NEW new \in Tickets, Decision(ticket, new), KeepsStamps(ticket, new),
         NEW step \in {"assign", "write"},
         work' = [work EXCEPT ![w] = Begun(step, Dirty(ticket, new))],
         UNCHANGED <<clock, ticket, active>>
  PROVE  IInv'
<1> DEFINE begun == Begun(step, Dirty(ticket, new))
<1>1. /\ \A v \in Workers : work'[v] = IF v = w THEN begun ELSE work[v]
      /\ ticket' = ticket /\ active' = active /\ clock' = clock
  BY DEF IInv, TypeOK
<1>2. /\ begun.writes = Dirty(ticket, new) /\ begun.step = step
      /\ begun.assigns = (step = "assign") /\ begun.previous = NoRow /\ begun.stale = FALSE
  BY DEF Begun
<1>3. ticket \in Tickets
  BY DEF IInv, TypeOK
<1>4. /\ Dirty(ticket, new).response = "late" => ticket.response # "late" /\ new.response = "late"
      /\ Dirty(ticket, new).escalation = "breached" =>
           ticket.escalation # "breached" /\ new.escalation = "breached"
      /\ Dirty(ticket, new).breach = IF new.breach = ticket.breach THEN Same ELSE new.breach
      /\ Dirty(ticket, new).status = IF new.status = ticket.status THEN Same ELSE new.status
  BY <1>3 DEF Dirty, Same
<1>5. /\ begun.writes.breach # "none"
      /\ "stamped" \in {begun.writes.breach, ticket.breach} \/
         ~ (begun.writes.response = "late" \/ begun.writes.escalation = "breached")
  BY <1>2, <1>3, <1>4 DEF KeepsStamps, Tickets, Same
<1>7. begun \in [step : {"idle", "assign", "write"}, writes : Writes, assigns : BOOLEAN,
                 previous : Rows \cup {NoRow}, stale : BOOLEAN]
  BY <1>3, DirtyType DEF Begun
<1> HIDE DEF begun
<1>8. TypeOK'
  BY <1>1, <1>7 DEF IInv, TypeOK
<1>9. Accepted(ticket)' /\ LateIsBreached'
  BY <1>1 DEF IInv, Accepted, LateIsBreached
<1>10. FreshDecides'
  BY <1>1, <1>2 DEF IInv, FreshDecides
<1>11. WritesStamp'
  BY <1>1, <1>5 DEF IInv, WritesStamp
<1>13. FreshReplaces'
  BY <1>1, <1>2 DEF IInv, FreshReplaces
<1> QED
  BY <1>8, <1>9, <1>10, <1>11, <1>13 DEF IInv

LEMMA DecideStep ==
  ASSUME IInv, NEW w \in Workers, NEW new \in Tickets,
         Decision(ticket, new), KeepsStamps(ticket, new),
         Decide(w, new)
  PROVE  IInv'
  BY BeginStep DEF Decide

LEMMA AssignStep ==
  ASSUME IInv, NEW w \in Workers, Assign(w)
  PROVE  IInv'
<1> DEFINE moved == IF ticket.status \in {"created", "reopened"}
                    THEN [ticket EXCEPT !.status = "assigned"] ELSE ticket
           new == MarkFirstResponse(moved, clock)
<1>1. ticket \in Tickets /\ Accepted(ticket)
  BY DEF IInv, TypeOK
<1>2. Decision(ticket, new) /\ KeepsStamps(ticket, new)
  BY <1>1, AssignDecides DEF Assign
<1>3. new \in Tickets
  BY <1>2 DEF Decision
<1>4. /\ work[w] = Idle /\ UNCHANGED <<clock, ticket, active>>
      /\ work' = [work EXCEPT ![w] = Begun("assign", Dirty(ticket, new))]
  BY DEF Assign
<1> HIDE DEF new
<1> QED
  BY <1>2, <1>3, <1>4, BeginStep

LEMMA ReadAssignmentStep ==
  ASSUME IInv, NEW w \in Workers, ReadAssignment(w)
  PROVE  IInv'
<1> PICK row \in IF active = {} THEN {NoRow} ELSE active :
      work' = [work EXCEPT ![w].step = "write", ![w].previous = row]
  BY DEF ReadAssignment
<1>1. ticket' = ticket /\ active' = active /\ clock' = clock
  BY DEF ReadAssignment
<1>2. work \in [Workers -> [step : {"idle", "assign", "write"}, writes : Writes,
                            assigns : BOOLEAN, previous : Rows \cup {NoRow}, stale : BOOLEAN]]
      /\ active \subseteq Rows /\ work[w].step = "assign"
  BY DEF IInv, TypeOK, ReadAssignment
<1>3. /\ work' \in [Workers -> [step : {"idle", "assign", "write"}, writes : Writes,
                            assigns : BOOLEAN, previous : Rows \cup {NoRow}, stale : BOOLEAN]]
      /\ \A v \in Workers : v # w => work'[v] = work[v]
      /\ work'[w].step = "write" /\ work'[w].previous = row
      /\ work'[w].writes = work[w].writes /\ work'[w].assigns = work[w].assigns
      /\ work'[w].stale = work[w].stale
  BY <1>2
<1>4. work[w] # Idle
  BY <1>2 DEF Idle
<1>5. TypeOK' /\ Accepted(ticket)' /\ LateIsBreached'
  BY <1>1, <1>3 DEF IInv, TypeOK, Accepted, LateIsBreached
<1>6. FreshDecides'
  BY <1>1, <1>3, <1>4 DEF IInv, FreshDecides
<1>7. WritesStamp'
  BY <1>1, <1>3 DEF IInv, WritesStamp
<1>8. FreshReplaces'
  BY <1>1, <1>3 DEF IInv, FreshReplaces
<1> QED
  BY <1>5, <1>6, <1>7, <1>8 DEF IInv

LEMMA CommitStep ==
  ASSUME IInv, NEW w \in Workers, Commit(w)
  PROVE  IInv'
<1> DEFINE writes == work[w].writes
<1>1. /\ work \in [Workers -> [step : {"idle", "assign", "write"}, writes : Writes,
                            assigns : BOOLEAN, previous : Rows \cup {NoRow}, stale : BOOLEAN]]
      /\ active \subseteq Rows /\ ticket \in Tickets /\ clock \in 0 .. LastHour
  BY DEF IInv, TypeOK
<1>2. /\ ticket' = Updated(ticket, writes) /\ Accepted(ticket') /\ clock' = clock
      /\ writes \in Writes
  BY <1>1 DEF Commit
<1>3. ticket' \in Tickets
  BY <1>1, <1>2, UpdatedType
<1>4. /\ ticket'.status = IF writes.status = Same THEN ticket.status ELSE writes.status
      /\ ticket'.escalation = IF writes.escalation = Same THEN ticket.escalation
                              ELSE writes.escalation
      /\ ticket'.response = IF writes.response = Same THEN ticket.response ELSE writes.response
      /\ ticket'.breach = IF writes.breach = Same THEN ticket.breach ELSE writes.breach
  BY <1>2 DEF Updated
<1>5. /\ active' \subseteq Rows
      /\ active # {} => active' # {}
      /\ work[w].assigns => active' # {}
  <2>1. CASE work[w].assigns
    <3>1. (CHOOSE row \in FreeRows : TRUE) \in FreeRows /\ FreeRows \subseteq Rows
      BY <2>1 DEF Commit, FreeRows
    <3> QED
      BY <1>1, <2>1, <3>1 DEF Commit
  <2>2. CASE ~ work[w].assigns
    BY <1>1, <2>2 DEF Commit
  <2> QED
    BY <2>1, <2>2
<1>6. /\ work' \in [Workers -> [step : {"idle", "assign", "write"}, writes : Writes,
                            assigns : BOOLEAN, previous : Rows \cup {NoRow}, stale : BOOLEAN]]
      /\ work'[w] = Idle
      /\ \A v \in Workers : v # w => /\ work'[v].writes = work[v].writes
                                     /\ work'[v].assigns = work[v].assigns
                                     /\ work'[v] = Idle \/ work'[v].stale
  BY <1>1, IdleType DEF Commit, NowStale
<1>7. /\ writes.breach # "none"
      /\ writes.response = "late" \/ writes.escalation = "breached" =>
           "stamped" \in {writes.breach, ticket.breach}
  BY DEF IInv, WritesStamp
<1>8. writes.breach \in {"stamped", Same}
  BY <1>2, <1>7 DEF Writes
<1>9. TypeOK' /\ Accepted(ticket)'
  BY <1>1, <1>2, <1>3, <1>5, <1>6 DEF TypeOK, Accepted
<1>10. LateIsBreached'
  BY <1>4, <1>7, <1>8 DEF IInv, LateIsBreached, Same
<1>12. /\ Idle.writes.status = Same /\ Idle.writes.breach = Same
       /\ Idle.writes.response = Same /\ Idle.writes.escalation = Same
       /\ Idle.step = "idle" /\ Idle.assigns = FALSE
  BY DEF Idle, Nothing
<1>13. FreshDecides'
  BY <1>6 DEF FreshDecides
<1>14. WritesStamp'
  BY <1>4, <1>6, <1>8, <1>12 DEF IInv, WritesStamp, Same
<1>16. FreshReplaces'
  BY <1>6, <1>12 DEF FreshReplaces
<1> QED
  BY <1>9, <1>10, <1>13, <1>14, <1>16 DEF IInv

LEMMA RefuseStep ==
  ASSUME IInv, NEW w \in Workers, Refuse(w)
  PROVE  IInv'
<1>1. /\ work' = [work EXCEPT ![w] = Idle]
      /\ ticket' = ticket /\ active' = active /\ clock' = clock
  BY DEF Refuse
<1>2. work \in [Workers -> [step : {"idle", "assign", "write"}, writes : Writes,
                            assigns : BOOLEAN, previous : Rows \cup {NoRow}, stale : BOOLEAN]]
  BY DEF IInv, TypeOK
<1>3. \A v \in Workers : work'[v] = IF v = w THEN Idle ELSE work[v]
  BY <1>1, <1>2
<1>4. /\ Idle.writes.status = Same /\ Idle.writes.breach = Same
      /\ Idle.writes.response = Same /\ Idle.writes.escalation = Same
      /\ Idle.step = "idle"
  BY DEF Idle, Nothing
<1>5. TypeOK' /\ Accepted(ticket)' /\ LateIsBreached'
  BY <1>1, <1>2, IdleType DEF IInv, TypeOK, Accepted, LateIsBreached
<1>6. FreshDecides'
  BY <1>1, <1>3 DEF IInv, FreshDecides
<1>7. WritesStamp'
  BY <1>1, <1>3, <1>4 DEF IInv, WritesStamp, Same
<1>8. FreshReplaces'
  BY <1>1, <1>3, <1>4 DEF IInv, FreshReplaces
<1> QED
  BY <1>5, <1>6, <1>7, <1>8 DEF IInv

LEMMA TickStep ==
  ASSUME IInv, Tick \/ UNCHANGED vars
  PROVE  IInv'
<1>1. ticket' = ticket /\ active' = active /\ work' = work /\ clock' \in 0 .. LastHour
  BY DueAssumption DEF IInv, TypeOK, Tick, vars
<1> QED
  BY <1>1 DEF IInv, TypeOK, Accepted, LateIsBreached, FreshDecides,
              WritesStamp, FreshReplaces

LEMMA RequestStep ==
  ASSUME IInv, NEW w \in Workers, Request(w) \/ Sweep(w)
  PROVE  IInv'
<1>1. ticket \in Tickets /\ Accepted(ticket)
  BY DEF IInv, TypeOK
<1>2. CASE Assign(w)
  BY <1>2, AssignStep
<1>3. ASSUME NEW target \in Targets, Transition(w, target)
      PROVE  IInv'
  <2> DEFINE new == IF target = "resolved" THEN Resolve(ticket, clock)
                    ELSE Move(ticket, target, clock)
  <2>1. Decide(w, new) /\ target \in TicketActions[ticket.status]
    BY <1>3 DEF Transition
  <2>2. /\ Decision(ticket, new) /\ KeepsStamps(ticket, new)
    BY <1>1, <2>1, TransitionDecides
  <2> HIDE DEF new
  <2> QED
    BY <2>1, <2>2, DecideStep DEF Decision
<1>4. ASSUME NEW verdict \in {"confirmed", "disputed"}, Confirm(w, verdict)
      PROVE  IInv'
  <2> DEFINE new == [ticket EXCEPT !.confirmation = verdict,
                       !.status = IF verdict = "confirmed" THEN "closed" ELSE "reopened"]
  <2>1. Decide(w, new) /\ ticket.status = "resident_confirmation"
    BY <1>4 DEF Confirm
  <2>2. Decision(ticket, new) /\ KeepsStamps(ticket, new)
    BY <1>1, <2>1, ConfirmDecides
  <2> HIDE DEF new
  <2> QED
    BY <2>1, <2>2, DecideStep DEF Decision
<1>5. CASE Message(w)
  <2> DEFINE new == MarkFirstResponse(ticket, clock)
  <2>1. Decide(w, new)
    BY <1>5 DEF Message
  <2>2. Decision(ticket, new) /\ KeepsStamps(ticket, new) /\ new.status = ticket.status
    BY <1>1, MessageDecides
  <2> HIDE DEF new
  <2> QED
    BY <2>1, <2>2, DecideStep DEF Decision
<1>6. CASE Sweep(w)
  <2> DEFINE new == Escalated(ticket, TargetState(clock))
  <2>1. Decide(w, new) /\ Order[TargetState(clock)] > Order[ticket.escalation]
    BY <1>6 DEF Sweep
  <2>2. Decision(ticket, new) /\ KeepsStamps(ticket, new) /\ new.status = ticket.status
    BY <1>1, <2>1, SweepDecides
  <2> HIDE DEF new
  <2> QED
    BY <2>1, <2>2, DecideStep DEF Decision
<1> QED
  BY <1>2, <1>3, <1>4, <1>5, <1>6 DEF Request

LEMMA Inductive == IInv /\ [Next]_vars => IInv'
<1> SUFFICES ASSUME IInv, [Next]_vars PROVE IInv'
  OBVIOUS
<1>1. CASE Tick \/ UNCHANGED vars
  BY <1>1, TickStep
<1>2. ASSUME NEW w \in Workers, Request(w) \/ Sweep(w) \/ Proceed(w)
      PROVE  IInv'
  BY <1>2, RequestStep, ReadAssignmentStep, CommitStep, RefuseStep DEF Proceed
<1> QED
  BY <1>1, <1>2 DEF Next

LEMMA Invariance == Spec => []IInv
  BY Initially, Inductive, PTL DEF Spec

-----------------------------------------------------------------------------
(* The properties. *)

\* Nothing but a commit changes the ticket or the assignments.
LEMMA OnlyCommit ==
  ASSUME [Next]_vars
  PROVE  (ticket' = ticket /\ active' = active) \/ \E w \in Workers : Commit(w)
BY DEF Next, vars, Tick, Request, Assign, Transition, Confirm, Message, Sweep, Decide, Proceed,
       ReadAssignment, Refuse

\* A commit that nobody overtook carries out a decision on the ticket it changes, and so does
\* an overtaken one as far as it sets no column.
LEMMA FreshCommit ==
  ASSUME IInv, NEW w \in Workers, Commit(w),
         NEW c \in {"status", "escalation"}, ~ StaleCommit(c)
  PROVE  ticket'[c] = ticket[c] \/ Decision(ticket, ticket')
<1>1. work'[w] = Idle /\ work[w].step = "write"
  BY DEF IInv, TypeOK, Commit, NowStale
<1>2. CASE work[w].writes[c] = Same
  BY <1>2 DEF Commit, Updated
<1>3. CASE ~ work[w].stale
  <2>1. work[w] # Idle
    BY <1>1 DEF Idle
  <2>2. PICK new \in Tickets : Decision(ticket, new) /\ work[w].writes = Dirty(ticket, new)
    BY <1>3, <2>1 DEF IInv, FreshDecides
  <2>3. ticket' = new
    BY <2>2, DirtyThenUpdated DEF IInv, TypeOK, Commit
  <2> QED
    BY <2>2, <2>3
<1> QED
  BY <1>1, <1>2, <1>3 DEF StaleCommit

\* Every reachable state is of the declared types.
THEOREM Types == Spec => []TypeOK
  BY Invariance, PTL DEF IInv

\* A late first response or a breach found by the sweep is stamped, whatever overlaps.
THEOREM BreachIsStamped == Spec => []LateIsBreached
  BY Invariance, PTL DEF IInv

\* The CHECK on closed tickets is met by overtaken transactions only.
THEOREM CheckMeetsOverlap == Spec => []CheckRefusesOverlapOnly
<1>1. IInv => CheckRefusesOverlapOnly
  <2> SUFFICES ASSUME IInv, NEW w \in Workers, work[w].step = "write", ~ work[w].stale
               PROVE  Accepted(Updated(ticket, work[w].writes))
    BY DEF CheckRefusesOverlapOnly
  <2>1. work[w] # Idle /\ ticket \in Tickets
    BY DEF Idle, IInv, TypeOK
  <2>2. PICK new \in Tickets : Decision(ticket, new) /\ work[w].writes = Dirty(ticket, new)
    BY <2>1 DEF IInv, FreshDecides
  <2>3. Updated(ticket, work[w].writes) = new
    BY <2>1, <2>2, DirtyThenUpdated
  <2> QED
    BY <2>2, <2>3 DEF Decision
<1> QED
  BY <1>1, Invariance, PTL

\* The status moves along the transition table unless an overtaken request writes it.
THEOREM TableIsKept == Spec => LifecycleKept
<1>1. IInv /\ [Next]_vars =>
        [ticket'.status # ticket.status =>
           ticket'.status \in LegalNext[ticket.status] \/ StaleCommit("status")]_vars
  BY OnlyCommit, FreshCommit DEF Decision
<1> QED
  BY <1>1, Invariance, PTL DEF Spec, LifecycleKept

\* The escalation is taken back by an overtaken sweep only.
THEOREM EscalationIsMonotonic == Spec => EscalationRises
<1>1. IInv => Order[ticket.escalation] \in Nat
  BY OrderType DEF IInv, TypeOK, Tickets
<1>2. IInv /\ [Next]_vars =>
        [Order[ticket'.escalation] >= Order[ticket.escalation]
           \/ StaleCommit("escalation")]_vars
  BY <1>1, OnlyCommit, FreshCommit DEF Decision
<1> QED
  BY <1>2, Invariance, PTL DEF Spec, EscalationRises

\* An active assignment is joined by a second one only through an overtaken assignment.
THEOREM ReassignmentReplaces == Spec => SecondExecutorIsRace
<1>1. ASSUME IInv, [Next]_vars, active # {}, ~ StaleAssignment,
             Cardinality(active') > Cardinality(active)
      PROVE  FALSE
  <2>1. IsFiniteSet(active) /\ Cardinality(active) \in Nat
    BY <1>1, RowsAssumption, FS_Subset, FS_CardinalityType DEF IInv, TypeOK
  <2>2. active' # active
    BY <1>1, <2>1
  <2>3. PICK w \in Workers : Commit(w)
    BY <1>1, <2>2, OnlyCommit
  <2>4. work[w].assigns /\ work[w].step = "write" /\ ~ work[w].stale
    <3>1. work[w].assigns /\ work[w].step = "write" /\ work'[w] = Idle
      BY <1>1, <2>2, <2>3 DEF Commit, NowStale
    <3> QED
      BY <1>1, <3>1 DEF StaleAssignment
  <2>5. work[w].previous \in active
    BY <1>1, <2>4 DEF IInv, FreshReplaces
  <2>6. PICK row : active' = (active \ {work[w].previous}) \cup {row}
    BY <2>3, <2>4 DEF Commit
  <2> DEFINE rest == active \ {work[w].previous}
  <2>7. IsFiniteSet(rest) /\ Cardinality(rest) = Cardinality(active) - 1
    BY <2>1, <2>5, FS_RemoveElement
  <2>8. active' = rest \cup {row}
    BY <2>6
  <2> HIDE DEF rest
  <2>9. Cardinality(active') \in {Cardinality(rest), Cardinality(rest) + 1}
    BY <2>7, <2>8, FS_AddElement
  <2> QED
    BY <1>1, <2>1, <2>7, <2>9
<1>2. IInv /\ [Next]_vars =>
        [Cardinality(active') > Cardinality(active) /\ active # {} => StaleAssignment]_vars
  BY <1>1
<1> QED
  BY <1>2, Invariance, PTL DEF Spec, SecondExecutorIsRace
=============================================================================
