---------------------------- MODULE ServiceDesk ----------------------------
(***************************************************************************)
(* A service ticket and everybody who works on it: the requests of         *)
(* managers, technicians and residents, and the sweep that escalates a     *)
(* late ticket, as transactions that overlap at READ COMMITTED             *)
(* (src/backend/app/modules/complaints).                                   *)
(*                                                                         *)
(* A transaction reads the ticket without a lock, decides on what it read, *)
(* and its UPDATE names the columns it changed from what it read and no    *)
(* others; the session flushes only at the end (autoflush=False), so the   *)
(* flush and the commit are one step here.  Two transactions that overlap  *)
(* on one ticket are both accepted, and the later one writes its columns   *)
(* over the earlier one's: a transaction is stale once another committed a *)
(* write after its first read.  The properties below say what holds        *)
(* whatever overlaps, and that the rest is lost to stale transactions only.*)
(*                                                                         *)
(* Left out: messages and attachments as data, feedback, ticket numbers,   *)
(* the history and audit rows (written with the change they record), the   *)
(* resolved_at, closed_at and escalation_level stamps, notifications, and  *)
(* who is allowed to call (role and unit checks).                          *)
(***************************************************************************)
EXTENDS Naturals, FiniteSets

CONSTANTS
  Workers,        \* processes that run requests and jobs
  Rows,           \* assignment rows; one that is inactive and known to nobody is used again
  NoRow,          \* the absence of an active assignment
  ResponseDue,    \* first_response_due_at
  RiskDue,        \* the policy's share of the time to resolution_due_at
  ResolutionDue,  \* resolution_due_at
  EscalationDue,  \* escalation_due_at
  LastHour,       \* bound on the clock
  MaxActive       \* bound on the active assignments that races leave

ASSUME WorkersAssumption == IsFiniteSet(Workers)
ASSUME RowsAssumption == IsFiniteSet(Rows) /\ NoRow \notin Rows
ASSUME DueAssumption ==
  {ResponseDue, RiskDue, ResolutionDue, EscalationDue, LastHour,
   MaxActive} \subseteq Nat

VARIABLES
  clock,    \* now
  ticket,   \* the committed row
  active,   \* the assignment rows whose is_active is true
  work      \* each worker's transaction

vars == <<clock, ticket, active, work>>

Statuses == {"created", "assigned", "acknowledged", "in_progress",
             "resident_confirmation", "closed", "reopened", "cancelled"}
Escalations == {"on_track", "at_risk", "breached", "escalated"}

Tickets == [status : Statuses,
            confirmation : {"pending", "confirmed", "disputed"},
            escalation : Escalations,
            response : {"none", "in_time", "late"},
            breach : {"none", "stamped"}]

\* The UPDATE statement of a transaction: the value of each column it names, Same for the rest.
Same == "same"
Writes == [status : Statuses \cup {Same},
           confirmation : {"pending", "confirmed", "disputed", Same},
           escalation : Escalations \cup {Same},
           response : {"none", "in_time", "late", Same},
           breach : {"none", "stamped", Same}]

\* The statement for the change from the loaded object to new, and the row after a statement.
Dirty(old, new) ==
  LET set(c) == IF new[c] = old[c] THEN Same ELSE new[c]
  IN [status |-> set("status"), confirmation |-> set("confirmation"),
      escalation |-> set("escalation"), response |-> set("response"), breach |-> set("breach")]

Updated(t, writes) ==
  LET col(c) == IF writes[c] = Same THEN t[c] ELSE writes[c]
  IN [status |-> col("status"), confirmation |-> col("confirmation"),
      escalation |-> col("escalation"), response |-> col("response"), breach |-> col("breach")]

Nothing == [status |-> Same, confirmation |-> Same, escalation |-> Same,
            response |-> Same, breach |-> Same]

Idle == [step |-> "idle", writes |-> Nothing, assigns |-> FALSE,
         previous |-> NoRow, stale |-> FALSE]

\* A transaction that has read the ticket and is about to run its next step.
Begun(step, writes) == [step |-> step, writes |-> writes, assigns |-> step = "assign",
                        previous |-> NoRow, stale |-> FALSE]

-----------------------------------------------------------------------------
(* The service's tables.  "resolved" is passed through within one request. *)

\* _TRANSITIONS, with the automatic step from resolved folded in.
LegalNext ==
  [created               |-> {"assigned", "cancelled"},
   assigned              |-> {"acknowledged", "in_progress", "cancelled"},
   acknowledged          |-> {"in_progress", "cancelled"},
   in_progress           |-> {"resident_confirmation", "cancelled"},
   resident_confirmation |-> {"closed", "reopened"},
   reopened              |-> {"assigned", "in_progress", "cancelled"},
   closed                |-> {},
   cancelled             |-> {}]

\* _TICKET_ACTIONS: what the transition endpoint accepts.
TicketActions ==
  [created               |-> {"assigned", "cancelled"},
   assigned              |-> {"acknowledged", "in_progress", "cancelled"},
   acknowledged          |-> {"in_progress", "cancelled"},
   in_progress           |-> {"resolved", "cancelled"},
   resident_confirmation |-> {},
   reopened              |-> {"assigned", "in_progress", "cancelled"},
   closed                |-> {},
   cancelled             |-> {}]

\* The targets the endpoint takes from some state; closed and reopened are a resident's.
Targets == UNION {TicketActions[status] : status \in Statuses}

OpenStates == {"created", "assigned", "acknowledged", "in_progress", "reopened"}

Order == [on_track |-> 0, at_risk |-> 1, breached |-> 2, escalated |-> 3]

\* _target_state at the time now.
TargetState(now) ==
  IF now >= EscalationDue THEN "escalated"
  ELSE IF now >= ResolutionDue THEN "breached"
  ELSE IF now >= RiskDue THEN "at_risk"
  ELSE "on_track"

\* _mark_first_response: only the first answer counts, a late one is a breach.
MarkFirstResponse(t, now) ==
  IF t.response # "none" THEN t
  ELSE IF now > ResponseDue THEN [t EXCEPT !.response = "late", !.breach = "stamped"]
  ELSE [t EXCEPT !.response = "in_time"]

\* ck_service_tickets_closed_confirmed.
Accepted(t) == t.status = "closed" => t.confirmation = "confirmed"

-----------------------------------------------------------------------------
Init ==
  /\ clock = 0
  /\ ticket = [status |-> "created", confirmation |-> "pending",
               escalation |-> "on_track", response |-> "none", breach |-> "none"]
  /\ active = {}
  /\ work = [w \in Workers |-> Idle]

Tick ==
  /\ clock < LastHour
  /\ clock' = clock + 1
  /\ UNCHANGED <<ticket, active, work>>

\* A request has read the ticket and turned it into new; it now has to write the difference.
Decide(w, new) ==
  /\ work[w] = Idle
  /\ Dirty(ticket, new) # Nothing
  /\ work' = [work EXCEPT ![w] = Begun("write", Dirty(ticket, new))]
  /\ UNCHANGED <<clock, ticket, active>>

\* faulty: every assignment moves the ticket back to assigned.
AssignRestarts(w) ==
  /\ work[w] = Idle
  /\ ticket.status \notin {"closed", "cancelled"}
  /\ Cardinality(active) < MaxActive
  /\ work' = [work EXCEPT ![w] = Begun("assign",
       Dirty(ticket, MarkFirstResponse([ticket EXCEPT !.status = "assigned"], clock)))]
  /\ UNCHANGED <<clock, ticket, active>>

\* assign_ticket up to the read of the active assignment: refused on a ticket that ended,
\* accepted in every other state, and the status moves from two of them only.
Assign(w) ==
  LET moved == IF ticket.status \in {"created", "reopened"}
               THEN [ticket EXCEPT !.status = "assigned"] ELSE ticket
  IN /\ work[w] = Idle
     /\ ticket.status \notin {"closed", "cancelled"}
     /\ Cardinality(active) < MaxActive
     /\ work' = [work EXCEPT ![w] =
          Begun("assign", Dirty(ticket, MarkFirstResponse(moved, clock)))]
     /\ UNCHANGED <<clock, ticket, active>>

\* faulty: a reassignment does not look for the assignment it replaces.
ReadNothing(w) ==
  /\ work[w].step = "assign"
  /\ work' = [work EXCEPT ![w].step = "write"]
  /\ UNCHANGED <<clock, ticket, active>>

\* active_assignment: a statement of its own, which returns one of the active rows.
ReadAssignment(w) ==
  /\ work[w].step = "assign"
  /\ \E row \in IF active = {} THEN {NoRow} ELSE active :
       work' = [work EXCEPT ![w].step = "write", ![w].previous = row]
  /\ UNCHANGED <<clock, ticket, active>>

\* transition_ticket to resolved, which lands on resident_confirmation.
Resolve(t, now) ==
  [t EXCEPT !.status = "resident_confirmation", !.confirmation = "pending",
            !.breach = IF now > ResolutionDue THEN "stamped" ELSE @]

\* transition_ticket to every other target: "assigned" too, which assigns nobody.
Move(t, target, now) ==
  LET moved == [t EXCEPT !.status = target]
  IN IF target \in {"acknowledged", "in_progress"} THEN MarkFirstResponse(moved, now) ELSE moved

Transition(w, target) ==
  /\ target \in TicketActions[ticket.status]
  /\ Decide(w, IF target = "resolved" THEN Resolve(ticket, clock)
               ELSE Move(ticket, target, clock))

\* faulty: a dispute takes the breach back.
ConfirmForgives(w, verdict) ==
  /\ ticket.status = "resident_confirmation"
  /\ Decide(w, [ticket EXCEPT !.confirmation = verdict, !.breach = "none",
                  !.status = IF verdict = "confirmed" THEN "closed" ELSE "reopened"])

\* faulty: a dispute starts the escalation anew.
ConfirmRestarts(w, verdict) ==
  /\ ticket.status = "resident_confirmation"
  /\ Decide(w, [ticket EXCEPT !.confirmation = verdict, !.escalation = "on_track",
                  !.status = IF verdict = "confirmed" THEN "closed" ELSE "reopened"])

\* faulty: a ticket is closed whatever the resident answers.
ConfirmCloses(w, verdict) ==
  /\ ticket.status = "resident_confirmation"
  /\ Decide(w, [ticket EXCEPT !.confirmation = verdict, !.status = "closed"])

\* confirm_ticket by a resident of the unit.
Confirm(w, verdict) ==
  /\ ticket.status = "resident_confirmation"
  /\ Decide(w, [ticket EXCEPT !.confirmation = verdict,
                  !.status = IF verdict = "confirmed" THEN "closed" ELSE "reopened"])

\* add_message by somebody other than the raiser, public: in every state of the ticket.
Message(w) == Decide(w, MarkFirstResponse(ticket, clock))

\* What the sweep makes of an open ticket.
Escalated(t, target) ==
  [t EXCEPT !.escalation = target,
            !.breach = IF target = "breached" THEN "stamped" ELSE @]

\* faulty: a ticket that was reopened is not looked at.
SweepFirstRound(w) ==
  LET target == TargetState(clock)
  IN /\ ticket.status \in {"created", "assigned", "acknowledged", "in_progress"}
     /\ Order[target] > Order[ticket.escalation]
     /\ Decide(w, Escalated(ticket, target))

\* The job takes the time and selects the tickets that are open; a tick between the two would
\* only make it the sweep of an earlier time.  A state is advanced, never taken back.
Sweep(w) ==
  LET target == TargetState(clock)
  IN /\ ticket.status \in OpenStates
     /\ Order[target] > Order[ticket.escalation]
     /\ Decide(w, Escalated(ticket, target))

\* The rows nobody knows yet.
FreeRows == {row \in Rows : row \notin active /\ \A v \in Workers : row # work[v].previous}

\* Everybody else who read before this commit decides, or decided, on an old row.
NowStale(w) ==
  [v \in Workers |->
     IF v = w THEN Idle
     ELSE IF work[v] # Idle THEN [work[v] EXCEPT !.stale = TRUE]
     ELSE Idle]

\* The flush and the commit: the named columns, the row of the previous assignment made
\* inactive, the new assignment.
Commit(w) ==
  /\ work[w].step = "write"
  /\ Accepted(Updated(ticket, work[w].writes))
  /\ ticket' = Updated(ticket, work[w].writes)
  /\ IF work[w].assigns
     THEN /\ FreeRows # {}
          /\ active' = (active \ {work[w].previous}) \cup {CHOOSE row \in FreeRows : TRUE}
     ELSE active' = active
  /\ work' = NowStale(w)
  /\ UNCHANGED clock

\* The CHECK constraint refuses the row: the transaction is rolled back.
Refuse(w) ==
  /\ work[w].step = "write"
  /\ ~ Accepted(Updated(ticket, work[w].writes))
  /\ work' = [work EXCEPT ![w] = Idle]
  /\ UNCHANGED <<clock, ticket, active>>

Request(w) ==
  \/ Assign(w)
  \/ \E target \in Targets : Transition(w, target)
  \/ \E verdict \in {"confirmed", "disputed"} : Confirm(w, verdict)
  \/ Message(w)

Proceed(w) == ReadAssignment(w) \/ Commit(w) \/ Refuse(w)

Next ==
  \/ Tick
  \/ \E w \in Workers : Request(w) \/ Sweep(w) \/ Proceed(w)

Spec == Init /\ [][Next]_vars

\* A transaction ends by itself.  The beat starts the sweep every five minutes and a free
\* worker takes it: infinitely many chances are not all missed.  A transaction lost with its
\* process is rolled back, as if it had not been made; not every sweep is lost.
FairSpec ==
  /\ Spec
  /\ \A w \in Workers : WF_vars(Proceed(w))
  /\ SF_vars(\E w \in Workers : Sweep(w))

-----------------------------------------------------------------------------
(* Properties. *)

TypeOK ==
  /\ clock \in 0 .. LastHour
  /\ ticket \in Tickets
  /\ active \subseteq Rows
  /\ work \in [Workers -> [step : {"idle", "assign", "write"}, writes : Writes,
                           assigns : BOOLEAN, previous : Rows \cup {NoRow}, stale : BOOLEAN]]

\* sla_breached_at is stamped whenever the first response was late or the sweep called the
\* ticket breached, although assignments, transitions, messages and sweeps that overlap write
\* these columns over each other (_mark_first_response, _sweep_ticket_sla).
LateIsBreached ==
  ticket.response = "late" \/ ticket.escalation = "breached" => ticket.breach = "stamped"

\* The CHECK that a closed ticket was confirmed refuses a transaction only when another one
\* wrote the ticket meanwhile: nobody who acts alone meets it.
CheckRefusesOverlapOnly ==
  \A w \in Workers :
    work[w].step = "write" /\ ~ work[w].stale => Accepted(Updated(ticket, work[w].writes))

\* The transaction that ends in this step sets column c and had been overtaken.
StaleCommit(c) ==
  \E w \in Workers :
    work[w].step = "write" /\ work[w].writes[c] # Same /\ work[w].stale /\ work'[w] = Idle

\* A ticket moves along the transition table, closed and cancelled are final, and it is closed
\* by a resident's confirmation only, unless an overtaken request writes a status of its own
\* over a newer one (ensure_transition on the status that was read).
LifecycleKept ==
  [][ticket'.status # ticket.status =>
       ticket'.status \in LegalNext[ticket.status] \/ StaleCommit("status")]_vars

\* Escalation is monotonic: only an overtaken sweep takes it back (_sweep_ticket_sla).
EscalationRises ==
  [][Order[ticket'.escalation] >= Order[ticket.escalation] \/ StaleCommit("escalation")]_vars

\* The assignment that ends in this step had been overtaken.
StaleAssignment ==
  \E w \in Workers :
    work[w].step = "write" /\ work[w].assigns /\ work[w].stale /\ work'[w] = Idle

\* One active assignment per ticket: a second one is left only by an assignment that another
\* commit overtook (assign_ticket makes the one it finds inactive).
SecondExecutorIsRace ==
  [][Cardinality(active') > Cardinality(active) /\ active # {} => StaleAssignment]_vars

\* A ticket left open past its escalation time is escalated, reopened ones included, whatever
\* the requests and the lost sweeps do meanwhile.
OverdueIsEscalated ==
  (ticket.status \in OpenStates /\ clock >= EscalationDue)
    ~> (ticket.escalation = "escalated" \/ ticket.status \notin OpenStates)
=============================================================================
