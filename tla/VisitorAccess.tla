---------------------------- MODULE VisitorAccess ----------------------------
(* Visitor requests, passes and gate entries (app/modules/visitors), with    *)
(* every HTTP handler and Celery sweep as a database transaction of one      *)
(* worker.  A definition marked `faulty` is a plausible slip in the next one; *)
(* Next never uses it.                                                       *)
(*                                                                           *)
(* The database runs at READ COMMITTED without row versions, so a handler    *)
(* reads committed rows, decides, and writes at its commit whatever has been *)
(* committed since.  A handler is therefore a Begin step (its reads and      *)
(* refusals) and a Commit step (its writes, as the columns it changed).  A   *)
(* refused call writes nothing and is a Begin that is not taken.  With one   *)
(* worker the handlers run one after the other; with several they overlap.   *)
EXTENDS Naturals, FiniteSets, StateMachine

CONSTANTS
  Visitors,   \* people in one community's directory
  Requests,   \* ids of visitor_requests rows
  Passes,     \* ids of visitor_passes rows
  Entries,    \* ids of visitor_entries rows
  Approvers,  \* users who may decide a request
  Workers,    \* transactions that may be open at once
  Suspects,   \* visitors an administrator may blacklist
  Policies,   \* visitor_policies settings an administrator may choose
  MaxUses,    \* bound on a pass's max_entries
  None        \* no pass

ASSUME WorkersAssumption == IsFiniteSet(Workers)
ASSUME MaxUsesAssumption == MaxUses \in Nat \ {0}
ASSUME SuspectsAssumption == Suspects \subseteq Visitors
ASSUME PoliciesAssumption ==
  Policies \subseteq [approval : BOOLEAN, otp : BOOLEAN, block : BOOLEAN]
ASSUME NoneAssumption == None \notin Passes

VARIABLES
  request,    \* visitor_requests with their visitor_request_members
  approval,   \* visitor_approvals
  pass,       \* visitor_passes
  entry,      \* visitor_entries
  blacklist,  \* visitors an active visitor_blacklist row matches
  policy,     \* the community's visitor_policies row
  txn,        \* what each worker's open transaction has read
  granted     \* history: requests that have been `approved` at some time

vars == <<request, approval, pass, entry, blacklist, policy, txn, granted>>

-----------------------------------------------------------------------------
(* Rows                                                                      *)

RequestTransitions ==
  [pending   |-> {"approved", "rejected", "cancelled", "expired"},
   approved  |-> {"entered", "cancelled", "expired"},
   entered   |-> {"completed"},
   rejected  |-> {},
   cancelled |-> {},
   expired   |-> {},
   completed |-> {}]

Status == DOMAIN RequestTransitions
Open == {"pending", "approved"}
Absent == [status |-> "absent"]

\* `overdue`: valid_until is set and has passed
RequestRow == [status : Status, party : SUBSET Visitors, overdue : BOOLEAN]
PassRow == [status : {"issued", "revoked"}, request : Requests,
            window : {"before", "within", "after"},
            max : 1..MaxUses, used : 0..MaxUses]
EntryRow == [status : {"inside", "exited"}, request : Requests,
             visitor : Visitors, pass : Passes \cup {None}]
ApprovalRow == [request : Requests, approver : Approvers,
                decision : {"approved", "rejected"}]

Exists(row) == row.status # "absent"
Insides(r) == {e \in Entries : entry[e].status = "inside" /\ entry[e].request = r}
OpenFor(v) == {e \in Entries : entry[e].status = "inside" /\ entry[e].visitor = v}
Blocked(v) == policy.block /\ v \in blacklist

-----------------------------------------------------------------------------
(* Transactions                                                              *)

Idle == [op |-> "idle"]
Txn ==
  {Idle}
  \cup [op : {"create"}, party : SUBSET Visitors, status : Open]
  \cup [op : {"decide"}, row : ApprovalRow, from : Status]
  \cup [op : {"cancel"}, request : Requests]
  \cup [op : {"member"}, request : Requests, visitor : Visitors]
  \cup [op : {"pass"}, row : PassRow, approve : BOOLEAN]
  \cup [op : {"entry", "admit", "denied", "conflict"}, request : Requests,
        visitor : Visitors, from : Status, pass : Passes \cup {None},
        used : 0..MaxUses, pinSent : BOOLEAN]
  \cup [op : {"exit"}, entry : Entries, request : Requests, completes : BOOLEAN]
  \cup [op : {"sweep"}, due : SUBSET Requests]

Begin(w, t) == txn[w] = Idle /\ txn' = [txn EXCEPT ![w] = t]
Holds(w, op) == txn[w].op = op
Finish(w) == txn' = [txn EXCEPT ![w] = Idle]

\* an UPDATE of request rows' status; the history remembers every approval
SetStatus(rs, to) ==
  /\ request' = [r \in Requests |->
                   IF r \in rs THEN [request[r] EXCEPT !.status = to] ELSE request[r]]
  /\ granted' = IF to = "approved" THEN granted \cup rs ELSE granted
KeepRequests == UNCHANGED <<request, granted>>

\* SQLAlchemy writes an attribute only when it differs from the loaded value
WriteStatus(r, from, to) == IF from = to THEN KeepRequests ELSE SetStatus({r}, to)

-----------------------------------------------------------------------------
(* create_request: screening, then one insert of the request and its party.  *)

MayJoin(v) == ~Blocked(v) /\ OpenFor(v) = {}

BeginCreate(w) ==
  \E party \in (SUBSET Visitors) \ {{}}, recurring \in BOOLEAN :
    /\ \A v \in party : MayJoin(v)
    /\ Begin(w, [op |-> "create", party |-> party,
                 status |-> IF policy.approval /\ ~recurring THEN "pending"
                                                             ELSE "approved"])
    /\ UNCHANGED <<request, approval, pass, entry, blacklist, policy, granted>>

CommitCreate(w) ==
  /\ Holds(w, "create")
  /\ \E r \in Requests :
       /\ ~Exists(request[r])
       /\ request' = [request EXCEPT ![r] =
            [status |-> txn[w].status, party |-> txn[w].party, overdue |-> FALSE]]
       /\ granted' = IF txn[w].status = "approved" THEN granted \cup {r} ELSE granted
  /\ Finish(w)
  /\ UNCHANGED <<approval, pass, entry, blacklist, policy>>

-----------------------------------------------------------------------------
(* decide_request, cancel_request, add_group_member                          *)

MayDecideWhileOpen(status, decision) == status \in Open   \* faulty
MayDecide(status, decision) ==
  EnsureTransition(status, decision, RequestTransitions, TRUE)

BeginDecide(w) ==
  \E r \in Requests, a \in Approvers, decision \in {"approved", "rejected"} :
    /\ Exists(request[r])
    /\ MayDecide(request[r].status, decision)
    /\ Begin(w, [op |-> "decide", from |-> request[r].status,
                 row |-> [request |-> r, approver |-> a, decision |-> decision]])
    /\ UNCHANGED <<request, approval, pass, entry, blacklist, policy, granted>>

\* UNIQUE (request_id, approver_user_id) fails the flush of a second decision
Decided(row) ==
  \E a \in approval : a.request = row.request /\ a.approver = row.approver

CommitDecide(w) ==
  /\ Holds(w, "decide")
  /\ IF Decided(txn[w].row)
       THEN KeepRequests /\ UNCHANGED approval
       ELSE /\ WriteStatus(txn[w].row.request, txn[w].from, txn[w].row.decision)
            /\ approval' = approval \cup {txn[w].row}
  /\ Finish(w)
  /\ UNCHANGED <<pass, entry, blacklist, policy>>

MayCancelUnlessTerminal(status) == ~IsTerminal(status, RequestTransitions)   \* faulty
MayCancel(status) == EnsureTransition(status, "cancelled", RequestTransitions, FALSE)

BeginCancel(w) ==
  \E r \in Requests :
    /\ Exists(request[r])
    /\ MayCancel(request[r].status)
    /\ Begin(w, [op |-> "cancel", request |-> r])
    /\ UNCHANGED <<request, approval, pass, entry, blacklist, policy, granted>>

CommitCancel(w) ==
  /\ Holds(w, "cancel")
  /\ SetStatus({txn[w].request}, "cancelled")
  /\ Finish(w)
  /\ UNCHANGED <<approval, pass, entry, blacklist, policy>>

BeginAddMember(w) ==
  \E r \in Requests, v \in Visitors :
    /\ Exists(request[r])
    /\ ~IsTerminal(request[r].status, RequestTransitions)
    /\ v \notin request[r].party
    /\ ~Blocked(v)
    /\ Begin(w, [op |-> "member", request |-> r, visitor |-> v])
    /\ UNCHANGED <<request, approval, pass, entry, blacklist, policy, granted>>

\* UNIQUE (request_id, visitor_id): the second of two insertions is rolled back
CommitAddMember(w) ==
  /\ Holds(w, "member")
  /\ request' = [request EXCEPT ![txn[w].request].party = @ \cup {txn[w].visitor}]
  /\ Finish(w)
  /\ UNCHANGED <<approval, pass, entry, blacklist, policy, granted>>

-----------------------------------------------------------------------------
(* create_pass, revoke_pass                                                  *)

\* a pass pre-approves a pending request when its issuer could approve it
PreApproves(status, entitled) == status = "pending" /\ entitled

BeginCreatePass(w) ==
  \E r \in Requests, max \in 1..MaxUses, window \in {"before", "within"}, entitled \in BOOLEAN :
    /\ Exists(request[r])
    /\ request[r].status \in Open
    /\ Begin(w, [op |-> "pass",
                 row |-> [status |-> "issued", request |-> r, window |-> window, max |-> max, used |-> 0],
                 approve |-> PreApproves(request[r].status, entitled)])
    /\ UNCHANGED <<request, approval, pass, entry, blacklist, policy, granted>>

CommitCreatePass(w) ==
  /\ Holds(w, "pass")
  /\ \E p \in Passes : ~Exists(pass[p]) /\ pass' = [pass EXCEPT ![p] = txn[w].row]
  /\ IF txn[w].approve THEN SetStatus({txn[w].row.request}, "approved")
                       ELSE KeepRequests
  /\ Finish(w)
  /\ UNCHANGED <<approval, entry, blacklist, policy>>

\* revoke_pass reads no state it decides on: one atomic write
RevokePass(p) ==
  /\ Exists(pass[p])
  /\ pass' = [pass EXCEPT ![p].status = "revoked"]
  /\ UNCHANGED <<request, approval, entry, blacklist, policy, txn, granted>>

-----------------------------------------------------------------------------
(* record_entry: resolve the request by its id or a pass; screen the visitor; *)
(* insert the entry.  A pass found by PIN meets the same checks as one found  *)
(* by token, and is refused when another usable pass shares the PIN.  With a  *)
(* token, any PIN sent along satisfies otp_required.                          *)

UsableUncounted(p) == pass[p].status = "issued" /\ pass[p].window = "within"   \* faulty
Usable(p) ==
  /\ pass[p].status = "issued"
  /\ pass[p].window = "within"
  /\ pass[p].used < pass[p].max

MayEnterUndecided(status) == status \in Open \cup {"entered"}   \* faulty
MayEnter(status) == EnsureTransition(status, "entered", RequestTransitions, TRUE)

InGroup(r, v) == v \in request[r].party

BeginEntry(w) ==
  \E r \in Requests, v \in Visitors, p \in Passes \cup {None}, pinSent \in BOOLEAN :
    /\ Exists(request[r])
    /\ p # None => Exists(pass[p]) /\ pass[p].request = r
    /\ p = None => ~pinSent
    /\ p # None => Usable(p)
    /\ MayEnter(request[r].status)
    /\ InGroup(r, v)
    /\ Begin(w, [op |-> "entry", request |-> r, visitor |-> v, pinSent |-> pinSent,
                 from |-> request[r].status, pass |-> p,
                 used |-> IF p = None THEN 0 ELSE pass[p].used])
    /\ UNCHANGED <<request, approval, pass, entry, blacklist, policy, granted>>

InsideUnchecked(v) == FALSE   \* faulty
AlreadyInside(v) == OpenFor(v) # {}

\* a refusal drops the transaction; a blacklist hit first inserts a `denied` row
ScreenEntry(w) ==
  /\ Holds(w, "entry")
  /\ txn' = [txn EXCEPT ![w] =
       IF policy.otp /\ ~@.pinSent THEN Idle
       ELSE IF Blocked(@.visitor) THEN [@ EXCEPT !.op = "denied"]
       ELSE IF AlreadyInside(@.visitor) THEN Idle
       ELSE [@ EXCEPT !.op = "admit"]]
  /\ UNCHANGED <<request, approval, pass, entry, blacklist, policy, granted>>

\* uq_visitor_entry_open: one `inside` row per request
OpenEntryIndexFree(r) == Insides(r) = {}

NewEntry(t) == [status |-> "inside", request |-> t.request,
                visitor |-> t.visitor, pass |-> t.pass]

\* entry_count += 1, computed from the value the transaction loaded
CountTokenUse(t) ==   \* faulty
  pass' = IF t.pass = None \/ t.pinSent
            THEN pass ELSE [pass EXCEPT ![t.pass].used = t.used + 1]
CountUse(t) ==
  pass' = IF t.pass = None THEN pass ELSE [pass EXCEPT ![t.pass].used = t.used + 1]

CommitEntry(w) ==
  /\ Holds(w, "admit")
  /\ OpenEntryIndexFree(txn[w].request)
  /\ \E e \in Entries :
       ~Exists(entry[e]) /\ entry' = [entry EXCEPT ![e] = NewEntry(txn[w])]
  /\ CountUse(txn[w])
  /\ WriteStatus(txn[w].request, txn[w].from, "entered")
  /\ Finish(w)
  /\ UNCHANGED <<approval, blacklist, policy>>

\* the index refuses the INSERT: IntegrityError, answered 409
ConflictEntry(w) ==
  /\ Holds(w, "admit")
  /\ ~OpenEntryIndexFree(txn[w].request)
  /\ txn' = [txn EXCEPT ![w].op = "conflict"]
  /\ UNCHANGED <<request, approval, pass, entry, blacklist, policy, granted>>

\* get_async_db: the raised error rolls back everything the handler wrote, the
\* `denied` row and its audit row included
RollbackEntry(w) ==
  /\ Holds(w, "denied") \/ Holds(w, "conflict")
  /\ Finish(w)
  /\ UNCHANGED <<request, approval, pass, entry, blacklist, policy, granted>>

-----------------------------------------------------------------------------
(* record_exit                                                               *)

Completes(e) ==
  /\ request[entry[e].request].status = "entered"
  /\ Insides(entry[e].request) \ {e} = {}

BeginExit(w) ==
  \E e \in Entries :
    /\ entry[e].status = "inside"
    /\ Begin(w, [op |-> "exit", entry |-> e, request |-> entry[e].request,
                 completes |-> Completes(e)])
    /\ UNCHANGED <<request, approval, pass, entry, blacklist, policy, granted>>

CommitExit(w) ==
  /\ Holds(w, "exit")
  /\ entry' = [entry EXCEPT ![txn[w].entry].status = "exited"]
  /\ IF txn[w].completes THEN SetStatus({txn[w].request}, "completed")
                         ELSE KeepRequests
  /\ Finish(w)
  /\ UNCHANGED <<approval, pass, blacklist, policy>>

-----------------------------------------------------------------------------
(* expire_stale_requests: one transaction for the whole sweep                *)

StalePending(r) == request[r].status = "pending" /\ request[r].overdue   \* faulty
StaleWhatever(r) == request[r].overdue                                  \* faulty
Stale(r) == request[r].status \in Open /\ request[r].overdue

BeginSweep(w) ==
  /\ \E r \in Requests : Exists(request[r]) /\ Stale(r)
  /\ Begin(w, [op |-> "sweep",
               due |-> {r \in Requests : Exists(request[r]) /\ Stale(r)}])
  /\ UNCHANGED <<request, approval, pass, entry, blacklist, policy, granted>>

CommitSweep(w) ==
  /\ Holds(w, "sweep")
  /\ SetStatus(txn[w].due, "expired")
  /\ Finish(w)
  /\ UNCHANGED <<approval, pass, entry, blacklist, policy>>

-----------------------------------------------------------------------------
(* Failure, administration and the clock                                     *)

\* a lost connection or worker rolls the open transaction back
Crash(w) ==
  /\ txn[w].op \notin {"idle", "denied", "conflict"}
  /\ Finish(w)
  /\ UNCHANGED <<request, approval, pass, entry, blacklist, policy, granted>>

\* add_blacklist and remove_blacklist; active_until is stored but never compared
SetBlacklist(v) ==
  /\ blacklist' = IF v \in blacklist THEN blacklist \ {v} ELSE blacklist \cup {v}
  /\ UNCHANGED <<request, approval, pass, entry, policy, txn, granted>>

UpdatePolicy ==
  /\ policy' \in Policies
  /\ UNCHANGED <<request, approval, pass, entry, blacklist, txn, granted>>

RequestLapses(r) ==
  /\ Exists(request[r]) /\ ~request[r].overdue
  /\ request' = [request EXCEPT ![r].overdue = TRUE]
  /\ UNCHANGED <<approval, pass, entry, blacklist, policy, txn, granted>>

PassAges(p) ==
  /\ Exists(pass[p]) /\ pass[p].window # "after"
  /\ pass' = [pass EXCEPT ![p].window = IF @ = "before" THEN "within" ELSE "after"]
  /\ UNCHANGED <<request, approval, entry, blacklist, policy, txn, granted>>

-----------------------------------------------------------------------------

Init ==
  /\ request = [r \in Requests |-> Absent]
  /\ approval = {}
  /\ pass = [p \in Passes |-> Absent]
  /\ entry = [e \in Entries |-> Absent]
  /\ blacklist = {}
  /\ policy \in Policies
  /\ txn = [w \in Workers |-> Idle]
  /\ granted = {}

Start(w) ==
  \/ BeginCreate(w) \/ BeginDecide(w) \/ BeginCancel(w) \/ BeginAddMember(w)
  \/ BeginCreatePass(w) \/ BeginEntry(w) \/ BeginExit(w) \/ BeginSweep(w)

Proceed(w) ==
  \/ CommitCreate(w) \/ CommitDecide(w) \/ CommitCancel(w) \/ CommitAddMember(w)
  \/ CommitCreatePass(w) \/ ScreenEntry(w) \/ CommitEntry(w) \/ ConflictEntry(w)
  \/ RollbackEntry(w) \/ CommitExit(w) \/ CommitSweep(w) \/ Crash(w)

Outside ==
  \/ \E p \in Passes : RevokePass(p) \/ PassAges(p)
  \/ \E r \in Requests : RequestLapses(r)
  \/ \E v \in Suspects : SetBlacklist(v)
  \/ UpdatePolicy

Next == (\E w \in Workers : Start(w) \/ Proceed(w)) \/ Outside

Spec == Init /\ [][Next]_vars

-----------------------------------------------------------------------------
(* What must hold however the transactions overlap                           *)

\* Every row and every open transaction has the columns the schema gives it.
TypeOK ==
  /\ request \in [Requests -> RequestRow \cup {Absent}]
  /\ approval \subseteq ApprovalRow
  /\ pass \in [Passes -> PassRow \cup {Absent}]
  /\ entry \in [Entries -> EntryRow \cup {Absent}]
  /\ blacklist \subseteq Suspects
  /\ policy \in Policies
  /\ txn \in [Workers -> Txn]
  /\ granted \subseteq Requests

\* Nobody is let in on a request that was never approved, whichever of decision,
\* pass, cancellation, expiry and entry overtakes another (record_entry).
AdmissionWasApproved ==
  \A e \in Entries : Exists(entry[e]) => entry[e].request \in granted

\* Everyone let in belongs to the party of a request that still exists, and came
\* on a pass of that request if on a pass at all (record_entry's group check).
AdmittedBelong ==
  \A e \in Entries : Exists(entry[e]) =>
    /\ Exists(request[entry[e].request])
    /\ entry[e].visitor \in request[entry[e].request].party
    /\ entry[e].pass # None =>
         /\ Exists(pass[entry[e].pass])
         /\ pass[entry[e].pass].request = entry[e].request

\* Two guards racing on one request never both record an open entry for it
\* (migration 0026's partial unique index behind record_entry's check).
OneInsidePerRequest ==
  \A e, f \in Entries :
    /\ entry[e].status = "inside"
    /\ entry[f].status = "inside"
    /\ entry[e].request = entry[f].request
    => e = f

\* A pass is never counted beyond its allowance (record_entry's entry_count).
PassWithinLimit ==
  \A p \in Passes : Exists(pass[p]) => pass[p].used <= pass[p].max

\* An approver decides a request once: repeated or racing decide_request calls
\* never leave two rows of the same approver (visitor_approvals' unique key).
OneDecisionPerApprover ==
  \A a, b \in approval :
    a.request = b.request /\ a.approver = b.approver => a = b

\* A visitor is inside, over all of the visitor's requests, at most once for each
\* transaction that may overlap, and so once where they do not: however often
\* the gates repeat it, only an ALREADY_INSIDE check made before another entry's
\* commit lets a second one through (anti-passback in record_entry).
InsideOncePerWorker == \A v \in Visitors : Cardinality(OpenFor(v)) <= Cardinality(Workers)

\* whether the open transaction t is about to write r's status
Overwrites(t, r) ==
  \/ t.op = "decide" /\ t.row.request = r /\ t.from # t.row.decision
  \/ t.op = "cancel" /\ t.request = r
  \/ t.op = "pass" /\ t.row.request = r /\ t.approve
  \/ t.op \in {"entry", "admit"} /\ t.request = r /\ t.from # "entered"
  \/ t.op = "exit" /\ t.request = r /\ t.completes
  \/ t.op = "sweep" /\ r \in t.due

Settled(r) ==
  /\ Exists(request[r]) /\ IsTerminal(request[r].status, RequestTransitions)
  /\ \A w \in Workers : ~Overwrites(txn[w], r)

\* Once a request is terminal and the transactions that read it earlier have
\* ended, it keeps its status for good: nothing the gate, the resident, a pass or
\* the sweep starts later touches it (_REQUEST_TRANSITIONS).
SettledIsFinal ==
  [][\A r \in Requests :
       Settled(r) => Settled(r)' /\ request'[r].status = request[r].status]_vars

-----------------------------------------------------------------------------
(* What must hold when the transactions run one after the other              *)

\* A request is `entered` exactly while somebody of its party is inside
\* (record_entry and record_exit keep the two tables in step).
EnteredIffInside ==
  \A r \in Requests :
    Exists(request[r]) => (request[r].status = "entered" <=> Insides(r) # {})

\* A pass counts exactly the entries recorded on it, so max_entries bounds the
\* admissions and not only the counter (entry_count against visitor_entries).
UseCountIsEntries ==
  \A p \in Passes : Exists(pass[p]) =>
    pass[p].used = Cardinality({e \in Entries : Exists(entry[e]) /\ entry[e].pass = p})

\* No two approvers leave opposite decisions on one request: after the first
\* decision only the same one passes the transition gate (decide_request).
DecisionsAgree ==
  \A a, b \in approval : a.request = b.request => a.decision = b.decision

-----------------------------------------------------------------------------
(* What the code's own comments say, and the code does not do                *)

\* A further member of a party that has already entered is let in, the entered
\* request being no obstacle (comment at record_entry's transition).
PartyMemberIsAdmitted ==
  \A w \in Workers : ~(Holds(w, "conflict") /\ txn[w].from = "entered")

-----------------------------------------------------------------------------
(* Liveness                                                                  *)

\* Transactions end, and the beat schedule keeps starting the sweep until one
\* run commits, however often a worker is lost or busy.
Fairness ==
  /\ \A w \in Workers : WF_vars(Proceed(w))
  /\ SF_vars(\E w \in Workers : BeginSweep(w))
  /\ SF_vars(\E w \in Workers : CommitSweep(w))

FairSpec == Spec /\ Fairness

\* A request nobody used is closed after valid_until, even when a decision or a
\* pass re-approves it behind the sweep's back.
OverdueIsSettled ==
  \A r \in Requests :
    (request[r].status \in Open /\ request[r].overdue) ~> request[r].status \notin Open
=============================================================================
