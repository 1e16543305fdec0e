------------------------- MODULE VisitorAccessProofs -------------------------
(* Safety of VisitorAccess for any number of overlapping transactions, rows  *)
(* and people.                                                               *)
EXTENDS VisitorAccess, FiniteSetTheorems, TLAPS

\* What an open transaction has read and still relies on when it commits.  It
\* is stated over the tables' values, so that it can be carried from one state
\* to the next.
Admitting(t) == t.op \in {"entry", "admit", "denied", "conflict"}

Sound(t, req, pas, ent, appr) ==
  /\ t.op \in {"cancel", "member"} => Exists(req[t.request])
  /\ t.op \in {"decide", "pass"} => Exists(req[t.row.request])
  /\ t.op = "pass" => t.row.used = 0
  /\ t.op = "sweep" => \A r \in t.due : Exists(req[r])
  /\ t.op = "exit" => /\ Exists(req[t.request])
                      /\ Exists(ent[t.entry])
  /\ Admitting(t) =>
       /\ Exists(req[t.request])
       /\ t.visitor \in req[t.request].party
       /\ t.request \in appr
       /\ t.pass # None => /\ Exists(pas[t.pass])
                           /\ pas[t.pass].request = t.request
                           /\ t.used < pas[t.pass].max

AllSound == \A w \in Workers : Sound(txn[w], request, pass, entry, granted)

\* A request that can be entered has been approved.
UsableWasApproved ==
  \A r \in Requests :
    request[r].status \in {"approved", "entered"} => r \in granted

IInv ==
  /\ TypeOK
  /\ AllSound
  /\ UsableWasApproved
  /\ AdmissionWasApproved
  /\ AdmittedBelong
  /\ OneInsidePerRequest
  /\ PassWithinLimit
  /\ OneDecisionPerApprover

-----------------------------------------------------------------------------
\* Rows are never deleted, parties and approvals only grow, a pass keeps its
\* request and its limit.
RequestsGrow ==
  /\ \A r \in Requests : Exists(request[r]) =>
       Exists(request'[r]) /\ request[r].party \subseteq request'[r].party
  /\ granted \subseteq granted'
PassesGrow ==
  \A p \in Passes : Exists(pass[p]) =>
    /\ Exists(pass'[p])
    /\ pass'[p].request = pass[p].request
    /\ pass'[p].max = pass[p].max
EntriesGrow ==
  \A e \in Entries : Exists(entry[e]) => Exists(entry'[e])

TxnIs(w, t) == txn' = [txn EXCEPT ![w] = t]

-----------------------------------------------------------------------------
\* The transition gate lets only approved and entered requests be entered
\* (record_entry's ensure_transition).
LEMMA EnterNeedsApproval ==
  \A s \in Status : MayEnter(s) => s \in {"approved", "entered"}
  BY DEF Status, MayEnter, EnsureTransition, CanTransition, RequestTransitions

\* The states of a request, spelled out.
LEMMA StatusSet ==
  Status = {"pending", "approved", "entered", "rejected", "cancelled",
            "expired", "completed"}
  BY DEF Status, RequestTransitions

\* A transaction's reads stay sound while the tables grow.
LEMMA SoundStays ==
  ASSUME TypeOK, RequestsGrow, PassesGrow, EntriesGrow,
         NEW w \in Workers, Sound(txn[w], request, pass, entry, granted)
  PROVE  Sound(txn[w], request', pass', entry', granted')
<1>1. txn[w] \in Txn
  BY DEF TypeOK
<1>2. CASE txn[w] = Idle
  BY <1>2 DEF Sound, Idle, Admitting
<1>3. CASE txn[w].op = "create"
  BY <1>3 DEF Sound, Admitting
<1>4. CASE txn[w].op \in {"decide", "pass"}
  <2>1. txn[w].row.request \in Requests
    BY <1>1, <1>4 DEF Txn, Idle, ApprovalRow, PassRow
  <2> QED BY <1>4, <2>1 DEF Sound, Admitting, RequestsGrow
<1>5. CASE txn[w].op \in {"cancel", "member"}
  <2>1. txn[w].request \in Requests
    BY <1>1, <1>5 DEF Txn, Idle
  <2> QED BY <1>5, <2>1 DEF Sound, Admitting, RequestsGrow
<1>6. CASE txn[w].op = "exit"
  <2>1. txn[w].request \in Requests /\ txn[w].entry \in Entries
    BY <1>1, <1>6 DEF Txn, Idle
  <2> QED BY <1>6, <2>1 DEF Sound, Admitting, RequestsGrow, EntriesGrow
<1>7. CASE txn[w].op = "sweep"
  <2>1. txn[w].due \subseteq Requests
    BY <1>1, <1>7 DEF Txn, Idle
  <2> QED BY <1>7, <2>1 DEF Sound, Admitting, RequestsGrow
<1>8. CASE Admitting(txn[w])
  <2>1. txn[w].request \in Requests /\ txn[w].pass \in Passes \cup {None}
    BY <1>1, <1>8 DEF Txn, Idle, Admitting
  <2> QED BY <1>8, <2>1 DEF Sound, Admitting, RequestsGrow, PassesGrow
<1> QED
  BY <1>1, <1>2, <1>3, <1>4, <1>5, <1>6, <1>7, <1>8 DEF Txn, Admitting

\* All transactions stay sound when the tables grow and one of them moves on.
LEMMA AllSoundStays ==
  ASSUME TypeOK, AllSound, RequestsGrow, PassesGrow, EntriesGrow,
         NEW w \in Workers, NEW t, TxnIs(w, t),
         Sound(t, request', pass', entry', granted')
  PROVE  AllSound'
<1> SUFFICES ASSUME NEW v \in Workers
             PROVE  Sound(txn'[v], request', pass', entry', granted')
  BY DEF AllSound
<1>1. CASE v = w
  BY <1>1 DEF TxnIs, TypeOK
<1>2. CASE v # w
  <2>1. txn'[v] = txn[v]
    BY <1>2 DEF TxnIs, TypeOK
  <2>2. Sound(txn[v], request', pass', entry', granted')
    BY SoundStays DEF AllSound
  <2> QED BY <2>1, <2>2
<1> QED BY <1>1, <1>2

\* An idle worker relies on nothing.
LEMMA IdleSound ==
  ASSUME NEW req, NEW pas, NEW ent, NEW appr
  PROVE  Sound(Idle, req, pas, ent, appr)
  BY DEF Sound, Idle, Admitting

\* A step that moves one transaction on and leaves the tables alone.
LEMMA OnlyTxn ==
  ASSUME IInv, NEW w \in Workers, NEW t \in Txn, TxnIs(w, t),
         UNCHANGED <<request, approval, pass, entry, blacklist, policy, granted>>,
         Sound(t, request, pass, entry, granted)
  PROVE  IInv'
<1>1. TypeOK'
  BY DEF IInv, TypeOK, TxnIs
<1>2. RequestsGrow /\ PassesGrow /\ EntriesGrow
  BY DEF RequestsGrow, PassesGrow, EntriesGrow
<1>3. AllSound'
  BY <1>2, AllSoundStays DEF IInv
<1> QED
  BY <1>1, <1>3 DEF IInv, UsableWasApproved, AdmissionWasApproved,
     AdmittedBelong, OneInsidePerRequest, PassWithinLimit,
     OneDecisionPerApprover, Insides

-----------------------------------------------------------------------------
\* A transaction that has only begun leaves the invariant true: what it read is
\* sound at that moment.
LEMMA BeginSteps ==
  ASSUME IInv, NEW w \in Workers, Start(w)
  PROVE  IInv'
<1>0. /\ \A r \in Requests : Exists(request[r]) => request[r] \in RequestRow
      /\ \A p \in Passes : Exists(pass[p]) => pass[p] \in PassRow
      /\ \A e \in Entries : entry[e].status = "inside" => entry[e] \in EntryRow
  BY DEF IInv, TypeOK, Exists, Absent
<1>1. CASE BeginCreate(w)
  <2>1. PICK party \in SUBSET Visitors, status \in Open :
          TxnIs(w, [op |-> "create", party |-> party, status |-> status])
    BY <1>1 DEF BeginCreate, Open, Begin, TxnIs
  <2>2. [op |-> "create", party |-> party, status |-> status] \in Txn
    BY DEF Txn
  <2>3. Sound([op |-> "create", party |-> party, status |-> status],
              request, pass, entry, granted)
    BY DEF Sound, Admitting
  <2> QED BY <1>1, <2>1, <2>2, <2>3, OnlyTxn DEF BeginCreate
<1>2. CASE BeginDecide(w)
  <2>1. PICK r \in Requests, a \in Approvers, d \in {"approved", "rejected"} :
          /\ Exists(request[r])
          /\ TxnIs(w, [op |-> "decide", from |-> request[r].status,
                       row |-> [request |-> r, approver |-> a, decision |-> d]])
    BY <1>2 DEF BeginDecide, Begin, TxnIs
  <2> DEFINE t == [op |-> "decide", from |-> request[r].status,
                   row |-> [request |-> r, approver |-> a, decision |-> d]]
  <2>2. t \in Txn
    BY <1>0, <2>1 DEF Txn, ApprovalRow, RequestRow
  <2>3. Sound(t, request, pass, entry, granted)
    BY <2>1 DEF Sound, Admitting
  <2> QED BY <1>2, <2>1, <2>2, <2>3, OnlyTxn DEF BeginDecide
<1>3. CASE BeginCancel(w)
  <2>1. PICK r \in Requests : /\ Exists(request[r])
                              /\ TxnIs(w, [op |-> "cancel", request |-> r])
    BY <1>3 DEF BeginCancel, Begin, TxnIs
  <2>2. [op |-> "cancel", request |-> r] \in Txn
    BY DEF Txn
  <2>3. Sound([op |-> "cancel", request |-> r], request, pass, entry, granted)
    BY <2>1 DEF Sound, Admitting
  <2> QED BY <1>3, <2>1, <2>2, <2>3, OnlyTxn DEF BeginCancel
<1>4. CASE BeginAddMember(w)
  <2>1. PICK r \in Requests, v \in Visitors :
          /\ Exists(request[r])
          /\ TxnIs(w, [op |-> "member", request |-> r, visitor |-> v])
    BY <1>4 DEF BeginAddMember, Begin, TxnIs
  <2>2. [op |-> "member", request |-> r, visitor |-> v] \in Txn
    BY DEF Txn
  <2>3. Sound([op |-> "member", request |-> r, visitor |-> v],
              request, pass, entry, granted)
    BY <2>1 DEF Sound, Admitting
  <2> QED BY <1>4, <2>1, <2>2, <2>3, OnlyTxn DEF BeginAddMember
<1>5. CASE BeginCreatePass(w)
  <2>1. PICK r \in Requests, row \in PassRow, b \in BOOLEAN :
          /\ Exists(request[r])
          /\ row.request = r
          /\ row.used = 0
          /\ TxnIs(w, [op |-> "pass", row |-> row, approve |-> b])
    <3>1. PICK r \in Requests, max \in 1..MaxUses, window \in {"before", "within"}, entitled \in BOOLEAN :
            /\ Exists(request[r])
            /\ request[r].status \in Open
            /\ Begin(w, [op |-> "pass",
                         row |-> [status |-> "issued", request |-> r, window |-> window, max |-> max, used |-> 0],
                         approve |-> PreApproves(request[r].status, entitled)])
            /\ UNCHANGED <<request, approval, pass, entry, blacklist, policy, granted>>
      BY <1>5, Zenon DEF BeginCreatePass
    <3>2. [status |-> "issued", request |-> r, window |-> window, max |-> max, used |-> 0] \in PassRow
      BY MaxUsesAssumption DEF PassRow
    <3>3. PreApproves(request[r].status, entitled) \in BOOLEAN
      BY DEF PreApproves
    <3> QED BY <3>1, <3>2, <3>3 DEF Begin, TxnIs
  <2>2. [op |-> "pass", row |-> row, approve |-> b] \in Txn
    BY DEF Txn
  <2>3. Sound([op |-> "pass", row |-> row, approve |-> b],
              request, pass, entry, granted)
    BY <2>1 DEF Sound, Admitting
  <2> QED BY <1>5, <2>1, <2>2, <2>3, OnlyTxn DEF BeginCreatePass
<1>6. CASE BeginEntry(w)
  <2>1. PICK r \in Requests, v \in Visitors, p \in Passes \cup {None},
             pinSent \in BOOLEAN :
          /\ Exists(request[r])
          /\ p # None => Exists(pass[p]) /\ pass[p].request = r
          /\ p = None => ~pinSent
          /\ p # None => Usable(p)
          /\ MayEnter(request[r].status)
          /\ InGroup(r, v)
          /\ Begin(w, [op |-> "entry", request |-> r, visitor |-> v, pinSent |-> pinSent,
                       from |-> request[r].status, pass |-> p,
                       used |-> IF p = None THEN 0 ELSE pass[p].used])
          /\ UNCHANGED <<request, approval, pass, entry, blacklist, policy, granted>>
    BY <1>6, Zenon DEF BeginEntry
  <2> DEFINE t == [op |-> "entry", request |-> r, visitor |-> v, pinSent |-> pinSent,
                   from |-> request[r].status, pass |-> p,
                   used |-> IF p = None THEN 0 ELSE pass[p].used]
  <2>2. t \in Txn
    <3>1. request[r].status \in Status
      BY <1>0, <2>1 DEF RequestRow
    <3>2. (IF p = None THEN 0 ELSE pass[p].used) \in 0..MaxUses
      BY <1>0, <2>1, NoneAssumption, MaxUsesAssumption DEF PassRow
    <3> QED BY <3>1, <3>2 DEF Txn
  <2>3. Sound(t, request, pass, entry, granted)
    <3>1. r \in granted
      BY <1>0, <2>1, EnterNeedsApproval DEF IInv, UsableWasApproved, RequestRow
    <3> QED BY <2>1, <3>1 DEF Sound, Admitting, InGroup, Usable
  <2> QED BY <1>6, <2>1, <2>2, <2>3, OnlyTxn DEF BeginEntry, Begin, TxnIs
<1>7. CASE BeginExit(w)
  <2>1. PICK e \in Entries, b \in BOOLEAN :
          /\ entry[e].status = "inside"
          /\ TxnIs(w, [op |-> "exit", entry |-> e, request |-> entry[e].request,
                       completes |-> b])
    BY <1>7 DEF BeginExit, Completes, Begin, TxnIs
  <2> DEFINE t == [op |-> "exit", entry |-> e, request |-> entry[e].request,
                   completes |-> b]
  <2>2. t \in Txn
    BY <1>0, <2>1 DEF Txn, EntryRow
  <2>3. Sound(t, request, pass, entry, granted)
    BY <2>1 DEF Sound, Admitting, IInv, AdmittedBelong, Exists
  <2> QED BY <1>7, <2>1, <2>2, <2>3, OnlyTxn DEF BeginExit
<1>8. CASE BeginSweep(w)
  <2> DEFINE due == {r \in Requests : Exists(request[r]) /\ Stale(r)}
  <2>1. [op |-> "sweep", due |-> due] \in Txn
    BY DEF Txn
  <2>2. Sound([op |-> "sweep", due |-> due], request, pass, entry, granted)
    BY DEF Sound, Admitting
  <2> QED BY <1>8, <2>1, <2>2, OnlyTxn DEF BeginSweep, Begin, TxnIs
<1> QED
  BY <1>1, <1>2, <1>3, <1>4, <1>5, <1>6, <1>7, <1>8 DEF Start

-----------------------------------------------------------------------------
\* A step, table by table: what each table's change must satisfy for the
\* invariant to survive.
RequestsStep ==
  /\ request' \in [Requests -> RequestRow \cup {Absent}]
  /\ granted' \subseteq Requests
  /\ RequestsGrow
  /\ UsableWasApproved'
PassesStep ==
  /\ pass' \in [Passes -> PassRow \cup {Absent}]
  /\ PassesGrow
  /\ PassWithinLimit'
ApprovalsStep ==
  /\ approval' \subseteq ApprovalRow
  /\ OneDecisionPerApprover'
EntriesStep ==
  /\ entry' \in [Entries -> EntryRow \cup {Absent}]
  /\ EntriesGrow
  /\ AdmissionWasApproved'
  /\ AdmittedBelong'
  /\ OneInsidePerRequest'

\* An existing row has its columns.
LEMMA ExistingRows ==
  ASSUME TypeOK
  PROVE  /\ \A r \in Requests : Exists(request[r]) => request[r] \in RequestRow
         /\ \A p \in Passes : Exists(pass[p]) => pass[p] \in PassRow
         /\ \A e \in Entries : Exists(entry[e]) => entry[e] \in EntryRow
  BY DEF TypeOK, Exists, Absent

LEMMA KeptRequests ==
  ASSUME IInv, KeepRequests
  PROVE  RequestsStep
  BY DEF RequestsStep, KeepRequests, IInv, TypeOK, RequestsGrow, UsableWasApproved

LEMMA KeptPasses ==
  ASSUME IInv, UNCHANGED pass
  PROVE  PassesStep
  BY DEF PassesStep, IInv, TypeOK, PassesGrow, PassWithinLimit

LEMMA KeptApprovals ==
  ASSUME IInv, UNCHANGED approval
  PROVE  ApprovalsStep
  BY DEF ApprovalsStep, IInv, TypeOK, OneDecisionPerApprover

\* Entries that stay keep their request and pass while those tables grow.
LEMMA KeptEntries ==
  ASSUME IInv, UNCHANGED entry, RequestsStep, PassesStep
  PROVE  EntriesStep
<1>1. entry' \in [Entries -> EntryRow \cup {Absent}] /\ EntriesGrow
  BY DEF IInv, TypeOK, EntriesGrow
<1>2. AdmissionWasApproved'
  BY DEF IInv, AdmissionWasApproved, RequestsStep, RequestsGrow
<1>3. AdmittedBelong'
  <2> SUFFICES ASSUME NEW e \in Entries, Exists(entry[e])
               PROVE  /\ Exists(request'[entry[e].request])
                      /\ entry[e].visitor \in request'[entry[e].request].party
                      /\ entry[e].pass # None =>
                           /\ Exists(pass'[entry[e].pass])
                           /\ pass'[entry[e].pass].request = entry[e].request
    BY DEF AdmittedBelong
  <2>1. entry[e] \in EntryRow
    BY ExistingRows DEF IInv
  <2> QED
    BY <2>1 DEF EntryRow, IInv, AdmittedBelong, RequestsStep, RequestsGrow,
       PassesStep, PassesGrow
<1>4. OneInsidePerRequest'
  BY DEF IInv, OneInsidePerRequest
<1> QED BY <1>1, <1>2, <1>3, <1>4 DEF EntriesStep

\* An UPDATE of existing requests' status; only approved ones become entered.
LEMMA StatusUpdate ==
  ASSUME IInv, NEW rs \in SUBSET Requests, NEW to \in Status,
         \A r \in rs : Exists(request[r]),
         to = "entered" => rs \subseteq granted,
         SetStatus(rs, to)
  PROVE  RequestsStep
<1>1. \A r \in Requests : Exists(request[r]) => request[r] \in RequestRow
  BY ExistingRows DEF IInv
<1>2. \A r \in Requests :
        request'[r] = IF r \in rs THEN [request[r] EXCEPT !.status = to]
                                  ELSE request[r]
  BY DEF SetStatus
<1>3. \A r \in rs : /\ request'[r] \in RequestRow
                    /\ request'[r].status = to
                    /\ request'[r].party = request[r].party
  BY <1>1, <1>2 DEF RequestRow
<1>4. request' \in [Requests -> RequestRow \cup {Absent}]
  BY <1>2, <1>3 DEF SetStatus, IInv, TypeOK
<1>5. granted \subseteq granted' /\ granted' \subseteq Requests
  BY DEF SetStatus, IInv, TypeOK
<1>6. RequestsGrow
  BY <1>2, <1>3, <1>5, StatusSet DEF RequestsGrow, Exists
<1>7. UsableWasApproved'
  <2> SUFFICES ASSUME NEW r \in Requests,
                      request'[r].status \in {"approved", "entered"}
               PROVE  r \in granted'
    BY DEF UsableWasApproved
  <2>1. CASE r \in rs
    BY <1>3, <1>5, <2>1 DEF SetStatus
  <2>2. CASE r \notin rs
    BY <1>2, <1>5, <2>2 DEF IInv, UsableWasApproved
  <2> QED BY <2>1, <2>2
<1> QED BY <1>4, <1>5, <1>6, <1>7 DEF RequestsStep

\* The tables' parts make up the invariant, when one transaction ends.
LEMMA Settle ==
  ASSUME IInv, NEW w \in Workers, Finish(w),
         RequestsStep, PassesStep, ApprovalsStep, EntriesStep,
         UNCHANGED <<blacklist, policy>>
  PROVE  IInv'
<1>1. AllSound'
  <2>1. Sound(Idle, request', pass', entry', granted')
    BY IdleSound
  <2>2. TxnIs(w, Idle)
    BY DEF Finish, TxnIs
  <2> QED
    BY <2>1, <2>2, AllSoundStays DEF IInv, RequestsStep, PassesStep, EntriesStep
<1>2. txn' \in [Workers -> Txn]
  BY DEF IInv, TypeOK, Finish, Txn
<1>3. TypeOK'
  BY <1>2 DEF IInv, TypeOK, RequestsStep, PassesStep, ApprovalsStep, EntriesStep
<1> QED
  BY <1>1, <1>3 DEF IInv, RequestsStep, PassesStep, ApprovalsStep, EntriesStep

\* The same for a step outside the transactions.
LEMMA SettleOutside ==
  ASSUME IInv, UNCHANGED txn,
         RequestsStep, PassesStep, ApprovalsStep, EntriesStep,
         blacklist' \subseteq Suspects, policy' \in Policies
  PROVE  IInv'
<1>1. AllSound'
  <2> SUFFICES ASSUME NEW w \in Workers
               PROVE  Sound(txn[w], request', pass', entry', granted')
    BY DEF AllSound
  <2> QED BY SoundStays DEF IInv, AllSound, RequestsStep, PassesStep, EntriesStep
<1>2. TypeOK'
  BY DEF IInv, TypeOK, RequestsStep, PassesStep, ApprovalsStep, EntriesStep
<1> QED
  BY <1>1, <1>2 DEF IInv, RequestsStep, PassesStep, ApprovalsStep, EntriesStep

-----------------------------------------------------------------------------
\* create_request's insert, with approval when the policy asks for none.
LEMMA CreateStep ==
  ASSUME IInv, NEW w \in Workers, CommitCreate(w)
  PROVE  IInv'
<1>1. txn[w].party \subseteq Visitors /\ txn[w].status \in Open
  BY DEF IInv, TypeOK, Txn, Idle, CommitCreate, Holds
<1>2. PICK r \in Requests :
        /\ ~Exists(request[r])
        /\ request' = [request EXCEPT ![r] =
             [status |-> txn[w].status, party |-> txn[w].party, overdue |-> FALSE]]
        /\ granted' = IF txn[w].status = "approved" THEN granted \cup {r} ELSE granted
  BY DEF CommitCreate
<1>3. [status |-> txn[w].status, party |-> txn[w].party, overdue |-> FALSE]
        \in RequestRow
  BY <1>1, StatusSet DEF RequestRow, Open
<1>4. request' \in [Requests -> RequestRow \cup {Absent}]
  BY <1>2, <1>3 DEF IInv, TypeOK
<1>5. granted' \subseteq Requests /\ RequestsGrow
  BY <1>2 DEF IInv, TypeOK, RequestsGrow
<1>6. UsableWasApproved'
  BY <1>1, <1>2 DEF IInv, TypeOK, UsableWasApproved, Open
<1>7. RequestsStep
  BY <1>4, <1>5, <1>6 DEF RequestsStep
<1> QED
  BY <1>7, KeptPasses, KeptApprovals, KeptEntries, Settle DEF CommitCreate

\* decide_request: the unique key refuses a second row of one approver.
LEMMA DecideStep ==
  ASSUME IInv, NEW w \in Workers, CommitDecide(w)
  PROVE  IInv'
<1>1. /\ txn[w].row \in ApprovalRow
      /\ Exists(request[txn[w].row.request])
  BY DEF IInv, TypeOK, Txn, Idle, CommitDecide, Holds, AllSound, Sound
<1>2. RequestsStep
  <2>1. CASE KeepRequests
    BY <2>1, KeptRequests
  <2>2. CASE SetStatus({txn[w].row.request}, txn[w].row.decision)
    <3>1. /\ txn[w].row.decision \in {"approved", "rejected"}
          /\ {txn[w].row.request} \in SUBSET Requests
      BY <1>1 DEF ApprovalRow
    <3>2. txn[w].row.decision \in Status /\ txn[w].row.decision # "entered"
      BY <3>1, StatusSet
    <3> QED BY <1>1, <2>2, <3>1, <3>2, StatusUpdate
  <2> QED BY <2>1, <2>2 DEF CommitDecide, WriteStatus
<1>3. ApprovalsStep
  <2>1. CASE UNCHANGED approval
    BY <2>1, KeptApprovals
  <2>2. CASE ~Decided(txn[w].row) /\ approval' = approval \cup {txn[w].row}
    BY <1>1, <2>2 DEF ApprovalsStep, IInv, TypeOK, OneDecisionPerApprover, Decided
  <2> QED BY <2>1, <2>2 DEF CommitDecide
<1> QED
  BY <1>2, <1>3, KeptPasses, KeptEntries, Settle DEF CommitDecide

LEMMA CancelStep ==
  ASSUME IInv, NEW w \in Workers, CommitCancel(w)
  PROVE  IInv'
<1>1. txn[w].request \in Requests /\ Exists(request[txn[w].request])
  BY DEF IInv, TypeOK, Txn, Idle, CommitCancel, Holds, AllSound, Sound
<1>2. RequestsStep
  BY <1>1, StatusSet, StatusUpdate DEF CommitCancel
<1> QED
  BY <1>2, KeptPasses, KeptApprovals, KeptEntries, Settle DEF CommitCancel

\* add_group_member: parties only grow.
LEMMA AddMemberStep ==
  ASSUME IInv, NEW w \in Workers, CommitAddMember(w)
  PROVE  IInv'
<1>1. /\ txn[w].request \in Requests
      /\ txn[w].visitor \in Visitors
      /\ request[txn[w].request] \in RequestRow
  BY ExistingRows DEF IInv, TypeOK, Txn, Idle, CommitAddMember, Holds, AllSound, Sound
<1> DEFINE r == txn[w].request
<1>2. request' = [request EXCEPT ![r] = [request[r] EXCEPT !.party = @ \cup {txn[w].visitor}]]
  BY DEF CommitAddMember
<1>3. /\ [request[r] EXCEPT !.party = @ \cup {txn[w].visitor}] \in RequestRow
      /\ [request[r] EXCEPT !.party = @ \cup {txn[w].visitor}].status = request[r].status
  BY <1>1 DEF RequestRow
<1>4. RequestsStep
  BY <1>1, <1>2, <1>3 DEF RequestsStep, IInv, TypeOK, RequestsGrow, CommitAddMember,
     UsableWasApproved, RequestRow, Exists
<1> QED
  BY <1>4, KeptPasses, KeptApprovals, KeptEntries, Settle DEF CommitAddMember

\* create_pass, which may approve the request.
LEMMA CreatePassStep ==
  ASSUME IInv, NEW w \in Workers, CommitCreatePass(w)
  PROVE  IInv'
<1>1. /\ txn[w].row \in PassRow
      /\ Exists(request[txn[w].row.request])
  BY DEF IInv, TypeOK, Txn, Idle, CommitCreatePass, Holds, AllSound, Sound
<1>2. RequestsStep
  <2>1. CASE KeepRequests
    BY <2>1, KeptRequests
  <2>2. CASE SetStatus({txn[w].row.request}, "approved")
    <3>1. txn[w].row.request \in Requests
      BY <1>1 DEF PassRow
    <3> QED BY <1>1, <2>2, <3>1, StatusSet, StatusUpdate
  <2> QED BY <2>1, <2>2 DEF CommitCreatePass
<1>3. PassesStep
  <2>1. PICK p \in Passes : ~Exists(pass[p]) /\ pass' = [pass EXCEPT ![p] = txn[w].row]
    BY DEF CommitCreatePass
  <2>2. txn[w].row.used <= txn[w].row.max
    <3>1. txn[w].row.used = 0
      BY DEF IInv, CommitCreatePass, Holds, AllSound, Sound
    <3>2. txn[w].row.max \in 1..MaxUses
      BY <1>1 DEF PassRow
    <3> QED BY <3>1, <3>2, MaxUsesAssumption
  <2> QED
    BY <1>1, <2>1, <2>2 DEF PassesStep, PassesGrow, PassWithinLimit, IInv, TypeOK
<1> QED
  BY <1>2, <1>3, KeptApprovals, KeptEntries, Settle DEF CommitCreatePass

\* The steps of record_entry that write nothing.
LEMMA EntryWithoutRow ==
  ASSUME IInv, NEW w \in Workers,
         ScreenEntry(w) \/ ConflictEntry(w) \/ RollbackEntry(w) \/ Crash(w)
  PROVE  IInv'
<1>1. /\ txn[w] \in Txn
      /\ Sound(txn[w], request, pass, entry, granted)
  BY DEF IInv, TypeOK, AllSound
<1>2. ASSUME NEW op \in {"admit", "denied", "conflict"}, Admitting(txn[w]),
             TxnIs(w, [txn[w] EXCEPT !.op = op]),
             UNCHANGED <<request, approval, pass, entry, blacklist, policy, granted>>
      PROVE  IInv'
  <2>1. [txn[w] EXCEPT !.op = op] \in Txn
    BY <1>1, <1>2 DEF Txn, Idle, Admitting
  <2>2. Sound([txn[w] EXCEPT !.op = op], request, pass, entry, granted)
    BY <1>1, <1>2 DEF Sound, Admitting, Txn, Idle
  <2> QED BY <1>2, <2>1, <2>2, OnlyTxn
<1>3. ASSUME TxnIs(w, Idle),
             UNCHANGED <<request, approval, pass, entry, blacklist, policy, granted>>
      PROVE  IInv'
  BY <1>3, IdleSound, OnlyTxn DEF Txn
<1>4. CASE ScreenEntry(w)
  <2>1. Admitting(txn[w])
    BY <1>4 DEF ScreenEntry, Holds, Admitting
  <2>2. \/ TxnIs(w, Idle)
        \/ TxnIs(w, [txn[w] EXCEPT !.op = "denied"])
        \/ TxnIs(w, [txn[w] EXCEPT !.op = "admit"])
    BY <1>4 DEF ScreenEntry, TxnIs
  <2> QED BY <1>2, <1>3, <1>4, <2>1, <2>2 DEF ScreenEntry
<1>5. CASE ConflictEntry(w)
  <2>1. Admitting(txn[w])
    BY <1>5 DEF ConflictEntry, Holds, Admitting
  <2>2. TxnIs(w, [txn[w] EXCEPT !.op = "conflict"])
    BY <1>5 DEF ConflictEntry, TxnIs
  <2> QED BY <1>2, <1>5, <2>1, <2>2 DEF ConflictEntry
<1>6. CASE RollbackEntry(w) \/ Crash(w)
  BY <1>3, <1>6 DEF RollbackEntry, Crash, Finish, TxnIs
<1> QED BY <1>4, <1>5, <1>6

\* The admission itself: the request was approved when it was read and stays so,
\* the index leaves room for one open entry, the counter is below its limit.
LEMMA EntryStep ==
  ASSUME IInv, NEW w \in Workers, CommitEntry(w)
  PROVE  IInv'
<1> DEFINE t == txn[w]
<1>1. /\ t.request \in Requests
      /\ t.visitor \in Visitors
      /\ t.pass \in Passes \cup {None}
      /\ t.used \in 0..MaxUses
      /\ t.from \in Status
  BY DEF IInv, TypeOK, Txn, Idle, CommitEntry, Holds
<1>2. /\ Exists(request[t.request])
      /\ t.visitor \in request[t.request].party
      /\ t.request \in granted
      /\ t.pass # None => /\ Exists(pass[t.pass])
                          /\ pass[t.pass].request = t.request
                          /\ t.used < pass[t.pass].max
  BY DEF IInv, AllSound, Sound, Admitting, CommitEntry, Holds
<1>3. RequestsStep
  <2>1. CASE KeepRequests
    BY <2>1, KeptRequests
  <2>2. CASE SetStatus({t.request}, "entered")
    BY <1>1, <1>2, <2>2, StatusSet, StatusUpdate
  <2> QED BY <2>1, <2>2 DEF CommitEntry, WriteStatus
<1>4. PassesStep
  <2>1. CASE t.pass = None
    BY <2>1, KeptPasses DEF CommitEntry, CountUse
  <2>2. CASE t.pass # None
    <3>1. t.pass \in Passes /\ pass[t.pass] \in PassRow
      BY <1>1, <1>2, <2>2, ExistingRows DEF IInv
    <3>2. pass' = [pass EXCEPT ![t.pass] = [pass[t.pass] EXCEPT !.used = t.used + 1]]
      BY <2>2 DEF CommitEntry, CountUse
    <3>3. /\ pass[t.pass].max \in 1..MaxUses
          /\ t.used + 1 \in 0..MaxUses
          /\ t.used + 1 <= pass[t.pass].max
      BY <1>1, <1>2, <2>2, <3>1, MaxUsesAssumption DEF PassRow
    <3>4. [pass[t.pass] EXCEPT !.used = t.used + 1] \in PassRow
      BY <3>1, <3>3 DEF PassRow
    <3> QED
      BY <3>1, <3>2, <3>3, <3>4 DEF PassesStep, PassesGrow, PassWithinLimit,
         IInv, TypeOK, PassRow, Exists
  <2> QED BY <2>1, <2>2
<1>5. PICK e \in Entries : ~Exists(entry[e]) /\ entry' = [entry EXCEPT ![e] = NewEntry(t)]
  BY DEF CommitEntry
<1>6. NewEntry(t) \in EntryRow
  BY <1>1 DEF NewEntry, EntryRow
<1>7. entry' \in [Entries -> EntryRow \cup {Absent}] /\ EntriesGrow
  BY <1>5, <1>6 DEF IInv, TypeOK, EntriesGrow
<1>8. \A f \in Entries : f # e => entry'[f] = entry[f]
  BY <1>5 DEF IInv, TypeOK
<1>9. entry'[e] = NewEntry(t)
  BY <1>5 DEF IInv, TypeOK
<1>10. AdmissionWasApproved'
  BY <1>2, <1>3, <1>8, <1>9 DEF IInv, AdmissionWasApproved, NewEntry,
     RequestsStep, RequestsGrow
<1>11. AdmittedBelong'
  <2> SUFFICES ASSUME NEW f \in Entries, Exists(entry'[f])
               PROVE  /\ Exists(request'[entry'[f].request])
                      /\ entry'[f].visitor \in request'[entry'[f].request].party
                      /\ entry'[f].pass # None =>
                           /\ Exists(pass'[entry'[f].pass])
                           /\ pass'[entry'[f].pass].request = entry'[f].request
    BY DEF AdmittedBelong
  <2>1. CASE f = e
    BY <1>1, <1>2, <1>3, <1>4, <1>9, <2>1 DEF NewEntry, RequestsStep, RequestsGrow,
       PassesStep, PassesGrow
  <2>2. CASE f # e
    <3>1. entry[f] \in EntryRow
      BY <1>8, <2>2, ExistingRows DEF IInv
    <3> QED
      BY <1>3, <1>4, <1>8, <2>2, <3>1 DEF EntryRow, IInv, AdmittedBelong,
         RequestsStep, RequestsGrow, PassesStep, PassesGrow
  <2> QED BY <2>1, <2>2
<1>12. OneInsidePerRequest'
  <2>1. \A f \in Entries : ~(entry[f].status = "inside" /\ entry[f].request = t.request)
    BY DEF CommitEntry, OpenEntryIndexFree, Insides
  <2> QED
    BY <1>8, <1>9, <2>1 DEF IInv, OneInsidePerRequest, NewEntry
<1>13. EntriesStep
  BY <1>7, <1>10, <1>11, <1>12 DEF EntriesStep
<1> QED
  BY <1>3, <1>4, <1>13, KeptApprovals, Settle DEF CommitEntry

\* record_exit closes one entry and may complete its request.
LEMMA ExitStep ==
  ASSUME IInv, NEW w \in Workers, CommitExit(w)
  PROVE  IInv'
<1> DEFINE e == txn[w].entry
<1>1. /\ e \in Entries
      /\ txn[w].request \in Requests
      /\ Exists(request[txn[w].request])
      /\ entry[e] \in EntryRow
  BY ExistingRows DEF IInv, TypeOK, Txn, Idle, CommitExit, Holds, AllSound, Sound
<1>2. RequestsStep
  <2>1. CASE KeepRequests
    BY <2>1, KeptRequests
  <2>2. CASE SetStatus({txn[w].request}, "completed")
    BY <1>1, <2>2, StatusSet, StatusUpdate
  <2> QED BY <2>1, <2>2 DEF CommitExit
<1>3. entry' = [entry EXCEPT ![e] = [entry[e] EXCEPT !.status = "exited"]]
  BY DEF CommitExit
<1>4. /\ [entry[e] EXCEPT !.status = "exited"] \in EntryRow
      /\ [entry[e] EXCEPT !.status = "exited"].status = "exited"
      /\ [entry[e] EXCEPT !.status = "exited"].request = entry[e].request
      /\ [entry[e] EXCEPT !.status = "exited"].visitor = entry[e].visitor
      /\ [entry[e] EXCEPT !.status = "exited"].pass = entry[e].pass
  BY <1>1 DEF EntryRow
<1>5. /\ entry' \in [Entries -> EntryRow \cup {Absent}]
      /\ \A f \in Entries : f # e => entry'[f] = entry[f]
      /\ entry'[e] = [entry[e] EXCEPT !.status = "exited"]
  BY <1>1, <1>3, <1>4 DEF IInv, TypeOK
<1>6. /\ EntriesGrow
      /\ \A f \in Entries : Exists(entry'[f]) =>
           /\ Exists(entry[f])
           /\ entry[f] \in EntryRow
           /\ entry'[f].request = entry[f].request
           /\ entry'[f].visitor = entry[f].visitor
           /\ entry'[f].pass = entry[f].pass
  BY <1>1, <1>4, <1>5, ExistingRows DEF EntriesGrow, Exists, EntryRow, IInv
<1>7. AdmissionWasApproved'
  BY <1>2, <1>6 DEF IInv, AdmissionWasApproved, RequestsStep, RequestsGrow
<1>8. AdmittedBelong'
  <2> SUFFICES ASSUME NEW f \in Entries, Exists(entry'[f])
               PROVE  /\ Exists(request'[entry'[f].request])
                      /\ entry'[f].visitor \in request'[entry'[f].request].party
                      /\ entry'[f].pass # None => Exists(pass[entry'[f].pass])
                           /\ pass[entry'[f].pass].request = entry'[f].request
    BY DEF AdmittedBelong, CommitExit
  <2> QED
    BY <1>2, <1>6 DEF EntryRow, IInv, AdmittedBelong, RequestsStep, RequestsGrow
<1>9. OneInsidePerRequest'
  <2>1. \A f \in Entries : entry'[f].status = "inside" =>
          entry[f].status = "inside" /\ entry'[f].request = entry[f].request
    BY <1>4, <1>5
  <2> QED BY <2>1 DEF IInv, OneInsidePerRequest
<1>10. EntriesStep
  BY <1>5, <1>6, <1>7, <1>8, <1>9 DEF EntriesStep
<1> QED
  BY <1>2, <1>10, KeptPasses, KeptApprovals, Settle DEF CommitExit

\* The sweep expires the rows it selected, all of which still exist.
LEMMA SweepStep ==
  ASSUME IInv, NEW w \in Workers, CommitSweep(w)
  PROVE  IInv'
<1>1. /\ txn[w].due \in SUBSET Requests
      /\ \A r \in txn[w].due : Exists(request[r])
  BY DEF IInv, TypeOK, Txn, Idle, CommitSweep, Holds, AllSound, Sound
<1>2. RequestsStep
  BY <1>1, StatusSet, StatusUpdate DEF CommitSweep
<1> QED
  BY <1>2, KeptPasses, KeptApprovals, KeptEntries, Settle DEF CommitSweep

\* Revocation, blacklist, policy and the clock.
LEMMA OutsideSteps ==
  ASSUME IInv, Outside
  PROVE  IInv'
<1>0. blacklist \subseteq Suspects /\ policy \in Policies
  BY DEF IInv, TypeOK
<1>1. ASSUME NEW p \in Passes, RevokePass(p) \/ PassAges(p)
      PROVE  IInv'
  <2>1. pass[p] \in PassRow
    BY <1>1, ExistingRows DEF IInv, RevokePass, PassAges
  <2>2. PICK row \in PassRow :
          /\ pass' = [pass EXCEPT ![p] = row]
          /\ row.request = pass[p].request
          /\ row.max = pass[p].max
          /\ row.used = pass[p].used
    <3>1. CASE RevokePass(p)
      <4> DEFINE row == [pass[p] EXCEPT !.status = "revoked"]
      <4>1. row \in PassRow /\ row.request = pass[p].request
            /\ row.max = pass[p].max /\ row.used = pass[p].used
        BY <2>1 DEF PassRow
      <4>2. pass' = [pass EXCEPT ![p] = row]
        BY <3>1 DEF RevokePass
      <4> HIDE DEF row
      <4> QED BY <4>1, <4>2
    <3>2. CASE PassAges(p)
      <4> DEFINE row == [pass[p] EXCEPT !.window = IF @ = "before" THEN "within"
                                                                  ELSE "after"]
      <4>1. row \in PassRow /\ row.request = pass[p].request
            /\ row.max = pass[p].max /\ row.used = pass[p].used
        BY <2>1 DEF PassRow
      <4>2. pass' = [pass EXCEPT ![p] = row]
        BY <3>2 DEF PassAges
      <4> HIDE DEF row
      <4> QED BY <4>1, <4>2
    <3> QED BY <1>1, <3>1, <3>2
  <2>3. Exists(pass[p])
    BY <1>1 DEF RevokePass, PassAges
  <2>4. Exists(row)
    BY DEF PassRow, Exists
  <2>5. PassesStep
    BY <2>2, <2>3, <2>4 DEF PassesStep, PassesGrow, PassWithinLimit, IInv, TypeOK
  <2> QED
    BY <1>0, <1>1, <2>5, KeptRequests, KeptApprovals, KeptEntries, SettleOutside
       DEF RevokePass, PassAges, KeepRequests
<1>2. ASSUME NEW r \in Requests, RequestLapses(r)
      PROVE  IInv'
  <2>1. request[r] \in RequestRow /\ Exists(request[r])
    BY <1>2, ExistingRows DEF IInv, RequestLapses
  <2> DEFINE row == [request[r] EXCEPT !.overdue = TRUE]
  <2>2. request' = [request EXCEPT ![r] = row]
    BY <1>2 DEF RequestLapses
  <2>3. row \in RequestRow /\ row.status = request[r].status
        /\ row.party = request[r].party
    BY <2>1 DEF RequestRow
  <2>4. RequestsStep
    BY <1>2, <2>1, <2>2, <2>3 DEF RequestsStep, RequestsGrow, UsableWasApproved,
       IInv, TypeOK, RequestLapses, Exists
  <2> QED
    BY <1>0, <1>2, <2>4, KeptPasses, KeptApprovals, KeptEntries, SettleOutside
       DEF RequestLapses
<1>3. ASSUME UpdatePolicy \/ \E v \in Suspects : SetBlacklist(v)
      PROVE  IInv'
  <2>1. UNCHANGED <<request, approval, pass, entry, txn, granted>>
    BY <1>3 DEF UpdatePolicy, SetBlacklist
  <2>2. blacklist' \subseteq Suspects /\ policy' \in Policies
    BY <1>0, <1>3 DEF UpdatePolicy, SetBlacklist
  <2> QED
    BY <2>1, <2>2, KeptRequests, KeptPasses, KeptApprovals, KeptEntries, SettleOutside
       DEF KeepRequests
<1> QED BY <1>1, <1>2, <1>3 DEF Outside

-----------------------------------------------------------------------------
\* The invariant holds before any row exists.
LEMMA InitIInv == Init => IInv
<1> SUFFICES ASSUME Init PROVE IInv
  OBVIOUS
<1>1. TypeOK
  BY DEF Init, TypeOK, Txn
<1>2. AllSound
  BY IdleSound DEF Init, AllSound
<1> QED
  BY <1>1, <1>2 DEF Init, IInv, UsableWasApproved, AdmissionWasApproved,
     AdmittedBelong, OneInsidePerRequest, PassWithinLimit,
     OneDecisionPerApprover, Absent, Exists

\* Every step preserves it.
LEMMA NextIInv == IInv /\ [Next]_vars => IInv'
<1> SUFFICES ASSUME IInv, [Next]_vars PROVE IInv'
  OBVIOUS
<1>1. CASE UNCHANGED vars
  BY <1>1 DEF vars, IInv, TypeOK, AllSound, UsableWasApproved, AdmissionWasApproved,
     AdmittedBelong, OneInsidePerRequest, PassWithinLimit, OneDecisionPerApprover
<1>2. ASSUME NEW w \in Workers, Start(w) PROVE IInv'
  BY <1>2, BeginSteps
<1>3. ASSUME NEW w \in Workers, Proceed(w) PROVE IInv'
  BY <1>3, CreateStep, DecideStep, CancelStep, AddMemberStep, CreatePassStep,
     EntryWithoutRow, EntryStep, ExitStep, SweepStep DEF Proceed
<1>4. CASE Outside
  BY <1>4, OutsideSteps
<1> QED BY <1>1, <1>2, <1>3, <1>4 DEF Next

\* The inductive invariant holds in every reachable state.
LEMMA SpecIInv == Spec => []IInv
<1>1. Init => IInv
  BY InitIInv
<1>2. IInv /\ [Next]_vars => IInv'
  BY NextIInv
<1> QED BY <1>1, <1>2, PTL DEF Spec

\* Every row and every open transaction keeps the columns the schema gives it.
THEOREM TypeCorrect == Spec => []TypeOK
<1>1. IInv => TypeOK
  BY DEF IInv
<1> QED BY <1>1, SpecIInv, PTL

\* However many transactions overlap, nobody is let in on a request that was never
\* approved (record_entry against decide_request, create_pass and the sweep).
THEOREM AdmissionSafety == Spec => []AdmissionWasApproved
<1>1. IInv => AdmissionWasApproved
  BY DEF IInv
<1> QED BY <1>1, SpecIInv, PTL

\* Everyone let in belongs to the party of the request, and came on a pass of that
\* request if on a pass at all (record_entry).
THEOREM AdmissionBelongs == Spec => []AdmittedBelong
<1>1. IInv => AdmittedBelong
  BY DEF IInv
<1> QED BY <1>1, SpecIInv, PTL

\* Racing guards never leave two open entries for one request (record_entry and
\* the unique index of migration 0026).
THEOREM SingleOpenEntry == Spec => []OneInsidePerRequest
<1>1. IInv => OneInsidePerRequest
  BY DEF IInv
<1> QED BY <1>1, SpecIInv, PTL

\* A pass counter never exceeds its allowance, lost updates included
\* (record_entry's entry_count).
THEOREM PassLimit == Spec => []PassWithinLimit
<1>1. IInv => PassWithinLimit
  BY DEF IInv
<1> QED BY <1>1, SpecIInv, PTL

\* An approver has at most one decision on a request (decide_request).
THEOREM SingleDecision == Spec => []OneDecisionPerApprover
<1>1. IInv => OneDecisionPerApprover
  BY DEF IInv
<1> QED BY <1>1, SpecIInv, PTL
-----------------------------------------------------------------------------
(* Transactions that do not overlap                                          *)

\* No two transactions are open at once.
Serial == \A v, w \in Workers : txn[v] # Idle /\ txn[w] # Idle => v = w

\* What an undisturbed transaction has read is still what the tables hold.
Fresh(t, req, pas, ent) ==
  /\ t.op = "decide" => /\ req[t.row.request].status = t.from
                        /\ MayDecide(t.from, t.row.decision)
  /\ t.op = "cancel" => MayCancel(req[t.request].status)
  /\ t.op = "pass" /\ t.approve => req[t.row.request].status = "pending"
  /\ t.op \in {"entry", "admit"} =>
       /\ req[t.request].status = t.from
       /\ MayEnter(t.from)
       /\ t.pass # None => pas[t.pass].used = t.used
  /\ t.op = "admit" =>
       \A e \in Entries : ~(ent[e].status = "inside" /\ ent[e].visitor = t.visitor)
  /\ t.op = "exit" =>
       /\ ent[t.entry].status = "inside"
       /\ ent[t.entry].request = t.request
       /\ t.completes <=>
            /\ req[t.request].status = "entered"
            /\ \A e \in Entries \ {t.entry} :
                 ~(ent[e].status = "inside" /\ ent[e].request = t.request)
  /\ t.op = "sweep" => \A r \in t.due : req[r].status \in Open

AllFresh == \A w \in Workers : Fresh(txn[w], request, pass, entry)

OneOpenEntry ==
  \A e, f \in Entries :
    /\ entry[e].status = "inside" /\ entry[f].status = "inside"
    /\ entry[e].visitor = entry[f].visitor
    => e = f

\* The entries recorded on a pass.
On(p) == {e \in Entries : Exists(entry[e]) /\ entry[e].pass = p}

UsesCounted ==
  \A p \in Passes : /\ IsFiniteSet(On(p))
                    /\ Exists(pass[p]) => pass[p].used = Cardinality(On(p))

\* A recorded decision is what became of the request.
DecisionsHold ==
  \A a \in approval :
    /\ a.decision = "approved" =>
         request[a.request].status \in
           {"approved", "entered", "completed", "cancelled", "expired"}
    /\ a.decision = "rejected" => request[a.request].status = "rejected"

Tables == OneOpenEntry /\ EnteredIffInside /\ UsesCounted /\ DecisionsHold

SerialInv == IInv /\ AllFresh /\ Tables

-----------------------------------------------------------------------------
\* Every change of a request's status is a move its transition map declares.
LegalMoves ==
  \A r \in Requests :
    Exists(request[r]) =>
      \/ request'[r].status = request[r].status
      \/ CanTransition(request[r].status, request'[r].status, RequestTransitions)

\* The steps that record no entry and no exit close or open nothing that is
\* `entered`, and count no use.
QuietMoves ==
  \A r \in Requests :
    request'[r].status = request[r].status \/ (request[r].status # "entered"
                                               /\ request'[r].status # "entered")
QuietPasses ==
  \A p \in Passes : Exists(pass'[p]) =>
    IF Exists(pass[p]) THEN pass'[p].used = pass[p].used ELSE pass'[p].used = 0

\* The declared moves, spelled out.
LEMMA Moves ==
  ASSUME NEW s \in Status, NEW t
  PROVE  CanTransition(s, t, RequestTransitions) <=>
           \/ s = "pending" /\ t \in {"approved", "rejected", "cancelled", "expired"}
           \/ s = "approved" /\ t \in {"entered", "cancelled", "expired"}
           \/ s = "entered" /\ t = "completed"
  BY StatusSet DEF CanTransition, RequestTransitions, Status

\* What the gates of decide_request, cancel_request and record_entry let pass.
LEMMA Gates ==
  ASSUME NEW s \in Status
  PROVE  /\ MayCancel(s) <=> s \in Open
         /\ MayEnter(s) <=> s \in {"approved", "entered"}
         /\ \A d \in {"approved", "rejected"} :
              MayDecide(s, d) <=> s = "pending" \/ s = d
<1>1. MayCancel(s) <=> s \in Open
  BY Moves, StatusSet DEF MayCancel, EnsureTransition, Open
<1>2. MayEnter(s) <=> s \in {"approved", "entered"}
  BY Moves, StatusSet DEF MayEnter, EnsureTransition
<1>3. ASSUME NEW d \in {"approved", "rejected"}
      PROVE  MayDecide(s, d) <=> s = "pending" \/ s = d
  BY Moves, StatusSet DEF MayDecide, EnsureTransition
<1> QED BY <1>1, <1>2, <1>3

\* The statuses of existing requests.
LEMMA RequestStatus ==
  ASSUME TypeOK, NEW r \in Requests
  PROVE  /\ request[r].status \in Status \cup {"absent"}
         /\ Exists(request[r]) => request[r].status \in Status
  BY DEF TypeOK, Exists, Absent, RequestRow

\* A decision stands whatever declared moves follow it.
LEMMA DecisionsStand ==
  ASSUME IInv, DecisionsHold, LegalMoves, UNCHANGED approval
  PROVE  DecisionsHold'
<1> SUFFICES ASSUME NEW a \in approval
             PROVE  /\ a.decision = "approved" =>
                         request'[a.request].status \in
                           {"approved", "entered", "completed", "cancelled", "expired"}
                    /\ a.decision = "rejected" => request'[a.request].status = "rejected"
  BY DEF DecisionsHold
<1>1. a.request \in Requests
  BY DEF IInv, TypeOK, ApprovalRow
<1>2. request[a.request].status \in Status \cup {"absent"}
  BY <1>1, RequestStatus DEF IInv
<1>3. CASE ~Exists(request[a.request])
  <2>1. a.decision \in {"approved", "rejected"}
    BY DEF IInv, TypeOK, ApprovalRow
  <2> QED BY <1>3, <2>1 DEF DecisionsHold, Exists
<1>4. CASE Exists(request[a.request])
  <2>1. request[a.request].status \in Status
    BY <1>1, <1>4, RequestStatus DEF IInv
  <2>2. \/ request'[a.request].status = request[a.request].status
        \/ CanTransition(request[a.request].status, request'[a.request].status,
                         RequestTransitions)
    BY <1>1, <1>4 DEF LegalMoves
  <2> QED BY <2>1, <2>2, Moves DEF DecisionsHold
<1> QED BY <1>3, <1>4

\* Steps that touch no entry keep the tables in step with one another.
LEMMA QuietTables ==
  ASSUME IInv, Tables, QuietMoves, QuietPasses, UNCHANGED entry
  PROVE  OneOpenEntry' /\ EnteredIffInside' /\ UsesCounted'
<1>1. OneOpenEntry'
  BY DEF Tables, OneOpenEntry
<1>2. EnteredIffInside'
  <2> SUFFICES ASSUME NEW r \in Requests, Exists(request'[r])
               PROVE  request'[r].status = "entered" <=> Insides(r) # {}
    BY DEF EnteredIffInside, Insides
  <2>1. CASE Exists(request[r])
    BY <2>1 DEF Tables, EnteredIffInside, QuietMoves
  <2>2. CASE ~Exists(request[r])
    <3>1. Insides(r) = {}
      BY <2>2 DEF IInv, AdmittedBelong, Insides, Exists
    <3> QED BY <2>2, <3>1 DEF QuietMoves, Exists
  <2> QED BY <2>1, <2>2
<1>3. UsesCounted'
  <2> SUFFICES ASSUME NEW p \in Passes
               PROVE  /\ IsFiniteSet(On(p))
                      /\ Exists(pass'[p]) => pass'[p].used = Cardinality(On(p))
    BY DEF UsesCounted, On
  <2>1. CASE Exists(pass[p])
    BY <2>1 DEF Tables, UsesCounted, QuietPasses
  <2>2. CASE ~Exists(pass[p])
    <3>1. On(p) = {}
      BY <2>2, NoneAssumption DEF IInv, AdmittedBelong, On
    <3> QED BY <2>2, <3>1, FS_EmptySet DEF QuietPasses
  <2> QED BY <2>1, <2>2
<1> QED BY <1>1, <1>2, <1>3

-----------------------------------------------------------------------------
\* What a transaction depends on: the columns it reads again at its commit.
ReadsKept ==
  /\ \A r \in Requests : request'[r].status = request[r].status
  /\ \A p \in Passes : Exists(pass[p]) => pass'[p].used = pass[p].used
  /\ UNCHANGED entry

\* It stays fresh while nobody writes those.
LEMMA FreshStays ==
  ASSUME IInv, NEW w \in Workers, Fresh(txn[w], request, pass, entry), ReadsKept
  PROVE  Fresh(txn[w], request', pass', entry')
<1> DEFINE t == txn[w]
<1>1. t \in Txn /\ Sound(t, request, pass, entry, granted)
  BY DEF IInv, TypeOK, AllSound
<1>2. CASE t.op = "decide"
  <2>1. t.row.request \in Requests
    BY <1>1, <1>2 DEF Txn, Idle, ApprovalRow
  <2> QED BY <1>2, <2>1 DEF Fresh, ReadsKept
<1>3. CASE t.op = "cancel"
  <2>1. t.request \in Requests
    BY <1>1, <1>3 DEF Txn, Idle
  <2> QED BY <1>3, <2>1 DEF Fresh, ReadsKept
<1>4. CASE t.op = "pass"
  <2>1. t.row.request \in Requests
    BY <1>1, <1>4 DEF Txn, Idle, PassRow
  <2> QED BY <1>4, <2>1 DEF Fresh, ReadsKept
<1>5. CASE t.op \in {"entry", "admit"}
  <2>1. /\ t.request \in Requests
        /\ t.pass # None => t.pass \in Passes /\ Exists(pass[t.pass])
    BY <1>1, <1>5 DEF Txn, Idle, Sound, Admitting
  <2> QED BY <1>5, <2>1 DEF Fresh, ReadsKept
<1>6. CASE t.op = "exit"
  <2>1. /\ t.entry \in Entries /\ t.request \in Requests
        /\ entry[t.entry].request = t.request
    BY <1>1, <1>6 DEF Txn, Idle, Fresh
  <2> QED BY <1>6, <2>1 DEF Fresh, ReadsKept
<1>7. CASE t.op = "sweep"
  <2>1. t.due \subseteq Requests
    BY <1>1, <1>7 DEF Txn, Idle
  <2> QED BY <1>7, <2>1 DEF Fresh, ReadsKept
<1>8. CASE t.op \notin {"decide", "cancel", "pass", "entry", "admit", "exit", "sweep"}
  BY <1>8 DEF Fresh
<1> QED BY <1>2, <1>3, <1>4, <1>5, <1>6, <1>7, <1>8

\* All stay fresh when one of them moves on to a fresh stage.
LEMMA AllFreshStays ==
  ASSUME IInv, AllFresh, ReadsKept, NEW w \in Workers, Fresh(txn'[w], request', pass', entry'),
         \A v \in Workers : v # w => txn'[v] = txn[v]
  PROVE  AllFresh'
<1> SUFFICES ASSUME NEW v \in Workers PROVE Fresh(txn'[v], request', pass', entry')
  BY DEF AllFresh
<1>1. CASE v = w
  BY <1>1
<1>2. CASE v # w
  BY <1>2, FreshStays DEF AllFresh
<1> QED BY <1>1, <1>2

LEMMA IdleFresh ==
  ASSUME NEW req, NEW pas, NEW ent
  PROVE  Fresh(Idle, req, pas, ent)
  BY DEF Fresh, Idle

\* After the commit of the only open transaction all workers are idle.
LEMMA AllIdle ==
  ASSUME TypeOK, Serial, NEW w \in Workers, txn[w] # Idle, Finish(w)
  PROVE  AllFresh'
<1> SUFFICES ASSUME NEW v \in Workers PROVE Fresh(txn'[v], request', pass', entry')
  BY DEF AllFresh
<1>1. txn'[v] = Idle
  BY DEF Serial, Finish, TypeOK
<1> QED BY <1>1, IdleFresh

\* A step that leaves all rows alone leaves the tables consistent.
LEMMA TablesKept ==
  ASSUME Tables, UNCHANGED <<request, approval, pass, entry>>
  PROVE  Tables' /\ LegalMoves
  BY DEF Tables, OneOpenEntry, EnteredIffInside, UsesCounted, DecisionsHold, LegalMoves,
     On, Insides

LEMMA NothingRead ==
  ASSUME UNCHANGED <<request, pass, entry>>
  PROVE  ReadsKept
  BY DEF ReadsKept

\* A transaction that begins is fresh.
LEMMA SerialStart ==
  ASSUME SerialInv, NEW w \in Workers, Start(w)
  PROVE  AllFresh' /\ Tables' /\ LegalMoves
<1>1. /\ UNCHANGED <<request, approval, pass, entry, blacklist, policy, granted>>
      /\ \A v \in Workers : v # w => txn'[v] = txn[v]
      /\ txn' \in [Workers -> Txn] => txn'[w] \in Txn
      /\ \A t : Begin(w, t) => txn'[w] = t
  BY DEF SerialInv, IInv, TypeOK, Start, BeginCreate, BeginDecide, BeginCancel,
     BeginAddMember, BeginCreatePass, BeginEntry, BeginExit, BeginSweep, Begin
<1>2. Fresh(txn'[w], request', pass', entry')
  <2>1. CASE BeginCreate(w)
    <3>1. txn'[w].op = "create"
      BY <1>1, <2>1 DEF BeginCreate
    <3> QED BY <3>1 DEF Fresh
  <2>2. CASE BeginDecide(w)
    <3>1. PICK r \in Requests, a \in Approvers, decision \in {"approved", "rejected"} :
            /\ MayDecide(request[r].status, decision)
            /\ txn'[w] = [op |-> "decide", from |-> request[r].status,
                          row |-> [request |-> r, approver |-> a, decision |-> decision]]
      BY <1>1, <2>2 DEF BeginDecide
    <3> QED BY <1>1, <3>1 DEF Fresh
  <2>3. CASE BeginCancel(w)
    <3>1. PICK r \in Requests : /\ MayCancel(request[r].status)
                                /\ txn'[w] = [op |-> "cancel", request |-> r]
      BY <1>1, <2>3 DEF BeginCancel
    <3> QED BY <1>1, <3>1 DEF Fresh
  <2>4. CASE BeginAddMember(w)
    <3>1. txn'[w].op = "member"
      BY <1>1, <2>4 DEF BeginAddMember
    <3> QED BY <3>1 DEF Fresh
  <2>5. CASE BeginCreatePass(w)
    <3>1. PICK r \in Requests, max \in 1..MaxUses, window \in {"before", "within"},
               entitled \in BOOLEAN :
            txn'[w] = [op |-> "pass",
                       row |-> [status |-> "issued", request |-> r, window |-> window,
                                max |-> max, used |-> 0],
                       approve |-> PreApproves(request[r].status, entitled)]
      BY <1>1, <2>5 DEF BeginCreatePass
    <3>2. /\ txn'[w].op = "pass" /\ txn'[w].row.request = r
          /\ txn'[w].approve = PreApproves(request[r].status, entitled)
      BY <3>1
    <3>3. PreApproves(request[r].status, entitled) => request'[r].status = "pending"
      BY <1>1 DEF PreApproves
    <3> QED BY <3>2, <3>3 DEF Fresh
  <2>6. CASE BeginEntry(w)
    <3>1. PICK r \in Requests, v \in Visitors, p \in Passes \cup {None}, pinSent \in BOOLEAN :
            /\ MayEnter(request[r].status)
            /\ txn'[w] = [op |-> "entry", request |-> r, visitor |-> v, pinSent |-> pinSent,
                          from |-> request[r].status, pass |-> p,
                          used |-> IF p = None THEN 0 ELSE pass[p].used]
      BY <1>1, <2>6 DEF BeginEntry
    <3> QED BY <1>1, <3>1 DEF Fresh
  <2>7. CASE BeginExit(w)
    <3>1. PICK e \in Entries :
            /\ entry[e].status = "inside"
            /\ txn'[w] = [op |-> "exit", entry |-> e, request |-> entry[e].request,
                          completes |-> Completes(e)]
      BY <1>1, <2>7 DEF BeginExit
    <3> QED BY <1>1, <3>1 DEF Fresh, Completes, Insides
  <2>8. CASE BeginSweep(w)
    <3>1. txn'[w] = [op |-> "sweep", due |-> {r \in Requests : Exists(request[r]) /\ Stale(r)}]
      BY <1>1, <2>8 DEF BeginSweep
    <3> QED BY <1>1, <3>1 DEF Fresh, Stale
  <2> QED
    BY <2>1, <2>2, <2>3, <2>4, <2>5, <2>6, <2>7, <2>8 DEF Start
<1>3. AllFresh'
  BY <1>1, <1>2, NothingRead, AllFreshStays DEF SerialInv
<1> QED BY <1>1, <1>3, TablesKept DEF SerialInv

-----------------------------------------------------------------------------
\* A commit that sets the status of requests whose present one declares the
\* move, and neither begins nor ends an admission.
LEMMA StatusMoves ==
  ASSUME TypeOK, NEW rs \in SUBSET Requests, NEW to \in Status \ {"entered"},
         SetStatus(rs, to),
         \A r \in rs : /\ request[r].status \in Status \ {"entered"}
                       /\ \/ request[r].status = to
                          \/ CanTransition(request[r].status, to, RequestTransitions)
  PROVE  /\ QuietMoves /\ LegalMoves
         /\ \A r \in rs : request'[r].status = to
<1>1. \A r \in Requests :
        request'[r] = IF r \in rs THEN [request[r] EXCEPT !.status = to]
                                  ELSE request[r]
  BY DEF SetStatus
<1>2. \A r \in rs : request[r] \in RequestRow
  BY StatusSet DEF TypeOK, Absent, Exists
<1>3. \A r \in rs : request'[r].status = to
  BY <1>1, <1>2 DEF RequestRow
<1> QED BY <1>1, <1>3 DEF QuietMoves, LegalMoves

LEMMA SamePasses ==
  ASSUME UNCHANGED pass
  PROVE  QuietPasses
  BY DEF QuietPasses

LEMMA SameRequests ==
  ASSUME KeepRequests
  PROVE  QuietMoves /\ LegalMoves
  BY DEF KeepRequests, QuietMoves, LegalMoves

\* What has to be shown of a commit that touches neither entries nor decisions.
LEMMA QuietCommit ==
  ASSUME SerialInv, Serial, NEW w \in Workers, txn[w] # Idle, Finish(w),
         QuietMoves, LegalMoves, QuietPasses, UNCHANGED <<approval, entry>>
  PROVE  AllFresh' /\ Tables' /\ LegalMoves
<1>1. AllFresh'
  BY AllIdle DEF SerialInv, IInv
<1> QED
  BY <1>1, QuietTables, DecisionsStand DEF SerialInv, Tables

LEMMA NotIdle ==
  ASSUME NEW w \in Workers, txn[w].op # "idle"
  PROVE  txn[w] # Idle
  BY DEF Idle

LEMMA SerialCreate ==
  ASSUME SerialInv, Serial, NEW w \in Workers, CommitCreate(w)
  PROVE  AllFresh' /\ Tables' /\ LegalMoves
<1>1. txn[w].status \in Open /\ txn[w] # Idle
  BY NotIdle DEF SerialInv, IInv, TypeOK, Txn, Idle, CommitCreate, Holds
<1>2. PICK r \in Requests :
        /\ ~Exists(request[r])
        /\ request' = [request EXCEPT ![r] =
             [status |-> txn[w].status, party |-> txn[w].party, overdue |-> FALSE]]
  BY DEF CommitCreate
<1>3. QuietMoves /\ LegalMoves
  BY <1>1, <1>2 DEF QuietMoves, LegalMoves, SerialInv, IInv, TypeOK, Exists, Open
<1> QED BY <1>1, <1>3, SamePasses, QuietCommit DEF CommitCreate

\* The second decision of a request is the first one again (decide_request).
LEMMA SerialDecide ==
  ASSUME SerialInv, Serial, NEW w \in Workers, CommitDecide(w)
  PROVE  AllFresh' /\ Tables' /\ LegalMoves
<1> DEFINE row == txn[w].row
<1>1. /\ txn[w] # Idle
      /\ row \in ApprovalRow
      /\ Exists(request[row.request])
      /\ request[row.request].status = txn[w].from
      /\ MayDecide(txn[w].from, row.decision)
  BY NotIdle DEF SerialInv, IInv, TypeOK, Txn, Idle, CommitDecide, Holds, AllSound,
     Sound, AllFresh, Fresh
<1>2. row.request \in Requests /\ row.decision \in {"approved", "rejected"}
  BY <1>1 DEF ApprovalRow
<1>3. /\ txn[w].from \in Status
      /\ txn[w].from = "pending" \/ txn[w].from = row.decision
  BY <1>1, <1>2, RequestStatus, Gates DEF SerialInv, IInv
<1>4. /\ QuietMoves /\ LegalMoves
      /\ ~Decided(row) => request'[row.request].status = row.decision
  <2>1. CASE KeepRequests /\ (Decided(row) \/ txn[w].from = row.decision)
    BY <1>1, <2>1, SameRequests DEF KeepRequests
  <2>2. CASE SetStatus({row.request}, row.decision)
    BY <1>1, <1>2, <1>3, <2>2, StatusSet, Moves, StatusMoves DEF SerialInv, IInv
  <2> QED BY <2>1, <2>2 DEF CommitDecide, WriteStatus
<1>5. AllFresh'
  BY <1>1, AllIdle DEF CommitDecide, SerialInv, IInv
<1>6. DecisionsHold'
  <2>1. CASE UNCHANGED approval
    BY <1>4, <2>1, DecisionsStand DEF SerialInv, Tables
  <2>2. CASE ~Decided(row) /\ approval' = approval \cup {row}
    <3>1. ASSUME NEW a \in approval
          PROVE  /\ a.decision = "approved" =>
                      request'[a.request].status \in
                        {"approved", "entered", "completed", "cancelled", "expired"}
                 /\ a.decision = "rejected" => request'[a.request].status = "rejected"
      <4>1. a.request \in Requests
        BY DEF SerialInv, IInv, TypeOK, ApprovalRow
      <4>2. /\ a.decision = "approved" =>
                 request[a.request].status \in
                   {"approved", "entered", "completed", "cancelled", "expired"}
            /\ a.decision = "rejected" => request[a.request].status = "rejected"
        BY DEF SerialInv, Tables, DecisionsHold
      <4>3. CASE ~Exists(request[a.request])
        <5>1. a.decision \in {"approved", "rejected"}
          BY DEF SerialInv, IInv, TypeOK, ApprovalRow
        <5> QED BY <4>2, <4>3, <5>1 DEF Exists
      <4>4. CASE Exists(request[a.request])
        <5>1. request[a.request].status \in Status
          BY <4>1, <4>4, RequestStatus DEF SerialInv, IInv
        <5> QED BY <1>4, <4>1, <4>2, <4>4, <5>1, Moves DEF LegalMoves
      <4> QED BY <4>3, <4>4
    <3> QED BY <1>2, <1>4, <2>2, <3>1 DEF DecisionsHold
  <2> QED BY <2>1, <2>2 DEF CommitDecide
<1> QED
  BY <1>4, <1>5, <1>6, SamePasses, QuietTables DEF CommitDecide, SerialInv, Tables

LEMMA SerialCancel ==
  ASSUME SerialInv, Serial, NEW w \in Workers, CommitCancel(w)
  PROVE  AllFresh' /\ Tables' /\ LegalMoves
<1> DEFINE r == txn[w].request
<1>1. /\ txn[w] # Idle
      /\ r \in Requests /\ Exists(request[r])
      /\ MayCancel(request[r].status)
  BY NotIdle DEF SerialInv, IInv, TypeOK, Txn, Idle, CommitCancel, Holds, AllSound,
     Sound, AllFresh, Fresh
<1>2. request[r].status \in Status /\ request[r].status \in Open
  BY <1>1, RequestStatus, Gates DEF SerialInv, IInv
<1>3. QuietMoves /\ LegalMoves
  <2>1. CanTransition(request[r].status, "cancelled", RequestTransitions)
    BY <1>2, Moves DEF Open
  <2> QED
    BY <1>1, <1>2, <2>1, StatusSet, StatusMoves DEF CommitCancel, SerialInv, IInv, Open
<1> QED BY <1>1, <1>3, SamePasses, QuietCommit DEF CommitCancel

LEMMA SerialAddMember ==
  ASSUME SerialInv, Serial, NEW w \in Workers, CommitAddMember(w)
  PROVE  AllFresh' /\ Tables' /\ LegalMoves
<1>1. /\ txn[w] # Idle
      /\ txn[w].request \in Requests
      /\ request[txn[w].request] \in RequestRow
  BY NotIdle, ExistingRows DEF SerialInv, IInv, TypeOK, Txn, Idle, CommitAddMember,
     Holds, AllSound, Sound
<1>2. \A r \in Requests : request'[r].status = request[r].status
  BY <1>1 DEF CommitAddMember, SerialInv, IInv, TypeOK, RequestRow
<1>3. QuietMoves /\ LegalMoves
  BY <1>2 DEF QuietMoves, LegalMoves
<1> QED BY <1>1, <1>3, SamePasses, QuietCommit DEF CommitAddMember

LEMMA SerialCreatePass ==
  ASSUME SerialInv, Serial, NEW w \in Workers, CommitCreatePass(w)
  PROVE  AllFresh' /\ Tables' /\ LegalMoves
<1> DEFINE r == txn[w].row.request
<1>1. /\ txn[w] # Idle
      /\ txn[w].row \in PassRow /\ txn[w].row.used = 0
      /\ txn[w].approve => request[r].status = "pending"
  BY NotIdle DEF SerialInv, IInv, TypeOK, Txn, Idle, CommitCreatePass, Holds, AllSound,
     Sound, AllFresh, Fresh
<1>2. QuietMoves /\ LegalMoves
  <2>1. CASE KeepRequests
    BY <2>1, SameRequests
  <2>2. CASE txn[w].approve /\ SetStatus({r}, "approved")
    <3>1. r \in Requests
      BY <1>1 DEF PassRow
    <3> QED
      BY <1>1, <2>2, <3>1, StatusSet, Moves, StatusMoves DEF SerialInv, IInv
  <2> QED BY <2>1, <2>2 DEF CommitCreatePass
<1>3. QuietPasses
  BY <1>1 DEF CommitCreatePass, QuietPasses, SerialInv, IInv, TypeOK
<1> QED BY <1>1, <1>2, <1>3, QuietCommit DEF CommitCreatePass

LEMMA SerialSweep ==
  ASSUME SerialInv, Serial, NEW w \in Workers, CommitSweep(w)
  PROVE  AllFresh' /\ Tables' /\ LegalMoves
<1>1. /\ txn[w] # Idle
      /\ txn[w].due \in SUBSET Requests
      /\ \A r \in txn[w].due : request[r].status \in Open
  BY NotIdle DEF SerialInv, IInv, TypeOK, Txn, Idle, CommitSweep, Holds, AllFresh, Fresh
<1>2. \A r \in txn[w].due :
        /\ request[r].status \in Status \ {"entered"}
        /\ CanTransition(request[r].status, "expired", RequestTransitions)
  BY <1>1, StatusSet, Moves DEF Open
<1>3. QuietMoves /\ LegalMoves
  BY <1>1, <1>2, StatusSet, StatusMoves DEF CommitSweep, SerialInv, IInv
<1> QED BY <1>1, <1>3, SamePasses, QuietCommit DEF CommitSweep

\* The steps of record_entry that write nothing, and a lost transaction.
LEMMA SerialEntryWithoutRow ==
  ASSUME SerialInv, Serial, NEW w \in Workers,
         ScreenEntry(w) \/ ConflictEntry(w) \/ RollbackEntry(w) \/ Crash(w)
  PROVE  AllFresh' /\ Tables' /\ LegalMoves
<1>1. /\ UNCHANGED <<request, approval, pass, entry>>
      /\ \A v \in Workers : v # w => txn'[v] = txn[v]
      /\ Fresh(txn[w], request, pass, entry)
  BY DEF ScreenEntry, ConflictEntry, RollbackEntry, Crash, Finish, SerialInv, IInv, TypeOK,
     AllFresh
<1>2. Fresh(txn'[w], request', pass', entry')
  <2>1. CASE txn'[w] = Idle
    BY <2>1, IdleFresh
  <2>2. CASE ScreenEntry(w) /\ txn'[w] # Idle
    <3>1. /\ txn[w].op = "entry"
          /\ \/ txn' = [txn EXCEPT ![w] = [txn[w] EXCEPT !.op = "denied"]]
             \/ /\ txn' = [txn EXCEPT ![w] = [txn[w] EXCEPT !.op = "admit"]]
                /\ ~AlreadyInside(txn[w].visitor)
      BY <2>2 DEF ScreenEntry, Holds, SerialInv, IInv, TypeOK
    <3>2. txn[w] \in [op : {"entry", "admit", "denied", "conflict"}, request : Requests,
                      visitor : Visitors, from : Status, pass : Passes \cup {None},
                      used : 0..MaxUses, pinSent : BOOLEAN]
      BY <3>1 DEF SerialInv, IInv, TypeOK, Txn, Idle
    <3>3. CASE txn'[w] = [txn[w] EXCEPT !.op = "denied"]
      <4>1. txn'[w].op = "denied"
        BY <3>2, <3>3
      <4> QED BY <4>1 DEF Fresh
    <3>4. CASE /\ txn'[w] = [txn[w] EXCEPT !.op = "admit"]
               /\ ~AlreadyInside(txn[w].visitor)
      <4>1. /\ txn'[w].op = "admit"
            /\ txn'[w].request = txn[w].request
            /\ txn'[w].visitor = txn[w].visitor
            /\ txn'[w].from = txn[w].from
            /\ txn'[w].pass = txn[w].pass
            /\ txn'[w].used = txn[w].used
        BY <3>2, <3>4
      <4>2. \A e \in Entries : ~(entry[e].status = "inside"
                                 /\ entry[e].visitor = txn[w].visitor)
        BY <3>4 DEF AlreadyInside, OpenFor
      <4> QED BY <1>1, <3>1, <4>1, <4>2 DEF Fresh
    <3> QED
      BY <3>1, <3>3, <3>4 DEF SerialInv, IInv, TypeOK
  <2>3. CASE ConflictEntry(w)
    <3>1. txn[w] \in [op : {"entry", "admit", "denied", "conflict"}, request : Requests,
                      visitor : Visitors, from : Status, pass : Passes \cup {None},
                      used : 0..MaxUses, pinSent : BOOLEAN]
      BY <2>3 DEF ConflictEntry, Holds, SerialInv, IInv, TypeOK, Txn, Idle
    <3>2. txn'[w].op = "conflict"
      BY <2>3, <3>1 DEF ConflictEntry, SerialInv, IInv, TypeOK
    <3> QED BY <3>2 DEF Fresh
  <2> QED
    BY <2>1, <2>2, <2>3 DEF RollbackEntry, Crash, Finish, SerialInv, IInv, TypeOK
<1>3. AllFresh'
  BY <1>1, <1>2, NothingRead, AllFreshStays DEF SerialInv
<1> QED BY <1>1, <1>3, TablesKept DEF SerialInv

\* The admission: the visitor was nowhere inside, the request is now entered, the
\* pass counts one use more.
LEMMA SerialEntry ==
  ASSUME SerialInv, Serial, NEW w \in Workers, CommitEntry(w)
  PROVE  AllFresh' /\ Tables' /\ LegalMoves
<1> DEFINE t == txn[w]
<1>1. /\ t # Idle
      /\ t.request \in Requests /\ Exists(request[t.request])
      /\ t.pass \in Passes \cup {None}
      /\ t.pass # None => Exists(pass[t.pass]) /\ pass[t.pass].used = t.used
      /\ request[t.request].status = t.from /\ MayEnter(t.from)
      /\ \A e \in Entries : ~(entry[e].status = "inside" /\ entry[e].visitor = t.visitor)
  BY NotIdle DEF SerialInv, IInv, TypeOK, Txn, Idle, CommitEntry, Holds, AllSound,
     Sound, Admitting, AllFresh, Fresh
<1>2. t.from \in {"approved", "entered"}
  BY <1>1, RequestStatus, Gates DEF SerialInv, IInv
<1>3. AllFresh'
  BY <1>1, AllIdle DEF CommitEntry, SerialInv, IInv
<1>4. PICK e \in Entries : ~Exists(entry[e]) /\ entry' = [entry EXCEPT ![e] = NewEntry(t)]
  BY DEF CommitEntry
<1>5. /\ entry'[e] = NewEntry(t)
      /\ \A f \in Entries : f # e => entry'[f] = entry[f]
  BY <1>4 DEF SerialInv, IInv, TypeOK
<1>6. /\ request'[t.request].status = "entered"
      /\ Exists(request'[t.request])
      /\ \A r \in Requests : r # t.request => request'[r] = request[r]
  <2>1. CASE KeepRequests /\ t.from = "entered"
    BY <1>1, <2>1 DEF KeepRequests
  <2>2. CASE SetStatus({t.request}, "entered")
    <3>1. request[t.request] \in RequestRow
      BY <1>1, ExistingRows DEF SerialInv, IInv
    <3> QED BY <1>1, <2>2, <3>1 DEF SetStatus, RequestRow, Exists
  <2> QED BY <2>1, <2>2 DEF CommitEntry, WriteStatus
<1>7. LegalMoves
  <2>1. t.from \in Status
    BY <1>2, StatusSet
  <2> QED BY <1>1, <1>2, <1>6, <2>1, Moves DEF LegalMoves
<1>8. OneOpenEntry'
  BY <1>1, <1>5 DEF OneOpenEntry, NewEntry, SerialInv, Tables
<1>9. EnteredIffInside'
  <2> SUFFICES ASSUME NEW r \in Requests, Exists(request'[r])
               PROVE  request'[r].status = "entered"
                        <=> \E f \in Entries : entry'[f].status = "inside"
                                               /\ entry'[f].request = r
    BY DEF EnteredIffInside, Insides
  <2>1. CASE r = t.request
    BY <1>5, <1>6, <2>1 DEF NewEntry
  <2>2. CASE r # t.request
    <3>1. request[r].status = "entered"
            <=> \E f \in Entries : entry[f].status = "inside" /\ entry[f].request = r
      BY <1>6, <2>2 DEF SerialInv, Tables, EnteredIffInside, Insides
    <3> QED BY <1>4, <1>5, <1>6, <2>2, <3>1 DEF NewEntry, Exists
  <2> QED BY <2>1, <2>2
<1>10. UsesCounted'
  <2> SUFFICES ASSUME NEW p \in Passes
               PROVE  /\ IsFiniteSet(On(p)')
                      /\ Exists(pass'[p]) => pass'[p].used = Cardinality(On(p)')
    BY DEF UsesCounted
  <2>1. IsFiniteSet(On(p)) /\ (Exists(pass[p]) => pass[p].used = Cardinality(On(p)))
    BY DEF SerialInv, Tables, UsesCounted
  <2>2. CASE p # t.pass
    <3>1. On(p)' = On(p)
      BY <1>4, <1>5, <2>2 DEF On, NewEntry, Exists
    <3>2. pass'[p] = pass[p]
      BY <2>2 DEF CommitEntry, CountUse, SerialInv, IInv, TypeOK
    <3> QED BY <2>1, <3>1, <3>2
  <2>3. CASE p = t.pass
    <3>1. On(p)' = On(p) \cup {e} /\ e \notin On(p)
      BY <1>4, <1>5, <2>3 DEF On, NewEntry, Exists
    <3>2. IsFiniteSet(On(p)') /\ Cardinality(On(p)') = Cardinality(On(p)) + 1
      BY <2>1, <3>1, FS_AddElement
    <3>3. p # None
      BY NoneAssumption
    <3>4. pass[p] \in PassRow /\ pass' = [pass EXCEPT ![p].used = t.used + 1]
      BY <1>1, <2>3, <3>3, ExistingRows DEF CommitEntry, CountUse, SerialInv, IInv
    <3>5. pass'[p].used = pass[p].used + 1
      BY <1>1, <2>3, <3>3, <3>4 DEF PassRow, SerialInv, IInv, TypeOK
    <3> QED BY <1>1, <2>1, <2>3, <3>2, <3>3, <3>5
  <2> QED BY <2>2, <2>3
<1>11. DecisionsHold'
  BY <1>7, DecisionsStand DEF SerialInv, Tables, CommitEntry
<1> QED BY <1>3, <1>7, <1>8, <1>9, <1>10, <1>11 DEF Tables

\* The last of a party to leave completes the request.
LEMMA SerialExit ==
  ASSUME SerialInv, Serial, NEW w \in Workers, CommitExit(w)
  PROVE  AllFresh' /\ Tables' /\ LegalMoves
<1> DEFINE t == txn[w]
           e == txn[w].entry
<1>1. /\ t # Idle
      /\ e \in Entries /\ entry[e].status = "inside" /\ entry[e].request = t.request
      /\ t.request \in Requests /\ Exists(request[t.request])
      /\ t.completes <=>
           /\ request[t.request].status = "entered"
           /\ \A f \in Entries \ {e} :
                ~(entry[f].status = "inside" /\ entry[f].request = t.request)
  BY NotIdle DEF SerialInv, IInv, TypeOK, Txn, Idle, CommitExit, Holds, AllSound,
     Sound, AllFresh, Fresh
<1>2. request[t.request].status = "entered"
  BY <1>1 DEF SerialInv, Tables, EnteredIffInside, Insides
<1>3. AllFresh'
  BY <1>1, AllIdle DEF CommitExit, SerialInv, IInv
<1>4. entry[e] \in EntryRow
  BY <1>1, ExistingRows DEF SerialInv, IInv, Exists
<1>5. /\ entry'[e] = [entry[e] EXCEPT !.status = "exited"]
      /\ \A f \in Entries : f # e => entry'[f] = entry[f]
  BY <1>1 DEF CommitExit, SerialInv, IInv, TypeOK
<1>6. \A f \in Entries :
        /\ entry'[f].status = "inside" <=> f # e /\ entry[f].status = "inside"
        /\ Exists(entry'[f]) <=> Exists(entry[f])
        /\ entry'[f].visitor = entry[f].visitor
        /\ entry'[f].request = entry[f].request
        /\ entry'[f].pass = entry[f].pass
  <2> SUFFICES ASSUME NEW f \in Entries, f = e
               PROVE  /\ entry'[f].status = "exited" /\ Exists(entry[f])
                      /\ entry'[f].visitor = entry[f].visitor
                      /\ entry'[f].request = entry[f].request
                      /\ entry'[f].pass = entry[f].pass
    BY <1>5 DEF Exists
  <2> QED BY <1>4, <1>5 DEF EntryRow, Exists
<1>7. /\ \A r \in Requests : r # t.request => request'[r] = request[r]
      /\ IF t.completes THEN request'[t.request].status = "completed"
                        ELSE request'[t.request] = request[t.request]
  <2>1. request[t.request] \in RequestRow
    BY <1>1, ExistingRows DEF SerialInv, IInv
  <2> QED BY <1>1, <2>1 DEF CommitExit, SetStatus, KeepRequests, RequestRow
<1>8. LegalMoves
  BY <1>2, <1>7, StatusSet, Moves DEF LegalMoves
<1>9. OneOpenEntry'
  BY <1>6 DEF OneOpenEntry, SerialInv, Tables
<1>10. EnteredIffInside'
  <2> SUFFICES ASSUME NEW r \in Requests, Exists(request'[r])
               PROVE  request'[r].status = "entered"
                        <=> \E f \in Entries : entry'[f].status = "inside"
                                               /\ entry'[f].request = r
    BY DEF EnteredIffInside, Insides
  <2>1. CASE r # t.request
    <3>1. request[r].status = "entered"
            <=> \E f \in Entries : entry[f].status = "inside" /\ entry[f].request = r
      BY <1>7, <2>1 DEF SerialInv, Tables, EnteredIffInside, Insides
    <3> QED BY <1>1, <1>6, <1>7, <2>1, <3>1
  <2>2. CASE r = t.request /\ t.completes
    BY <1>1, <1>6, <1>7, <2>2
  <2>3. CASE r = t.request /\ ~t.completes
    <3>1. PICK f \in Entries \ {e} : entry[f].status = "inside"
                                     /\ entry[f].request = t.request
      BY <1>1, <1>2, <2>3
    <3> QED BY <1>2, <1>6, <1>7, <2>3, <3>1
  <2> QED BY <2>1, <2>2, <2>3
<1>11. UsesCounted'
  <2>1. \A p : On(p)' = On(p)
    BY <1>6 DEF On
  <2> QED BY <2>1 DEF UsesCounted, CommitExit, SerialInv, Tables
<1>12. DecisionsHold'
  BY <1>8, DecisionsStand DEF SerialInv, Tables, CommitExit
<1> QED BY <1>3, <1>8, <1>9, <1>10, <1>11, <1>12 DEF Tables

\* Revocation, blacklist, policy and the clock write no column a transaction
\* writes back.
LEMMA SerialOutside ==
  ASSUME SerialInv, Outside
  PROVE  AllFresh' /\ Tables' /\ LegalMoves
<1>1. /\ UNCHANGED <<approval, entry, txn>>
      /\ \A r \in Requests : request'[r].status = request[r].status
      /\ \A p \in Passes : /\ Exists(pass'[p]) <=> Exists(pass[p])
                           /\ Exists(pass[p]) => pass'[p].used = pass[p].used
  <2>1. ASSUME NEW p \in Passes, RevokePass(p) \/ PassAges(p)
        PROVE  /\ UNCHANGED <<request, approval, entry, txn>>
               /\ \A q \in Passes : /\ Exists(pass'[q]) <=> Exists(pass[q])
                                    /\ Exists(pass[q]) => pass'[q].used = pass[q].used
    <3>1. pass[p] \in PassRow
      BY <2>1, ExistingRows DEF SerialInv, IInv, RevokePass, PassAges
    <3>2. CASE RevokePass(p)
      BY <3>1, <3>2 DEF RevokePass, PassRow, Exists, SerialInv, IInv, TypeOK
    <3>3. CASE PassAges(p)
      BY <3>1, <3>3 DEF PassAges, PassRow, Exists, SerialInv, IInv, TypeOK
    <3> QED BY <2>1, <3>2, <3>3
  <2>2. ASSUME NEW r \in Requests, RequestLapses(r)
        PROVE  /\ UNCHANGED <<approval, pass, entry, txn>>
               /\ \A q \in Requests : request'[q].status = request[q].status
    <3>1. request[r] \in RequestRow
      BY <2>2, ExistingRows DEF SerialInv, IInv, RequestLapses
    <3> QED BY <2>2, <3>1 DEF RequestLapses, RequestRow, SerialInv, IInv, TypeOK
  <2>3. CASE UpdatePolicy \/ \E v \in Suspects : SetBlacklist(v)
    BY <2>3 DEF UpdatePolicy, SetBlacklist
  <2> QED BY <2>1, <2>2, <2>3 DEF Outside
<1>2. QuietMoves /\ LegalMoves /\ QuietPasses /\ ReadsKept
  BY <1>1 DEF QuietMoves, LegalMoves, QuietPasses, ReadsKept
<1>3. AllFresh'
  BY <1>1, <1>2, FreshStays DEF SerialInv, AllFresh
<1> QED
  BY <1>1, <1>2, <1>3, QuietTables, DecisionsStand DEF SerialInv, Tables

-----------------------------------------------------------------------------
LEMMA SerialInit == Init => SerialInv
<1> SUFFICES ASSUME Init PROVE SerialInv
  OBVIOUS
<1>1. IInv
  BY InitIInv
<1>2. AllFresh
  BY IdleFresh DEF Init, AllFresh
<1>3. \A p \in Passes : On(p) = {}
  BY DEF Init, On, Exists, Absent
<1>4. UsesCounted
  BY <1>3, FS_EmptySet DEF UsesCounted, Init, Exists, Absent
<1> QED
  BY <1>1, <1>2, <1>4 DEF SerialInv, Tables, Init, OneOpenEntry, EnteredIffInside,
     DecisionsHold, Absent, Exists

\* While transactions do not overlap, each step keeps the invariant and moves
\* requests along their transition map only.
LEMMA SerialNext ==
  ASSUME SerialInv, Serial, [Next]_vars
  PROVE  SerialInv' /\ LegalMoves
<1>1. IInv'
  BY NextIInv DEF SerialInv
<1>2. AllFresh' /\ Tables' /\ LegalMoves
  <2>1. CASE UNCHANGED vars
    <3>1. UNCHANGED <<request, approval, pass, entry, txn>>
      BY <2>1 DEF vars
    <3> QED BY <3>1, TablesKept DEF SerialInv, AllFresh
  <2>2. ASSUME NEW w \in Workers, Start(w) PROVE AllFresh' /\ Tables' /\ LegalMoves
    BY <2>2, SerialStart
  <2>3. ASSUME NEW w \in Workers, Proceed(w) PROVE AllFresh' /\ Tables' /\ LegalMoves
    BY <2>3, SerialCreate, SerialDecide, SerialCancel, SerialAddMember, SerialCreatePass,
       SerialSweep, SerialEntryWithoutRow, SerialEntry, SerialExit DEF Proceed
  <2>4. CASE Outside
    BY <2>4, SerialOutside
  <2> QED BY <2>1, <2>2, <2>3, <2>4 DEF Next
<1> QED BY <1>1, <1>2 DEF SerialInv

LEMMA SerialInvariance == Spec /\ []Serial => []SerialInv
<1>1. SerialInv /\ Serial /\ [Next]_vars => SerialInv'
  BY SerialNext
<1> QED BY <1>1, SerialInit, PTL DEF Spec

\* A request is `entered` exactly while somebody is inside on it, however entries,
\* exits, decisions and sweeps follow one another (record_entry, record_exit).
THEOREM SerialEntered == Spec /\ []Serial => []EnteredIffInside
<1>1. SerialInv => EnteredIffInside
  BY DEF SerialInv, Tables
<1> QED BY <1>1, SerialInvariance, PTL

\* A pass counts exactly the entries recorded on it (record_entry's entry_count).
THEOREM SerialUses == Spec /\ []Serial => []UseCountIsEntries
<1>1. SerialInv => UseCountIsEntries
  BY DEF SerialInv, Tables, UsesCounted, UseCountIsEntries, On
<1> QED BY <1>1, SerialInvariance, PTL

\* Approvers never leave opposite decisions on a request (decide_request).
THEOREM SerialDecisions == Spec /\ []Serial => []DecisionsAgree
<1>1. SerialInv => DecisionsAgree
  <2> SUFFICES ASSUME SerialInv, NEW a \in approval, NEW b \in approval,
                      a.request = b.request
               PROVE  a.decision = b.decision
    BY DEF DecisionsAgree
  <2>1. /\ a.decision \in {"approved", "rejected"}
        /\ b.decision \in {"approved", "rejected"}
    BY DEF SerialInv, IInv, TypeOK, ApprovalRow
  <2> QED BY <2>1 DEF SerialInv, Tables, DecisionsHold
<1> QED BY <1>1, SerialInvariance, PTL

-----------------------------------------------------------------------------
(* Terminal requests, whatever transactions overlap                          *)

\* A step that writes neither r's status nor a transaction that would.
LEMMA StillSettled ==
  ASSUME IInv, NEW r \in Requests, Settled(r),
         request'[r].status = request[r].status,
         NEW w \in Workers, NEW t, TxnIs(w, t), ~Overwrites(t, r)
  PROVE  Settled(r)'
<1>1. \A v \in Workers : txn'[v] = IF v = w THEN t ELSE txn[v]
  BY DEF TxnIs, IInv, TypeOK
<1>2. \A v \in Workers : ~Overwrites(txn'[v], r)
  BY <1>1 DEF Settled
<1> QED BY <1>2 DEF Settled, Exists

\* An idle worker is about to write nothing.
LEMMA IdleWritesNothing == \A r \in Requests : ~Overwrites(Idle, r)
  BY DEF Overwrites, Idle

\* No handler that reads a terminal request goes on to write its status.
LEMMA BeginLeavesSettled ==
  ASSUME IInv, NEW w \in Workers, Start(w), NEW r \in Requests, Settled(r)
  PROVE  Settled(r)' /\ request'[r].status = request[r].status
<1>1. Exists(request[r]) /\ request[r].status \in Status
  BY RequestStatus DEF Settled, IInv
<1>2. request[r].status \notin Open \cup {"entered"}
  BY <1>1 DEF Settled, IsTerminal, RequestTransitions, Open
<1>3. UNCHANGED request
  BY DEF Start, BeginCreate, BeginDecide, BeginCancel, BeginAddMember, BeginCreatePass,
     BeginEntry, BeginExit, BeginSweep
<1> DEFINE Untouched == Settled(r)' /\ request'[r].status = request[r].status
<1>0. ASSUME NEW t, TxnIs(w, t), ~Overwrites(t, r) PROVE Untouched
  BY <1>0, <1>3, StillSettled
<1> SUFFICES Untouched
  OBVIOUS
<1> HIDE DEF Untouched
<1>4. CASE BeginCreate(w)
  <2>1. PICK party, status : TxnIs(w, [op |-> "create", party |-> party, status |-> status])
    BY <1>4 DEF BeginCreate, Begin, TxnIs
  <2>2. ~Overwrites([op |-> "create", party |-> party, status |-> status], r)
    BY DEF Overwrites
  <2> QED BY <1>0, <2>1, <2>2
<1>5. CASE BeginDecide(w)
  <2>1. PICK q \in Requests, a \in Approvers, d \in {"approved", "rejected"} :
          /\ Exists(request[q])
          /\ MayDecide(request[q].status, d)
          /\ TxnIs(w, [op |-> "decide", from |-> request[q].status,
                       row |-> [request |-> q, approver |-> a, decision |-> d]])
    BY <1>5 DEF BeginDecide, Begin, TxnIs
  <2> DEFINE t == [op |-> "decide", from |-> request[q].status,
                   row |-> [request |-> q, approver |-> a, decision |-> d]]
  <2>2. q = r => request[r].status = d
    BY <1>1, <1>2, <2>1, Gates DEF Open
  <2>3. ~Overwrites(t, r)
    BY <2>2 DEF Overwrites
  <2> QED BY <1>0, <2>1, <2>3
<1>6. CASE BeginCancel(w)
  <2>1. PICK q \in Requests : /\ Exists(request[q])
                              /\ MayCancel(request[q].status)
                              /\ TxnIs(w, [op |-> "cancel", request |-> q])
    BY <1>6 DEF BeginCancel, Begin, TxnIs
  <2>2. q # r
    BY <1>1, <1>2, <2>1, Gates
  <2>3. ~Overwrites([op |-> "cancel", request |-> q], r)
    BY <2>2 DEF Overwrites
  <2> QED BY <1>0, <2>1, <2>3
<1>7. CASE BeginAddMember(w)
  <2>1. PICK q, v : TxnIs(w, [op |-> "member", request |-> q, visitor |-> v])
    BY <1>7 DEF BeginAddMember, Begin, TxnIs
  <2>2. ~Overwrites([op |-> "member", request |-> q, visitor |-> v], r)
    BY DEF Overwrites
  <2> QED BY <1>0, <2>1, <2>2
<1>8. CASE BeginCreatePass(w)
  <2>1. PICK q \in Requests, max \in 1..MaxUses, window \in {"before", "within"}, entitled \in BOOLEAN :
          /\ Exists(request[q])
          /\ request[q].status \in Open
          /\ Begin(w, [op |-> "pass",
                       row |-> [status |-> "issued", request |-> q, window |-> window, max |-> max, used |-> 0],
                       approve |-> PreApproves(request[q].status, entitled)])
          /\ UNCHANGED <<request, approval, pass, entry, blacklist, policy, granted>>
    BY <1>8, Zenon DEF BeginCreatePass
  <2> DEFINE t == [op |-> "pass",
                   row |-> [status |-> "issued", request |-> q, window |-> window, max |-> max, used |-> 0],
                   approve |-> PreApproves(request[q].status, entitled)]
  <2>2. q # r
    BY <1>2, <2>1
  <2>3. ~Overwrites(t, r)
    BY <2>2 DEF Overwrites
  <2>4. TxnIs(w, t)
    BY <2>1 DEF Begin, TxnIs
  <2> QED BY <1>0, <2>3, <2>4
<1>9. CASE BeginEntry(w)
  <2>1. PICK q \in Requests, v \in Visitors, p \in Passes \cup {None},
             pinSent \in BOOLEAN :
          /\ Exists(request[q])
          /\ p # None => Exists(pass[p]) /\ pass[p].request = q
          /\ p = None => ~pinSent
          /\ p # None => Usable(p)
          /\ MayEnter(request[q].status)
          /\ InGroup(q, v)
          /\ Begin(w, [op |-> "entry", request |-> q, visitor |-> v, pinSent |-> pinSent,
                       from |-> request[q].status, pass |-> p,
                       used |-> IF p = None THEN 0 ELSE pass[p].used])
          /\ UNCHANGED <<request, approval, pass, entry, blacklist, policy, granted>>
    BY <1>9, Zenon DEF BeginEntry
  <2>2. q # r
    BY <1>1, <1>2, <2>1, Gates DEF Open
  <2> DEFINE t == [op |-> "entry", request |-> q, visitor |-> v, pinSent |-> pinSent,
                   from |-> request[q].status, pass |-> p,
                   used |-> IF p = None THEN 0 ELSE pass[p].used]
  <2>3. ~Overwrites(t, r)
    BY <2>2 DEF Overwrites
  <2>4. TxnIs(w, t)
    BY <2>1 DEF Begin, TxnIs
  <2> QED BY <1>0, <2>3, <2>4
<1>10. CASE BeginExit(w)
  <2>1. PICK e \in Entries :
          /\ TxnIs(w, [op |-> "exit", entry |-> e, request |-> entry[e].request,
                       completes |-> Completes(e)])
    BY <1>10 DEF BeginExit, Begin, TxnIs
  <2>2. entry[e].request = r => ~Completes(e)
    BY <1>2 DEF Completes
  <2> DEFINE t == [op |-> "exit", entry |-> e, request |-> entry[e].request,
                   completes |-> Completes(e)]
  <2>3. ~Overwrites(t, r)
    BY <2>2 DEF Overwrites
  <2> QED BY <1>0, <2>1, <2>3
<1>11. CASE BeginSweep(w)
  <2>1. ~Stale(r)
    BY <1>2 DEF Stale
  <2> DEFINE t == [op |-> "sweep", due |-> {q \in Requests : Exists(request[q]) /\ Stale(q)}]
  <2>2. ~Overwrites(t, r)
    BY <2>1 DEF Overwrites
  <2>3. TxnIs(w, t)
    BY <1>11 DEF BeginSweep, Begin, TxnIs
  <2> QED BY <1>0, <2>2, <2>3
<1> QED
  BY <1>4, <1>5, <1>6, <1>7, <1>8, <1>9, <1>10, <1>11 DEF Start

\* No commit reaches a settled request: each would have been about to write it.
LEMMA ProceedLeavesSettled ==
  ASSUME IInv, NEW w \in Workers, Proceed(w), NEW r \in Requests, Settled(r)
  PROVE  Settled(r)' /\ request'[r].status = request[r].status
<1> DEFINE t == txn[w]
           Kept == request'[r].status = request[r].status
<1>1. ~Overwrites(t, r) /\ Exists(request[r])
  BY DEF Settled
<1>2. /\ t \in Txn
      /\ \A q \in Requests : Exists(request[q]) => request[q] \in RequestRow
  BY ExistingRows DEF IInv, TypeOK
<1>3. ASSUME NEW rs, NEW to, SetStatus(rs, to), r \notin rs PROVE Kept
  BY <1>3 DEF SetStatus
<1>4. ASSUME Kept, Finish(w) PROVE Settled(r)' /\ Kept
  BY <1>4, IdleWritesNothing, StillSettled DEF Finish, TxnIs
<1>5. CASE CommitCreate(w)
  BY <1>1, <1>4, <1>5 DEF CommitCreate, IInv, TypeOK
<1>6. CASE CommitDecide(w)
  <2>1. Kept
    BY <1>1, <1>3, <1>6 DEF CommitDecide, KeepRequests, WriteStatus, Overwrites, Holds
  <2> QED BY <1>4, <1>6, <2>1 DEF CommitDecide
<1>7. CASE CommitCancel(w)
  <2>1. Kept
    BY <1>1, <1>3, <1>7 DEF CommitCancel, Overwrites, Holds
  <2> QED BY <1>4, <1>7, <2>1 DEF CommitCancel
<1>8. CASE CommitAddMember(w)
  <2>1. t.request \in Requests /\ Exists(request[t.request])
    BY <1>2, <1>8 DEF CommitAddMember, Holds, Txn, Idle, IInv, AllSound, Sound
  <2>2. /\ request[t.request] \in RequestRow
        /\ request' = [request EXCEPT ![t.request] =
                         [request[t.request] EXCEPT !.party = @ \cup {t.visitor}]]
    BY <1>2, <1>8, <2>1 DEF CommitAddMember
  <2>3. [request[t.request] EXCEPT !.party = @ \cup {t.visitor}].status = request[t.request].status
    BY <2>2 DEF RequestRow
  <2>4. Kept
    BY <2>1, <2>2, <2>3 DEF IInv, TypeOK
  <2> QED BY <1>4, <1>8, <2>4 DEF CommitAddMember
<1>9. CASE CommitCreatePass(w)
  <2>1. Kept
    BY <1>1, <1>3, <1>9 DEF CommitCreatePass, KeepRequests, Overwrites, Holds
  <2> QED BY <1>4, <1>9, <2>1 DEF CommitCreatePass
<1>10. CASE ScreenEntry(w) \/ ConflictEntry(w) \/ RollbackEntry(w) \/ Crash(w)
  <2>1. Kept
    BY <1>10 DEF ScreenEntry, ConflictEntry, RollbackEntry, Crash
  <2>2. \/ Finish(w)
        \/ \E op \in {"admit", "denied", "conflict"} :
             TxnIs(w, [t EXCEPT !.op = op]) /\ Admitting(t) /\ (op = "admit" => t.op = "entry")
    BY <1>10 DEF ScreenEntry, ConflictEntry, RollbackEntry, Crash, Finish, TxnIs, Holds, Admitting
  <2>3. ASSUME NEW op \in {"admit", "denied", "conflict"}, TxnIs(w, [t EXCEPT !.op = op]),
               Admitting(t), op = "admit" => t.op = "entry"
        PROVE  Settled(r)'
    <3>1. ~Overwrites([t EXCEPT !.op = op], r)
      BY <1>1, <1>2, <2>3 DEF Overwrites, Admitting, Txn, Idle
    <3> QED BY <2>1, <2>3, <3>1, StillSettled
  <2> QED BY <1>4, <2>1, <2>2, <2>3
<1>11. CASE CommitEntry(w)
  <2>1. Kept
    BY <1>1, <1>3, <1>11 DEF CommitEntry, KeepRequests, WriteStatus, Overwrites, Holds
  <2> QED BY <1>4, <1>11, <2>1 DEF CommitEntry
<1>12. CASE CommitExit(w)
  <2>1. Kept
    BY <1>1, <1>3, <1>12 DEF CommitExit, KeepRequests, Overwrites, Holds
  <2> QED BY <1>4, <1>12, <2>1 DEF CommitExit
<1>13. CASE CommitSweep(w)
  <2>1. Kept
    BY <1>1, <1>3, <1>13 DEF CommitSweep, Overwrites, Holds
  <2> QED BY <1>4, <1>13, <2>1 DEF CommitSweep
<1> HIDE DEF Kept
<1> QED
  BY <1>5, <1>6, <1>7, <1>8, <1>9, <1>10, <1>11, <1>12, <1>13 DEF Proceed

\* Neither the administrators nor the clock write a status.
LEMMA OutsideLeavesSettled ==
  ASSUME IInv, Outside \/ UNCHANGED vars, NEW r \in Requests, Settled(r)
  PROVE  Settled(r)' /\ request'[r].status = request[r].status
<1>1. UNCHANGED txn
  BY DEF Outside, RevokePass, PassAges, RequestLapses, SetBlacklist, UpdatePolicy, vars
<1>2. UNCHANGED request \/ \E q \in Requests : RequestLapses(q)
  BY DEF Outside, RevokePass, PassAges, SetBlacklist, UpdatePolicy, vars
<1>3. request'[r].status = request[r].status
  <2> SUFFICES ASSUME NEW q \in Requests, RequestLapses(q)
               PROVE  request'[r].status = request[r].status
    BY <1>2
  <2>1. /\ request[q] \in RequestRow
        /\ request' = [request EXCEPT ![q] = [request[q] EXCEPT !.overdue = TRUE]]
    BY ExistingRows DEF RequestLapses, IInv
  <2>2. [request[q] EXCEPT !.overdue = TRUE].status = request[q].status
    BY <2>1 DEF RequestRow
  <2> QED BY <2>1, <2>2 DEF IInv, TypeOK
<1> QED BY <1>1, <1>3 DEF Settled, Exists

\* A terminal request that no open transaction is about to write keeps its status
\* for good, whatever transactions overlap: no gate of the services lets a later
\* one touch it (_REQUEST_TRANSITIONS, record_exit and the sweep's filter).
THEOREM SettledForGood == Spec => SettledIsFinal
<1> DEFINE Final == \A r \in Requests :
       Settled(r) => Settled(r)' /\ request'[r].status = request[r].status
<1>1. IInv /\ [Next]_vars => [Final]_vars
  <2> SUFFICES ASSUME IInv, [Next]_vars, NEW r \in Requests, Settled(r)
               PROVE  Settled(r)' /\ request'[r].status = request[r].status
    OBVIOUS
  <2> QED
    BY BeginLeavesSettled, ProceedLeavesSettled, OutsideLeavesSettled DEF Next
<1> QED BY <1>1, SpecIInv, PTL DEF Spec, SettledIsFinal

-----------------------------------------------------------------------------
(* Anti-passback, whatever transactions overlap                              *)

\* the transactions past the check for an open entry of v
AdmittingNow(v) == {w \in Workers : Holds(w, "admit") /\ txn[w].visitor = v}

\* Open entries and the admissions under way never exceed the workers: the check
\* adds an admission only where there is no entry, a commit turns one into the other.
PassbackInv ==
  \A v \in Visitors :
    /\ IsFiniteSet(OpenFor(v))
    /\ Cardinality(OpenFor(v)) + Cardinality(AdmittingNow(v)) <= Cardinality(Workers)

\* The admissions under way are some of the workers.
LEMMA FewAdmitting ==
  ASSUME NEW v \in Visitors
  PROVE  /\ IsFiniteSet(AdmittingNow(v))
         /\ Cardinality(AdmittingNow(v)) \in Nat
         /\ Cardinality(AdmittingNow(v)) <= Cardinality(Workers)
         /\ Cardinality(Workers) \in Nat
  BY FS_Subset, FS_CardinalityType, WorkersAssumption DEF AdmittingNow

\* A set that shrinks keeps the bound.
LEMMA Fewer ==
  ASSUME NEW v \in Visitors, IInv, PassbackInv,
         OpenFor(v)' \subseteq OpenFor(v), AdmittingNow(v)' \subseteq AdmittingNow(v)
  PROVE  /\ IsFiniteSet(OpenFor(v)')
         /\ Cardinality(OpenFor(v)') + Cardinality(AdmittingNow(v)') <= Cardinality(Workers)
<1>1. IsFiniteSet(OpenFor(v)) /\ IsFiniteSet(AdmittingNow(v))
  BY FewAdmitting DEF PassbackInv
<1>2. /\ IsFiniteSet(OpenFor(v)') /\ Cardinality(OpenFor(v)') <= Cardinality(OpenFor(v))
      /\ IsFiniteSet(AdmittingNow(v)') /\ Cardinality(AdmittingNow(v)') <= Cardinality(AdmittingNow(v))
  BY <1>1, FS_Subset
<1>3. /\ Cardinality(OpenFor(v)) \in Nat /\ Cardinality(OpenFor(v)') \in Nat
      /\ Cardinality(AdmittingNow(v)) \in Nat /\ Cardinality(AdmittingNow(v)') \in Nat
      /\ Cardinality(Workers) \in Nat
  BY <1>1, <1>2, FS_CardinalityType, WorkersAssumption
<1>4. Cardinality(OpenFor(v)) + Cardinality(AdmittingNow(v)) <= Cardinality(Workers)
  BY DEF PassbackInv
<1> QED BY <1>2, <1>3, <1>4

\* A transaction that only begins is not past the check; the tables stay.
LEMMA BeginKeepsPassback ==
  ASSUME IInv, PassbackInv, NEW w \in Workers, Start(w)
  PROVE  PassbackInv'
<1>1. UNCHANGED entry
  BY DEF Start, BeginCreate, BeginDecide, BeginCancel, BeginAddMember, BeginCreatePass,
     BeginEntry, BeginExit, BeginSweep
<1>2. /\ txn'[w].op # "admit"
      /\ \A u \in Workers : u # w => txn'[u] = txn[u]
  <2>1. ASSUME NEW t, Begin(w, t), t.op # "admit"
        PROVE  /\ txn'[w].op # "admit"
               /\ \A u \in Workers : u # w => txn'[u] = txn[u]
    BY <2>1 DEF Begin, IInv, TypeOK
  <2>2. CASE BeginCreate(w)
    BY <2>1, <2>2 DEF BeginCreate
  <2>3. CASE BeginDecide(w)
    BY <2>1, <2>3 DEF BeginDecide
  <2>4. CASE BeginCancel(w) \/ BeginAddMember(w) \/ BeginSweep(w)
    BY <2>1, <2>4 DEF BeginCancel, BeginAddMember, BeginSweep
  <2>5. CASE BeginCreatePass(w)
    BY <2>1, <2>5 DEF BeginCreatePass
  <2>6. CASE BeginEntry(w)
    BY <2>1, <2>6 DEF BeginEntry
  <2>7. CASE BeginExit(w)
    BY <2>1, <2>7 DEF BeginExit
  <2> QED BY <2>2, <2>3, <2>4, <2>5, <2>6, <2>7 DEF Start
<1>4. ASSUME NEW v \in Visitors
      PROVE  OpenFor(v)' \subseteq OpenFor(v) /\ AdmittingNow(v)' \subseteq AdmittingNow(v)
  BY <1>1, <1>2 DEF OpenFor, AdmittingNow, Holds
<1> QED BY <1>4, Fewer DEF PassbackInv

\* So with a step that ends a transaction, or moves it elsewhere than past the check.
LEMMA NoAdmission ==
  ASSUME IInv, PassbackInv, UNCHANGED entry,
         UNCHANGED txn \/ \E w \in Workers : \E t : TxnIs(w, t) /\ t.op # "admit"
  PROVE  PassbackInv'
<1>1. ASSUME NEW v \in Visitors
      PROVE  OpenFor(v)' \subseteq OpenFor(v) /\ AdmittingNow(v)' \subseteq AdmittingNow(v)
  <2>1. OpenFor(v)' \subseteq OpenFor(v)
    BY DEF OpenFor
  <2>2. CASE UNCHANGED txn
    BY <2>1, <2>2 DEF AdmittingNow, Holds
  <2>3. ASSUME NEW w \in Workers, NEW t, TxnIs(w, t), t.op # "admit"
        PROVE  AdmittingNow(v)' \subseteq AdmittingNow(v)
    <3>1. \A u \in Workers : txn'[u] = IF u = w THEN t ELSE txn[u]
      BY <2>3 DEF TxnIs, IInv, TypeOK
    <3> QED BY <2>3, <3>1 DEF AdmittingNow, Holds
  <2> QED BY <2>1, <2>2, <2>3
<1> QED BY <1>1, Fewer DEF PassbackInv

\* The check lets a transaction past only while the visitor has no open entry.
LEMMA ScreenKeepsPassback ==
  ASSUME IInv, PassbackInv, NEW w \in Workers, ScreenEntry(w)
  PROVE  PassbackInv'
<1>1. UNCHANGED entry
  BY DEF ScreenEntry
<1>2. CASE \E t : TxnIs(w, t) /\ t.op # "admit"
  BY <1>1, <1>2, NoAdmission
<1>3. CASE TxnIs(w, [txn[w] EXCEPT !.op = "admit"]) /\ ~AlreadyInside(txn[w].visitor)
  <2>1. \A u \in Workers : u # w => txn'[u] = txn[u]
    BY <1>3 DEF TxnIs, IInv, TypeOK
  <2>2. txn'[w].visitor = txn[w].visitor
    BY <1>3 DEF TxnIs, IInv, TypeOK, Txn, Idle, ScreenEntry, Holds
  <2>3. ASSUME NEW v \in Visitors
        PROVE  /\ IsFiniteSet(OpenFor(v)')
               /\ Cardinality(OpenFor(v)') + Cardinality(AdmittingNow(v)') <= Cardinality(Workers)
    <3>1. OpenFor(v)' = OpenFor(v)
      BY <1>1 DEF OpenFor
    <3>2. CASE v = txn[w].visitor
      <4>1. OpenFor(v) = {}
        BY <1>3, <3>2 DEF AlreadyInside
      <4>2. /\ IsFiniteSet(AdmittingNow(v)')
            /\ Cardinality(AdmittingNow(v)') <= Cardinality(Workers)
            /\ Cardinality(AdmittingNow(v)') \in Nat
        <5>1. AdmittingNow(v)' \subseteq Workers
          BY DEF AdmittingNow
        <5> QED BY <5>1, FS_Subset, FS_CardinalityType, WorkersAssumption
      <4> QED BY <3>1, <4>1, <4>2, FS_EmptySet
    <3>3. CASE v # txn[w].visitor
      <4>1. AdmittingNow(v)' \subseteq AdmittingNow(v)
        BY <2>1, <2>2, <3>3 DEF AdmittingNow, Holds
      <4> QED BY <3>1, <4>1, Fewer
    <3> QED BY <3>2, <3>3
  <2> QED BY <2>3 DEF PassbackInv
<1>4. \/ TxnIs(w, Idle)
      \/ TxnIs(w, [txn[w] EXCEPT !.op = "denied"])
      \/ TxnIs(w, [txn[w] EXCEPT !.op = "admit"]) /\ ~AlreadyInside(txn[w].visitor)
  BY DEF ScreenEntry, TxnIs
<1>5. Idle.op # "admit" /\ [txn[w] EXCEPT !.op = "denied"].op # "admit"
  BY DEF Idle, IInv, TypeOK, Txn, ScreenEntry, Holds
<1> QED BY <1>2, <1>3, <1>4, <1>5

\* The commit of an admission turns it into one open entry.
LEMMA EntryKeepsPassback ==
  ASSUME IInv, PassbackInv, NEW w \in Workers, CommitEntry(w)
  PROVE  PassbackInv'
<1>1. PICK e \in Entries : ~Exists(entry[e]) /\ entry' = [entry EXCEPT ![e] = NewEntry(txn[w])]
  BY DEF CommitEntry
<1>2. /\ \A u \in Workers : txn'[u] = IF u = w THEN Idle ELSE txn[u]
      /\ \A f \in Entries : entry'[f] = IF f = e THEN NewEntry(txn[w]) ELSE entry[f]
      /\ txn[w].op = "admit"
  BY <1>1 DEF CommitEntry, Finish, Holds, IInv, TypeOK
<1>3. ASSUME NEW v \in Visitors
      PROVE  /\ IsFiniteSet(OpenFor(v)')
             /\ Cardinality(OpenFor(v)') + Cardinality(AdmittingNow(v)') <= Cardinality(Workers)
  <2>1. CASE v # txn[w].visitor
    <3>1. OpenFor(v)' \subseteq OpenFor(v)
      BY <1>2, <2>1 DEF OpenFor, NewEntry
    <3>2. AdmittingNow(v)' \subseteq AdmittingNow(v)
      BY <1>2, <2>1 DEF AdmittingNow, Holds, Idle
    <3> QED BY <3>1, <3>2, Fewer
  <2>2. CASE v = txn[w].visitor
    <3>1. OpenFor(v)' = OpenFor(v) \cup {e}
      BY <1>2, <2>2 DEF OpenFor, NewEntry
    <3>2. e \notin OpenFor(v)
      BY <1>1 DEF OpenFor, Exists
    <3>3. AdmittingNow(v)' = AdmittingNow(v) \ {w}
      BY <1>2, <2>2 DEF AdmittingNow, Holds, Idle
    <3>4. w \in AdmittingNow(v)
      BY <1>2, <2>2 DEF AdmittingNow, Holds
    <3>5. /\ IsFiniteSet(OpenFor(v)')
          /\ Cardinality(OpenFor(v)') = Cardinality(OpenFor(v)) + 1
      BY <3>1, <3>2, FS_AddElement DEF PassbackInv
    <3>6. Cardinality(AdmittingNow(v)') = Cardinality(AdmittingNow(v)) - 1
      BY <3>3, <3>4, FewAdmitting, FS_RemoveElement
    <3>7. Cardinality(OpenFor(v)) \in Nat /\ Cardinality(AdmittingNow(v)) \in Nat /\ Cardinality(Workers) \in Nat
      BY FewAdmitting, FS_CardinalityType DEF PassbackInv
    <3>8. Cardinality(OpenFor(v)) + Cardinality(AdmittingNow(v)) <= Cardinality(Workers)
      BY DEF PassbackInv
    <3> QED BY <3>5, <3>6, <3>7, <3>8
  <2> QED BY <2>1, <2>2
<1> QED BY <1>3 DEF PassbackInv

\* An exit closes an entry.
LEMMA ExitKeepsPassback ==
  ASSUME IInv, PassbackInv, NEW w \in Workers, CommitExit(w)
  PROVE  PassbackInv'
<1> DEFINE e == txn[w].entry
<1>1. e \in Entries /\ Exists(entry[e])
  BY DEF IInv, TypeOK, Txn, Idle, AllSound, Sound, CommitExit, Holds
<1>2. entry[e] \in EntryRow /\ entry' = [entry EXCEPT ![e] = [entry[e] EXCEPT !.status = "exited"]]
  BY <1>1, ExistingRows DEF IInv, CommitExit
<1>3. /\ \A f \in Entries : f # e => entry'[f] = entry[f]
      /\ entry'[e].status = "exited"
  BY <1>1, <1>2 DEF IInv, TypeOK, EntryRow
<1>4. \A u \in Workers : txn'[u] = IF u = w THEN Idle ELSE txn[u]
  BY DEF CommitExit, Finish, IInv, TypeOK
<1>5. ASSUME NEW v \in Visitors
      PROVE  OpenFor(v)' \subseteq OpenFor(v) /\ AdmittingNow(v)' \subseteq AdmittingNow(v)
  BY <1>3, <1>4 DEF OpenFor, AdmittingNow, Holds, Idle
<1> QED BY <1>5, Fewer DEF PassbackInv

LEMMA NextPassback ==
  ASSUME IInv, PassbackInv, [Next]_vars
  PROVE  PassbackInv'
<1>1. ASSUME NEW w \in Workers, Proceed(w) PROVE PassbackInv'
  <2>1. CASE ScreenEntry(w)
    BY <2>1, ScreenKeepsPassback
  <2>2. CASE CommitEntry(w)
    BY <2>2, EntryKeepsPassback
  <2>3. CASE CommitExit(w)
    BY <2>3, ExitKeepsPassback
  <2>4. CASE ConflictEntry(w)
    <3>1. TxnIs(w, [txn[w] EXCEPT !.op = "conflict"]) /\ UNCHANGED entry
      BY <2>4 DEF ConflictEntry, TxnIs
    <3>2. [txn[w] EXCEPT !.op = "conflict"].op # "admit"
      BY <2>4 DEF ConflictEntry, Holds, IInv, TypeOK, Txn, Idle
    <3> QED BY <3>1, <3>2, NoAdmission
  <2>5. ASSUME Finish(w), UNCHANGED entry PROVE PassbackInv'
    <3>1. TxnIs(w, Idle) /\ Idle.op # "admit"
      BY <2>5 DEF Finish, TxnIs, Idle
    <3> QED BY <2>5, <3>1, NoAdmission
  <2>6. CASE \/ CommitCreate(w) \/ CommitDecide(w) \/ CommitCancel(w) \/ CommitAddMember(w)
             \/ CommitCreatePass(w) \/ RollbackEntry(w) \/ CommitSweep(w) \/ Crash(w)
    BY <2>5, <2>6 DEF CommitCreate, CommitDecide, CommitCancel, CommitAddMember,
       CommitCreatePass, RollbackEntry, CommitSweep, Crash
  <2> QED BY <1>1, <2>1, <2>2, <2>3, <2>4, <2>6 DEF Proceed
<1>2. CASE Outside \/ UNCHANGED vars
  <2>1. UNCHANGED <<txn, entry>>
    BY <1>2 DEF Outside, RevokePass, PassAges, RequestLapses, SetBlacklist, UpdatePolicy, vars
  <2> QED BY <2>1, NoAdmission
<1> QED BY <1>1, <1>2, BeginKeepsPassback DEF Next

\* Nobody is inside more often than transactions may overlap, over all requests of
\* the visitor, and so never twice where they do not (record_entry's anti-passback
\* check): only admissions already past the check are added to an open entry.
THEOREM PassbackBound == Spec => []InsideOncePerWorker
<1>1. Init => PassbackInv
  <2> SUFFICES ASSUME Init, NEW v \in Visitors
               PROVE  /\ IsFiniteSet(OpenFor(v))
                      /\ Cardinality(OpenFor(v)) + Cardinality(AdmittingNow(v)) <= Cardinality(Workers)
    BY DEF PassbackInv
  <2>1. OpenFor(v) = {} /\ AdmittingNow(v) = {}
    BY DEF Init, OpenFor, AdmittingNow, Holds, Absent, Idle
  <2> QED BY <2>1, FS_EmptySet, FS_CardinalityType, WorkersAssumption
<1>2. IInv /\ PassbackInv /\ [Next]_vars => PassbackInv'
  BY NextPassback
<1>3. PassbackInv => InsideOncePerWorker
  <2> SUFFICES ASSUME PassbackInv, NEW v \in Visitors
               PROVE  Cardinality(OpenFor(v)) <= Cardinality(Workers)
    BY DEF InsideOncePerWorker
  <2>1. /\ Cardinality(OpenFor(v)) \in Nat
        /\ Cardinality(OpenFor(v)) + Cardinality(AdmittingNow(v)) <= Cardinality(Workers)
    BY FS_CardinalityType DEF PassbackInv
  <2> QED BY <2>1, FewAdmitting
<1> QED BY <1>1, <1>2, <1>3, SpecIInv, PTL DEF Spec

=============================================================================
