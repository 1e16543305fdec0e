# GateSphere: a verification project

GateSphere runs the daily business of gated communities: who may come through the
gate, who has the tennis court at six, who owes what. The part that decides is the
FastAPI backend in `src/backend/app`, over one PostgreSQL database, with Celery jobs
that sweep the same tables and Redis for caches and hints; people see and drive it
through the Next.js client in `src/frontend`. These modules model the components whose
correctness depends on the order in which requests, jobs, answers and failures
happen, check them with TLC, and prove about each of them, for any number of rows,
overlapping transactions and calls, most of what the runs show on small instances.

Contents: 1 the system, 2 the models, 3 how a transaction is modelled, 4 the runs,
5 fairness, 6 the proofs, 7 what the models show to be wrong, 8 what is not
modelled, 9 the plan. Paths are below `src/backend/app` unless they start with `src/`.

## 1. The system

Every HTTP handler runs in one database session (`db/session.py`, `get_async_db`):
it commits when the handler returns and rolls back when it raises. Every Celery job
runs in one `job_session` (`core/jobs.py`), in the same way. PostgreSQL is left at READ
COMMITTED and no table has a version column, so two transactions that overlap both
see what was committed when they looked, and the later writer wins, unless a row lock,
a unique index or a trigger stands in the way. That is where the hard behaviour of this
system comes from, and what each component's correctness turns on:

| component | state it keeps | operations | interacts through | what is hard, what must hold |
|---|---|---|---|---|
| visitors | requests, members, decisions, passes, entries, blacklist, policy | create, decide, cancel, add a member, create and revoke a pass, enter, exit; expiry sweep | its tables, shared by residents, guards and the sweep; notifications | checks read before writes; a sweep over rows others change; partial unique index. Nobody enters unapproved or twice; counters and statuses agree with entries |
| amenities | amenities, slots, rules, blocks, bookings | book, cancel, mark; closing sweep; administration | row lock of the amenity; capacity trigger | simultaneous bookings of the last seats. Never overfull, no duplicates, unit limit |
| billing | invoices, payments, allocations, ledger | create, post, cancel, penalty, pay, refund; overdue sweep, monthly job | row lock of the latest ledger row; unique numbers | running balance over concurrent postings; partial payments and refunds. Invoices, allocations and ledger agree |
| announcements and notifications | announcements, notifications, dead letters; messages of the task queue | edit, publish; fan-out task; emit in a savepoint of the caller's transaction; retry job | the broker, the beat, called by all components | a task queued before its commit, redelivered after a lost worker, given up after some retries; deliveries that fail one by one. Everyone addressed is told, once, or the cause is known |
| complaints | tickets, assignments, SLA policies | create, assign, transition, confirm, answer; SLA sweep | manager's, technician's and resident's screens, notifications | the sweep escalates over what others resolve; the table and the escalation's order are kept, an overdue ticket is escalated |
| gate | rosters, assignments, panic alerts | roster and assignment editing; raise, acknowledge, resolve, cancel | notifications | one active assignment per guard; an alert's end is final |
| deliveries | parcels | receive, notify, hand over, return | gate, notifications | custody is transferred once |
| vehicles, parking | vehicles, slots, allocations, vehicle entries | allocate, release, enter, exit | partial unique indexes | a plate inside once, a slot allocated once, a unit's slot limit |
| residents | profiles, occupancies, moves, family passes | add, end, move in and out | role grants | one active occupancy per pair, one primary |
| domestic staff | staff, attendance, passes | check in, check out | partial unique index | one open attendance |
| onboarding | invitations | invite, regenerate, revoke, accept; e-mail job | users, residents, role grants; FOR UPDATE on accept | accepted once; a revoked token is dead |
| incidents | incidents | report, transition | state machine gate | terminal states |
| auth and security | sessions, permission versions, lockout counters (Redis) | log in and out, revoke, bump versions | every request | a revoked session is refused; lockout after N failures |
| realtime | hints queued on the session; connections and outboxes of the hub; socket, retry and status of the client; pending keys of the bridge | publish after commit, accept, register, send, resync, re-check; connect, retry, stop; flush, refetch | Redis pub/sub, the WebSocket, every screen's queries | hints may be lost anywhere, polling stops while the socket is open. What a screen lacks is on its way or lost for a known cause; it catches up; the client's status tells whether it has a socket; a revoked session is cut off |
| guard's gate console (`src/frontend`) | card, banner, busy flag, photo of one page | verify a code, drop an image, exit, check out, next visitor | the passes and entries of visitors, residents, staff; gate events | answers that are late, lost or of another visitor. The verdict and the card say what was recorded |
| communities and their set-up screens | towers, floors, units; wizard and page state | create in parallel, delete, refresh | one REST call per floor and unit | parts of a batch fail; the tower's floor count under overlapping creations; what the screen claims is there |
| dashboards | cached aggregates (Redis) | read, fill, invalidate | every component | staleness is bounded by the cache's life |
| polls and groups, users, rbac, uploads, audit, assistant | reference data, files, append-only rows | editing | | mostly sequential |
| the other screens (`src/frontend`) | lists and forms | post, then refetch | REST | markup for the most part |
| infrastructure | | sessions, jobs, errors, tenancy filters | used by all | commit and rollback are all or nothing |

PROJECT.json lists all of them with their sources and status, and the hazards of each
at the line where it bites.

## 2. The models

| module | models | state and its table |
|---|---|---|
| `StateMachine` | `core/state_machine.py`: the transition gate `ensure_transition`, with its treatment of an unchanged status | none |
| `VisitorAccess` | `modules/visitors` | `request` (visitor_requests and members), `approval`, `pass`, `entry`, `blacklist`, `policy`; `txn`; the history `granted` |
| `BookingTable` | the amenity_bookings of one amenity, and what must hold of them | `booking`, `capacity` |
| `AtomicBooking` | the promise: booking is one atomic step over the whole table | the same |
| `AmenityBooking` | `modules/amenities`: the transactions, the row lock, the capacity trigger (`src/backend/alembic`), the sweep | the same and `exists`, `active`, `slot`, `blocked`, `limit`, `phase` (the clock), `holder` (the row lock), `txn` |
| `BillingLedger` | `modules/billing` | `invoice`, `payment` (with allocations), `ledger` (uncommitted entries carry their writer), `txn` |
| `HintOutbox` | the outbox of a hub connection and its sender task (`modules/realtime/hub.py`) | operators on one connection's queue, overflow mark and sender |
| `LiveScreen` | `core/realtime.py`, `modules/realtime`, `src/frontend/lib/realtime.ts`, `hooks/use-realtime.ts`, `lib/query.ts`: one tab | the server (`version`, `outgoing`, `session`, `redis`, `subscriber`), both ends of each socket (`conn`), `client`, `bridge`, the tab (`me`, `mutating`, `here`), its queries (`shown`, `fetch`, `answer`) and the histories `lost` and `faults` |
| `GateConsole` | `src/frontend/app/(protected)/security-guard/live-gate/page.tsx` with the endpoints it calls | the server (`visits`, `inside`, `open`, `logged`), `page` (the useState fields), `call` (each running verification), `exit` |
| `TowerSetup` | `src/frontend/components/super-admin/CreateCommunityModal.tsx`, `app/super-admin/communities/page.tsx`, `modules/communities` | `tower`, `total`, `floors`, `units`; `ask`, `seen`, `unitAsk` (the requests); `wizard`, `tab` |
| `ServiceDesk` | `modules/complaints`, with every target its endpoints accept | `clock`, `ticket`, `active` (assignment rows), `work` (each transaction's pending UPDATE) |
| `Broadcast` | `modules/communication` (announcements), `modules/notifications`, `core/celery_app.py` | `ann` and `editing` (the announcement and an edit of it), `pub` (the publishing requests), `queue` (the messages), `work` (each worker's job), `letter` (dead letters), `notes` (notifications); the histories `faults` and `blame` |
| `MC...` | the instances TLC checks | |
| `...Proofs` | the theorems | |

`StateMachine`, `BookingTable` and `HintOutbox` are vocabulary; `AmenityBooking` and
`AtomicBooking` both extend `BookingTable`, and the first implements the second under the
identity mapping. `LiveScreen` composes the hub, the socket and the client.
`GateConsole` and `TowerSetup` hold both the client and the tables it works
on, since their questions are about the agreement of the two. The modelled components do not
share tables, so that they are not composed further; what they share is the transaction.

In these three, a call is two steps at least, what the server does and what the page does with the
answer, and between the two anything may happen, the loss of request or answer included. React
state that an async function closed over is kept with the call (the photo of `GateConsole`, the
floors a page of `TowerSetup` generates, counted from the tower as it was loaded).

Data that no property tells apart is abstracted: a visitor, unit or slot is a model
value, a time is "has it passed", a token or PIN is which pass it finds and whether it
was sent, an amount is an integer number of paise. Definitions marked `faulty` are
plausible slips in the definition after them (a dropped guard, an off-by-one, a
missing release); no action uses them, and putting one in the place of its original
makes TLC find the property it belongs to violated.

## 3. How a transaction is modelled

`txn[w]` is what worker `w`'s open transaction has read and decided. A handler is

* a `Begin` step: all its reads and all its refusals (an early return or a raised
  error writes nothing, which is a `Begin` not taken),
* for some handlers a step in the middle, where the code waits for a lock or reads
  again (`ScreenEntry`, `LockAmenity`, `CheckBooking`, `SelectLatest`, `Insert`),
* a `Commit` step: its writes, whatever has been committed since. Only the columns
  that differ from the loaded values are written, because SQLAlchemy emits only those
  (`WriteStatus`, `Diff`).

Unique indexes are conditions of the commit (`OpenEntryIndexFree`, `Decided`,
`NumberFree`), whose failure is the IntegrityError that `core/errors.py` answers with
409 and whose rollback is a step of its own where it matters. `Crash(w)` is a lost
connection or worker at any point: the transaction's writes never happen. With one
worker the handlers run one after the other, but their failures, the clock and the
administration still come between; with two they overlap freely.

Two things are read together although the code reads them one after the other: the
rows a `Begin` looks at, and the lines of one payment. Between two reads of one handler
nothing else commits in the model; that coarsens the interleavings inside the reading
part but none between reading and writing. In the visitor model the entry's second
group of reads (policy, blacklist, open entry) is a step of its own, because blacklisting
between them matters. Deadlocks between two row locks are `Crash`: PostgreSQL aborts one.

## 4. The runs

| run | instance | states | checks |
|---|---|---|---|
| `visitor_serial` | 2 visitors, 2 requests, 1 pass, 2 entries, 2 approvers, 1 worker, two policies, at most two recorded decisions | 1.1 million, depth 27 | `InsideOncePerWorker` `EnteredIffInside` `DecisionsAgree` `UseCountIsEntries` |
| `visitor_concurrent` | 1 visitor, 1 request, 1 pass, 2 entries, 1 approver, 2 workers, blacklisting, lost workers | 403 thousand, depth 27 | `AdmissionWasApproved` `PassWithinLimit` `SettledIsFinal` `OverdueIsSettled` |
| `visitor_party` | 2 visitors in one party, 1 worker | violated after 8 steps | `PartyMemberIsAdmitted` |
| `amenity_race` | 2 overlapping slots, one with a capacity of its own, 2 residents of a unit each, parties of 1 or 2, capacity 1 or 2, unit limit 1, 2 workers | 292 thousand, depth 19 | `NoDuplicateBooking` `NeverOverfull` `NothingOutlivesAmenity` `BookingIsAtomic` |
| `amenity_closing` | 1 slot, 1 resident, capacity and unit limit 1 or 2, 2 workers, the clock, blocks, deletion | 280 thousand, depth 23 | `SettledIsFinal` `PastIsClosed` |
| `billing_serial` | 1 unit and postings to no unit, 2 invoices of -1 or 3, fees of 0 or 1, 2 payments, 1 worker, at most six invoices and ledger entries together | 740 thousand, depth 32 | `LedgerChain` `PaidIsAllocated` `LedgerIsDues` `StatusFitsAmounts` `BilledOnce` `SettledIsFinal` |
| `billing_race` | 1 unit, 2 invoices, 1 payment, 2 workers | violated after 6 steps | `LedgerChain` |
| `live_screen` | one screen, with a safety net or refreshed by the tab's mutation; 2 sockets, outbox and wire of one message, 1 change, 2 faults, and 2 of these events together | 289 thousand, depth 33 | `ConnectionIsSound` `NothingForgotten` `ScreensCatchUp` `RevokedIsDisconnected` `ConnectsOrGivesUp` |
| `gate_console` | 5 codes of four branches, 5 passes (one PIN is a visitor's and a family member's), 2 verifications at a time and in all, 2 disturbances | 1.7 million, depth 30 | `VerdictIsTrue` `CardIsRecorded` `ExitIsTrue` |
| `tower_setup` | a wizard of 2 floors with 2 units each, 2 other pages, floors 1 to 4, list pages of 1 floor and 1 unit, 2 jobs or losses | 1.8 million, depth 30 | `TotalCoversFloors` `WizardCounts` `GeneratedMeansThere` |
| `service_desk` | 1 ticket, 2 workers, 3 assignment rows, four due times on a clock of four hours | 650 thousand, depth 37 | `LateIsBreached` `CheckRefusesOverlapOnly` `LifecycleKept` `EscalationRises` `SecondExecutorIsRace` `OverdueIsEscalated` |
| `broadcast` | an emergency for 1 resident and 1 guard, 1 request, an edit, 2 workers, 1 retry, 2 attempts, 2 faults | 152 thousand, depth 34 | `NobodyForgotten` `ToldAsMeant` `EverybodySettled` |

What they show, and why the bounds are enough:

**visitor_serial.** Without overlap, the tables agree: a request is `entered` exactly while
somebody of its party is inside, a visitor is inside at most as often as there are workers, here
once, over all requests (hence two visitors and two requests), a pass counts exactly the entries
made on it, and two approvers never leave opposite decisions (hence two approvers; a third
decision adds nothing to a disagreement of two, so the constraint stops there). The second policy
is the one that skips approval and insists on a PIN. One pass and `MaxUses = 1` are enough to
reach the allowance and be refused at it.

**visitor_concurrent.** What survives two overlapping transactions at READ COMMITTED: nobody was
ever let in on a request that was never approved; the pass counter stays within its allowance,
although two transactions may load and write it back; a terminal request changes no more once the
transactions that are about to write it have ended (`SettledIsFinal`, which allows them their
write, since section 7 shows that they make it); and every overdue request is closed eventually.
Two workers are enough for any pair of handlers to race; one request and pass make them always
race on the same row. The unique indexes at work here (one open entry per request, one decision of
an approver) are the subject of theorems.

**amenity_race.** Two bookings at once, for any mix of slots, residents and party sizes, while
staff cancel and the amenity is changed or deleted. `NeverOverfull` is about all slots that
overlap one another, not only the pair a check compares: a slot may have its own capacity and take
the shared one for its neighbours' checks. `BookingIsAtomic` is the refinement of `AtomicBooking`,
whose `Book` demands the unit's limit too. `NothingOutlivesAmenity`: a booking that waited for the
row lock of an amenity deleted meanwhile goes on without a lock, and must still leave nothing
behind. The constraint `OnlySeats` keeps slots on offer, ahead and unblocked, since availability
and the clock are what `amenity_closing` varies. With two seats, parties of two and two booking
rows the amenity is full after one or two bookings.

**amenity_closing.** The ending of bookings by cancellation, mark and sweep, two of them at a
time: a booking that has ended stays as it ended once the transactions that are about to write it
are over, and one whose slot is over is closed. One slot and one resident suffice, since an ending
looks at its own booking only; two bookings are one that was ended and its successor.

**billing_serial.** Everything that moves money, one transaction at a time: drafts, posting,
cancellation, penalties, the monthly job, the overdue sweep, payments over several lines and with
advances, refunds. An invoice of 3, a fee of 0 or 1 and parts of 2 make partial payment, full
payment after a late fee, overpayment refused and both kinds of refund possible; a total of -1 is
an invoice whose discount exceeds its lines (`modules/billing/service.py` line 257 subtracts it
unchecked). `Bounded` leaves room for one invoice posted, paid in two parts and refunded twice, or
for two that are posted and one of them paid and refunded. Drafts are for the month the job bills
and penalties are not, so that both cases of the job's test occur. `LedgerIsDues` holds with late
fees left out: the sweep adds a fee to the invoice and posts nothing, while payment and
cancellation credit the amount with the fee, so that the ledger ends below the invoices by the
fees paid or cancelled. `SettledIsFinal` is about cancelled invoices and, with one worker, about
sequences; the theorem `CancelledForGood` states it for overlapping transactions.

**live_screen.** From the commit of a change to the refetch, with every loss the code expects:
Redis down, no subscriber, a full outbox, a broken or refused socket, a page whose user is gone
for a moment, a re-check that fails, a session that ends, a mutation of the same tab in flight.
`stop` cancels neither a ticket request that is outstanding nor a retry timer whose handle was
overwritten, so that a second socket may open beside the first; the model has both sockets, and
every one of those requests and timers. `NothingForgotten` says that a screen that lacks a
published change while the open socket has stopped its polling has something on its way that ends
in a refetch, or lacks it for one of six causes the model names at the step where the hint is lost
(`lost`): `redis` (nobody listened, the gap between the hub's last connection and a new subscriber
included), `untold` (no hint of the change refreshes the screen: no connection, no grant, or a
module `MODULE_QUERY_KEYS` does not have), `opening` (published between the page's first load and
the registration), `own` (the actor's other tabs, and this tab's screens outside the mutation's
keys, get no hint), `mutating` (flushed during a mutation that then fails), `replaced` (carried by
a socket the client no longer looks at). `ScreensCatchUp` is the same as liveness, and for a
screen with a safety net (SOS, `whileOpenMs`) it allows no cause. `ConnectionIsSound` holds the
type invariant, the hub's promise that an overflow ends in a resync, and, as long as no answer has
replaced a socket still there, that `open` means connected and that a wanted connection is being
worked on or given up. `RevokedIsDisconnected` is about sockets whose re-check is alive, see
section 7.

One change is enough, since a screen either holds it or not and
what is on its way for an earlier one only helps; one screen, because queries do not look
at each other. `MaxEvents` allows a change with one fault, or two faults and no change: drop
and reconnect, the outage with a drop, the flicker during an outage, the re-check lost before
a revocation. The safety properties were also checked with three events, a change and
two faults (5.2 million states); that takes longer than a run of this project may.
An outbox of one overflows with the two hints of one change; two failed
attempts (of five) open the breaker. `SignIn` waits until a socket id is left for whatever
is under way (`UnderWay`), which with two ids allows two ticket requests, timers or
sockets at once. `Either` takes the two kinds of screen that differ: with a safety net, or
refreshed by the mutation.

**gate_console.** Two verifications that overlap (the drop zone is never disabled), an exit and a
check-out, in every order of their answers. The codes take the branches staff, vendor, family and
visitor, and the visitor's fall back to family (shared PIN) and staff (a phone number of ten
digits). The two disturbances are lost requests or answers, a pass shut, a walk-in admitted by the
modal, an entry or exit at another gate. The verdicts: whoever is refused has left no entry and
whoever is admitted exactly the one shown, unless an answer was lost; the card is an entry of the
books, banner and card agree, the console is never left locked, and what it says has left has
left. A verification has no state that outlives it but the page, so that a third only repeats what
two do.

**tower_setup.** The wizard's floors and units while two administrators' pages generate the
missing floors, add and delete some. The list pages are one floor and one unit long, so that the
lists are shorter than the tower (they are 20 and 100 in the code), and a page reads its floors
and its units apart and counts from the tower object it loaded, which may be out of date. Two jobs
or losses, because the properties are about a job and one that disturbs it. `GeneratedMeansThere`
is about the message after a generation: of the floors it claims only those may be absent whose
own request was lost, a failure the page swallows, or that were deleted meanwhile; the failure of
one costs no other, and neither do other pages or a short list. `TotalCoversFloors` excepts a
count written over one raised since it was read, see section 7.

**service_desk.** Every request the endpoints accept, and sweeps, two at a time, on one ticket.
Each property says what no overlap can break (`LateIsBreached`), or that only an overtaken
transaction that writes the very column (`StaleCommit(c)`) breaks it: no handler breaks it alone,
in any sequence of calls, which one worker at a time could not tell from a race. The transition
endpoint takes `assigned` as a target without an assignment, so that no property relates the two.
The four due times make every verdict of the sweep possible and every first answer and resolution
early or late; two active assignments, the bound `MaxActive`, are the race itself. Three rows
suffice for an active one, a second one and one a transaction holds.

**broadcast.** An announcement from its draft to its audience: the message sent before the commit,
fan-outs that come too early, twice or late, deliveries that fail alone, dead letters replayed by
sweeps that overlap, and two of: a broker that answers with an error although it may have taken
the message, a failed delivery, a task that raises, a request that is rolled back, a worker lost
before or after its commit. The cause of whatever a user misses or hears twice is recorded in
`blame` at the step where it comes about, and there are six: `edited` (an edit overtook the
publication), `late` (the task gave up before the publication committed), `failed` (the task
raised and was acknowledged), `gave up` (a dead letter used up its attempts), `overlap` (a job
committed what another had told meanwhile), `again` (a fan-out ran after another that had left
dead letters). Each is necessary: without it the run fails. `EverybodySettled` is the liveness of
the first four. One retry and two attempts (of three and ten in the code) reach both limits; an
emergency with one user of each kind has both ways of delivery, in bulk for the targets and one by
one for the roles; two faults are enough for each pair of them. Without the liveness property,
instances with a second request (1.6 million states), a second resident (517 thousand) and a third
fault (1.7 million) hold as well, and so does the inductive invariant of section 6.

`CHECK_DEADLOCK FALSE` is set in the amenity and billing runs, which stop when all row
ids are used and the clock has run out, in `broadcast`, which stops when every message and
letter is done with, and in `live_screen`, `gate_console`, `tower_setup` and `service_desk`: the socket's
tab ends at the login page, the gate and the tower stop at the bounds on starts, jobs and
losses, and a ticket is closed or cancelled for good. `visitor_serial`, `visitor_concurrent`
and `visitor_party` are checked for deadlock.

## 5. Fairness

`FairSpec` of `VisitorAccess`, `AmenityBooking` and `ServiceDesk` assumes

* weak fairness of `Proceed(w)`: an open transaction ends, by commit, rollback or loss.
  No handler loops, PostgreSQL aborts a deadlock, and a broken connection rolls back;
* strong fairness of some worker's sweep: the beat schedule (`core/celery_app.py`) starts
  `expire-visitor-requests` and `close-past-amenity-bookings` every 900 seconds and the
  SLA sweep every 300, for ever, so a sweep that is possible again and again is started
  again and again, and does not lose its worker every time.

Nothing is assumed of users, guards, administrators or the clock. `OverdueIsSettled` says
that a request is closed once overdue even when a decision or a pass re-approves it behind
the sweep's back; it may be open again afterwards, and is then closed again. `PastIsClosed`
says the same of confirmed bookings, those included that are committed after the slot
ended, and `OverdueIsEscalated` of a ticket disputed and reopened after its escalation time.
Without the sweep's fairness none holds, as a stuttering lone request shows.

`FairSpec` of `LiveScreen` assumes weak fairness of what timers and event loops do: each query's
poll, request and answer (`refetchInterval`, `fetch`), each socket's steps at the hub and in the
tab (the sender task and, while it lives, the watchdog of `modules/realtime`, the browser's
events), the client's retry timer and ticket request, the bridge's flush, the answer to a
mutation, the publication after a commit, and the broker: Redis comes back and
`_subscribe_forever` connects again. It assumes nothing of users, of changes or of faults; the
bound on faults is what makes them finitely many, and a client that gave up
(`MAX_FAILED_ATTEMPTS`) polls.

`FairSpec` of `Broadcast` assumes weak fairness of `Job(w)`: a worker goes on with its job, and
takes a message or starts a sweep when it has none and there is one, as Celery's workers and the
beat do (the sweep's schedule is 300 seconds). Which of the two it takes is left open, as is each
delivery's success; only the bound on faults keeps them from failing for ever. Nothing is assumed
of publishing requests and edits. `GateConsole` and `TowerSetup` state safety only: a guard may
walk away, and a call the browser never answers leaves the console busy.

## 6. The proofs

All are checked by TLAPS to the last leaf. They are about `Spec` of the modules above for any sets
of rows, people, workers, pages and codes, under the named assumptions on constants: finitely many
workers, an upper bound of uses that is positive, suspects that are visitors, a `None` that is no
pass (`VisitorAccess`); finitely many booking ids, an overlap relation that is reflexive and
symmetric, natural capacities and limits, a `NoWorker` that is no worker (`BookingTable`,
`AmenityBooking`); finitely many units, invoices and payments, integer totals, natural fees,
positive parts, a `NoUnit` that is no unit and a `NoWorker` that is no worker (`BillingLedger`);
natural list lengths, a tower of at least one floor, a `"wizard"` that is no page (`TowerSetup`);
finitely many workers and assignment rows, natural due times (`ServiceDesk`); a branch and a
number of digits for each code, passes of three kinds (`GateConsole`); finitely many users, at
least one replay of a dead letter, and as many rows for them as faults (`Broadcast`); bells and
query keys among the screens, finitely many sockets, a 0 that is none, and an outbox and a limit
of attempts that are positive (`LiveScreen`). TLC evaluates the same assumptions on each run. The
bounds on events and calls are constants too, so that a theorem holds for any of them.

Eight theorems, `SerialEntered`, `SerialUses`, `SerialDecisions` of the visitors and `SerialType`,
`SerialStatus`, `SerialBilledOnce`, `SerialAllocated`, `SerialDues` of billing, have the
hypothesis `[]Serial`: no two transactions are ever open at once. Each is about a property that
overlapping transactions break, which TLC finds with two workers in instances no larger than the
runs' (of billing's type invariant, for example: a refund and a payment that have both read an
invoice, and a second refund, leave `amount_paid` negative). So the hypothesis says when the code
keeps the property, not how far the prover gets. It allows any number of workers and rows, every
handler in every order, lost workers at any point of a transaction, and what comes between the
steps of an open one: the clock, drafts, blacklisting. The runs `visitor_serial` and
`billing_serial` have one worker, for whom `Serial` holds at once. The other theorems hold under
every overlap.

`VisitorAccessProofs` proves `TypeCorrect`, `AdmissionSafety`, `AdmissionBelongs`, `SingleOpenEntry`,
`PassLimit` and `SingleDecision` from one inductive invariant `IInv`. The six properties are not
inductive by themselves, since a commit writes what was read long before. `AllSound`
adds what a transaction that has read may still rely on: the rows it read are there, the
visitor it admits was in the party, the request it admits on had been approved, the use
it counts was below the allowance. It stays true because rows are never deleted, parties
and the history of approvals only grow, and a pass keeps its request and allowance
(`RequestsGrow`, `PassesGrow`, `EntriesGrow`; lemma `SoundStays`). `UsableWasApproved` adds that an
`approved` or `entered` request has been approved, which the transition gate turns into
soundness of a new entry (`EnterNeedsApproval`). One lemma per commit follows, and `NextIInv`
puts them together.

Two more hold under every overlap and say what is left of the anti-passback check and of the
terminal statuses there. `PassbackBound`: a visitor's open
entries and the transactions past the check that would add one never exceed, together, the transactions
that may be open, since the check lets an admission begin only where there is no entry
(`PassbackInv`).
`SettledForGood`: a transaction that reads a terminal request plans no write of its status, whatever
the handler (`BeginLeavesSettled`), so that once the earlier plans (`Overwrites`) are carried out or
lost, none comes back.

Under `Serial` it proves `SerialEntered`, `SerialUses` and `SerialDecisions`, from `SerialInv`.
`AllFresh` is what a handler relies on without saying so: what it has read is still what the
tables hold, so a move the gate allowed from the status it read is a move from the status there is
(`LegalMoves`). `Tables` then relates the tables to each other: one open entry per visitor,
`entered` exactly while somebody is inside, as many uses as entries (a cardinality that one entry
raises by one), and for each decision the statuses that may follow it (`DecisionsHold`), which
makes two opposite ones impossible. Closing a transaction leaves none open (`AllIdle`), so that
each commit only has to keep `Tables`.

`AmenityBookingProofs` proves `TypeCorrect`, `LockHeld`, `NoDuplicates`, `LimitKept`,
`CapacityKept`, `BookingRefinement`, `DeletedForGood` and `SettledForGood`, under every overlap.
The argument is the one the code relies on: the row lock is held from before the checks to the
commit, only the holder adds a confirmed booking, everybody else can only end some, and ending one
makes no check fail that has succeeded. `CheckedStands` states this, `OnlyCommitAdds` and
`FewerBooked` carry it over the other steps, and a deleted amenity, which locks nobody, is covered
by `DeletedIsEmpty` and by the trigger that refuses the insertion. With it, the commit of a
booking satisfies every conjunct of `AtomicBooking`'s `Book`, and each other step is an `End`, a
`Purge`, a `SetCapacity` or a stutter.

`CapacityKept` needs no lock: the trigger is atomic with its INSERT. The load of a set of slots is
a sum over the confirmed bookings in it. No step but a commit adds one (`SeatsPart`); a commit
adds as many seats as it has participants, to the sets its slot is in (`SeatsAdd`), and if the
members of such a set all overlap, the trigger has summed at least that set, so that the slot
booked and the capacity of that moment are the witnesses. `DeletedForGood` is `DeletedIsEmpty`:
the deletion takes every booking along, and the trigger refuses those still to be inserted.
`SettledForGood` follows the pending endings: a transaction that reads an ended booking plans none
for it (`BeginLeavesSettled`), and no commit touches a booking its transaction did not plan to
(`EndsOthers`).

`BillingLedgerProofs` proves, under `Serial`, `SerialType`, `SerialStatus`, `SerialBilledOnce`,
`SerialAllocated` and `SerialDues`, and `CancelledForGood` under every overlap. A transaction
inserts its ledger entries one by one and writes its rows at the end, so in between the tables and
the ledger disagree by what is still to be done. `BillInv` states just that: the tables are good
(`Good`: the columns fit each other, each month is billed once, `amount_paid` is the sum of the
allocations), the tables as the transaction will leave them are good too (`Ready`), and the unit's
balance, together with the entries still to post, is the dues those tables will show (`Owes`). A
handler's `Begin` establishes it, which is where the arithmetic is (`MonthlyPlan`, `SweepPlan`,
`PayPlan`, `RefundPlan` and the others); `Insert` moves an amount from the entries to post to the
balance; `Commit` has nothing left to show; a crash takes away exactly the uncommitted entries,
which are the last ones of the ledger (`LedgerOK`). The clock may make an invoice fall due while a
sweep is about to write it; `Ready` keeps the columns a transaction writes apart from the one the
clock sets. `CancelledForGood` is about the plans of transactions that have read an invoice before
it was settled: `BeginLeavesSettled` shows that no handler plans a write of a settled one,
`OthersLeaveSettled` that nothing else changes it.

Sums over sets are within the prover's reach although the library defines them by recursion and an
induction over an operator is not available: the induction is over a set of subsets
(`SubsetInduction`, from the well-foundedness of `<` on `Nat`), by which the recursive function
that `SumFunctionOnSet` chooses exists for a finite set (`SumExists`) and obeys the usual laws
(`SumStep`, `SumAdd`, `SumSame`, `SumPlus`). Both modules that add up state the laws they need, so
that each stands by itself.

`ServiceDeskProofs` proves `Types`, `BreachIsStamped`, `CheckMeetsOverlap`, `TableIsKept`,
`EscalationIsMonotonic` and `ReassignmentReplaces`. A transaction's pending UPDATE (`work`) is
computed from a row that others may have changed since. The invariant says what a pending UPDATE
is worth: one that is still fresh was decided by the rules on the row as it is (`FreshDecides`,
`FreshReplaces`), and one of any age, written over any row, keeps what relates the row's columns
to each other (`WritesStamp`, `LateIsBreached`, `Accepted`). So the first kind of commit keeps the
table, the escalation's order and the single executor; and the second is the excuse the properties
name.

`GateConsoleProofs` proves `TypeCorrect`, `VerdictTrue`, `CardRecorded`, `BannerFits`, `IdleUnlocked`
and `ExitTrue`. A verification carries the entries it has made and the one it will show,
and what is in the books stays in them, since visits only grow and gate events are never
removed: `CallsSound` says so of each running call, whatever the others do, and each branch of
the answer hands its entry to the page unchanged (`PageMoves`). The busy flag is taken only by a
step after which a call or an exit is under way, and each step that ends one gives it back
(`Locks`). `ExitSound` ties a pending exit to the entry it was asked for.

`TowerSetupProofs` proves `TypeCorrect`, `TotalCovers`, `WizardTrue` and
`GeneratedTrue`. A floor or a unit that a request has made is there unless its floor was deleted
(`Made`), the wizard has at most one floor and then only its units under way (`OneAtATime`), a page
that generates has for each number the floor, a request under way or the number among
those whose own request was lost or whose floor was deleted (`Generating`), and what
a creation has read is still covered by the count (`SeenCovered`). `Alone` is the exact state of
the wizard while nobody disturbs it, floor by floor, from which it follows that it counts all.

`BroadcastProofs` proves `TypeCorrect`, `NobodyIsForgotten`, `ToldOnce` and `SkippingIsSafe`. The
argument follows the duty to tell a user. Before the publication commits it lies with the
request, its message or its dead letter (`Queued`); afterwards with a message, a task, a letter that
re-enqueues the task, or it is discharged (`Announced`, `Handled`): by a notification, by a dead
letter that will be replayed, or by a cause (`Settled`). A step of a worker that commits nothing only
has to hand on what that worker had to do (`JobMoves`); a commit settles whom its job was for
(`CommitHandles`), and with one settled all are, which makes it safe that later fan-outs skip
(`SentSettled`). `Counted` adds up, for each user, the notifications and the unresolved letters; it says
that the sum is never above what is meant while `blame` names no repetition, since a fan-out that is
not stale commits over an empty table and a sweep that is not stale resolves exactly the letters it
replays (`FanOutSound`, `SweepSound`).

`LiveScreenProofs` proves `ConnectionSound` and `NothingIsForgotten`, for any number of sockets,
ticket requests and timers. `Data` says that an answer is never older than what its screen shows.
`Sound` says of the client that, as long as no answer has replaced a socket still there, its
status fits the socket it holds (`Linked`), and that a
registered connection that has overflowed still holds a message or is sending one (`ConnSound`).
`Told` carries the refetch a screen is owed from the outbox to the wire, to the bridge and to
the query: no step of the hub, the sender or the dispatch drops a message that nothing replaces
(`CarriesOn`), a delivery hands it to the bridge (`BridgeKeeps`), a hang-up is an event the client will
see, and the first opening and a flush during a mutation write the cause. Changes of the
tab itself are covered before their hints are published (`OwnCovered`): until the mutation settles by its
answer, afterwards by the refetch.

No run lists the type invariants, `LockDiscipline`, `UnitWithinLimit`, `OneInsidePerRequest`,
`OneDecisionPerApprover`, `AdmittedBelong`, `BannerFitsCard` and `IdleIsUnlocked`: the
theorems state them for all instances.

Only model-checked: what is temporal under fairness, which this prover does not reach
(`OverdueIsSettled`, `PastIsClosed`, `OverdueIsEscalated`, `ScreensCatchUp`,
`RevokedIsDisconnected`, `ConnectsOrGivesUp`, `EverybodySettled`), and `LedgerChain`, which
overlapping postings violate (`billing_race`), so that a theorem about serial ones would say what
is not in question. Every other safety property of the passing runs is the subject of a theorem.
That the properties under `Serial` fail without it is for TLC alone to show.

## 7. What the models show to be wrong

Two runs are kept because the code disagrees with what its own comments and tests say:

* **A party cannot be inside together** (`visitor_party`). `modules/visitors/service.py` line
  830 lets an `entered` request be entered again for "a subsequent group member", but the unique
  index `uq_visitor_entry_open` allows one open entry per request: the second member is refused
  with 409 while the first is inside, and the first one's exit completes the request.
* **The running balance loses postings** (`billing_race`). `latest_balance` locks the latest
  ledger row of a unit. A second transaction that waits for it is given the same row once the
  first commits, since an insertion does not change it; on an empty ledger there is no
  row, and the monthly job does not lock. `modules/billing/service.py` line 9 promises a
  balance "recomputed transactionally per unit". Payments of one community are serialised by
  their receipt numbers, so the race needs a posting, penalty, refund, cancellation or
  the monthly job on one side.

Other races, met by running the serial properties with two workers. They are hazards that
PROJECT.json lists, kept as exceptions of the properties and not as runs of their own; where a
comment or document says otherwise, it is named here. A visitor is admitted twice
on two requests (the index is per request). A request expired or cancelled while a guard's
transaction is open becomes `entered`, although `modules/visitors/tasks.py` line 5 says that an expired
one "can no longer admit a visitor at the gate"; a terminal request, an ended booking and
a cancelled invoice are likewise overwritten by a transaction that read them before, which is what
the three `SettledIsFinal` except. A confirmed booking committed during the amenity's
deletion goes with it; a block created during a booking does not stop it; of two overlapping
payments and refunds of an invoice one `paid` is lost, and where the payment's is, its own refund makes
`amount_paid` negative (no constraint of the table forbids it). A blacklisted visitor's denied entry is
written in the transaction that the refusal rolls back, and leaves no row.

Of the components modelled later: the sweep of overlapping beats takes an escalation back, which
`src/docs/backend/STATE_MACHINES.md` line 60 calls monotonic, and an overtaken request a status;
`transition_ticket` accepts `assigned` (`modules/complaints/service.py` lines 64 to 70 and 436)
and records no assignment, so that a ticket may be shown as assigned with nobody on it; two
overlapping assignments leave two active rows. A creation of a floor writes `total_floors` over a
higher value committed since it read it. Deleting a floor asks about the first 100 units of the
community and takes those beyond along. When the creation of a floor fails during a generation,
the failure is swallowed and the page announces all of them
(`src/frontend/app/super-admin/communities/page.tsx` line 398). A lost answer of `recordEntry`
ends in NO ENTRY although the pass is consumed. A gate event that fails for a vendor or delivery
is swallowed, and the banner says it is logged.

`src/frontend/lib/realtime.ts` line 2 promises one WebSocket per browser tab. `OneSocketPerTab` states
it, and TLC finds it violated in the instance of `live_screen`: `stop` and `start` while a ticket
request is outstanding leave two, both answers open a socket, `stop` closes the newer one
only, and the older one goes on delivering hints. It is in no run, since `client.replaced` and the
cause `replaced` already mark what follows from it. The re-check of a socket
(`modules/realtime/router.py` lines 134 to 142) catches nothing around its database read: one error ends
it, and a session revoked afterwards keeps its socket as long as the client pings. The hub's
subscriber ends with its last connection (`modules/realtime/hub.py` lines 81 to 83), and what is
published before the next one has subscribed again is told to nobody.

An instance of `LiveScreen` with a resident's screens shows that most personal notifications do
not refresh the bell: `src/frontend/hooks/use-realtime.ts` line 230 returns, for a hint whose
module the table `MODULE_QUERY_KEYS` does not have, before it adds the key `notifications`, and
the types that are emitted start with `delivery`, `ticket`, `amenity`, `staff` or `incident`, none
of which it has. While the socket is open polling is off. `core/realtime.py` line 89 says that the
module is the prefix "so the client also refreshes that module"; `realtime-bridge.test.tsx` line
92 tests it with `visitors`, which the table has.

The causes in `Broadcast`'s `blame` are behaviours of the code. `modules/communication/tasks.py`
line 9 calls the task "Safe to retry / double-fire": a worker lost after a commit of nothing but
dead letters has its message delivered again, no notification is counted, and both the second
fan-out and the replay deliver; overlapping fan-outs and overlapping sweeps deliver twice too. The
comment at `modules/communication/service.py` line 453 has the task retry until it sees the
commit; it looks four times, and a commit that comes later publishes to nobody. A task that raises
is acknowledged and lost without a dead letter. `update_announcement` refuses to edit what is
published, and an edit that has read the draft before the publication changes the targets after
it.

## 8. What is not modelled

Within the modelled components:

* visitors: the directory and its counters, texts and channels of notifications;
* amenities: the advance and duration rules, which only narrow which slots may be asked for;
* billing: exports, receipts, lists, charge heads, the editing of rules (their effect is the
  choice of a fee), the special assessments the router keeps in memory;
* realtime: where Redis keeps tickets, `MAX_CONNECTIONS_PER_USER`, heartbeats as messages, several tabs
  (each has its own socket; what the actor's other tabs miss is the cause `own`);
* gate console: the scanner modal, the steps of the walk-in modal before the admission, badges,
  passes that are good for several entries;
* towers: the wizard's manual steps, `update_tower`, gates, unit codes, the same screens as the
  community administrator has them (`app/community-admin/property/page.tsx`), the communities;
* service desk: messages, attachments and feedback as data, history and audit rows, categories,
  authorization, more than one ticket (tickets do not look at each other);
* announcements: texts, expiry, preferences and channels, the audit rows, the limit of 200 rows
  of a sweep, countdowns (they only order steps), and the emissions of the other services, which use
  the same savepoint and dead letter;
* everywhere: the filters of tenancy, which restrict every query to one community.

Two guards may record one vehicle inside (`modules/vehicles/service.py` line 390 reads the open entries
before it inserts, and no unique index backs it) and two may acknowledge one alert
(`modules/gate/service.py` line 481); both belong to the first two modules of the plan.

Components without a module are listed in section 1 and in PROJECT.json with the reason: pure
input and output (uploads, assistant), append-only (audit), sequential editing (users, role
administration), wall-clock windows (rate limiting); the others are planned. More than half of the
source is the other screens of `src/frontend`: tables, forms and modals that post and then
refetch. Their markup has no states worth checking, and what they do to the server is in
the models of the components they call.

## 9. Plan

In this order, each with its abstract promise where one is worth stating:

1. `GateDuty`: assignments and panic alerts under overlapping calls, and incidents as the
   transition gate used alone.
2. `Parking` and `Occupancy`: allocations, releases, vehicle entries and occupancies against their
   partial unique indexes; attendance of domestic staff as a further instance.
3. `Invitations` and `Sessions`: acceptance under its row lock against revocation and expiry;
   sessions, permission versions and the lockout counter.
4. The dashboard cache between the hints of `LiveScreen` and the queries.

Proofs, in this order: `LedgerChain` while no two open transactions post to one unit; the visitor
handlers, one after the other, as a refinement of an atomic gate; what two overlapping payments
and refunds leave of `PaidIsAllocated`.
