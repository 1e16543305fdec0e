------------------------------ MODULE LiveScreen ------------------------------
(* From a committed change to the screen of one browser tab: the hints of    *)
(* app/core/realtime.py, the hub of app/modules/realtime, the socket client  *)
(* of frontend lib/realtime.ts, the bridge of hooks/use-realtime.ts and the  *)
(* queries of lib/query.ts.  Data is a count of committed changes: a screen  *)
(* shows the changes up to one of them.  All changes are of one kind, whose  *)
(* hints are constants.  A definition marked `faulty` is a plausible slip in *)
(* the next one; Next never uses it.                                         *)
EXTENDS FiniteSets, HintOutbox

CONSTANTS
  Screens,              \* active queries of the tab
  Nets,                 \* sets of screens that may poll while the socket is open (SOS)
  Owns,                 \* sets of screens this tab's mutation may invalidate
  Bells,                \* those under the query key notifications
  Keys,                 \* MODULE_QUERY_KEYS: module name -> screens
  Module,               \* module of the change's audit row
  Prefix,               \* prefix of the notification type sent to this user
  Notified,             \* a notification row is created for this user
  Forwarded,            \* the user's grant for the community allows Module
  Sockets,              \* ids of sockets, a bound on the connections under way at once
  MaxChanges,           \* bound on committed changes
  MaxFailed,            \* MAX_FAILED_ATTEMPTS
  MaxFaults,            \* bound on Redis outages, broken sockets, failed re-checks, lost
                        \* users and the session's end, together
  MaxEvents             \* bound on changes and faults together

ASSUME ScreensAssumption ==
  /\ Bells \subseteq Screens /\ Nets \cup Owns \subseteq SUBSET Screens
  /\ \A m \in DOMAIN Keys : Keys[m] \subseteq Screens
ASSUME BoundsAssumption ==
  /\ {MaxChanges, MaxFaults, MaxEvents} \subseteq Nat
  /\ MaxFailed \in Nat \ {0}
ASSUME SocketsAssumption == IsFiniteSet(Sockets) /\ 0 \notin Sockets

VARIABLES
  net,                  \* the one of Nets, fixed
  ownKeys,              \* the one of Owns, fixed
  version,              \* changes committed
  outgoing,             \* changes whose hints are not published yet, with their actor
  redis,                \* Redis answers
  subscriber,           \* the hub's subscriber task listens
  session,              \* the session is neither revoked nor expired
  conn,                 \* socket -> its two ends and what is between them
  client,               \* the fields of RealtimeClient; stray: timers whose handle was
                        \* overwritten; replaced: history, a socket gave way to another
  bridge,               \* pending keys and timer of useRealtimeBridge
  me,                   \* useMe has a user
  mutating,             \* this tab's mutation: no, sent or done (answer on its way)
  here,                 \* the page stands (hardNavigate not called)
  shown,                \* screen -> version it shows
  fetch,                \* screen -> idle, asked or read (answer on its way)
  answer,               \* screen -> version the answer holds
  lost,                 \* history: why the screen was not told of a change it lacks
  faults                \* faults so far

vars == <<net, ownKeys, version, outgoing, redis, subscriber, session, conn, client, bridge, me,
          mutating, here, shown, fetch, answer, lost, faults>>

world   == <<net, ownKeys, version, outgoing, session, redis>>
server  == <<net, ownKeys, version, outgoing, session, redis, subscriber>>
screens == <<shown, fetch, answer>>

Actors == {"other", "here", "elsewhere"}    \* another user, this tab, another tab
Causes == {"redis", "own", "untold", "opening", "mutating", "replaced"}

NoConn ==
  [client |-> "none", server |-> "none", granted |-> FALSE, subscribe |-> FALSE,
   outbox |-> <<>>, wire |-> <<>>, sender |-> "get", overflowed |-> FALSE, watched |-> FALSE]

Idle == [wanted |-> FALSE, status |-> "idle", ws |-> 0, failed |-> 0, tickets |-> 0,
         retry |-> FALSE, stray |-> 0, wasDown |-> FALSE, replaced |-> FALSE]

Quiet == [pending |-> {}, resync |-> FALSE, timer |-> FALSE]

Init ==
  /\ net \in Nets /\ ownKeys \in Owns
  /\ version = 0 /\ outgoing = {}
  /\ redis = TRUE /\ subscriber = FALSE /\ session = TRUE
  /\ conn = [s \in Sockets |-> NoConn]
  /\ client = Idle /\ bridge = Quiet
  /\ me = FALSE /\ mutating = "no" /\ here = TRUE
  /\ shown = [q \in Screens |-> 0]
  /\ fetch = [q \in Screens |-> "idle"]
  /\ answer = [q \in Screens |-> 0]
  /\ lost = [q \in Screens |-> {}]
  /\ faults = 0

Event == version + faults < MaxEvents
Fault == faults < MaxFaults /\ Event /\ faults' = faults + 1

Registered(s) == conn[s].server = "registered"

\* Hub.remove: the subscriber ends with the last connection, the last of all users
Removed(S) ==
  IF \E s \in Sockets \ S : Registered(s) THEN UNCHANGED subscriber
  ELSE subscriber' \in {subscriber, FALSE}

Miss(S, cause) == lost' = [q \in Screens |-> IF q \in S THEN lost[q] \cup {cause} ELSE lost[q]]

-----------------------------------------------------------------------------
(* Queries                                                                   *)

\* invalidateQueries: an active query refetches, cancelling a fetch under way
Refetch(S) == fetch' = [q \in Screens |-> IF q \in S THEN "asked" ELSE fetch[q]]

\* useLivePollInterval: no interval while the socket is open, except for SOS
Polls(q) == client.status # "open" \/ q \in net

Poll(q) ==
  /\ here /\ Polls(q) /\ fetch[q] = "idle"
  /\ fetch' = [fetch EXCEPT ![q] = "asked"]
  /\ UNCHANGED <<server, conn, client, bridge, me, mutating, here, shown, answer, lost, faults>>

\* the API reads the database for the answer
Read(q) ==
  /\ here /\ session /\ fetch[q] = "asked"
  /\ fetch' = [fetch EXCEPT ![q] = "read"]
  /\ answer' = [answer EXCEPT ![q] = version]
  /\ lost' = [lost EXCEPT ![q] = {}]
  /\ UNCHANGED <<server, conn, client, bridge, me, mutating, here, shown, faults>>

Show(q) ==
  /\ here /\ fetch[q] = "read"
  /\ shown' = [shown EXCEPT ![q] = answer[q]]
  /\ fetch' = [fetch EXCEPT ![q] = "idle"]
  /\ UNCHANGED <<server, conn, client, bridge, me, mutating, here, answer, lost, faults>>

\* redirectToLoginOnUnauthorized: the first 401 leaves the page, and its socket with it
Unauthorized(q) ==
  /\ here /\ ~session /\ fetch[q] = "asked"
  /\ here' = FALSE
  /\ conn' = [s \in Sockets |-> NoConn] /\ Removed(Sockets)
  /\ client' = Idle /\ bridge' = Quiet /\ me' = FALSE /\ mutating' = "no"
  /\ UNCHANGED <<world, shown, fetch, answer, lost, faults>>

-----------------------------------------------------------------------------
(* Changes and their hints                                                   *)

Commit(actor) ==
  /\ version < MaxChanges /\ Event
  /\ version' = version + 1
  /\ outgoing' = outgoing \cup {[change |-> version + 1, actor |-> actor]}

ChangeElsewhere ==
  \E actor \in {"other", "elsewhere"} :
    /\ Commit(actor)
    /\ UNCHANGED <<net, ownKeys, redis, subscriber, session, conn, client, bridge, me, mutating, here,
                   screens, lost, faults>>

Mutate ==
  /\ here /\ me /\ session /\ mutating = "no" /\ version < MaxChanges /\ Event
  /\ mutating' = "sent"
  /\ UNCHANGED <<server, conn, client, bridge, me, here, screens, lost, faults>>

MutationCommits ==
  /\ mutating = "sent"
  /\ Commit("here")
  /\ mutating' = "done"
  /\ UNCHANGED <<net, ownKeys, redis, subscriber, session, conn, client, bridge, me, here, screens, lost, faults>>

\* onSuccess: the mutation's own keys
MutationSettles ==
  /\ here /\ mutating = "done"
  /\ mutating' = "no"
  /\ Refetch(ownKeys)
  /\ UNCHANGED <<server, conn, client, bridge, me, here, shown, answer, lost, faults>>

\* refused: no onSuccess
MutationFails ==
  /\ here /\ mutating = "sent"
  /\ mutating' = "no"
  /\ UNCHANGED <<server, conn, client, bridge, me, here, screens, lost, faults>>

Community == [type |-> "invalidate", scope |-> "community", module |-> Module]
Personal  == [type |-> "invalidate", scope |-> "user", module |-> Prefix]

\* query keys of a hint; a module MODULE_QUERY_KEYS does not name has none at all
KeysOf(m) ==
  IF m.module \notin DOMAIN Keys THEN {}
  ELSE Keys[m.module] \cup (IF m.scope = "user" THEN Bells ELSE {})

\* a hint that makes the tab refetch q
Refreshes(m, q) == m.type = "resync" \/ (m.type = "invalidate" /\ q \in KeysOf(m))

\* client_payload for a change: nothing to the actor, the community's hint by grant
HintsFor(s, actor) ==
  IF actor # "other" \/ ~Registered(s) THEN <<>>
  ELSE (IF conn[s].granted /\ Forwarded THEN <<Community>> ELSE <<>>)
       \o (IF Notified THEN <<Personal>> ELSE <<>>)

OfferAll(c, ms) ==
  IF ms = <<>> THEN c
  ELSE IF Len(ms) = 1 THEN Offer(c, ms[1])
  ELSE Offer(Offer(c, ms[1]), ms[2])

\* screens no hint of a change by the actor refreshes, for want of a connection, of a
\* grant or of query keys
Untold(actor) ==
  {q \in Screens :
     \A s \in Sockets : \A i \in DOMAIN HintsFor(s, actor) : ~Refreshes(HintsFor(s, actor)[i], q)}

\* the close event has not reached the client yet
Closing == client.ws # 0 /\ conn[client.ws].server = "gone"

\* publish_pending, the subscriber and Hub.dispatch; a hint that meets no subscriber
\* or no connection is gone
Publish(u) ==
  /\ u \in outgoing
  /\ outgoing' = outgoing \ {u}
  /\ conn' = [s \in Sockets |->
       IF redis /\ subscriber THEN OfferAll(conn[s], HintsFor(s, u.actor)) ELSE conn[s]]
  /\ IF client.status # "open" \/ Closing THEN UNCHANGED lost
     ELSE \/ u.actor = "here"      /\ Miss(Screens \ ownKeys, "own")
          \/ u.actor = "elsewhere" /\ Miss(Screens, "own")
          \/ u.actor = "other"     /\ ~(redis /\ subscriber) /\ Miss(Screens, "redis")
          \/ u.actor = "other"     /\ redis /\ subscriber /\ Miss(Untold("other"), "untold")
  /\ UNCHANGED <<net, ownKeys, version, redis, subscriber, session, client, bridge, me, mutating, here,
                 screens, faults>>

RedisFails ==
  /\ redis /\ Fault
  /\ redis' = FALSE /\ subscriber' = FALSE
  /\ UNCHANGED <<net, ownKeys, version, outgoing, session, conn, client, bridge, me, mutating, here, screens, lost>>

RedisReturns ==
  /\ ~redis /\ redis' = TRUE
  /\ UNCHANGED <<net, ownKeys, version, outgoing, subscriber, session, conn, client, bridge, me, mutating,
                 here, screens, lost, faults>>

\* _subscribe_forever, while the hub has a connection
Subscribe ==
  /\ redis /\ ~subscriber /\ \E s \in Sockets : Registered(s)
  /\ subscriber' = TRUE
  /\ UNCHANGED <<net, ownKeys, version, outgoing, redis, session, conn, client, bridge, me, mutating, here,
                 screens, lost, faults>>

\* logout elsewhere, revocation by an administrator or expiry
Revoke ==
  /\ session /\ Fault
  /\ session' = FALSE
  /\ UNCHANGED <<net, ownKeys, version, outgoing, redis, subscriber, conn, client, bridge, me, mutating,
                 here, screens, lost>>

-----------------------------------------------------------------------------
(* What a screen lacks, and what will make up for it                         *)

\* what is sure to make the tab fetch q again, as far as it comes over the sockets in S
\* or is past them
ComingOver(S, q) ==
  \/ \E s \in S :
       \/ conn[s].overflowed
       \/ \E i \in DOMAIN conn[s].outbox : Refreshes(conn[s].outbox[i], q)
       \/ \E i \in DOMAIN conn[s].wire : Refreshes(conn[s].wire[i], q)
  \/ bridge.timer /\ (bridge.resync \/ q \in bridge.pending)
  \/ fetch[q] = "asked"

Coming(q) == ComingOver(Sockets, q)

\* changes whose hint has been published and that neither q nor its answer holds
Missing(q) ==
  ((IF fetch[q] = "read" THEN answer[q] ELSE shown[q]) + 1 .. version)
    \ {u.change : u \in outgoing}

\* screens that lack a change and could only hear of it over the sockets in S
Unaided(S) == {q \in Screens : Missing(q) # {} /\ ~ComingOver(Sockets \ S, q)}

-----------------------------------------------------------------------------
(* The hub's end of a socket                                                 *)

\* consume_ticket, authenticate and ws.accept
Accept(s) ==
  /\ conn[s].client = "connecting" /\ conn[s].server = "none" /\ redis /\ session
  /\ conn' = [conn EXCEPT ![s].server = "accepted"]
  /\ UNCHANGED <<server, client, bridge, me, mutating, here, screens, lost, faults>>

\* 4401, or Redis gone with the ticket
Refuse(s) ==
  /\ conn[s].client = "connecting" /\ conn[s].server = "none" /\ ~(redis /\ session)
  /\ conn' = [conn EXCEPT ![s].server = "gone"]
  /\ UNCHANGED <<server, client, bridge, me, mutating, here, screens, lost, faults>>

\* Hub.add and the hello; the community granted at first is not always the tab's
Register(s) ==
  /\ conn[s].server = "accepted"
  /\ \E granted \in BOOLEAN :
       conn' = [conn EXCEPT ![s].server = "registered", ![s].granted = granted,
                            ![s].watched = TRUE, ![s].wire = Append(@, Hello)]
  /\ UNCHANGED <<server, client, bridge, me, mutating, here, screens, lost, faults>>

\* _handle of subscribe
Grant(s) ==
  /\ Registered(s) /\ conn[s].subscribe
  /\ conn' = [conn EXCEPT ![s].granted = TRUE, ![s].subscribe = FALSE]
  /\ UNCHANGED <<server, client, bridge, me, mutating, here, screens, lost, faults>>

Send(s) ==
  /\ Registered(s)
  /\ \/ CanTake(conn[s])  /\ conn' = [conn EXCEPT ![s] = Take(@)]
     \/ CanCheck(conn[s]) /\ conn' = [conn EXCEPT ![s] = Check(@)]
  /\ UNCHANGED <<server, client, bridge, me, mutating, here, screens, lost, faults>>

\* the client ignores the end of a socket it has replaced
HangUp(s) ==
  /\ conn' = [conn EXCEPT ![s].server = "gone", ![s].outbox = <<>>, ![s].wire = <<>>,
                          ![s].overflowed = FALSE]
  /\ Removed({s})
  /\ IF s = client.ws \/ client.status # "open" \/ Closing THEN UNCHANGED lost
     ELSE Miss(Unaided({s}), "replaced")

\* faulty
WatchdogBeforeGrant(s) ==
  /\ Registered(s) /\ conn[s].watched /\ ~conn[s].granted /\ ~session
  /\ HangUp(s)
  /\ UNCHANGED <<world, client, bridge, me, mutating, here, screens, faults>>

\* _revalidate
Watchdog(s) ==
  /\ Registered(s) /\ conn[s].watched /\ ~session
  /\ HangUp(s)
  /\ UNCHANGED <<world, client, bridge, me, mutating, here, screens, faults>>

\* its database read fails, and nothing catches that: the task ends, the socket stays
WatchdogFails(s) ==
  /\ Registered(s) /\ conn[s].watched
  /\ Fault
  /\ conn' = [conn EXCEPT ![s].watched = FALSE]
  /\ UNCHANGED <<server, client, bridge, me, mutating, here, screens, lost>>

\* a broken network, a worker restarted, the idle timeout
Drop(s) ==
  /\ conn[s].client # "none" /\ conn[s].server # "gone"
  /\ Fault
  /\ HangUp(s)
  /\ UNCHANGED <<world, client, bridge, me, mutating, here, screens>>

-----------------------------------------------------------------------------
(* RealtimeClient                                                            *)

\* setStatus, with the listener that remembers that the socket was down
SetStatus(c, status) ==
  [c EXCEPT !.status = status,
            !.wasDown = IF status = "closed" /\ c.status # "closed" THEN TRUE
                        ELSE IF status = "open" THEN FALSE ELSE @]

\* faulty
GiveUpTooSoon(c) ==
  IF ~c.wanted THEN c
  ELSE LET d == SetStatus(c, "closed")
       IN  IF d.failed >= MaxFailed - 1 THEN d ELSE [d EXCEPT !.retry = TRUE]

\* a timer already set goes on, but stop will not find it
ScheduleRetry(c) ==
  IF ~c.wanted THEN c
  ELSE LET d == SetStatus(c, "closed")
       IN  IF d.failed >= MaxFailed THEN d
           ELSE [d EXCEPT !.retry = TRUE, !.stray = IF d.retry THEN @ + 1 ELSE @]

Connect(c) ==
  IF ~c.wanted THEN c
  ELSE [SetStatus(c, "connecting") EXCEPT !.tickets = @ + 1]

Start(c) == IF c.wanted THEN c ELSE Connect([c EXCEPT !.wanted = TRUE])

\* ticket requests outstanding, and timers not at hand, are not cancelled
Stop(c) ==
  [SetStatus(c, "idle") EXCEPT !.wanted = FALSE, !.ws = 0, !.failed = 0, !.retry = FALSE]

CloseOwn ==
  /\ conn' = [s \in Sockets |-> IF s = client.ws THEN NoConn ELSE conn[s]]
  /\ IF client.ws = 0 THEN UNCHANGED subscriber ELSE Removed({client.ws})

\* sockets, and what may still open one
UnderWay ==
  Cardinality({s \in Sockets : conn[s] # NoConn})
    + client.tickets + client.stray + (IF client.retry THEN 1 ELSE 0)

\* the effect on userId: a user appears
SignIn ==
  /\ here /\ ~me /\ session /\ UnderWay < Cardinality(Sockets)
  /\ me' = TRUE
  /\ client' = Start(client)
  /\ UNCHANGED <<server, conn, bridge, mutating, here, screens, lost, faults>>

\* useMe answers null for a moment
Flicker ==
  /\ here /\ me /\ Fault
  /\ me' = FALSE
  /\ client' = Stop(client)
  /\ CloseOwn
  /\ UNCHANGED <<world, bridge, mutating, here, screens, lost>>

RetryTimer ==
  /\ here
  /\ \/ client.retry     /\ client' = Connect([client EXCEPT !.retry = FALSE])
     \/ client.stray > 0 /\ client' = Connect([client EXCEPT !.stray = @ - 1])
  /\ UNCHANGED <<server, conn, bridge, me, mutating, here, screens, lost, faults>>

Answered == [client EXCEPT !.tickets = @ - 1]

\* POST /realtime/ticket succeeds: a socket, unless stop came in between; it replaces
\* the one of an earlier request, which goes on unnoticed
Ticket(s) ==
  /\ here /\ client.tickets > 0 /\ session /\ redis
  /\ conn[s] = NoConn
  /\ IF client.wanted
     THEN /\ client' = [Answered EXCEPT !.ws = s, !.replaced = @ \/ client.ws # 0]
          /\ conn' = [conn EXCEPT ![s].client = "connecting"]
          /\ IF client.status = "open" /\ Closing
             THEN Miss(Unaided({}), "replaced")
             ELSE UNCHANGED lost
     ELSE client' = Answered /\ UNCHANGED <<conn, lost>>
  /\ UNCHANGED <<server, bridge, me, mutating, here, screens, faults>>

\* 401: stop, whoever is signed in by now
TicketUnauthorized ==
  /\ here /\ client.tickets > 0 /\ ~session
  /\ client' = Stop(Answered)
  /\ CloseOwn
  /\ UNCHANGED <<world, bridge, me, mutating, here, screens, lost, faults>>

\* 503: no Redis
TicketFails ==
  /\ here /\ client.tickets > 0 /\ session /\ ~redis
  /\ client' = ScheduleRetry([Answered EXCEPT !.failed = @ + 1])
  /\ UNCHANGED <<server, conn, bridge, me, mutating, here, screens, lost, faults>>

\* faulty
OpenWithoutRefetch(s) ==
  /\ here /\ conn[s].client = "connecting" /\ conn[s].server \in {"accepted", "registered"}
  /\ conn' = [conn EXCEPT ![s].client = "open"]
  /\ client' = [SetStatus(client, "open") EXCEPT !.failed = 0]
  /\ UNCHANGED <<server, bridge, me, mutating, here, screens, lost, faults>>

\* onopen; a reconnect refetches, the first open trusts what was loaded before
Open(s) ==
  /\ here /\ conn[s].client = "connecting" /\ conn[s].server \in {"accepted", "registered"}
  /\ conn' = [conn EXCEPT ![s].client = "open"]
  /\ client' = [SetStatus(client, "open") EXCEPT !.failed = 0]
  /\ IF client.wasDown THEN Refetch(Screens) /\ UNCHANGED lost
     ELSE IF client.status = "open" THEN UNCHANGED <<fetch, lost>>
     ELSE /\ Miss(Unaided({}), "opening")
          /\ UNCHANGED fetch
  /\ UNCHANGED <<server, bridge, me, mutating, here, shown, answer, faults>>

\* faulty
CloseUnnoticed(s) ==
  /\ here /\ conn[s].client # "none" /\ conn[s].server = "gone"
  /\ conn' = [conn EXCEPT ![s] = NoConn]
  /\ client' = IF client.ws # s THEN client ELSE [client EXCEPT !.ws = 0]
  /\ UNCHANGED <<server, bridge, me, mutating, here, screens, lost, faults>>

\* onclose; of another socket than this.ws it is ignored
Close(s) ==
  /\ here /\ conn[s].client # "none" /\ conn[s].server = "gone"
  /\ conn' = [conn EXCEPT ![s] = NoConn]
  /\ client' =
       IF client.ws # s THEN client
       ELSE LET down == SetStatus([client EXCEPT !.ws = 0, !.retry = FALSE], "closed")
            IN  ScheduleRetry(IF conn[s].client = "open" THEN down
                              ELSE [down EXCEPT !.failed = @ + 1])
  /\ UNCHANGED <<server, bridge, me, mutating, here, screens, lost, faults>>

-----------------------------------------------------------------------------
(* The bridge                                                                *)

\* faulty
ResyncWithoutTimer(m) ==
  IF m.type = "resync" THEN [bridge EXCEPT !.resync = TRUE]
  ELSE IF m.module \notin DOMAIN Keys THEN bridge
  ELSE [bridge EXCEPT !.pending = @ \cup KeysOf(m), !.timer = TRUE]

OnHint(m) ==
  IF m.type = "resync" THEN [bridge EXCEPT !.resync = TRUE, !.timer = TRUE]
  ELSE IF m.module \notin DOMAIN Keys THEN bridge
  ELSE [bridge EXCEPT !.pending = @ \cup KeysOf(m), !.timer = TRUE]

\* onmessage; subscribe goes out on this.ws, whichever socket said hello
Deliver(s) ==
  /\ here /\ conn[s].client = "open" /\ conn[s].wire # <<>>
  /\ LET m == Head(conn[s].wire) IN
       IF m = Hello
       THEN /\ conn' = [r \in Sockets |->
                 [conn[r] EXCEPT !.wire = IF r = s THEN Tail(@) ELSE @,
                                 !.subscribe = @ \/ (r = client.ws /\ conn[r].client = "open"
                                                        /\ ~conn[s].granted)]]
            /\ UNCHANGED bridge
       ELSE /\ conn' = [conn EXCEPT ![s].wire = Tail(@)]
            /\ bridge' = OnHint(m)
  /\ UNCHANGED <<server, client, me, mutating, here, screens, lost, faults>>

Due == IF bridge.resync THEN Screens ELSE bridge.pending

\* flush after DEBOUNCE_MS: only marks stale while a mutation of this tab is in flight
Flush ==
  /\ here /\ bridge.timer
  /\ bridge' = Quiet
  /\ IF mutating = "no"
     THEN Refetch(Due) /\ UNCHANGED lost
     ELSE Miss(Due, "mutating") /\ UNCHANGED fetch
  /\ UNCHANGED <<server, conn, client, me, mutating, here, shown, answer, faults>>

-----------------------------------------------------------------------------

Hub(s) == Accept(s) \/ Refuse(s) \/ Register(s) \/ Grant(s) \/ Send(s) \/ Watchdog(s)
Tab(s) == Ticket(s) \/ Open(s) \/ Close(s) \/ Deliver(s)
Query(q) == Poll(q) \/ Read(q) \/ Show(q) \/ Unauthorized(q)

Client == SignIn \/ RetryTimer \/ TicketUnauthorized \/ TicketFails
Mutation == MutationCommits \/ MutationSettles \/ MutationFails
PublishAny == \E u \in outgoing : Publish(u)
Broker == RedisReturns \/ Subscribe

Next ==
  \/ \E q \in Screens : Query(q)
  \/ ChangeElsewhere \/ Mutate \/ Mutation \/ PublishAny
  \/ Broker \/ RedisFails \/ Revoke
  \/ \E s \in Sockets : Hub(s) \/ Tab(s) \/ Drop(s) \/ WatchdogFails(s)
  \/ Client \/ Flicker \/ Flush

\* the timers run and the event loops turn: a call made is answered, a message sent
\* arrives unless its socket breaks, Redis comes back, and useMe asks again
Fairness ==
  /\ \A q \in Screens : WF_vars(Query(q))
  /\ WF_vars(\E s \in Sockets : Hub(s) \/ Tab(s))
  /\ WF_vars(Client) /\ WF_vars(Flush)
  /\ WF_vars(Mutation) /\ WF_vars(PublishAny) /\ WF_vars(Broker)

Spec == Init /\ [][Next]_vars

FairSpec == Spec /\ Fairness

-----------------------------------------------------------------------------
(* Properties                                                                *)

Hints == {Resync, Hello, Community, Personal}

\* The type invariant.
TypeOK ==
  /\ net \in Nets /\ ownKeys \in Owns
  /\ version \in 0..MaxChanges
  /\ outgoing \subseteq [change : 1..version, actor : Actors]
  /\ {redis, subscriber, session, me, here} \subseteq BOOLEAN
  /\ \A s \in Sockets :
       /\ conn[s].client \in {"none", "connecting", "open"}
       /\ conn[s].server \in {"none", "accepted", "registered", "gone"}
       /\ \A i \in DOMAIN conn[s].outbox : conn[s].outbox[i] \in Hints
       /\ \A i \in DOMAIN conn[s].wire : conn[s].wire[i] \in Hints
  /\ client.status \in {"idle", "connecting", "open", "closed"}
  /\ client.ws \in Sockets \cup {0} /\ {client.failed, client.tickets, client.stray} \subseteq Nat
  /\ bridge \in [pending : SUBSET Screens, resync : BOOLEAN, timer : BOOLEAN]
  /\ mutating \in {"no", "sent", "done"}
  /\ shown \in [Screens -> 0..version] /\ answer \in [Screens -> 0..version]
  /\ fetch \in [Screens -> {"idle", "asked", "read"}]
  /\ lost \in [Screens -> SUBSET Causes]

\* A screen that lacks a change whose hint has been published, and polls no more because
\* the socket is open, has something on its way that will refetch it: in the outbox, on
\* the wire or in the bridge, an overflow that ends in a resync, its own mutation's
\* answer, a fetch, or the close of the socket.  The exceptions are the named causes.
NothingForgotten ==
  \A q \in Screens :
    here /\ client.status = "open" /\ Missing(q) # {} =>
      Coming(q) \/ (mutating = "done" /\ q \in ownKeys) \/ Closing \/ lost[q] # {}

\* An overflowed outbox still holds or is sending the message after which the sender
\* emits the resync that replaces what was dropped (hub.py).
OverflowEndsInResync ==
  \A s \in Sockets :
    Registered(s) /\ conn[s].overflowed => conn[s].outbox # <<>> \/ conn[s].sender = "sent"

\* status open, which stops the polling, stands for a socket that is open.
OpenMeansConnected ==
  client.status = "open" => client.ws # 0 /\ conn[client.ws].client = "open"

\* The circuit breaker leaves the client retrying, connected or given up, never wanting
\* a connection that nothing is working on.
NeverStranded ==
  client.wanted =>
    \/ client.tickets > 0 \/ client.retry \/ client.stray > 0 \/ client.ws # 0
    \/ client.failed >= MaxFailed /\ client.status = "closed"

\* The states of the hub's outbox, of the socket and of the client fit each other, whatever
\* drops, stops, refusals, leftover answers and stray timers come between: all of them as
\* long as no answer has replaced a socket still there, the hub's part always.
ConnectionIsSound ==
  /\ TypeOK /\ OverflowEndsInResync
  /\ ~client.replaced => OpenMeansConnected /\ NeverStranded

\* One WebSocket per browser tab (lib/realtime.ts:2).
OneSocketPerTab == \A r, s \in Sockets : {conn[r].client, conn[s].client} = {"open"} => r = s

\* A screen with a safety net (SOS) catches up with every change, whatever hint is lost,
\* while the page stands; another one does so too, or lacks a hint for a named cause, or
\* the session has ended.
ScreensCatchUp ==
  \A q \in Screens, v \in 1..MaxChanges :
    (version >= v) ~>
      \/ shown[q] >= v \/ ~here
      \/ q \notin net /\ (lost[q] # {} \/ ~session)

\* A revoked session's sockets are closed in the end, unless an error of the database has
\* ended the re-check before (_revalidate).
RevokedIsDisconnected ==
  ~session ~> \A s \in Sockets : Registered(s) => ~conn[s].watched

\* Wanting a connection ends in one, in giving up, or in being stopped.
ConnectsOrGivesUp ==
  client.wanted ~> client.status = "open" \/ client.failed >= MaxFailed \/ ~client.wanted
=============================================================================
