----------------------------- MODULE Broadcast -----------------------------
(***************************************************************************)
(* One announcement from its publication to the notifications of its       *)
(* audience: the request that publishes it, the task fan_out_announcement  *)
(* it queues before it commits, the dead letters that stand for what could *)
(* not be delivered, and the job retry_dead_letters that replays them      *)
(* (src/backend/app/modules/communication and notifications).              *)
(*                                                                         *)
(* Tasks are acknowledged late and requeued when their worker is lost; one *)
(* that raises is acknowledged and gone.  Every job is one transaction at  *)
(* READ COMMITTED which reads first and inserts at its end, so that what   *)
(* it has read may be out of date; the deliveries run in savepoints, each  *)
(* of which may fail alone.  Messages, unlike rows, are sent at once, also *)
(* from a transaction that is rolled back later.                           *)
(*                                                                         *)
(* Left out: texts and channels, preferences, the audit rows, the limit of *)
(* 200 rows a sweep takes, and time: the countdowns only order steps.      *)
(***************************************************************************)
EXTENDS Naturals, FiniteSets

CONSTANTS
  Residents,    \* users that targets resolve to
  Staff,        \* users with one of the roles an emergency is sent to
  Emergency,    \* announcement_type is emergency
  Publishers,   \* requests that publish the announcement
  Workers,      \* processes of the task queue
  Letters,      \* rows of notification_dead_letters
  MaxRetries,   \* _MAX_ATTEMPTS of the fan-out
  MaxAttempts,  \* MAX_RETRY_ATTEMPTS of a dead letter
  MaxFaults     \* bound on what goes wrong: statements, broker, workers

ASSUME UsersAssumption == IsFiniteSet(Residents) /\ IsFiniteSet(Staff) /\ Emergency \in BOOLEAN
ASSUME BoundsAssumption == MaxRetries \in Nat /\ MaxFaults \in Nat
\* A new dead letter counts one attempt, and is replayed at least once.
ASSUME AttemptsAssumption == MaxAttempts \in Nat /\ MaxAttempts > 1
\* Each letter costs a fault, so the rows never run out.
ASSUME LettersAssumption == IsFiniteSet(Letters) /\ Cardinality(Letters) >= MaxFaults

VARIABLES
  ann,      \* the committed announcement: is_published and whom its targets resolve to
  editing,  \* update_announcement has read a draft and not committed yet
  pub,      \* each publishing request
  queue,    \* the fan-out messages waiting, by their number of retries
  work,     \* each worker's job
  letter,   \* the committed dead letters
  notes,    \* how many notifications of the announcement a user has
  faults,   \* what has gone wrong so far
  blame     \* why someone may be left out or told twice

vars == <<ann, editing, pub, queue, work, letter, notes, faults, blame>>

Users == Residents \cup Staff

\* emit_to_roles, of an emergency only.
Roles == IF Emergency THEN Staff ELSE {}

Audience == ann.to \cup Roles

Tries == 0 .. MaxRetries

\* A row of notification_dead_letters, or its absence.
Kinds == {"none", "broadcast_enqueue", "bulk", "single"}
Letter(kind, to) == [kind |-> kind, to |-> to, attempts |-> 1, resolved |-> FALSE]
NoLetter == [kind |-> "none", to |-> {}, attempts |-> 0, resolved |-> FALSE]

NoNotes == [u \in Users |-> 0]
NoRows == [l \in Letters |-> 0]

\* A worker without a job.  to: the targets a fan-out has loaded; read: the attempts of
\* the rows a sweep has selected; notes, letters, done: what its transaction is to commit;
\* stale: another job has committed notifications since this one read.
Free == [job |-> "none", step |-> "idle", tries |-> 0, to |-> {}, read |-> NoRows,
         notes |-> NoNotes, letters |-> {}, done |-> {}, stale |-> FALSE]

FanOut(n) == [Free EXCEPT !.job = "fan_out", !.step = "read", !.tries = n]

-----------------------------------------------------------------------------
(* update_announcement and publish_announcement *)

\* An edit reads a draft, and commits whatever has happened to it meanwhile.
EditRead ==
  /\ ~editing /\ ~ann.published
  /\ editing' = TRUE
  /\ UNCHANGED <<ann, pub, queue, work, letter, notes, faults, blame>>

EditCommit(to) ==
  /\ editing
  /\ editing' = FALSE
  /\ ann' = [ann EXCEPT !.to = to]
  /\ blame' = blame \cup (IF ann.published THEN {"edited"} ELSE {})
  /\ UNCHANGED <<pub, queue, work, letter, notes, faults>>

\* An announcement without a target is refused; one whose targets are nobody's is not.
PublishRead(p) ==
  /\ pub[p].step = "idle" /\ ~ann.published
  /\ pub' = [pub EXCEPT ![p] = [step |-> "read", letter |-> FALSE, late |-> FALSE]]
  /\ UNCHANGED <<ann, editing, queue, work, letter, notes, faults, blame>>

\* The flush of is_published takes the row lock, then the message is sent.  When the broker
\* answers with an error a dead letter is written; the message may have been taken all the same.
PublishSend(p, sent, refused) ==
  /\ pub[p].step = "read" /\ \A q \in Publishers : pub[q].step # "sent"
  /\ sent \/ refused
  /\ faults' = faults + (IF refused THEN 1 ELSE 0) /\ faults' <= MaxFaults
  /\ queue' = IF sent THEN [queue EXCEPT ![0] = @ + 1] ELSE queue
  /\ pub' = [pub EXCEPT ![p] = [step |-> "sent", letter |-> refused, late |-> FALSE]]
  /\ UNCHANGED <<ann, editing, work, letter, notes, blame>>

PublishCommit(p) ==
  /\ pub[p].step = "sent"
  /\ ann' = [ann EXCEPT !.published = TRUE]
  /\ IF pub[p].letter
     THEN \E l \in Letters :
            /\ letter[l].kind = "none"
            /\ letter' = [letter EXCEPT ![l] = Letter("broadcast_enqueue", {})]
     ELSE UNCHANGED letter
  /\ blame' = blame \cup (IF pub[p].late THEN {"late"} ELSE {})
  /\ pub' = [pub EXCEPT ![p] = [step |-> "idle", letter |-> FALSE, late |-> FALSE]]
  /\ UNCHANGED <<editing, queue, work, notes, faults>>

\* The request fails and is rolled back; a message it has sent is not.
PublishFail(p) ==
  /\ pub[p].step # "idle" /\ faults < MaxFaults
  /\ faults' = faults + 1
  /\ pub' = [pub EXCEPT ![p] = [step |-> "idle", letter |-> FALSE, late |-> FALSE]]
  /\ UNCHANGED <<ann, editing, queue, work, letter, notes, blame>>

-----------------------------------------------------------------------------
(* fan_out_announcement *)

\* The message stays unacknowledged while its task runs.
Take(w, n) ==
  /\ work[w].step = "idle" /\ queue[n] > 0
  /\ queue' = [queue EXCEPT ![n] = @ - 1]
  /\ work' = [work EXCEPT ![w] = FanOut(n)]
  /\ UNCHANGED <<ann, editing, pub, letter, notes, faults, blame>>

\* not_published: a copy of the message is queued for later.
Postpone(w) ==
  /\ work[w].step = "read" /\ ~ann.published /\ work[w].tries < MaxRetries
  /\ queue' = [queue EXCEPT ![work[w].tries + 1] = @ + 1]
  /\ work' = [work EXCEPT ![w].step = "ack"]
  /\ UNCHANGED <<ann, editing, pub, letter, notes, faults, blame>>

\* not_published for the last time, although the publication may be about to commit.
GiveUp(w) ==
  /\ work[w].step = "read" /\ ~ann.published /\ work[w].tries = MaxRetries
  /\ work' = [work EXCEPT ![w].step = "ack"]
  /\ pub' = [p \in Publishers |->
               IF pub[p].step = "sent" THEN [pub[p] EXCEPT !.late = TRUE] ELSE pub[p]]
  /\ UNCHANGED <<ann, editing, queue, letter, notes, faults, blame>>

\* already: some notification refers to the announcement.
AlreadySent == \E u \in Users : notes[u] > 0

Skip(w) ==
  /\ work[w].step = "read" /\ ann.published /\ AlreadySent
  /\ work' = [work EXCEPT ![w].step = "ack"]
  /\ UNCHANGED <<ann, editing, pub, queue, letter, notes, faults, blame>>

\* faulty: the count of the notifications already sent is not looked at.
BeginUnchecked(w) ==
  /\ work[w].step = "read" /\ ann.published
  /\ work' = [work EXCEPT ![w] = [FanOut(work[w].tries) EXCEPT !.step = "emit", !.to = ann.to]]
  /\ UNCHANGED <<ann, editing, pub, queue, letter, notes, faults, blame>>

Begin(w) ==
  /\ work[w].step = "read" /\ ann.published /\ ~AlreadySent
  /\ work' = [work EXCEPT ![w] = [FanOut(work[w].tries) EXCEPT !.step = "emit", !.to = ann.to]]
  /\ UNCHANGED <<ann, editing, pub, queue, letter, notes, faults, blame>>

\* faulty: a failed insertion for the targets is only logged, as before M-02.
EmittedLosing(job, told, failed) ==
  [job EXCEPT !.step = "commit",
              !.notes = [u \in Users |-> (IF told /\ u \in job.to THEN 1 ELSE 0)
                                           + (IF u \in Roles \ failed THEN 1 ELSE 0)],
              !.letters = {Letter("single", {u}) : u \in failed}]

\* What a fan-out is to commit when the insertion for the targets succeeds or not, and the
\* dispatch fails for some of the roles' users: each failure is a dead letter.
Emitted(job, told, failed) ==
  [job EXCEPT !.step = "commit",
              !.notes = [u \in Users |-> (IF told /\ u \in job.to THEN 1 ELSE 0)
                                           + (IF u \in Roles \ failed THEN 1 ELSE 0)],
              !.letters = (IF told THEN {} ELSE {Letter("bulk", job.to)})
                            \cup {Letter("single", {u}) : u \in failed}]

Emit(w, told, failed) ==
  /\ work[w].job = "fan_out" /\ work[w].step = "emit"
  /\ told \/ work[w].to # {}
  /\ faults' = faults + (IF told THEN 0 ELSE 1) + Cardinality(failed) /\ faults' <= MaxFaults
  /\ work' = [work EXCEPT ![w] = Emitted(work[w], told, failed)]
  /\ UNCHANGED <<ann, editing, pub, queue, letter, notes, blame>>

Ack(w) ==
  /\ work[w].step = "ack"
  /\ work' = [work EXCEPT ![w] = Free]
  /\ UNCHANGED <<ann, editing, pub, queue, letter, notes, faults, blame>>

-----------------------------------------------------------------------------
(* retry_dead_letters *)

\* faulty: a letter is dropped one attempt too soon.
DueSooner == {l \in Letters : letter[l].kind # "none" /\ ~letter[l].resolved
                                /\ letter[l].attempts + 1 < MaxAttempts}

Due == {l \in Letters : letter[l].kind # "none" /\ ~letter[l].resolved
                          /\ letter[l].attempts < MaxAttempts}

Sweep(w) ==
  /\ work[w].step = "idle" /\ Due # {}
  /\ work' = [work EXCEPT ![w] =
       [Free EXCEPT !.job = "sweep", !.step = "emit",
                    !.read = [l \in Letters |-> IF l \in Due THEN letter[l].attempts ELSE 0]]]
  /\ UNCHANGED <<ann, editing, pub, queue, letter, notes, faults, blame>>

Selected(job) == {l \in Letters : job.read[l] > 0}
Enqueues(rows) == {l \in rows : letter[l].kind = "broadcast_enqueue"}

\* What a sweep is to commit when the rows of failed have failed again.
Replayed(job, failed) ==
  LET done == Selected(job) \ failed
      tells(u) == {l \in done \ Enqueues(done) : u \in letter[l].to}
  IN [job EXCEPT !.step = "commit", !.done = done,
                 !.notes = [u \in Users |-> Cardinality(tells(u))]]

\* resent: failed re-enqueues whose message the broker took nevertheless.
Replay(w, failed, resent) ==
  /\ work[w].job = "sweep" /\ work[w].step = "emit"
  /\ failed \subseteq Selected(work[w]) /\ resent \subseteq Enqueues(failed)
  /\ faults' = faults + Cardinality(failed) /\ faults' <= MaxFaults
  /\ work' = [work EXCEPT ![w] = Replayed(work[w], failed)]
  /\ queue' = [queue EXCEPT ![0] =
                 @ + Cardinality(Enqueues(Selected(work[w]) \ failed) \cup resent)]
  /\ UNCHANGED <<ann, editing, pub, letter, notes, blame>>

-----------------------------------------------------------------------------
(* The end of a job: job_session, and what becomes of its message *)

Tells(job) == \E u \in Users : job.notes[u] > 0

\* The rows after the commit of a sweep: the update writes what was read plus one.
Swept(job, l) ==
  IF l \in job.done THEN [letter[l] EXCEPT !.resolved = TRUE]
  ELSE IF l \in Selected(job) THEN [letter[l] EXCEPT !.attempts = job.read[l] + 1]
  ELSE letter[l]

\* Some row fails for the last time.
Exhausts(job) ==
  \E l \in Selected(job) \ job.done : ~letter[l].resolved /\ job.read[l] + 1 >= MaxAttempts

\* Another fan-out has committed dead letters, which it did not see as deliveries.
FannedOut == \E l \in Letters : letter[l].kind \in {"bulk", "single"}

Blamed(job) ==
  (IF job.stale /\ (Tells(job) \/ job.letters # {}) THEN {"overlap"} ELSE {})
    \cup (IF job.job = "fan_out" /\ FannedOut THEN {"again"} ELSE {})
    \cup (IF Exhausts(job) THEN {"gave up"} ELSE {})

\* new: the rows that the letters of a fan-out are inserted as.
Commit(w) ==
  LET job == work[w]
      free == {l \in Letters : letter[l].kind = "none"}
  IN /\ job.step = "commit"
     /\ notes' = [u \in Users |-> notes[u] + job.notes[u]]
     /\ \E new \in [job.letters -> free] :
          /\ \A a, b \in job.letters : new[a] = new[b] => a = b
          /\ letter' = [l \in Letters |->
               IF \E a \in job.letters : new[a] = l
               THEN CHOOSE a \in job.letters : new[a] = l
               ELSE Swept(job, l)]
     /\ work' = [v \in Workers |->
          IF v # w THEN [work[v] EXCEPT !.stale = @ \/ (Tells(job) /\ work[v].step \in {"emit", "commit"})]
          ELSE IF job.job = "fan_out" THEN [FanOut(job.tries) EXCEPT !.step = "ack"] ELSE Free]
     /\ blame' = blame \cup Blamed(job)
     /\ UNCHANGED <<ann, editing, pub, queue, faults>>

\* The task raises: its transaction is rolled back, and the message is acknowledged.
Fail(w) ==
  /\ work[w].step \in {"read", "emit", "commit"} /\ faults < MaxFaults
  /\ faults' = faults + 1
  /\ work' = [work EXCEPT ![w] = Free]
  /\ blame' = blame \cup (IF work[w].job = "fan_out" THEN {"failed"} ELSE {})
  /\ UNCHANGED <<ann, editing, pub, queue, letter, notes>>

\* The worker is lost, before or after its commit: the message is delivered again.
\* A lost sweep is made up for by the next one.
Lose(w) ==
  /\ work[w].step # "idle" /\ faults < MaxFaults
  /\ faults' = faults + 1
  /\ work' = [work EXCEPT ![w] = Free]
  /\ queue' = IF work[w].job = "fan_out" THEN [queue EXCEPT ![work[w].tries] = @ + 1] ELSE queue
  /\ UNCHANGED <<ann, editing, pub, letter, notes, blame>>

-----------------------------------------------------------------------------

Init ==
  /\ ann \in [published : {FALSE}, to : SUBSET Residents] /\ editing = FALSE
  /\ pub = [p \in Publishers |-> [step |-> "idle", letter |-> FALSE, late |-> FALSE]]
  /\ queue = [n \in Tries |-> 0]
  /\ work = [w \in Workers |-> Free]
  /\ letter = [l \in Letters |-> NoLetter]
  /\ notes = NoNotes /\ faults = 0 /\ blame = {}

Request(p) ==
  PublishRead(p) \/ (\E sent, refused \in BOOLEAN : PublishSend(p, sent, refused))
    \/ PublishCommit(p) \/ PublishFail(p)

\* A worker's steps when nothing breaks down; deliveries may fail.
Job(w) ==
  \/ \E n \in Tries : Take(w, n)
  \/ Postpone(w) \/ GiveUp(w) \/ Skip(w) \/ Begin(w)
  \/ \E told \in BOOLEAN, failed \in SUBSET Roles : Emit(w, told, failed)
  \/ Ack(w) \/ Sweep(w)
  \/ \E failed, resent \in SUBSET Letters : Replay(w, failed, resent)
  \/ Commit(w)

Next ==
  \/ EditRead \/ \E to \in SUBSET Residents : EditCommit(to)
  \/ \E p \in Publishers : Request(p)
  \/ \E w \in Workers : Job(w) \/ Fail(w) \/ Lose(w)

Spec == Init /\ [][Next]_vars

\* A worker goes on with its job and takes the next one, messages and the beat's sweep alike.
FairSpec == Spec /\ \A w \in Workers : WF_vars(Job(w))

-----------------------------------------------------------------------------
Causes == {"edited", "late", "failed", "gave up", "overlap", "again"}

DeadLetters == [kind : Kinds, to : SUBSET Users, attempts : Nat, resolved : BOOLEAN]

Jobs == [job : {"none", "fan_out", "sweep"}, step : {"idle", "read", "emit", "commit", "ack"},
         tries : Tries, to : SUBSET Residents, read : [Letters -> Nat],
         notes : [Users -> Nat], letters : SUBSET DeadLetters, done : SUBSET Letters, stale : BOOLEAN]

\* Types.
TypeOK ==
  /\ ann \in [published : BOOLEAN, to : SUBSET Residents] /\ editing \in BOOLEAN
  /\ pub \in [Publishers -> [step : {"idle", "read", "sent"}, letter : BOOLEAN, late : BOOLEAN]]
  /\ queue \in [Tries -> Nat] /\ work \in [Workers -> Jobs]
  /\ letter \in [Letters -> DeadLetters]
  /\ notes \in [Users -> Nat] /\ faults \in 0 .. MaxFaults /\ blame \in SUBSET Causes

\* A fan-out that is waiting, running or about to commit something for u, or a letter
\* that will be replayed.
Coming(u) ==
  \/ \E n \in Tries : queue[n] > 0
  \/ \E w \in Workers :
       work[w].job = "fan_out" /\ \/ work[w].step \in {"read", "emit"}
                                  \/ work[w].step = "commit" /\ work[w].notes[u] > 0
                                  \/ work[w].step = "commit" /\ \E a \in work[w].letters : u \in a.to
  \/ \E l \in Due : letter[l].kind = "broadcast_enqueue" \/ u \in letter[l].to

\* Why a member of the audience may go without a notification.
Forgiven == blame \cap {"edited", "late", "failed", "gave up"} # {}

\* Everyone a published announcement addresses has been notified, or a message, a running
\* task or a dead letter that will be replayed is going to see to it.  The exceptions are
\* named: the targets were edited after the publication, the task gave up before the
\* publication committed, the task itself raised, a dead letter used up its attempts.
NobodyForgotten ==
  ann.published => \A u \in Audience : notes[u] > 0 \/ Coming(u) \/ Forgiven

\* How often u is to be notified: once as a target's resident, once for a role.
Meant(u) ==
  IF ann.published THEN (IF u \in ann.to THEN 1 ELSE 0) + (IF u \in Roles THEN 1 ELSE 0) ELSE 0

\* Nobody hears of a draft or of a publication rolled back, although its task is queued
\* before the commit; and nobody who is not addressed, or twice, hears of an announcement
\* (tasks.py: "Idempotent ... Safe to retry / double-fire") unless two jobs overlapped, a
\* fan-out ran after another that had left dead letters, or an edit overtook the publication.
ToldAsMeant ==
  /\ ~ann.published => \A u \in Users : notes[u] = 0
  /\ \A u \in Users : notes[u] <= Meant(u) \/ blame \cap {"overlap", "again", "edited"} # {}

\* Everyone addressed is notified in the end, or one of the causes has come about.
EverybodySettled ==
  \A u \in Users :
    (ann.published /\ u \in Audience) ~> (notes[u] > 0 \/ Forgiven)
=============================================================================
