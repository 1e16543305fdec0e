-------------------------- MODULE BroadcastProofs --------------------------
(***************************************************************************)
(* What holds of an announcement for any audience, any number of           *)
(* publishing requests, workers and dead letters, and any faults.  The     *)
(* argument follows the duty to tell a user: it lies with the publishing   *)
(* request, then with a message, the task that runs it, and at last with a *)
(* notification or a dead letter that will be replayed, and each step that *)
(* lays it down hands it on or leaves a cause in blame.                    *)
(***************************************************************************)
EXTENDS Broadcast, FiniteSetTheorems, TLAPS

Deliveries == {"bulk", "single"}

\* A dead letter, committed or about to be, that stands for a notification of u.
Covers(a, u) == a.kind \in Deliveries /\ u \in a.to

\* u has been notified, or will be by a replay, or is left out for a cause.
Settled(u) ==
  \/ notes[u] > 0
  \/ \E l \in Due : Covers(letter[l], u)
  \/ Forgiven

\* A fan-out that has not ended yet sees to u.
Addresses(job, u) ==
  /\ job.job = "fan_out"
  /\ \/ job.step \in {"read", "emit"}
     \/ job.step = "commit" /\ (job.notes[u] > 0 \/ \E a \in job.letters : Covers(a, u))

Waiting == \E n \in Tries : queue[n] > 0

\* u is settled, or a message or a running task will settle them.
Handled(u) == Settled(u) \/ Waiting \/ \E w \in Workers : Addresses(work[w], u)

Clean == blame \cap {"overlap", "again", "edited"} = {}

One(P) == IF P THEN 1 ELSE 0

\* An unresolved letter, a letter about to be written, a replayed letter of this kind covers u.
OpenFor(kind, u) ==
  \E l \in Letters : letter[l].kind = kind /\ ~letter[l].resolved /\ u \in letter[l].to
WrittenFor(job, kind, u) == \E a \in job.letters : a.kind = kind /\ u \in a.to
ReplayedFor(job, kind, u) == \E l \in job.done : letter[l].kind = kind /\ u \in letter[l].to

\* The letters a fan-out is to commit: new ones for somebody, one for each notification.
LettersFit(job) ==
  /\ \A a \in job.letters :
       a.kind \in Deliveries /\ a.to # {} /\ a.attempts = 1 /\ a.resolved = FALSE
  /\ \A a, b \in job.letters : a.kind = b.kind /\ a.to \cap b.to # {} => a = b

\* Everyone a fan-out is for gets a notification or a letter, as many as there are to give.
GivesAll(job) ==
  \A u \in Users :
    /\ u \in job.to \cup Roles => job.notes[u] > 0 \/ \E a \in job.letters : Covers(a, u)
    /\ job.notes[u] + One(WrittenFor(job, "bulk", u)) + One(WrittenFor(job, "single", u))
         <= One(u \in job.to) + One(u \in Roles)

\* The fields a job uses.
Shape(job) ==
  /\ job.job = "none" <=> job.step = "idle"
  /\ job.job # "sweep" => job.read = NoRows /\ job.done = {}
  /\ job.job = "sweep" => job.step \in {"emit", "commit"} /\ job.letters = {}
  /\ job.done \subseteq Selected(job)
  /\ LettersFit(job)

\* A fan-out that has read is worth what it has read.
FanOutSound(job) ==
  job.job = "fan_out" /\ job.step \in {"emit", "commit"} =>
    /\ ann.published
    /\ job.to = ann.to \/ "edited" \in blame
    /\ ~job.stale => ~AlreadySent
    /\ job.step = "commit" => GivesAll(job)

\* A sweep's rows exist, and those it replayed are worth what it is to commit.
SweepSound(job) ==
  job.job = "sweep" =>
    /\ \A l \in Selected(job) :
         /\ letter[l].kind # "none"
         /\ letter[l].kind \in Deliveries /\ ~job.stale => ~letter[l].resolved
    /\ job.step = "commit" =>
         /\ \A l \in job.done : letter[l].kind = "broadcast_enqueue" =>
              \A u \in Audience : Handled(u)
         /\ \A u \in Users :
              /\ job.notes[u] > 0 <=> \E l \in job.done : Covers(letter[l], u)
              /\ Clean => job.notes[u] <= One(ReplayedFor(job, "bulk", u))
                                            + One(ReplayedFor(job, "single", u))

JobsSound == \A w \in Workers : Shape(work[w]) /\ FanOutSound(work[w]) /\ SweepSound(work[w])

\* Letters are written for published announcements and for somebody.
LettersSound ==
  \A l \in Letters :
    /\ letter[l].kind # "none" => ann.published
    /\ letter[l].kind \in Deliveries => letter[l].to # {}

\* Once a fan-out has committed, everyone is settled; the next one rightly skips.
SentSettled ==
  AlreadySent \/ FannedOut => ann.published /\ \A u \in Audience : Settled(u)

\* The duty after the publication, and before it.
Announced ==
  ann.published => \A u \in Audience :
    Handled(u) \/ \E l \in Due : letter[l].kind = "broadcast_enqueue"

Queued ==
  \A p \in Publishers : pub[p].step = "sent" /\ ~ann.published =>
    \/ pub[p].letter \/ pub[p].late
    \/ Waiting \/ \E w \in Workers : work[w].job = "fan_out" /\ work[w].step = "read"
    \/ "failed" \in blame

\* As long as nothing is repeated, what a user has and is to get is what is meant.
Counted ==
  Clean =>
    /\ \A l, m \in Letters :
         letter[l].kind \in Deliveries /\ letter[l].kind = letter[m].kind
           /\ letter[l].to \cap letter[m].to # {} => l = m
    /\ \A u \in Users :
         notes[u] + One(OpenFor("bulk", u)) + One(OpenFor("single", u)) <= Meant(u)

IInv ==
  /\ TypeOK
  /\ JobsSound
  /\ LettersSound
  /\ SentSettled
  /\ Announced
  /\ Queued
  /\ Counted

-----------------------------------------------------------------------------
(* Types. *)

LEMMA FreeType == Free \in Jobs /\ NoRows \in [Letters -> Nat] /\ NoNotes \in [Users -> Nat]
<1>1. NoRows \in [Letters -> Nat] /\ NoNotes \in [Users -> Nat]
  BY DEF NoRows, NoNotes
<1>2. 0 \in Tries
  BY BoundsAssumption DEF Tries
<1> QED
  BY <1>1, <1>2 DEF Free, Jobs

LEMMA FreeShape ==
  /\ Free.job = "none" /\ Free.step = "idle" /\ Free.read = NoRows /\ Free.notes = NoNotes
  /\ Free.letters = {} /\ Free.done = {} /\ Free.stale = FALSE
  BY DEF Free

LEMMA FanOutType ==
  ASSUME NEW n \in Tries
  PROVE  /\ FanOut(n) \in Jobs
         /\ FanOut(n).job = "fan_out" /\ FanOut(n).step = "read" /\ FanOut(n).tries = n
         /\ FanOut(n).read = NoRows /\ FanOut(n).letters = {} /\ FanOut(n).done = {}
         /\ FanOut(n).stale = FALSE
  BY FreeType, FreeShape DEF FanOut, Jobs

\* A fan-out that begins, one that ends, a sweep that begins.
Begun(n, to) == [FanOut(n) EXCEPT !.step = "emit", !.to = to]

LEMMA BegunType ==
  ASSUME NEW n \in Tries, NEW to \in SUBSET Residents
  PROVE  /\ Begun(n, to) \in Jobs
         /\ Begun(n, to).job = "fan_out" /\ Begun(n, to).step = "emit" /\ Begun(n, to).to = to
         /\ Begun(n, to).read = NoRows /\ Begun(n, to).letters = {} /\ Begun(n, to).done = {}
         /\ Begun(n, to).stale = FALSE
<1>1. PICK f \in Jobs : f = FanOut(n) /\ f.job = "fan_out" /\ f.read = NoRows /\ f.letters = {}
                        /\ f.done = {} /\ f.stale = FALSE
  BY FanOutType
<1>2. Begun(n, to) = [f EXCEPT !.step = "emit", !.to = to]
  BY <1>1 DEF Begun
<1> QED
  BY <1>1, <1>2 DEF Jobs

LEMMA SteppedType ==
  ASSUME NEW job \in Jobs, NEW step \in {"idle", "read", "emit", "commit", "ack"},
         NEW j, j = [job EXCEPT !.step = step]
  PROVE  /\ j \in Jobs
         /\ j.step = step /\ j.job = job.job /\ j.to = job.to /\ j.read = job.read
         /\ j.notes = job.notes /\ j.letters = job.letters /\ j.done = job.done
         /\ j.stale = job.stale /\ j.tries = job.tries
  BY DEF Jobs

Sweeping(read) == [Free EXCEPT !.job = "sweep", !.step = "emit", !.read = read]

LEMMA SweepType ==
  ASSUME NEW read \in [Letters -> Nat]
  PROVE  /\ Sweeping(read) \in Jobs
         /\ Sweeping(read).job = "sweep" /\ Sweeping(read).step = "emit"
         /\ Sweeping(read).read = read /\ Sweeping(read).letters = {}
         /\ Sweeping(read).done = {} /\ Sweeping(read).stale = FALSE
  BY FreeType, FreeShape DEF Jobs, Sweeping

Dispatched(job, told, failed) ==
  [u \in Users |-> (IF told = TRUE /\ u \in job.to THEN 1 ELSE 0) + (IF u \in Roles \ failed THEN 1 ELSE 0)]
Written(job, told, failed) ==
  (IF told = TRUE THEN {} ELSE {Letter("bulk", job.to)}) \cup {Letter("single", {u}) : u \in failed}

LEMMA RolesUsers == Roles \subseteq Users /\ Residents \subseteq Users /\ IsFiniteSet(Roles)
  BY UsersAssumption, FS_EmptySet DEF Roles, Users

LEMMA EmittedType ==
  ASSUME NEW job \in Jobs, NEW told \in BOOLEAN, NEW failed \in SUBSET Roles,
         NEW j, j = Emitted(job, told, failed)
  PROVE  /\ j \in Jobs
         /\ j.step = "commit" /\ j.job = job.job /\ j.to = job.to /\ j.read = job.read
         /\ j.done = job.done /\ j.stale = job.stale /\ j.tries = job.tries
         /\ j.notes = Dispatched(job, told, failed) /\ j.letters = Written(job, told, failed)
<1>1. Dispatched(job, told, failed) \in [Users -> Nat]
  BY DEF Dispatched
<1>2. \A u \in failed : {u} \in SUBSET Users
  BY RolesUsers
<1>3. job.to \in SUBSET Users
  BY RolesUsers DEF Jobs
<1>4. \A kind \in {"bulk", "single"}, to \in SUBSET Users :
        Letter(kind, to) \in DeadLetters
  BY DEF Letter, Kinds, DeadLetters
<1>5. Written(job, told, failed) \in SUBSET DeadLetters
  BY <1>2, <1>3, <1>4 DEF Written
<1>6. j = [job EXCEPT !.step = "commit", !.notes = Dispatched(job, told, failed),
                      !.letters = Written(job, told, failed)]
  <2>1. CASE told = TRUE
    BY <2>1 DEF Emitted, Dispatched, Written
  <2>2. CASE told = FALSE
    BY <2>2 DEF Emitted, Dispatched, Written
  <2> QED
    BY <2>1, <2>2
<1> QED
  BY <1>1, <1>5, <1>6 DEF Jobs

Done(job, failed) == Selected(job) \ failed
TellsOf(job, failed, u) ==
  {l \in Done(job, failed) \ Enqueues(Done(job, failed)) : u \in letter[l].to}

LEMMA SetsOfLetters ==
  ASSUME NEW S \in SUBSET Letters
  PROVE  IsFiniteSet(S) /\ Cardinality(S) \in Nat /\ (Cardinality(S) = 0 <=> S = {})
<1>1. IsFiniteSet(S)
  BY LettersAssumption, FS_Subset
<1> QED
  BY <1>1, FS_CardinalityType, FS_EmptySet

LEMMA ReplayedType ==
  ASSUME NEW job \in Jobs, NEW failed \in SUBSET Letters,
         NEW j, j = Replayed(job, failed)
  PROVE  /\ j \in Jobs
         /\ j.step = "commit" /\ j.job = job.job /\ j.to = job.to /\ j.read = job.read
         /\ j.letters = job.letters /\ j.stale = job.stale /\ j.tries = job.tries
         /\ j.done = Done(job, failed)
         /\ j.notes = [u \in Users |-> Cardinality(TellsOf(job, failed, u))]
<1>1. Done(job, failed) \in SUBSET Letters
  BY DEF Done, Selected
<1>2. \A u \in Users : TellsOf(job, failed, u) \in SUBSET Letters
  BY <1>1 DEF TellsOf
<1>3. [u \in Users |-> Cardinality(TellsOf(job, failed, u))] \in [Users -> Nat]
  BY <1>2, SetsOfLetters
<1>4. j = [job EXCEPT !.step = "commit", !.done = Done(job, failed),
                      !.notes = [u \in Users |-> Cardinality(TellsOf(job, failed, u))]]
  BY DEF Replayed, Done, TellsOf
<1> QED
  BY <1>1, <1>3, <1>4 DEF Jobs

\* The jobs' update, and what nobody else than the fields named changes.
LEMMA WorkType ==
  ASSUME TypeOK, NEW w \in Workers, NEW j \in Jobs, work' = [work EXCEPT ![w] = j]
  PROVE  /\ work' \in [Workers -> Jobs] /\ work'[w] = j
         /\ \A v \in Workers : v # w => work'[v] = work[v]
  BY DEF TypeOK

LEMMA QueueType ==
  ASSUME TypeOK, NEW n \in Tries, NEW k \in Nat, queue' = [queue EXCEPT ![n] = @ + k]
  PROVE  /\ queue' \in [Tries -> Nat]
         /\ Waiting => Waiting'
         /\ k > 0 => Waiting'
<1>1. queue[n] \in Nat /\ queue \in [Tries -> Nat]
  BY DEF TypeOK
<1>2. queue' \in [Tries -> Nat] /\ queue'[n] = queue[n] + k
      /\ \A m \in Tries : queue'[m] >= queue[m]
  BY <1>1
<1> QED
  BY <1>1, <1>2 DEF Waiting

\* One more dead letter, for a message the broker refused.
LEMMA EnqueueType ==
  Letter("broadcast_enqueue", {}) \in DeadLetters
  BY DEF Letter, Kinds, DeadLetters

Resolved(r) == [r EXCEPT !.resolved = TRUE]
Again(r, n) == [r EXCEPT !.attempts = n]

LEMMA ResolvedFields ==
  ASSUME NEW r \in DeadLetters
  PROVE  /\ Resolved(r) \in DeadLetters /\ Resolved(r).kind = r.kind /\ Resolved(r).to = r.to
         /\ Resolved(r).resolved = TRUE /\ Resolved(r).attempts = r.attempts
  BY DEF Resolved, DeadLetters

LEMMA AgainFields ==
  ASSUME NEW r \in DeadLetters, NEW n \in Nat
  PROVE  /\ Again(r, n) \in DeadLetters /\ Again(r, n).kind = r.kind /\ Again(r, n).to = r.to
         /\ Again(r, n).resolved = r.resolved /\ Again(r, n).attempts = n
  BY DEF Again, DeadLetters

Tried(job, l) == job.read[l] + 1

\* What the commit of a job makes of a row that was there.
LEMMA SweptRow ==
  ASSUME TypeOK, NEW job \in Jobs, NEW l \in Letters
  PROVE  /\ Swept(job, l) \in DeadLetters
         /\ Swept(job, l).kind = letter[l].kind /\ Swept(job, l).to = letter[l].to
         /\ l \in job.done => Swept(job, l).resolved = TRUE
         /\ l \notin job.done => Swept(job, l).resolved = letter[l].resolved
         /\ l \notin job.done /\ l \in Selected(job) => Swept(job, l).attempts = Tried(job, l)
         /\ l \notin job.done /\ l \notin Selected(job) => Swept(job, l) = letter[l]
<1>1. letter[l] \in DeadLetters
  BY DEF TypeOK
<1>2. Tried(job, l) \in Nat
  BY DEF Jobs, Tried
<1>3. Swept(job, l) = IF l \in job.done THEN Resolved(letter[l])
                      ELSE IF l \in Selected(job) THEN Again(letter[l], Tried(job, l))
                      ELSE letter[l]
  BY DEF Swept, Resolved, Again, Tried
<1>4. CASE l \in job.done
  BY <1>1, <1>3, <1>4, ResolvedFields
<1>5. CASE l \notin job.done /\ l \in Selected(job)
  BY <1>1, <1>2, <1>3, <1>5, AgainFields
<1>6. CASE l \notin job.done /\ l \notin Selected(job)
  BY <1>1, <1>3, <1>6
<1> QED
  BY <1>4, <1>5, <1>6

\* The rows after a commit: a letter of the job in a row that was free, or what was there.
LEMMA Committed ==
  ASSUME TypeOK, NEW w \in Workers, Commit(w)
  PROVE  /\ \A l \in Letters :
              \/ letter'[l] = Swept(work[w], l)
                 /\ letter'[l].kind = letter[l].kind /\ letter'[l].to = letter[l].to
              \/ letter[l].kind = "none" /\ letter'[l] \in work[w].letters
         /\ \A a \in work[w].letters : \E l \in Letters : letter[l].kind = "none" /\ letter'[l] = a
         /\ \A l, m \in Letters : letter'[l] = letter'[m] /\ letter'[l] # Swept(work[w], l)
              /\ letter'[m] # Swept(work[w], m) => l = m
         /\ letter' \in [Letters -> DeadLetters]
<1> DEFINE job == work[w]
           free == {l \in Letters : letter[l].kind = "none"}
<1>1. job \in Jobs
  BY DEF TypeOK
<1>2. PICK new \in [job.letters -> free] :
        /\ \A a, b \in job.letters : new[a] = new[b] => a = b
        /\ letter' = [l \in Letters |->
             IF \E a \in job.letters : new[a] = l
             THEN CHOOSE a \in job.letters : new[a] = l
             ELSE Swept(job, l)]
  BY DEF Commit
<1>3. \A a \in job.letters : letter'[new[a]] = a /\ new[a] \in free
  BY <1>2
<1>4. \A l \in Letters : (\A a \in job.letters : new[a] # l) => letter'[l] = Swept(job, l)
  BY <1>2
<1>5. \A a \in job.letters : a \in DeadLetters
  BY <1>1 DEF Jobs
<1>6. ASSUME NEW l \in Letters PROVE letter'[l] \in DeadLetters
  <2>1. CASE \A a \in job.letters : new[a] # l
    BY <1>1, <1>4, <2>1, SweptRow
  <2>2. CASE \E a \in job.letters : new[a] = l
    BY <1>3, <1>5, <2>2
  <2> QED
    BY <2>1, <2>2
<1>7. letter' \in [Letters -> DeadLetters]
  BY <1>2, <1>6
<1>8. ASSUME NEW l \in Letters
      PROVE  \/ letter'[l] = Swept(job, l)
                /\ letter'[l].kind = letter[l].kind /\ letter'[l].to = letter[l].to
             \/ letter[l].kind = "none" /\ letter'[l] \in job.letters
  <2>1. CASE \A a \in job.letters : new[a] # l
    <3>1. letter'[l] = Swept(job, l)
      BY <1>4, <2>1
    <3>2. Swept(job, l).kind = letter[l].kind /\ Swept(job, l).to = letter[l].to
      BY <1>1, SweptRow
    <3> QED
      BY <3>1, <3>2
  <2>2. CASE \E a \in job.letters : new[a] = l
    <3>1. PICK a \in job.letters : new[a] = l
      BY <2>2
    <3>2. letter'[l] = a /\ l \in free
      BY <1>3, <3>1
    <3> QED
      BY <3>1, <3>2
  <2> QED
    BY <2>1, <2>2
<1>9. \A a \in job.letters : \E l \in Letters : letter[l].kind = "none" /\ letter'[l] = a
  BY <1>3
<1>10. \A l, m \in Letters : letter'[l] = letter'[m] /\ letter'[l] # Swept(job, l)
         /\ letter'[m] # Swept(job, m) => l = m
  BY <1>3, <1>4
<1> QED
  BY <1>7, <1>8, <1>9, <1>10

LEMMA FaultsType ==
  ASSUME TypeOK, NEW k \in Nat, faults' = faults + k, faults' <= MaxFaults
  PROVE  faults' \in 0 .. MaxFaults
  BY BoundsAssumption DEF TypeOK

LEMMA InitType == Init => TypeOK
<1> SUFFICES ASSUME Init PROVE TypeOK
  OBVIOUS
<1>1. NoLetter \in DeadLetters
  BY DEF NoLetter, DeadLetters, Kinds
<1>2. 0 \in 0 .. MaxFaults
  BY BoundsAssumption
<1> QED
  BY <1>1, <1>2, FreeType DEF Init, TypeOK

LEMMA RequestType ==
  ASSUME TypeOK, NEW p \in Publishers, Request(p)
  PROVE  TypeOK'
<1>1. 0 \in Tries
  BY BoundsAssumption DEF Tries
<1>2. CASE PublishRead(p)
  BY <1>2 DEF PublishRead, TypeOK
<1>3. ASSUME NEW sent \in BOOLEAN, NEW refused \in BOOLEAN, PublishSend(p, sent, refused)
      PROVE  TypeOK'
  <2>1. faults' \in 0 .. MaxFaults
    BY <1>3 DEF PublishSend, TypeOK
  <2>2. queue' \in [Tries -> Nat]
    BY <1>1, <1>3 DEF PublishSend, TypeOK
  <2> QED
    BY <1>3, <2>1, <2>2 DEF PublishSend, TypeOK
<1>4. CASE PublishCommit(p)
  <2>1. letter' \in [Letters -> DeadLetters]
    BY <1>4, EnqueueType DEF PublishCommit, TypeOK
  <2>2. ann' \in [published : BOOLEAN, to : SUBSET Residents]
    BY <1>4 DEF PublishCommit, TypeOK
  <2>3. blame' \in SUBSET Causes
    BY <1>4 DEF PublishCommit, TypeOK, Causes
  <2> QED
    BY <1>4, <2>1, <2>2, <2>3 DEF PublishCommit, TypeOK
<1>5. CASE PublishFail(p)
  BY <1>5, BoundsAssumption DEF PublishFail, TypeOK
<1> QED
  BY <1>2, <1>3, <1>4, <1>5 DEF Request

\* What the commit of a job adds.
LEMMA CommitType ==
  ASSUME TypeOK, NEW w \in Workers, Commit(w)
  PROVE  /\ TypeOK'
         /\ \A v \in Workers : v # w =>
              /\ work'[v].step = work[v].step /\ work'[v].job = work[v].job
              /\ work'[v].to = work[v].to /\ work'[v].read = work[v].read
              /\ work'[v].notes = work[v].notes /\ work'[v].letters = work[v].letters
              /\ work'[v].done = work[v].done /\ work'[v].tries = work[v].tries
              /\ work'[v].stale <=> work[v].stale \/ (Tells(work[w]) /\ work[v].step \in {"emit", "commit"})
         /\ \/ work[w].job = "fan_out" /\ work'[w].job = "fan_out" /\ work'[w].step = "ack"
               /\ work'[w].read = NoRows /\ work'[w].done = {} /\ work'[w].letters = {}
            \/ work[w].job # "fan_out" /\ work'[w] = Free
<1> DEFINE job == work[w]
<1>0. job \in Jobs /\ job.tries \in Tries /\ work \in [Workers -> Jobs]
  BY DEF TypeOK, Jobs
<1>1. ASSUME NEW v \in Workers, v # w
      PROVE  work'[v] = [work[v] EXCEPT !.stale = @ \/ (Tells(job) /\ work[v].step \in {"emit", "commit"})]
  BY <1>1 DEF Commit
<1>2. work'[w] = IF job.job = "fan_out" THEN [FanOut(job.tries) EXCEPT !.step = "ack"] ELSE Free
  BY DEF Commit
<1>3. ASSUME NEW v \in Workers, v # w
      PROVE  /\ work'[v] \in Jobs
             /\ work'[v].step = work[v].step /\ work'[v].job = work[v].job
             /\ work'[v].to = work[v].to /\ work'[v].read = work[v].read
             /\ work'[v].notes = work[v].notes /\ work'[v].letters = work[v].letters
             /\ work'[v].done = work[v].done /\ work'[v].tries = work[v].tries
             /\ work'[v].stale <=> work[v].stale \/ (Tells(job) /\ work[v].step \in {"emit", "commit"})
  <2> DEFINE x == Tells(job) /\ work[v].step \in {"emit", "commit"}
  <2>1. work[v] \in Jobs /\ x \in BOOLEAN
    BY <1>0 DEF Tells
  <2>2. work'[v] = [work[v] EXCEPT !.stale = @ \/ x]
    BY <1>1, <1>3
  <2>3. work[v].stale \in BOOLEAN
    BY <2>1 DEF Jobs
  <2>4. PICK y \in BOOLEAN : (y <=> (work[v].stale \/ x)) /\ work'[v] = [work[v] EXCEPT !.stale = y]
    BY <2>1, <2>2, <2>3
  <2>5. /\ work'[v] \in Jobs
        /\ work'[v].step = work[v].step /\ work'[v].job = work[v].job
        /\ work'[v].to = work[v].to /\ work'[v].read = work[v].read
        /\ work'[v].notes = work[v].notes /\ work'[v].letters = work[v].letters
        /\ work'[v].done = work[v].done /\ work'[v].tries = work[v].tries
        /\ work'[v].stale = y
    BY <2>1, <2>4 DEF Jobs
  <2> QED
    BY <2>4, <2>5
<1>4. /\ work'[w] \in Jobs
      /\ \/ job.job = "fan_out" /\ work'[w].job = "fan_out" /\ work'[w].step = "ack"
            /\ work'[w].read = NoRows /\ work'[w].done = {} /\ work'[w].letters = {}
         \/ job.job # "fan_out" /\ work'[w] = Free
  <2>1. CASE job.job = "fan_out"
    <3>1. PICK f \in Jobs : f.job = "fan_out" /\ f.read = NoRows /\ f.done = {} /\ f.letters = {}
                            /\ work'[w] = [f EXCEPT !.step = "ack"]
      BY <1>0, <1>2, <2>1, FanOutType
    <3>2. /\ work'[w] \in Jobs /\ work'[w].job = "fan_out" /\ work'[w].step = "ack"
          /\ work'[w].read = NoRows /\ work'[w].done = {} /\ work'[w].letters = {}
      BY <3>1, SteppedType
    <3> QED
      BY <2>1, <3>2
  <2>2. CASE job.job # "fan_out"
    BY <1>2, <2>2, FreeType
  <2> QED
    BY <2>1, <2>2
<1>5. work' \in [Workers -> Jobs]
  <2>1. work' = [v \in Workers |->
          IF v # w
          THEN [work[v] EXCEPT !.stale = @ \/ (Tells(job) /\ work[v].step \in {"emit", "commit"})]
          ELSE IF job.job = "fan_out" THEN [FanOut(job.tries) EXCEPT !.step = "ack"] ELSE Free]
    BY DEF Commit
  <2>2. \A v \in Workers : work'[v] \in Jobs
    BY <1>3, <1>4
  <2> QED
    BY <2>1, <2>2
<1>6. letter' \in [Letters -> DeadLetters]
  BY Committed
<1>7. notes' \in [Users -> Nat]
  BY <1>0 DEF Commit, TypeOK, Jobs
<1>8. blame' \in SUBSET Causes
  BY DEF Commit, Blamed, TypeOK, Causes
<1>9. UNCHANGED <<ann, editing, pub, queue, faults>>
  BY DEF Commit
<1>10. TypeOK'
  BY <1>5, <1>6, <1>7, <1>8, <1>9 DEF TypeOK
<1> QED
  BY <1>3, <1>4, <1>10

-----------------------------------------------------------------------------
(* What a step of one job leaves in place, all but its commit. *)

LEMMA SettledStays ==
  ASSUME NEW u \in Users, Settled(u), UNCHANGED <<letter, notes>>, blame \subseteq blame'
  PROVE  Settled(u)'
  BY DEF Settled, Due, Forgiven

LEMMA FanOutStays ==
  ASSUME NEW job \in Jobs, FanOutSound(job), UNCHANGED <<ann, notes>>, blame \subseteq blame'
  PROVE  FanOutSound(job)'
  BY DEF FanOutSound, AlreadySent

LEMMA SweepStays ==
  ASSUME NEW job \in Jobs, SweepSound(job), Shape(job), LettersSound,
         UNCHANGED <<ann, letter>>, blame \subseteq blame',
         ann.published => \A u \in Audience : Handled(u) => Handled(u)'
  PROVE  SweepSound(job)'
<1> SUFFICES ASSUME job.job = "sweep" PROVE SweepSound(job)'
  BY DEF SweepSound
<1>1. /\ \A l \in Selected(job) :
           /\ letter'[l].kind # "none"
           /\ letter'[l].kind \in Deliveries /\ ~job.stale => ~letter'[l].resolved
  BY DEF SweepSound
<1>2. ASSUME job.step = "commit", NEW l \in job.done, letter[l].kind = "broadcast_enqueue",
             NEW u \in Audience
      PROVE  Handled(u)'
  <2>1. Handled(u)
    BY <1>2 DEF SweepSound
  <2>2. ann.published
    BY <1>2 DEF Shape, Selected, LettersSound
  <2> QED
    BY <2>1, <2>2
<1>3. Audience' = Audience
  BY DEF Audience
<1>4. Clean' => Clean
  BY DEF Clean
<1>5. ASSUME job.step = "commit", NEW u \in Users
      PROVE  /\ job.notes[u] > 0 <=> \E l \in job.done : Covers(letter'[l], u)
             /\ Clean' => job.notes[u] <= One(ReplayedFor(job, "bulk", u)')
                                            + One(ReplayedFor(job, "single", u)')
  BY <1>4, <1>5 DEF SweepSound, ReplayedFor
<1> QED
  BY <1>1, <1>2, <1>3, <1>5 DEF SweepSound

\* The duty towards u survives a step of w when w itself hands it on.
LEMMA HandedOn ==
  ASSUME TypeOK, NEW w \in Workers, NEW j \in Jobs, work' = [work EXCEPT ![w] = j],
         UNCHANGED <<letter, notes>>, blame \subseteq blame',
         Waiting => Waiting' \/ (j.job = "fan_out" /\ j.step = "read"),
         NEW u \in Users, Handled(u), Addresses(work[w], u) => Handled(u)'
  PROVE  Handled(u)'
<1>1. /\ work'[w] = j
      /\ \A v \in Workers : v # w => work'[v] = work[v]
  BY WorkType
<1>2. CASE Settled(u)
  BY <1>2, SettledStays DEF Handled
<1>3. CASE Waiting
  BY <1>1, <1>3 DEF Handled, Addresses
<1>4. ASSUME NEW v \in Workers, Addresses(work[v], u)
      PROVE  Handled(u)'
  <2>1. CASE v = w
    BY <1>4, <2>1
  <2>2. CASE v # w
    <3>1. Addresses(work[v], u)' <=> Addresses(work[v], u)
      BY <1>1, <2>2 DEF Addresses, Covers
    <3> QED
      BY <1>4, <3>1 DEF Handled
  <2> QED
    BY <2>1, <2>2
<1> QED
  BY <1>2, <1>3, <1>4 DEF Handled

\* A step of w that keeps announcement, letters and notifications keeps the invariant when
\* w's new job is sound and what w had to do is handed on.
LEMMA JobMoves ==
  ASSUME IInv, TypeOK', NEW w \in Workers, NEW j \in Jobs, work' = [work EXCEPT ![w] = j],
         UNCHANGED <<ann, letter, notes>>, blame \subseteq blame',
         Waiting => Waiting' \/ (j.job = "fan_out" /\ j.step = "read"),
         ann.published => \A u \in Audience : Addresses(work[w], u) => Handled(u)',
         \A p \in Publishers : pub'[p].step = pub[p].step /\ pub'[p].letter = pub[p].letter
                                 /\ (pub[p].late => pub'[p].late),
         work[w].job = "fan_out" /\ work[w].step = "read" /\ ~ann.published =>
           \/ Waiting' \/ "failed" \in blame'
           \/ \A p \in Publishers : pub[p].step = "sent" => pub'[p].late,
         Shape(j), FanOutSound(j)', SweepSound(j)'
  PROVE  IInv'
<1>1. TypeOK /\ JobsSound /\ LettersSound /\ SentSettled /\ Announced /\ Queued /\ Counted
  BY DEF IInv
<1>2. /\ work'[w] = j
      /\ \A v \in Workers : v # w => work'[v] = work[v]
  BY <1>1, WorkType
<1>3. Audience' = Audience /\ Audience \subseteq Users
  BY <1>1, RolesUsers DEF Audience, TypeOK
<1>4. ann.published => \A u \in Audience : Handled(u) => Handled(u)'
  BY <1>1, <1>3, HandedOn
<1>5. ASSUME NEW v \in Workers
      PROVE  Shape(work'[v]) /\ FanOutSound(work[v])' /\ SweepSound(work[v])'
  <2>1. PICK k \in Jobs : k = work'[v]
    BY DEF TypeOK
  <2>2. Shape(k) /\ FanOutSound(k)' /\ SweepSound(k)'
    <3>1. CASE v = w
      BY <1>2, <2>1, <3>1
    <3>2. CASE v # w
      <4>1. k = work[v]
        BY <1>2, <2>1, <3>2
      <4>2. Shape(k) /\ FanOutSound(k) /\ SweepSound(k)
        BY <1>1, <4>1 DEF JobsSound
      <4> QED
        BY <1>1, <1>4, <4>2, FanOutStays, SweepStays
    <3> QED
      BY <3>1, <3>2
  <2>3. FanOutSound(work[v])' <=> FanOutSound(k)'
    BY <2>1 DEF FanOutSound, AlreadySent, GivesAll, WrittenFor, Covers
  <2>4. SweepSound(work[v])' <=> SweepSound(k)'
    BY <2>1 DEF SweepSound, Selected, ReplayedFor, Covers
  <2> QED
    BY <2>1, <2>2, <2>3, <2>4
<1>6. JobsSound'
  BY <1>5 DEF JobsSound
<1>7. LettersSound'
  BY <1>1 DEF LettersSound
<1>8. SentSettled'
  <2>1. AlreadySent' = AlreadySent /\ FannedOut' = FannedOut
    BY DEF AlreadySent, FannedOut
  <2> QED
    BY <1>1, <1>3, <2>1, SettledStays DEF SentSettled
<1>9. Announced'
  <2>1. Due' = Due
    BY DEF Due
  <2> QED
    BY <1>1, <1>3, <1>4, <2>1 DEF Announced
<1>10. Queued'
  <2> SUFFICES ASSUME NEW p \in Publishers, pub'[p].step = "sent", ~ann.published
               PROVE  \/ pub'[p].letter \/ pub'[p].late
                      \/ Waiting' \/ \E v \in Workers : work'[v].job = "fan_out" /\ work'[v].step = "read"
                      \/ "failed" \in blame'
    BY DEF Queued
  <2>1. \/ pub[p].letter \/ pub[p].late
        \/ Waiting \/ \E v \in Workers : work[v].job = "fan_out" /\ work[v].step = "read"
        \/ "failed" \in blame
    BY <1>1 DEF Queued
  <2>2. CASE Waiting
    BY <1>2, <2>2
  <2>3. ASSUME NEW v \in Workers, work[v].job = "fan_out", work[v].step = "read"
        PROVE  \/ pub'[p].late
               \/ Waiting' \/ \E x \in Workers : work'[x].job = "fan_out" /\ work'[x].step = "read"
               \/ "failed" \in blame'
    <3>1. CASE v = w
      BY <2>3, <3>1
    <3>2. CASE v # w
      BY <1>2, <2>3, <3>2
    <3> QED
      BY <3>1, <3>2
  <2> QED
    BY <2>1, <2>2, <2>3
<1>11. Counted'
  <2>1. Clean' => Clean
    BY DEF Clean
  <2>2. \A u \in Users : /\ OpenFor("bulk", u)' = OpenFor("bulk", u)
                         /\ OpenFor("single", u)' = OpenFor("single", u)
                         /\ Meant(u)' = Meant(u)
    BY DEF OpenFor, Meant
  <2> QED
    BY <1>1, <2>1, <2>2 DEF Counted
<1> QED
  BY <1>6, <1>7, <1>8, <1>9, <1>10, <1>11 DEF IInv

-----------------------------------------------------------------------------
(* The steps of a job before its commit. *)

LEMMA IdleSound ==
  ASSUME NEW j \in Jobs, j.job # "sweep", j.step \notin {"emit", "commit"}
  PROVE  FanOutSound(j)' /\ SweepSound(j)'
  BY DEF FanOutSound, SweepSound

\* What the invariant says of the job at hand.
LEMMA AtWork ==
  ASSUME IInv, NEW w \in Workers
  PROVE  /\ TypeOK /\ work[w] \in Jobs /\ work[w].tries \in Tries
         /\ Shape(work[w]) /\ FanOutSound(work[w]) /\ SweepSound(work[w])
  BY DEF IInv, JobsSound, TypeOK, Jobs

LEMMA TakeMoves ==
  ASSUME IInv, NEW w \in Workers, NEW n \in Tries, Take(w, n)
  PROVE  IInv'
<1>1. PICK j \in Jobs : /\ j = FanOut(n)
                        /\ j.job = "fan_out" /\ j.step = "read" /\ j.read = NoRows
                        /\ j.letters = {} /\ j.done = {}
  BY FanOutType
<1>2. work' = [work EXCEPT ![w] = j] /\ UNCHANGED <<ann, editing, pub, letter, notes, faults, blame>>
  BY <1>1 DEF Take
<1>3. TypeOK /\ Shape(work[w])
  BY AtWork
<1>4. queue' \in [Tries -> Nat]
  BY <1>3 DEF Take, TypeOK
<1>5. TypeOK'
  BY <1>2, <1>3, <1>4, WorkType DEF TypeOK
<1>6. ~Addresses(work[w], 0) /\ \A u : ~Addresses(work[w], u)
  BY <1>3 DEF Take, Shape, Addresses
<1>7. ~(work[w].job = "fan_out" /\ work[w].step = "read")
  BY DEF Take
<1>8. Shape(j)
  BY <1>1 DEF Shape, Selected, NoRows, LettersFit
<1>9. FanOutSound(j)' /\ SweepSound(j)'
  BY <1>1, IdleSound
<1> QED
  BY <1>1, <1>2, <1>5, <1>6, <1>7, <1>8, <1>9, JobMoves

\* The end of a fan-out that does nothing.
LEMMA AckedType ==
  ASSUME IInv, NEW w \in Workers, work[w].step # "idle", work[w].job = "fan_out",
         NEW j, j = [work[w] EXCEPT !.step = "ack"]
  PROVE  j \in Jobs /\ Shape(j) /\ FanOutSound(j)' /\ SweepSound(j)' /\ j.job = "fan_out" /\ j.step = "ack"
<1>1. work[w] \in Jobs /\ Shape(work[w])
  BY AtWork
<1>2. /\ j \in Jobs
      /\ j.step = "ack" /\ j.job = work[w].job /\ j.read = work[w].read
      /\ j.letters = work[w].letters /\ j.done = work[w].done
  BY <1>1, SteppedType
<1>3. Shape(j)
  BY <1>1, <1>2 DEF Shape, Selected, LettersFit
<1> QED
  BY <1>2, <1>3, IdleSound

LEMMA ReadIsFanOut ==
  ASSUME IInv, NEW w \in Workers, work[w].step \in {"read", "ack"}
  PROVE  work[w].job = "fan_out"
<1>1. work[w] \in Jobs /\ Shape(work[w])
  BY AtWork
<1> QED
  BY <1>1 DEF Shape, Jobs

LEMMA PostponeMoves ==
  ASSUME IInv, NEW w \in Workers, Postpone(w)
  PROVE  IInv'
<1>1. PICK j \in Jobs : /\ j = [work[w] EXCEPT !.step = "ack"]
                        /\ Shape(j) /\ FanOutSound(j)' /\ SweepSound(j)'
  BY ReadIsFanOut, AckedType DEF Postpone
<1>2. work' = [work EXCEPT ![w] = j] /\ UNCHANGED <<ann, editing, pub, letter, notes, faults, blame>>
  BY <1>1 DEF Postpone
<1>3. TypeOK /\ work[w].tries \in Tries
  BY AtWork
<1>4. work[w].tries + 1 \in Tries
  BY <1>3, BoundsAssumption DEF Postpone, Tries
<1>5. queue' \in [Tries -> Nat] /\ Waiting'
  <2>1. queue' = [queue EXCEPT ![work[w].tries + 1] = @ + 1]
    BY DEF Postpone
  <2> QED
    BY <1>3, <1>4, <2>1 DEF TypeOK, Waiting
<1>6. TypeOK'
  BY <1>2, <1>3, <1>5, WorkType DEF TypeOK
<1>7. ~ann.published
  BY DEF Postpone
<1> QED
  BY <1>1, <1>2, <1>5, <1>6, <1>7, JobMoves

LEMMA GiveUpMoves ==
  ASSUME IInv, NEW w \in Workers, GiveUp(w)
  PROVE  IInv'
<1>1. PICK j \in Jobs : /\ j = [work[w] EXCEPT !.step = "ack"]
                        /\ Shape(j) /\ FanOutSound(j)' /\ SweepSound(j)'
  BY ReadIsFanOut, AckedType DEF GiveUp
<1>2. work' = [work EXCEPT ![w] = j] /\ UNCHANGED <<ann, editing, queue, letter, notes, faults, blame>>
  BY <1>1 DEF GiveUp
<1>3. TypeOK
  BY AtWork
<1>4. \A p \in Publishers :
        /\ pub'[p].step = pub[p].step /\ pub'[p].letter = pub[p].letter
        /\ pub[p].late => pub'[p].late
        /\ pub[p].step = "sent" => pub'[p].late
        /\ pub'[p] \in [step : {"idle", "read", "sent"}, letter : BOOLEAN, late : BOOLEAN]
  BY <1>3 DEF GiveUp, TypeOK
<1>5. pub' \in [Publishers -> [step : {"idle", "read", "sent"}, letter : BOOLEAN, late : BOOLEAN]]
  BY <1>3 DEF GiveUp, TypeOK
<1>6. TypeOK'
  BY <1>2, <1>3, <1>5, WorkType DEF TypeOK
<1>7. ~ann.published /\ Waiting' = Waiting
  BY <1>2 DEF GiveUp, Waiting
<1> QED
  BY <1>1, <1>2, <1>4, <1>6, <1>7, JobMoves

LEMMA SkipMoves ==
  ASSUME IInv, NEW w \in Workers, Skip(w)
  PROVE  IInv'
<1>1. PICK j \in Jobs : /\ j = [work[w] EXCEPT !.step = "ack"]
                        /\ Shape(j) /\ FanOutSound(j)' /\ SweepSound(j)'
  BY ReadIsFanOut, AckedType DEF Skip
<1>2. /\ work' = [work EXCEPT ![w] = j]
      /\ UNCHANGED <<ann, editing, pub, queue, letter, notes, faults, blame>>
  BY <1>1 DEF Skip
<1>3. TypeOK
  BY AtWork
<1>4. TypeOK' /\ Waiting' = Waiting
  BY <1>2, <1>3, WorkType DEF TypeOK, Waiting
<1>5. \A u \in Audience : u \in Users /\ Settled(u)
  BY RolesUsers DEF IInv, TypeOK, SentSettled, Skip, Audience
<1>6. \A u \in Audience : Handled(u)'
  BY <1>2, <1>5, SettledStays DEF Handled
<1>7. ann.published
  BY DEF Skip
<1> QED
  BY <1>1, <1>2, <1>4, <1>6, <1>7, JobMoves

LEMMA AckMoves ==
  ASSUME IInv, NEW w \in Workers, Ack(w)
  PROVE  IInv'
<1>1. PICK j \in Jobs : j = Free /\ j.job = "none" /\ j.step = "idle" /\ j.read = NoRows
                        /\ j.letters = {} /\ j.done = {}
  BY FreeType, FreeShape
<1>2. /\ work' = [work EXCEPT ![w] = j]
      /\ UNCHANGED <<ann, editing, pub, queue, letter, notes, faults, blame>>
  BY <1>1 DEF Ack
<1>3. TypeOK
  BY AtWork
<1>4. TypeOK' /\ Waiting' = Waiting
  BY <1>2, <1>3, WorkType DEF TypeOK, Waiting
<1>5. \A u : ~Addresses(work[w], u)
  BY DEF Ack, Addresses
<1>6. Shape(j) /\ FanOutSound(j)' /\ SweepSound(j)'
  BY <1>1, IdleSound DEF Shape, Selected, NoRows, LettersFit
<1>7. work[w].step # "read"
  BY DEF Ack
<1> QED
  BY <1>1, <1>2, <1>4, <1>5, <1>6, <1>7, JobMoves

LEMMA BeginMoves ==
  ASSUME IInv, NEW w \in Workers, Begin(w)
  PROVE  IInv'
<1>1. TypeOK /\ work[w].tries \in Tries /\ ann.to \in SUBSET Residents
  BY AtWork DEF TypeOK
<1>2. PICK j \in Jobs :
        /\ j = Begun(work[w].tries, ann.to)
        /\ j.job = "fan_out" /\ j.step = "emit" /\ j.to = ann.to
        /\ j.read = NoRows /\ j.letters = {} /\ j.done = {} /\ j.stale = FALSE
  BY <1>1, BegunType
<1>3. /\ work' = [work EXCEPT ![w] = j]
      /\ UNCHANGED <<ann, editing, pub, queue, letter, notes, faults, blame>>
  BY <1>2 DEF Begin, Begun
<1>4. TypeOK' /\ Waiting' = Waiting /\ work'[w] = j
  BY <1>1, <1>3, WorkType DEF TypeOK, Waiting
<1>5. ann.published /\ ~AlreadySent
  BY DEF Begin
<1>6. Shape(j)
  BY <1>2 DEF Shape, Selected, NoRows, LettersFit
<1>7. FanOutSound(j)' /\ SweepSound(j)'
  BY <1>2, <1>3, <1>5 DEF FanOutSound, SweepSound, AlreadySent
<1>8. \A u \in Audience : Handled(u)'
  BY <1>2, <1>4 DEF Handled, Addresses
<1> QED
  BY <1>2, <1>3, <1>4, <1>5, <1>6, <1>7, <1>8, JobMoves

\* Whom a fan-out's notifications and letters are for.
LEMMA EmittedCovers ==
  ASSUME NEW job \in Jobs, NEW told \in BOOLEAN, NEW failed \in SUBSET Roles,
         told = TRUE \/ job.to # {}, NEW j \in Jobs, j.to = job.to,
         j.notes = Dispatched(job, told, failed), j.letters = Written(job, told, failed)
  PROVE  LettersFit(j) /\ GivesAll(j)
<1>1. ASSUME NEW a \in j.letters
      PROVE  \/ told = FALSE /\ a = Letter("bulk", job.to) /\ a.kind = "bulk" /\ a.to = job.to
                /\ a.attempts = 1 /\ a.resolved = FALSE
             \/ \E u \in failed : a = Letter("single", {u}) /\ a.kind = "single" /\ a.to = {u}
                /\ a.attempts = 1 /\ a.resolved = FALSE
  BY DEF Letter, Written
<1>2. told = FALSE => Letter("bulk", job.to) \in j.letters /\ Letter("bulk", job.to).kind = "bulk"
               /\ Letter("bulk", job.to).to = job.to
  BY DEF Letter, Written
<1>3. \A u \in failed : Letter("single", {u}) \in j.letters /\ Letter("single", {u}).kind = "single"
               /\ Letter("single", {u}).to = {u}
  BY DEF Letter, Written
<1>4. ASSUME NEW a \in j.letters
      PROVE  a.kind \in Deliveries /\ a.to # {} /\ a.attempts = 1 /\ a.resolved = FALSE
  BY <1>1 DEF Deliveries
<1>5. ASSUME NEW a \in j.letters, NEW b \in j.letters, a.kind = b.kind, a.to \cap b.to # {}
      PROVE  a = b
  <2>1. CASE a.kind = "bulk"
    <3>1. a = Letter("bulk", job.to) /\ b = Letter("bulk", job.to)
      BY <1>1, <1>5, <2>1
    <3> QED
      BY <3>1
  <2>2. CASE a.kind = "single"
    <3>1. PICK u \in failed : a = Letter("single", {u}) /\ a.to = {u}
      BY <1>1, <2>2
    <3>2. PICK v \in failed : b = Letter("single", {v}) /\ b.to = {v}
      BY <1>1, <1>5, <2>2
    <3>3. u = v
      BY <1>5, <3>1, <3>2
    <3> QED
      BY <3>1, <3>2, <3>3
  <2> QED
    BY <1>4, <2>1, <2>2 DEF Deliveries
<1>6. ASSUME NEW u \in Users
      PROVE  /\ u \in j.to \cup Roles => j.notes[u] > 0 \/ \E a \in j.letters : Covers(a, u)
             /\ j.notes[u] + One(WrittenFor(j, "bulk", u)) + One(WrittenFor(j, "single", u))
                  <= One(u \in j.to) + One(u \in Roles)
  <2>1. j.notes[u] = One(told = TRUE /\ u \in job.to) + One(u \in Roles \ failed)
    BY DEF Dispatched, One
  <2>2. WrittenFor(j, "bulk", u) => told = FALSE /\ u \in job.to
    BY <1>1 DEF WrittenFor
  <2>3. WrittenFor(j, "single", u) => u \in failed
    BY <1>1 DEF WrittenFor
  <2>4. u \in failed => u \in Roles
    OBVIOUS
  <2>5. j.notes[u] + One(WrittenFor(j, "bulk", u)) + One(WrittenFor(j, "single", u))
          <= One(u \in j.to) + One(u \in Roles)
    BY <2>1, <2>2, <2>3, <2>4 DEF One
  <2>6. ASSUME u \in j.to \cup Roles
        PROVE  j.notes[u] > 0 \/ \E a \in j.letters : Covers(a, u)
    <3>1. CASE u \in job.to /\ told = TRUE
      BY <2>1, <3>1 DEF One
    <3>2. CASE u \in job.to /\ told = FALSE
      BY <1>2, <3>2 DEF Covers, Deliveries
    <3>3. CASE u \in Roles \ failed
      BY <2>1, <3>3 DEF One
    <3>4. CASE u \in failed
      BY <1>3, <3>4 DEF Covers, Deliveries
    <3> QED
      BY <2>6, <3>1, <3>2, <3>3, <3>4
  <2> QED
    BY <2>5, <2>6
<1> QED
  BY <1>4, <1>5, <1>6 DEF LettersFit, GivesAll

LEMMA EmitMoves ==
  ASSUME IInv, NEW w \in Workers, NEW told \in BOOLEAN, NEW failed \in SUBSET Roles,
         Emit(w, told, failed)
  PROVE  IInv'
<1>1. TypeOK /\ work[w] \in Jobs /\ Shape(work[w]) /\ FanOutSound(work[w])
  BY AtWork
<1>2. /\ work[w].job = "fan_out" /\ work[w].step = "emit"
      /\ told = TRUE \/ work[w].to # {}
      /\ UNCHANGED <<ann, editing, pub, queue, letter, notes, blame>>
  BY DEF Emit
<1>3. PICK j \in Jobs :
        /\ j = Emitted(work[w], told, failed)
        /\ j.step = "commit" /\ j.job = work[w].job /\ j.to = work[w].to /\ j.read = work[w].read
        /\ j.done = work[w].done /\ j.stale = work[w].stale
        /\ j.notes = Dispatched(work[w], told, failed) /\ j.letters = Written(work[w], told, failed)
  BY <1>1, EmittedType
<1>4. work' = [work EXCEPT ![w] = j]
  BY <1>3 DEF Emit
<1>5. faults' \in 0 .. MaxFaults
  <2>1. Cardinality(failed) \in Nat
    BY RolesUsers, FS_Subset, FS_CardinalityType
  <2>2. faults' = faults + (IF told = TRUE THEN 0 ELSE 1) + Cardinality(failed) /\ faults' <= MaxFaults
    BY DEF Emit
  <2> QED
    BY <1>1, <2>1, <2>2, BoundsAssumption DEF TypeOK
<1>6. TypeOK' /\ Waiting' = Waiting /\ work'[w] = j
  BY <1>1, <1>2, <1>4, <1>5, WorkType DEF TypeOK, Waiting
<1>7. LettersFit(j) /\ GivesAll(j)
  <2>1. /\ work[w] \in Jobs /\ told \in BOOLEAN /\ failed \in SUBSET Roles /\ j \in Jobs
        /\ told = TRUE \/ work[w].to # {}
    BY <1>1, <1>2
  <2>2. /\ j.to = work[w].to /\ j.notes = Dispatched(work[w], told, failed)
        /\ j.letters = Written(work[w], told, failed)
    BY <1>3
  <2> QED
    BY <2>1, <2>2, EmittedCovers
<1>8. Shape(j)
  BY <1>1, <1>2, <1>3, <1>7 DEF Shape, Selected
<1>9. ann.published /\ (j.to = ann.to \/ "edited" \in blame) /\ (~j.stale => ~AlreadySent)
  BY <1>1, <1>2, <1>3 DEF FanOutSound
<1>10. FanOutSound(j)'
  <2>1. AlreadySent' = AlreadySent
    BY <1>2 DEF AlreadySent
  <2>2. GivesAll(j)' = GivesAll(j)
    BY DEF GivesAll, WrittenFor, Covers
  <2> QED
    BY <1>2, <1>7, <1>9, <2>1, <2>2 DEF FanOutSound
<1>11. SweepSound(j)'
  BY <1>2, <1>3 DEF SweepSound
<1>12. ASSUME NEW u \in Audience PROVE Handled(u)'
  <2>1. u \in Users
    BY <1>1, RolesUsers DEF Audience, TypeOK
  <2>2. CASE "edited" \in blame
    BY <1>2, <2>2 DEF Handled, Settled, Forgiven
  <2>3. CASE j.to = ann.to
    <3>1. u \in j.to \cup Roles
      BY <2>3 DEF Audience
    <3>2. Addresses(j, u)
      BY <1>2, <1>3, <1>7, <2>1, <3>1 DEF Addresses, GivesAll
    <3> QED
      BY <1>6, <3>2 DEF Handled, Addresses, Covers
  <2> QED
    BY <1>9, <2>2, <2>3
<1> QED
  BY <1>2, <1>3, <1>4, <1>6, <1>8, <1>10, <1>11, <1>12, JobMoves

LEMMA SweepMoves ==
  ASSUME IInv, NEW w \in Workers, Sweep(w)
  PROVE  IInv'
<1>1. TypeOK /\ work[w] \in Jobs /\ Shape(work[w])
  BY AtWork
<1>2. \A l \in Letters : letter[l].attempts \in Nat
  BY <1>1 DEF TypeOK, DeadLetters
<1>3. PICK read \in [Letters -> Nat] :
        read = [l \in Letters |-> IF l \in Due THEN letter[l].attempts ELSE 0]
  BY <1>2
<1>4. PICK j \in Jobs :
        /\ j = Sweeping(read)
        /\ j.job = "sweep" /\ j.step = "emit" /\ j.read = read
        /\ j.letters = {} /\ j.done = {} /\ j.stale = FALSE
  BY SweepType
<1>5. /\ work' = [work EXCEPT ![w] = j]
      /\ UNCHANGED <<ann, editing, pub, queue, letter, notes, faults, blame>>
  BY <1>3, <1>4 DEF Sweep, Sweeping
<1>6. TypeOK' /\ Waiting' = Waiting
  BY <1>1, <1>5, WorkType DEF TypeOK, Waiting
<1>7. Shape(j) /\ FanOutSound(j)'
  BY <1>4 DEF Shape, FanOutSound, LettersFit
<1>8. \A l \in Selected(j) : l \in Due
  BY <1>3, <1>4 DEF Selected
<1>9. SweepSound(j)'
  BY <1>4, <1>5, <1>8 DEF SweepSound, Due, Selected
<1>10. work[w].step = "idle" /\ \A u : ~Addresses(work[w], u)
  BY <1>1 DEF Sweep, Addresses
<1> QED
  BY <1>5, <1>6, <1>7, <1>9, <1>10, JobMoves

LEMMA AtMostOne ==
  ASSUME NEW S \in SUBSET Letters, \A l, m \in S : l = m
  PROVE  Cardinality(S) = One(S # {})
<1>1. CASE S = {}
  BY <1>1, FS_EmptySet DEF One
<1>2. ASSUME NEW l \in S PROVE Cardinality(S) = One(S # {})
  <2>1. S = {l}
    BY <1>2
  <2>2. Cardinality({l}) = 1
    BY FS_Singleton
  <2> QED
    BY <2>1, <2>2 DEF One
<1> QED
  BY <1>1, <1>2

LEMMA AtMostTwo ==
  ASSUME NEW B \in SUBSET Letters, NEW C \in SUBSET Letters,
         \A l, m \in B : l = m, \A l, m \in C : l = m
  PROVE  Cardinality(B \cup C) <= One(B # {}) + One(C # {})
<1>1. IsFiniteSet(B) /\ IsFiniteSet(C) /\ IsFiniteSet(B \cap C) /\ Cardinality(B \cap C) \in Nat
  BY SetsOfLetters
<1>2. Cardinality(B) = One(B # {}) /\ Cardinality(C) = One(C # {})
  BY AtMostOne
<1>3. Cardinality(B \cup C) = Cardinality(B) + Cardinality(C) - Cardinality(B \cap C)
  BY <1>1, FS_Union
<1> QED
  BY <1>1, <1>2, <1>3 DEF One

LEMMA ReplayMoves ==
  ASSUME IInv, NEW w \in Workers, NEW failed \in SUBSET Letters, NEW resent \in SUBSET Letters,
         Replay(w, failed, resent)
  PROVE  IInv'
<1> DEFINE job == work[w]
           sent == Enqueues(Selected(job) \ failed) \cup resent
<1>1. TypeOK /\ job \in Jobs /\ Shape(job) /\ SweepSound(job) /\ Counted
  BY AtWork DEF IInv
<1>2. /\ job.job = "sweep" /\ job.step = "emit"
      /\ queue' = [queue EXCEPT ![0] = @ + Cardinality(sent)]
      /\ UNCHANGED <<ann, editing, pub, letter, notes, blame>>
  BY DEF Replay
<1>3. PICK j \in Jobs :
        /\ j = Replayed(job, failed)
        /\ j.step = "commit" /\ j.job = job.job /\ j.read = job.read
        /\ j.letters = job.letters /\ j.stale = job.stale /\ j.done = Done(job, failed)
        /\ j.notes = [u \in Users |-> Cardinality(TellsOf(job, failed, u))]
  BY <1>1, ReplayedType
<1>4. work' = [work EXCEPT ![w] = j]
  BY <1>3 DEF Replay
<1>5. faults' \in 0 .. MaxFaults
  <2>1. Cardinality(failed) \in Nat
    BY SetsOfLetters
  <2>2. faults' = faults + Cardinality(failed) /\ faults' <= MaxFaults
    BY DEF Replay
  <2> QED
    BY <1>1, <2>1, <2>2, FaultsType
<1>6. sent \in SUBSET Letters
  BY DEF Enqueues, Selected
<1>7. queue' \in [Tries -> Nat] /\ (Waiting => Waiting') /\ (sent # {} => Waiting')
  <2>1. PICK k \in Nat : k = Cardinality(sent) /\ (k = 0 <=> sent = {})
    BY <1>6, SetsOfLetters
  <2>2. 0 \in Tries
    BY BoundsAssumption DEF Tries
  <2>3. queue' = [queue EXCEPT ![0] = @ + k]
    BY <1>2, <2>1
  <2>4. queue' \in [Tries -> Nat] /\ (Waiting => Waiting') /\ (k > 0 => Waiting')
    BY <1>1, <2>2, <2>3, QueueType
  <2> HIDE DEF sent
  <2> QED
    BY <2>1, <2>4
<1>8. TypeOK'
  BY <1>1, <1>2, <1>4, <1>5, <1>7, WorkType DEF TypeOK
<1>9. Shape(j) /\ FanOutSound(j)'
  BY <1>1, <1>2, <1>3 DEF Shape, Selected, Done, LettersFit, FanOutSound
<1>10. j.done \subseteq Letters /\ j.done \subseteq Selected(job) /\ Selected(j) = Selected(job)
  BY <1>3 DEF Done, Selected
<1>11. ASSUME NEW l \in j.done, letter[l].kind = "broadcast_enqueue"
       PROVE  Waiting'
  <2>1. l \in sent
    BY <1>3, <1>11 DEF Done, Enqueues
  <2> QED
    BY <1>7, <2>1
<1>12. ASSUME NEW u \in Users
       PROVE  /\ j.notes[u] > 0 <=> \E l \in j.done : Covers(letter[l], u)
              /\ Clean => j.notes[u] <= One(ReplayedFor(j, "bulk", u))
                                          + One(ReplayedFor(j, "single", u))
  <2> DEFINE B == {l \in j.done : letter[l].kind = "bulk" /\ u \in letter[l].to}
             C == {l \in j.done : letter[l].kind = "single" /\ u \in letter[l].to}
             T == TellsOf(job, failed, u)
  <2>1. \A l \in j.done : letter[l].kind \in Deliveries \cup {"broadcast_enqueue"}
    BY <1>1, <1>2, <1>10 DEF SweepSound, TypeOK, DeadLetters, Kinds, Deliveries
  <2>2. T = B \cup C
    BY <1>3, <2>1 DEF TellsOf, Enqueues, Deliveries
  <2>3. B \in SUBSET Letters /\ C \in SUBSET Letters /\ T \in SUBSET Letters
    BY <1>10, <2>2
  <2>4. j.notes[u] = Cardinality(T)
    BY <1>3
  <2>5. /\ ReplayedFor(j, "bulk", u) <=> B # {}
        /\ ReplayedFor(j, "single", u) <=> C # {}
        /\ (\E l \in j.done : Covers(letter[l], u)) <=> B \cup C # {}
    BY DEF ReplayedFor, Covers, Deliveries
  <2>6. Clean => (\A l, m \in B : l = m) /\ (\A l, m \in C : l = m)
    BY <1>1, <2>3 DEF Counted, Deliveries
  <2> HIDE DEF B, C, T
  <2>7. Cardinality(T) \in Nat /\ (Cardinality(T) = 0 <=> T = {})
    BY <2>3, SetsOfLetters
  <2>8. Clean => Cardinality(T) <= One(B # {}) + One(C # {})
    BY <2>2, <2>3, <2>6, AtMostTwo
  <2>9. j.notes[u] > 0 <=> \E l \in j.done : Covers(letter[l], u)
    BY <2>2, <2>4, <2>5, <2>7
  <2> QED
    BY <2>4, <2>5, <2>8, <2>9 DEF One
<1>13. SweepSound(j)'
  <2>1. Clean' = Clean
    BY <1>2 DEF Clean
  <2>2. \A u : Waiting' => Handled(u)'
    BY DEF Handled
  <2>3. \A u \in Users : /\ ReplayedFor(j, "bulk", u)' = ReplayedFor(j, "bulk", u)
                         /\ ReplayedFor(j, "single", u)' = ReplayedFor(j, "single", u)
                         /\ \A l \in Letters : Covers(letter[l], u)' = Covers(letter[l], u)
    BY <1>2 DEF ReplayedFor, Covers
  <2>4. \A l \in Selected(j) :
           /\ letter'[l].kind # "none"
           /\ letter'[l].kind \in Deliveries /\ ~j.stale => ~letter'[l].resolved
    BY <1>1, <1>2, <1>3, <1>10 DEF SweepSound
  <2>5. \A l \in j.done : letter'[l].kind = "broadcast_enqueue" => \A u \in Audience' : Handled(u)'
    BY <1>2, <1>11, <2>2
  <2>6. \A u \in Users :
              /\ j.notes[u] > 0 <=> \E l \in j.done : Covers(letter[l], u)'
              /\ Clean' => j.notes[u] <= One(ReplayedFor(j, "bulk", u)')
                                            + One(ReplayedFor(j, "single", u)')
    BY <1>10, <1>12, <2>1, <2>3
  <2> QED
    BY <2>4, <2>5, <2>6 DEF SweepSound
<1>14. \A u : ~Addresses(job, u)
  BY <1>2 DEF Addresses
<1> QED
  BY <1>2, <1>3, <1>4, <1>7, <1>8, <1>9, <1>13, <1>14, JobMoves

LEMMA FailMoves ==
  ASSUME IInv, NEW w \in Workers, Fail(w)
  PROVE  IInv'
<1>1. PICK j \in Jobs : j = Free /\ j.job = "none" /\ j.step = "idle" /\ j.read = NoRows
                        /\ j.letters = {} /\ j.done = {}
  BY FreeType, FreeShape
<1>2. /\ work' = [work EXCEPT ![w] = j]
      /\ UNCHANGED <<ann, editing, pub, queue, letter, notes>>
      /\ blame' = blame \cup (IF work[w].job = "fan_out" THEN {"failed"} ELSE {})
  BY <1>1 DEF Fail
<1>3. TypeOK
  BY AtWork
<1>4. faults' \in 0 .. MaxFaults /\ blame' \in SUBSET Causes
  <2>1. faults \in Nat /\ faults' = faults + 1 /\ faults < MaxFaults /\ blame \in SUBSET Causes
    BY <1>3 DEF Fail, TypeOK
  <2>2. "failed" \in Causes
    BY DEF Causes
  <2>3. faults' \in 0 .. MaxFaults
    BY <2>1, BoundsAssumption
  <2>4. blame' \in SUBSET Causes
    BY <1>2, <2>1, <2>2
  <2> QED
    BY <2>3, <2>4
<1>5. TypeOK' /\ Waiting' = Waiting
  BY <1>2, <1>3, <1>4, WorkType DEF TypeOK, Waiting
<1>6. work[w].job = "fan_out" => "failed" \in blame' /\ \A u : Handled(u)'
  BY <1>2 DEF Handled, Settled, Forgiven
<1>7. \A u : Addresses(work[w], u) => work[w].job = "fan_out"
  BY DEF Addresses
<1>8. Shape(j) /\ FanOutSound(j)' /\ SweepSound(j)'
  BY <1>1, IdleSound DEF Shape, Selected, NoRows, LettersFit
<1> QED
  BY <1>1, <1>2, <1>5, <1>6, <1>7, <1>8, JobMoves

LEMMA LoseMoves ==
  ASSUME IInv, NEW w \in Workers, Lose(w)
  PROVE  IInv'
<1>1. PICK j \in Jobs : j = Free /\ j.job = "none" /\ j.step = "idle" /\ j.read = NoRows
                        /\ j.letters = {} /\ j.done = {}
  BY FreeType, FreeShape
<1>2. /\ work' = [work EXCEPT ![w] = j]
      /\ UNCHANGED <<ann, editing, pub, letter, notes, blame>>
  BY <1>1 DEF Lose
<1>3. TypeOK /\ work[w].tries \in Tries
  BY AtWork
<1>4. /\ queue' \in [Tries -> Nat]
      /\ Waiting => Waiting'
      /\ work[w].job = "fan_out" => Waiting'
  <2>1. CASE work[w].job = "fan_out"
    <3>1. queue' = [queue EXCEPT ![work[w].tries] = @ + 1]
      BY <2>1 DEF Lose
    <3> QED
      BY <1>3, <3>1 DEF TypeOK, Waiting
  <2>2. CASE work[w].job # "fan_out"
    BY <1>3, <2>2 DEF Lose, TypeOK, Waiting
  <2> QED
    BY <2>1, <2>2
<1>5. faults' \in 0 .. MaxFaults
  BY <1>3, BoundsAssumption DEF Lose, TypeOK
<1>6. TypeOK'
  BY <1>2, <1>3, <1>4, <1>5, WorkType DEF TypeOK
<1>7. \A u : Waiting' => Handled(u)'
  BY DEF Handled
<1>8. \A u : Addresses(work[w], u) => work[w].job = "fan_out"
  BY DEF Addresses
<1>9. Shape(j) /\ FanOutSound(j)' /\ SweepSound(j)'
  BY <1>1, IdleSound DEF Shape, Selected, NoRows, LettersFit
<1> QED
  BY <1>1, <1>2, <1>4, <1>6, <1>7, <1>8, <1>9, JobMoves

-----------------------------------------------------------------------------
(* The requests. *)

\* A step of a request that commits nothing.
LEMMA RequestMoves ==
  ASSUME IInv, TypeOK', UNCHANGED <<ann, work, letter, notes, blame>>, Waiting => Waiting', Queued'
  PROVE  IInv'
<1>1. TypeOK /\ JobsSound /\ LettersSound /\ SentSettled /\ Announced /\ Counted
  BY DEF IInv
<1>2. Audience' = Audience /\ Audience \subseteq Users /\ Due' = Due
  BY <1>1, RolesUsers DEF Audience, TypeOK, Due
<1>3. \A u \in Users : Settled(u) => Settled(u)'
  BY SettledStays
<1>4. ASSUME NEW u \in Users, Handled(u) PROVE Handled(u)'
  <2>1. \A w \in Workers : Addresses(work[w], u) => Addresses(work[w], u)'
    BY DEF Addresses, Covers
  <2> QED
    BY <1>3, <1>4, <2>1 DEF Handled
<1>5. JobsSound'
  <2> SUFFICES ASSUME NEW v \in Workers
               PROVE  Shape(work[v]) /\ FanOutSound(work[v])' /\ SweepSound(work[v])'
    BY DEF JobsSound
  <2>1. PICK k \in Jobs : k = work[v]
    BY <1>1 DEF TypeOK
  <2>2. Shape(k) /\ FanOutSound(k)' /\ SweepSound(k)'
    BY <1>1, <1>2, <1>4, <2>1, FanOutStays, SweepStays DEF JobsSound
  <2>3. FanOutSound(work[v])' <=> FanOutSound(k)'
    BY <2>1 DEF FanOutSound, AlreadySent, GivesAll, WrittenFor, Covers
  <2>4. SweepSound(work[v])' <=> SweepSound(k)'
    BY <2>1 DEF SweepSound, Selected, ReplayedFor, Covers
  <2> QED
    BY <2>1, <2>2, <2>3, <2>4
<1>6. LettersSound'
  BY <1>1 DEF LettersSound
<1>7. SentSettled'
  BY <1>1, <1>2, <1>3 DEF SentSettled, AlreadySent, FannedOut
<1>8. Announced'
  BY <1>1, <1>2, <1>4 DEF Announced
<1>9. Counted'
  BY <1>1 DEF Counted, Clean, OpenFor, Meant
<1> QED
  BY <1>5, <1>6, <1>7, <1>8, <1>9 DEF IInv

LEMMA EditReadMoves == ASSUME IInv, EditRead PROVE IInv'
<1>1. TypeOK' /\ Queued' /\ (Waiting => Waiting')
  BY DEF IInv, EditRead, TypeOK, Queued, Waiting
<1> QED
  BY <1>1, RequestMoves DEF EditRead

LEMMA PublishReadMoves == ASSUME IInv, NEW p \in Publishers, PublishRead(p) PROVE IInv'
<1>1. TypeOK'
  BY RequestType DEF IInv, Request
<1>2. UNCHANGED <<ann, editing, queue, work, letter, notes, faults, blame>>
  BY DEF PublishRead
<1>3. \A q \in Publishers : pub'[q].step = "sent" => pub'[q] = pub[q]
  BY DEF PublishRead, IInv, TypeOK
<1>4. Queued' /\ (Waiting => Waiting')
  BY <1>2, <1>3 DEF IInv, Queued, Waiting
<1> QED
  BY <1>1, <1>2, <1>4, RequestMoves

LEMMA PublishFailMoves == ASSUME IInv, NEW p \in Publishers, PublishFail(p) PROVE IInv'
<1>1. TypeOK'
  BY RequestType DEF IInv, Request
<1>2. UNCHANGED <<ann, editing, queue, work, letter, notes, blame>>
  BY DEF PublishFail
<1>3. \A q \in Publishers : pub'[q].step = "sent" => pub'[q] = pub[q]
  BY DEF PublishFail, IInv, TypeOK
<1>4. Queued' /\ (Waiting => Waiting')
  BY <1>2, <1>3 DEF IInv, Queued, Waiting
<1> QED
  BY <1>1, <1>2, <1>4, RequestMoves

LEMMA PublishSendMoves ==
  ASSUME IInv, NEW p \in Publishers, NEW sent \in BOOLEAN, NEW refused \in BOOLEAN,
         PublishSend(p, sent, refused)
  PROVE  IInv'
<1>1. TypeOK /\ TypeOK' /\ 0 \in Tries
  BY RequestType, BoundsAssumption DEF IInv, Request, Tries
<1>2. UNCHANGED <<ann, editing, work, letter, notes, blame>>
  BY DEF PublishSend
<1>3. /\ \A q \in Publishers : q # p => pub'[q] = pub[q]
      /\ pub'[p].letter = refused
  BY <1>1 DEF PublishSend, TypeOK
<1>4. sent = TRUE \/ refused = TRUE
  BY DEF PublishSend
<1>5. CASE sent = TRUE
  <2>1. queue' = [queue EXCEPT ![0] = @ + 1]
    BY <1>5 DEF PublishSend
  <2>2. Waiting'
    BY <1>1, <2>1 DEF TypeOK, Waiting
  <2>3. Queued'
    BY <2>2 DEF Queued
  <2> QED
    BY <1>1, <1>2, <2>2, <2>3, RequestMoves
<1>6. CASE sent = FALSE
  <2>1. queue' = queue /\ refused = TRUE
    BY <1>4, <1>6 DEF PublishSend
  <2>2. Queued' /\ Waiting' = Waiting
    BY <1>2, <1>3, <2>1 DEF IInv, Queued, Waiting
  <2> QED
    BY <1>1, <1>2, <2>2, RequestMoves
<1> QED
  BY <1>5, <1>6

\* An edit before the publication finds nothing sent, one after it is a cause.
LEMMA EditCommitMoves ==
  ASSUME IInv, NEW to \in SUBSET Residents, EditCommit(to)
  PROVE  IInv'
<1>1. TypeOK /\ JobsSound /\ LettersSound /\ SentSettled /\ Announced /\ Queued /\ Counted
  BY DEF IInv
<1>2. /\ UNCHANGED <<pub, queue, work, letter, notes, faults>>
      /\ ann'.published = ann.published /\ ann' \in [published : BOOLEAN, to : SUBSET Residents]
      /\ blame' = blame \cup (IF ann.published THEN {"edited"} ELSE {})
      /\ editing' = FALSE
  BY <1>1 DEF EditCommit, TypeOK
<1>3. TypeOK'
  BY <1>1, <1>2 DEF TypeOK, Causes
<1>4. Queued'
  BY <1>1, <1>2 DEF Queued, Waiting
<1>5. LettersSound'
  BY <1>1, <1>2 DEF LettersSound
<1>6. CASE ann.published
  <2>1. "edited" \in blame' /\ ~Clean'
    BY <1>2, <1>6 DEF Clean
  <2>2. \A u : Settled(u)' /\ Handled(u)'
    BY <2>1 DEF Handled, Settled, Forgiven
  <2>3. ASSUME NEW v \in Workers
        PROVE  Shape(work'[v]) /\ FanOutSound(work[v])' /\ SweepSound(work[v])'
    <3>1. Shape(work[v]) /\ FanOutSound(work[v]) /\ SweepSound(work[v])
      BY <1>1 DEF JobsSound
    <3>2. FanOutSound(work[v])'
      BY <1>2, <2>1, <3>1 DEF FanOutSound, AlreadySent, GivesAll, WrittenFor, Covers
    <3>3. SweepSound(work[v])'
      BY <1>2, <2>1, <2>2, <3>1 DEF SweepSound, Selected, Covers
    <3> QED
      BY <1>2, <3>1, <3>2, <3>3
  <2>4. SentSettled' /\ Announced' /\ Counted'
    BY <1>2, <1>6, <2>1, <2>2 DEF SentSettled, Announced, Counted
  <2> QED
    BY <1>3, <1>4, <1>5, <2>3, <2>4 DEF IInv, JobsSound
<1>7. CASE ~ann.published
  <2>1. \A l \in Letters : letter[l].kind = "none"
    BY <1>1, <1>7 DEF LettersSound
  <2>2. ~AlreadySent /\ ~FannedOut
    BY <1>1, <1>7 DEF SentSettled
  <2>3. ASSUME NEW v \in Workers
        PROVE  Shape(work'[v]) /\ FanOutSound(work[v])' /\ SweepSound(work[v])'
    <3>1. Shape(work[v]) /\ FanOutSound(work[v]) /\ SweepSound(work[v])
      BY <1>1 DEF JobsSound
    <3>2. FanOutSound(work[v])'
      BY <1>2, <1>7, <3>1 DEF FanOutSound
    <3>3. work[v].job = "sweep" => Selected(work[v]) = {} /\ work[v].done = {}
      BY <2>1, <3>1 DEF SweepSound, Shape, Selected
    <3>4. Clean' = Clean
      BY <1>2, <1>7 DEF Clean
    <3>5. SweepSound(work[v])'
      BY <1>2, <3>1, <3>3, <3>4 DEF SweepSound, Selected, Covers, ReplayedFor
    <3> QED
      BY <1>2, <3>1, <3>2, <3>5
  <2>4. SentSettled' /\ Announced'
    BY <1>2, <1>7, <2>2 DEF SentSettled, Announced, AlreadySent, FannedOut
  <2>5. Counted'
    BY <1>1, <1>2, <1>7 DEF Counted, Clean, OpenFor, Meant
  <2> QED
    BY <1>3, <1>4, <1>5, <2>3, <2>4, <2>5 DEF IInv, JobsSound
<1> QED
  BY <1>6, <1>7

\* The duty passes from the request to what it has sent, or to its dead letter.
LEMMA PublishCommitMoves ==
  ASSUME IInv, NEW p \in Publishers, PublishCommit(p)
  PROVE  IInv'
<1>1. TypeOK /\ JobsSound /\ LettersSound /\ SentSettled /\ Announced /\ Queued /\ Counted
  BY DEF IInv
<1>2. TypeOK'
  BY <1>1, RequestType DEF Request
<1>3. /\ UNCHANGED <<editing, queue, work, notes, faults>>
      /\ ann'.published /\ ann'.to = ann.to
      /\ blame \subseteq blame' /\ (pub[p].late => "late" \in blame')
      /\ pub[p].step = "sent"
  BY <1>1 DEF PublishCommit, TypeOK
<1>4. /\ \A l \in Letters : letter[l].kind # "none" => letter'[l] = letter[l]
      /\ \A l \in Letters : letter[l].kind = "none" =>
           letter'[l].kind \in {"none", "broadcast_enqueue"}
      /\ pub[p].letter => \E l \in Letters :
           letter'[l].kind = "broadcast_enqueue" /\ letter'[l].attempts = 1 /\ ~letter'[l].resolved
  <2>1. CASE pub[p].letter
    <3>1. PICK m \in Letters : letter[m].kind = "none"
                               /\ letter' = [letter EXCEPT ![m] = Letter("broadcast_enqueue", {})]
      BY <2>1 DEF PublishCommit
    <3>2. letter'[m] = Letter("broadcast_enqueue", {}) /\ \A l \in Letters : l # m => letter'[l] = letter[l]
      BY <1>1, <3>1 DEF TypeOK
    <3>3. letter'[m].kind = "broadcast_enqueue" /\ letter'[m].attempts = 1 /\ ~letter'[m].resolved
      BY <3>2 DEF Letter
    <3> QED
      BY <3>1, <3>2, <3>3
  <2>2. CASE ~pub[p].letter
    BY <2>2 DEF PublishCommit
  <2> QED
    BY <2>1, <2>2
<1>5. Audience' = Audience /\ Audience \subseteq Users
  BY <1>1, <1>3, RolesUsers DEF Audience, TypeOK
<1>6. \A l \in Due : l \in Due' /\ letter'[l] = letter[l]
  BY <1>4 DEF Due
<1>7. Forgiven => Forgiven'
  BY <1>3 DEF Forgiven
<1>8. \A u \in Users : Settled(u) => Settled(u)'
  BY <1>3, <1>6, <1>7 DEF Settled, Covers
<1>9. ASSUME NEW u \in Users, Handled(u) PROVE Handled(u)'
  <2>1. \A w \in Workers : Addresses(work[w], u) => Addresses(work[w], u)'
    BY <1>3 DEF Addresses, Covers
  <2> QED
    BY <1>3, <1>8, <1>9, <2>1 DEF Handled, Waiting
<1>10. Clean' => Clean
  BY <1>3 DEF Clean
<1>11. ASSUME NEW v \in Workers
       PROVE  Shape(work'[v]) /\ FanOutSound(work[v])' /\ SweepSound(work[v])'
  <2>1. Shape(work[v]) /\ FanOutSound(work[v]) /\ SweepSound(work[v])
    BY <1>1 DEF JobsSound
  <2>2. FanOutSound(work[v])'
    BY <1>3, <2>1 DEF FanOutSound, AlreadySent, GivesAll, WrittenFor, Covers
  <2>3. \A l \in Letters : l \in Selected(work[v]) /\ work[v].job = "sweep" =>
          letter[l].kind # "none" /\ letter'[l] = letter[l]
    BY <1>4, <2>1 DEF SweepSound
  <2>4. work[v].done \subseteq Selected(work[v]) /\ Selected(work[v]) \subseteq Letters
    BY <2>1 DEF Shape, Selected
  <2>5. work[v].job = "sweep" =>
          \A u \in Users : /\ ReplayedFor(work[v], "bulk", u)' <=> ReplayedFor(work[v], "bulk", u)
                           /\ ReplayedFor(work[v], "single", u)' <=> ReplayedFor(work[v], "single", u)
                           /\ \A l \in work[v].done : Covers(letter[l], u)' <=> Covers(letter[l], u)
    BY <1>3, <2>3, <2>4 DEF ReplayedFor, Covers
  <2>6. Selected(work[v])' = Selected(work[v])
    BY <1>3 DEF Selected
  <2>7. SweepSound(work[v])'
    <3> SUFFICES ASSUME work[v].job = "sweep" PROVE SweepSound(work[v])'
      BY <1>3 DEF SweepSound
    <3>1. \A l \in Selected(work[v]) :
           /\ letter'[l].kind # "none"
           /\ letter'[l].kind \in Deliveries /\ ~work[v].stale => ~letter'[l].resolved
      BY <2>1, <2>3, <2>4 DEF SweepSound
    <3>2. work[v].step = "commit" =>
           \A l \in work[v].done : letter'[l].kind = "broadcast_enqueue" =>
              \A u \in Audience : Handled(u)'
      BY <1>5, <1>9, <2>1, <2>3, <2>4 DEF SweepSound
    <3>3. work[v].step = "commit" => \A u \in Users :
              /\ work[v].notes[u] > 0 <=> \E l \in work[v].done : Covers(letter[l], u)'
              /\ Clean' => work[v].notes[u] <= One(ReplayedFor(work[v], "bulk", u)')
                                            + One(ReplayedFor(work[v], "single", u)')
      BY <1>10, <2>1, <2>5 DEF SweepSound, One
    <3> QED
      BY <1>3, <1>5, <2>6, <3>1, <3>2, <3>3 DEF SweepSound
  <2> QED
    BY <1>3, <2>1, <2>2, <2>7
<1>12. LettersSound'
  BY <1>1, <1>3, <1>4 DEF LettersSound, Deliveries
<1>13. \A l \in Letters : letter'[l].kind \in Deliveries => letter'[l] = letter[l]
  BY <1>4 DEF Deliveries
<1>14. SentSettled'
  <2>1. AlreadySent' = AlreadySent /\ (FannedOut' => FannedOut)
    BY <1>3, <1>13 DEF AlreadySent, FannedOut, Deliveries
  <2> QED
    BY <1>1, <1>3, <1>5, <1>8, <2>1 DEF SentSettled
<1>15. Announced'
  <2>1. CASE ann.published
    BY <1>1, <1>5, <1>6, <1>9, <2>1 DEF Announced
  <2>2. CASE ~ann.published
    <3>1. \/ pub[p].letter \/ pub[p].late \/ "failed" \in blame
          \/ Waiting \/ \E w \in Workers : work[w].job = "fan_out" /\ work[w].step = "read"
      BY <1>1, <1>3, <2>2 DEF Queued
    <3>2. CASE pub[p].letter
      <4>1. PICK l \in Letters : letter'[l].kind = "broadcast_enqueue" /\ letter'[l].attempts = 1
                                 /\ ~letter'[l].resolved
        BY <1>4, <3>2
      <4>2. l \in Due'
        BY <4>1, AttemptsAssumption DEF Due
      <4> QED
        BY <4>1, <4>2 DEF Announced
    <3>3. CASE pub[p].late \/ "failed" \in blame
      <4>1. Forgiven'
        BY <1>3, <3>3 DEF Forgiven
      <4> QED
        BY <4>1 DEF Announced, Handled, Settled
    <3>4. CASE Waiting \/ \E w \in Workers : work[w].job = "fan_out" /\ work[w].step = "read"
      <4>1. \A u \in Users : Handled(u)
        BY <3>4 DEF Handled, Addresses
      <4> QED
        BY <1>5, <1>9, <4>1 DEF Announced
    <3> QED
      BY <3>1, <3>2, <3>3, <3>4
  <2> QED
    BY <2>1, <2>2
<1>16. Queued'
  BY <1>3 DEF Queued
<1>17. Counted'
  <2> SUFFICES ASSUME Clean'
               PROVE  /\ \A l, m \in Letters :
                           letter'[l].kind \in Deliveries /\ letter'[l].kind = letter'[m].kind
                             /\ letter'[l].to \cap letter'[m].to # {} => l = m
                      /\ \A u \in Users :
                           notes'[u] + One(OpenFor("bulk", u)') + One(OpenFor("single", u)') <= Meant(u)'
    BY DEF Counted
  <2>1. \A l, m \in Letters :
           letter'[l].kind \in Deliveries /\ letter'[l].kind = letter'[m].kind
             /\ letter'[l].to \cap letter'[m].to # {} => l = m
    BY <1>1, <1>10, <1>13 DEF Counted
  <2>2. ASSUME NEW u \in Users
        PROVE  notes'[u] + One(OpenFor("bulk", u)') + One(OpenFor("single", u)') <= Meant(u)'
    <3>1. (OpenFor("bulk", u)' => OpenFor("bulk", u)) /\ (OpenFor("single", u)' => OpenFor("single", u))
      BY <1>13 DEF OpenFor, Deliveries
    <3>2. notes[u] + One(OpenFor("bulk", u)) + One(OpenFor("single", u)) <= Meant(u)
      BY <1>1, <1>10 DEF Counted
    <3>3. Meant(u) <= Meant(u)' /\ Meant(u) \in Nat /\ Meant(u)' \in Nat /\ notes[u] \in Nat
      BY <1>1, <1>3 DEF Meant, TypeOK
    <3> QED
      BY <1>3, <3>1, <3>2, <3>3 DEF One
  <2> QED
    BY <2>1, <2>2
<1> QED
  BY <1>2, <1>11, <1>12, <1>14, <1>15, <1>16, <1>17 DEF IInv, JobsSound

-----------------------------------------------------------------------------
(* The commit of a job. *)

\* What a commit does to the rows, to the notifications and to the causes.
LEMMA CommitEffect ==
  ASSUME IInv, NEW w \in Workers, Commit(w)
  PROVE  /\ work[w].step = "commit" /\ work[w].job \in {"fan_out", "sweep"}
         /\ \A u \in Users : notes'[u] = notes[u] + work[w].notes[u]
                             /\ notes[u] \in Nat /\ work[w].notes[u] \in Nat
         /\ \A l \in Letters : letter[l].kind # "none" =>
              /\ letter'[l].kind = letter[l].kind /\ letter'[l].to = letter[l].to
              /\ l \in work[w].done => letter'[l].resolved = TRUE
              /\ l \notin work[w].done => letter'[l].resolved = letter[l].resolved
         /\ \A l \in Letters : letter[l].kind = "none" =>
              letter'[l].kind = "none" \/ letter'[l] \in work[w].letters
         /\ \A a \in work[w].letters : \E l \in Due' : letter'[l] = a
         /\ \A l \in Due : l \in work[w].done \/ l \in Due' \/ Forgiven'
         /\ blame \subseteq blame' /\ Blamed(work[w]) \subseteq blame'
         /\ UNCHANGED <<ann, editing, pub, queue, faults>>
<1> DEFINE job == work[w]
<1>1. TypeOK /\ job \in Jobs /\ Shape(job)
  BY AtWork
<1>2. job.step = "commit" /\ job.job \in {"fan_out", "sweep"}
  BY <1>1 DEF Commit, Shape, Jobs
<1>3. /\ notes' = [u \in Users |-> notes[u] + job.notes[u]]
      /\ blame' = blame \cup Blamed(job)
      /\ UNCHANGED <<ann, editing, pub, queue, faults>>
  BY DEF Commit
<1>4. \A u \in Users : notes'[u] = notes[u] + job.notes[u] /\ notes[u] \in Nat /\ job.notes[u] \in Nat
  BY <1>1, <1>3 DEF TypeOK, Jobs
<1>5. \A l \in Letters :
        \/ letter'[l] = Swept(job, l)
           /\ letter'[l].kind = letter[l].kind /\ letter'[l].to = letter[l].to
        \/ letter[l].kind = "none" /\ letter'[l] \in job.letters
  BY <1>1, Committed
<1>6. \A a \in job.letters : \E l \in Letters : letter[l].kind = "none" /\ letter'[l] = a
  BY <1>1, Committed
<1>7. ASSUME NEW l \in Letters, letter[l].kind # "none"
      PROVE  /\ letter'[l] = Swept(job, l)
             /\ letter'[l].kind = letter[l].kind /\ letter'[l].to = letter[l].to
             /\ l \in job.done => letter'[l].resolved = TRUE
             /\ l \notin job.done => letter'[l].resolved = letter[l].resolved
  <2>1. letter'[l] = Swept(job, l)
    BY <1>5, <1>7
  <2>2. /\ Swept(job, l).kind = letter[l].kind /\ Swept(job, l).to = letter[l].to
        /\ l \in job.done => Swept(job, l).resolved = TRUE
        /\ l \notin job.done => Swept(job, l).resolved = letter[l].resolved
    BY <1>1, SweptRow
  <2> QED
    BY <2>1, <2>2
<1>8. ASSUME NEW a \in job.letters PROVE \E l \in Due' : letter'[l] = a
  <2>1. PICK l \in Letters : letter'[l] = a
    BY <1>6
  <2>2. a.kind \in Deliveries /\ a.attempts = 1 /\ a.resolved = FALSE
    BY <1>1 DEF Shape, LettersFit
  <2>3. l \in Due'
    BY <2>1, <2>2, AttemptsAssumption DEF Due, Deliveries
  <2> QED
    BY <2>1, <2>3
<1>9. ASSUME NEW l \in Due PROVE l \in job.done \/ l \in Due' \/ Forgiven'
  <2> SUFFICES ASSUME l \notin job.done PROVE l \in Due' \/ Forgiven'
    OBVIOUS
  <2>1. l \in Letters /\ letter[l].kind # "none" /\ ~letter[l].resolved
        /\ letter[l].attempts < MaxAttempts
    BY DEF Due
  <2>2. letter'[l] = Swept(job, l) /\ letter'[l].kind # "none" /\ ~letter'[l].resolved
    BY <1>7, <2>1
  <2>3. CASE l \notin Selected(job)
    <3>1. Swept(job, l) = letter[l]
      BY <1>1, <2>1, <2>3, SweptRow
    <3> QED
      BY <2>1, <2>2, <3>1 DEF Due
  <2>4. CASE l \in Selected(job)
    <3>1. Swept(job, l).attempts = Tried(job, l)
      BY <1>1, <2>1, <2>4, SweptRow
    <3>2. Tried(job, l) = job.read[l] + 1 /\ job.read[l] + 1 \in Nat
      BY <1>1, <2>1 DEF Tried, Jobs
    <3>3. CASE job.read[l] + 1 < MaxAttempts
      BY <2>1, <2>2, <3>1, <3>2, <3>3 DEF Due
    <3>4. CASE job.read[l] + 1 >= MaxAttempts
      <4>1. Exhausts(job)
        BY <2>1, <2>4, <3>4 DEF Exhausts
      <4> QED
        BY <1>3, <4>1 DEF Blamed, Forgiven
    <3> QED
      BY <3>2, <3>3, <3>4, AttemptsAssumption
  <2> QED
    BY <2>3, <2>4
<1>10. \A l \in Letters : letter[l].kind = "none" => letter'[l].kind = "none" \/ letter'[l] \in job.letters
  BY <1>5
<1> QED
  BY <1>2, <1>3, <1>4, <1>7, <1>8, <1>9, <1>10

\* Nobody who was settled or handled is forgotten by a commit.
LEMMA CommitHandles ==
  ASSUME IInv, NEW w \in Workers, Commit(w), NEW u \in Users
  PROVE  /\ Settled(u) => Settled(u)'
         /\ Handled(u) => Handled(u)'
         /\ (work[w].notes[u] > 0 \/ \E a \in work[w].letters : Covers(a, u)) => Settled(u)'
<1> DEFINE job == work[w]
<1>1. TypeOK /\ job \in Jobs /\ Shape(job) /\ SweepSound(job)
  BY AtWork
<1>2. /\ job.step = "commit" /\ job.job \in {"fan_out", "sweep"}
      /\ notes'[u] = notes[u] + job.notes[u] /\ notes[u] \in Nat /\ job.notes[u] \in Nat
      /\ blame \subseteq blame' /\ UNCHANGED queue
  BY CommitEffect
<1>3. \A l \in Letters : letter[l].kind # "none" =>
        letter'[l].kind = letter[l].kind /\ letter'[l].to = letter[l].to
  BY CommitEffect
<1>4. \A a \in job.letters : \E l \in Due' : letter'[l] = a
  BY CommitEffect
<1>5. \A l \in Due : l \in job.done \/ l \in Due' \/ Forgiven'
  BY CommitEffect
<1>6. job.notes[u] > 0 => Settled(u)'
  BY <1>2 DEF Settled
<1>7. (\E a \in job.letters : Covers(a, u)) => Settled(u)'
  BY <1>4 DEF Settled
<1>8. ASSUME Settled(u) PROVE Settled(u)'
  <2>1. CASE notes[u] > 0
    BY <1>2, <2>1 DEF Settled
  <2>2. CASE Forgiven
    BY <1>2, <2>2 DEF Settled, Forgiven
  <2>3. ASSUME NEW l \in Due, Covers(letter[l], u) PROVE Settled(u)'
    <3>1. l \in Letters /\ letter[l].kind # "none"
      BY DEF Due
    <3>2. Covers(letter'[l], u)
      BY <1>3, <2>3, <3>1 DEF Covers
    <3>3. CASE l \in job.done
      <4>1. job.job = "sweep"
        BY <1>1, <1>2, <3>3 DEF Shape
      <4>2. job.notes[u] > 0
        BY <1>1, <1>2, <2>3, <3>3, <4>1 DEF SweepSound
      <4> QED
        BY <1>6, <4>2
    <3>4. CASE l \in Due' \/ Forgiven'
      BY <3>2, <3>4 DEF Settled, Covers
    <3> QED
      BY <1>5, <3>3, <3>4
  <2> QED
    BY <1>8, <2>1, <2>2, <2>3 DEF Settled
<1>9. ASSUME Handled(u) PROVE Handled(u)'
  <2>1. CASE Settled(u)
    BY <1>8, <2>1 DEF Handled
  <2>2. CASE Waiting
    BY <1>2, <2>2 DEF Handled, Waiting
  <2>3. ASSUME NEW v \in Workers, Addresses(work[v], u) PROVE Handled(u)'
    <3>1. CASE v = w
      BY <1>2, <1>6, <1>7, <2>3, <3>1 DEF Addresses, Handled
    <3>2. CASE v # w
      <4>1. /\ work'[v].step = work[v].step /\ work'[v].job = work[v].job
            /\ work'[v].notes = work[v].notes /\ work'[v].letters = work[v].letters
        BY <1>1, <3>2, CommitType
      <4>2. Addresses(work[v], u)'
        BY <2>3, <4>1 DEF Addresses, Covers
      <4> QED
        BY <4>2 DEF Handled
    <3> QED
      BY <3>1, <3>2
  <2> QED
    BY <1>9, <2>1, <2>2, <2>3 DEF Handled
<1> QED
  BY <1>6, <1>7, <1>8, <1>9

\* The other jobs: whoever overlaps a commit that tells somebody knows it as stale.
LEMMA CommitJobs ==
  ASSUME IInv, NEW w \in Workers, Commit(w)
  PROVE  JobsSound'
<1> DEFINE job == work[w]
<1>1. TypeOK /\ job \in Jobs /\ Shape(job) /\ SweepSound(job) /\ JobsSound /\ LettersSound
  BY AtWork DEF IInv
<1>2. /\ job.step = "commit" /\ job.job \in {"fan_out", "sweep"}
      /\ \A u \in Users : notes'[u] = notes[u] + job.notes[u]
                          /\ notes[u] \in Nat /\ job.notes[u] \in Nat
      /\ blame \subseteq blame' /\ UNCHANGED ann
  BY CommitEffect
<1>3. \A l \in Letters : letter[l].kind # "none" =>
        /\ letter'[l].kind = letter[l].kind /\ letter'[l].to = letter[l].to
        /\ l \notin job.done => letter'[l].resolved = letter[l].resolved
  BY CommitEffect
<1>4. TypeOK'
  BY <1>1, CommitType
<1>5. ~Tells(job) => AlreadySent' = AlreadySent
  BY <1>2 DEF Tells, AlreadySent
<1>6. ASSUME ~Tells(job), NEW l \in job.done PROVE letter[l].kind \notin Deliveries
  <2>1. job.job = "sweep" /\ l \in Letters
    BY <1>1, <1>2, <1>6 DEF Shape, Selected
  <2>2. SUFFICES ASSUME letter[l].kind \in Deliveries PROVE FALSE
    OBVIOUS
  <2>3. PICK u \in letter[l].to : TRUE
    BY <1>1, <2>1, <2>2 DEF LettersSound
  <2>4. u \in Users
    BY <1>1, <2>1, <2>3 DEF TypeOK, DeadLetters
  <2>5. Covers(letter[l], u)
    BY <2>2, <2>3 DEF Covers
  <2>6. job.notes[u] > 0
    BY <1>1, <1>2, <1>6, <2>1, <2>4, <2>5 DEF SweepSound
  <2> QED
    BY <1>6, <2>4, <2>6 DEF Tells
<1>7. Audience' = Audience /\ Audience \subseteq Users
  BY <1>1, <1>2, RolesUsers DEF Audience, TypeOK
<1>8. Clean' => Clean
  BY <1>2 DEF Clean
<1>9. ASSUME NEW v \in Workers, v # w
      PROVE  Shape(work'[v]) /\ FanOutSound(work[v])' /\ SweepSound(work[v])'
  <2>1. /\ work'[v].step = work[v].step /\ work'[v].job = work[v].job
        /\ work'[v].to = work[v].to /\ work'[v].read = work[v].read
        /\ work'[v].notes = work[v].notes /\ work'[v].letters = work[v].letters
        /\ work'[v].done = work[v].done
        /\ work'[v].stale <=> work[v].stale \/ (Tells(job) /\ work[v].step \in {"emit", "commit"})
    BY <1>1, <1>9, CommitType
  <2>2. Shape(work[v]) /\ FanOutSound(work[v]) /\ SweepSound(work[v])
    BY <1>1 DEF JobsSound
  <2>3. Shape(work'[v])
    BY <2>1, <2>2 DEF Shape, LettersFit, Selected
  <2>4. FanOutSound(work[v])'
    <3> SUFFICES ASSUME work[v].job = "fan_out", work[v].step \in {"emit", "commit"}
                 PROVE  FanOutSound(work[v])'
      BY <2>1 DEF FanOutSound
    <3>1. ann.published /\ (work[v].to = ann.to \/ "edited" \in blame)
          /\ (~work[v].stale => ~AlreadySent) /\ (work[v].step = "commit" => GivesAll(work[v]))
      BY <2>2 DEF FanOutSound
    <3>2. ~work'[v].stale => ~AlreadySent'
      BY <1>5, <2>1, <3>1
    <3>3. GivesAll(work[v]) => GivesAll(work[v])'
      BY <2>1 DEF GivesAll, WrittenFor, Covers
    <3> QED
      BY <1>2, <2>1, <3>1, <3>2, <3>3 DEF FanOutSound
  <2>5. SweepSound(work[v])'
    <3> SUFFICES ASSUME work[v].job = "sweep" PROVE SweepSound(work[v])'
      BY <2>1 DEF SweepSound
    <3>1. /\ Selected(work[v])' = Selected(work[v])
          /\ Selected(work[v]) \subseteq Letters /\ work[v].done \subseteq Selected(work[v])
          /\ work[v].step \in {"emit", "commit"}
      BY <2>1, <2>2 DEF Shape, Selected
    <3>2. \A l \in Selected(work[v]) :
            /\ letter[l].kind # "none"
            /\ letter'[l].kind = letter[l].kind /\ letter'[l].to = letter[l].to
      BY <1>3, <2>2, <3>1 DEF SweepSound
    <3>3. \A l \in Selected(work[v]) :
            letter'[l].kind \in Deliveries /\ ~work'[v].stale => ~letter'[l].resolved
      BY <1>3, <1>6, <2>1, <2>2, <3>1, <3>2 DEF SweepSound
    <3>4. work[v].step = "commit" =>
           \A l \in work[v].done : letter'[l].kind = "broadcast_enqueue" =>
              \A u \in Audience : Handled(u)'
      BY <1>7, <2>2, <3>1, <3>2, CommitHandles DEF SweepSound
    <3>5. \A u \in Users : /\ ReplayedFor(work[v], "bulk", u)' <=> ReplayedFor(work[v], "bulk", u)
                           /\ ReplayedFor(work[v], "single", u)' <=> ReplayedFor(work[v], "single", u)
                           /\ \A l \in work[v].done : Covers(letter[l], u)' <=> Covers(letter[l], u)
      BY <2>1, <3>1, <3>2 DEF ReplayedFor, Covers
    <3>6. work[v].step = "commit" => \A u \in Users :
              /\ work[v].notes[u] > 0 <=> \E l \in work[v].done : Covers(letter[l], u)'
              /\ Clean' => work[v].notes[u] <= One(ReplayedFor(work[v], "bulk", u)')
                                            + One(ReplayedFor(work[v], "single", u)')
      BY <1>8, <2>2, <3>5 DEF SweepSound, One
    <3> QED
      BY <1>7, <2>1, <3>1, <3>2, <3>3, <3>4, <3>6 DEF SweepSound
  <2> QED
    BY <2>3, <2>4, <2>5
<1>10. Shape(work'[w]) /\ FanOutSound(work[w])' /\ SweepSound(work[w])'
  <2>1. /\ work'[w].job # "sweep" /\ work'[w].step \notin {"emit", "commit"}
        /\ work'[w].read = NoRows /\ work'[w].done = {} /\ work'[w].letters = {}
        /\ work'[w].job = "none" <=> work'[w].step = "idle"
    BY <1>1, CommitType, FreeShape
  <2> QED
    BY <2>1 DEF Shape, LettersFit, Selected, FanOutSound, SweepSound
<1> QED
  BY <1>9, <1>10 DEF JobsSound

\* A commit of letters only, or a first notification, settles everyone at once.
LEMMA CommitSettles ==
  ASSUME IInv, NEW w \in Workers, Commit(w)
  PROVE  LettersSound' /\ SentSettled' /\ Announced' /\ Queued'
<1> DEFINE job == work[w]
<1>1. TypeOK /\ job \in Jobs /\ Shape(job) /\ FanOutSound(job) /\ SweepSound(job)
      /\ LettersSound /\ SentSettled /\ Announced /\ Queued
  BY AtWork DEF IInv
<1>2. /\ job.step = "commit" /\ job.job \in {"fan_out", "sweep"}
      /\ \A u \in Users : notes'[u] = notes[u] + job.notes[u]
                          /\ notes[u] \in Nat /\ job.notes[u] \in Nat
      /\ blame \subseteq blame' /\ UNCHANGED <<ann, pub, queue>>
  BY CommitEffect
<1>3. \A l \in Letters : letter[l].kind # "none" =>
        letter'[l].kind = letter[l].kind /\ letter'[l].to = letter[l].to
  BY CommitEffect
<1>4. \A l \in Letters : letter[l].kind = "none" =>
        letter'[l].kind = "none" \/ letter'[l] \in job.letters
  BY CommitEffect
<1>5. \A l \in Due : l \in job.done \/ l \in Due' \/ Forgiven'
  BY CommitEffect
<1>6. Audience' = Audience /\ Audience \subseteq Users
  BY <1>1, <1>2, RolesUsers DEF Audience, TypeOK
<1>7. job.letters # {} => job.job = "fan_out" /\ ann.published
  BY <1>1, <1>2 DEF Shape, FanOutSound
<1>8. LettersSound'
  BY <1>1, <1>2, <1>3, <1>4, <1>7 DEF LettersSound, Shape, LettersFit, Deliveries
<1>9. SentSettled'
  <2> SUFFICES ASSUME AlreadySent' \/ FannedOut'
               PROVE  ann.published /\ \A u \in Audience : Settled(u)'
    BY <1>2, <1>6 DEF SentSettled
  <2>1. CASE AlreadySent \/ FannedOut
    BY <1>1, <1>6, <2>1, CommitHandles DEF SentSettled
  <2>2. CASE job.job = "fan_out"
    <3>1. ann.published /\ (job.to = ann.to \/ "edited" \in blame) /\ GivesAll(job)
      BY <1>1, <1>2, <2>2 DEF FanOutSound
    <3>2. ASSUME NEW u \in Audience PROVE Settled(u)'
      <4>1. CASE "edited" \in blame
        BY <1>2, <4>1 DEF Settled, Forgiven
      <4>2. CASE job.to = ann.to
        <5>1. u \in job.to \cup Roles /\ u \in Users
          BY <1>6, <4>2 DEF Audience
        <5>2. job.notes[u] > 0 \/ \E a \in job.letters : Covers(a, u)
          BY <3>1, <5>1 DEF GivesAll
        <5> QED
          BY <5>1, <5>2, CommitHandles
      <4> QED
        BY <3>1, <4>1, <4>2
    <3> QED
      BY <3>1, <3>2
  <2>3. CASE job.job = "sweep" /\ ~AlreadySent /\ ~FannedOut
    <3>1. \A l \in Letters : letter[l].kind \notin Deliveries
      BY <2>3 DEF FannedOut, Deliveries
    <3>2. \A u \in Users : job.notes[u] = 0
      BY <1>1, <1>2, <2>3, <3>1 DEF SweepSound, Shape, Selected, Covers
    <3>3. ~AlreadySent'
      BY <1>2, <2>3, <3>2 DEF AlreadySent
    <3>4. job.letters = {}
      BY <1>1, <2>3 DEF Shape
    <3>5. ~FannedOut'
      BY <1>3, <1>4, <3>1, <3>4 DEF FannedOut, Deliveries
    <3> QED
      BY <3>3, <3>5
  <2> QED
    BY <1>2, <2>1, <2>2, <2>3
<1>10. Announced'
  <2> SUFFICES ASSUME ann.published, NEW u \in Audience
               PROVE  Handled(u)' \/ \E l \in Due' : letter'[l].kind = "broadcast_enqueue"
    BY <1>2, <1>6 DEF Announced
  <2>1. CASE Handled(u)
    BY <1>6, <2>1, CommitHandles
  <2>2. ASSUME NEW l \in Due, letter[l].kind = "broadcast_enqueue"
        PROVE  Handled(u)' \/ \E m \in Due' : letter'[m].kind = "broadcast_enqueue"
    <3>1. l \in Letters /\ letter'[l].kind = "broadcast_enqueue"
      BY <1>3, <2>2 DEF Due
    <3>2. CASE l \in job.done
      <4>1. job.job = "sweep"
        BY <1>1, <1>2, <3>2 DEF Shape
      <4>2. Handled(u)
        BY <1>1, <1>2, <2>2, <3>2, <4>1 DEF SweepSound
      <4> QED
        BY <1>6, <4>2, CommitHandles
    <3>3. CASE Forgiven'
      BY <3>3 DEF Handled, Settled
    <3> QED
      BY <1>5, <3>1, <3>2, <3>3
  <2> QED
    BY <1>1, <2>1, <2>2 DEF Announced
<1>11. Queued'
  <2>1. ASSUME NEW v \in Workers, work[v].job = "fan_out", work[v].step = "read"
        PROVE  work'[v].job = "fan_out" /\ work'[v].step = "read"
    BY <1>1, <1>2, <2>1, CommitType
  <2> QED
    BY <1>1, <1>2, <2>1 DEF Queued, Waiting
<1> QED
  BY <1>8, <1>9, <1>10, <1>11

\* A clean commit is a fan-out's first, or that of a sweep nobody overtook.
LEMMA CommitCounts ==
  ASSUME IInv, NEW w \in Workers, Commit(w)
  PROVE  Counted'
<1> DEFINE job == work[w]
<1>1. TypeOK /\ job \in Jobs /\ Shape(job) /\ FanOutSound(job) /\ SweepSound(job)
      /\ LettersSound /\ Counted
  BY AtWork DEF IInv
<1>2. /\ job.step = "commit" /\ job.job \in {"fan_out", "sweep"}
      /\ \A u \in Users : notes'[u] = notes[u] + job.notes[u]
                          /\ notes[u] \in Nat /\ job.notes[u] \in Nat
      /\ blame \subseteq blame' /\ Blamed(job) \subseteq blame' /\ UNCHANGED ann
  BY CommitEffect
<1>3. \A l \in Letters : letter[l].kind # "none" =>
        /\ letter'[l].kind = letter[l].kind /\ letter'[l].to = letter[l].to
        /\ l \in job.done => letter'[l].resolved = TRUE
        /\ l \notin job.done => letter'[l].resolved = letter[l].resolved
  BY CommitEffect
<1>4. \A l \in Letters : letter[l].kind = "none" =>
        letter'[l].kind = "none" \/ letter'[l] \in job.letters
  BY CommitEffect
<1>5. \A u \in Users : Meant(u)' = Meant(u) /\ Meant(u) \in Nat
  BY <1>2 DEF Meant
<1> SUFFICES ASSUME Clean'
             PROVE  /\ \A l, m \in Letters :
                         letter'[l].kind \in Deliveries /\ letter'[l].kind = letter'[m].kind
                           /\ letter'[l].to \cap letter'[m].to # {} => l = m
                    /\ \A u \in Users :
                         notes'[u] + One(OpenFor("bulk", u)') + One(OpenFor("single", u)') <= Meant(u)'
  BY DEF Counted
<1>6. Clean /\ "edited" \notin blame
  BY <1>2 DEF Clean
<1>7. job.stale => ~Tells(job) /\ job.letters = {}
  BY <1>2 DEF Clean, Blamed
<1>8. job.job = "fan_out" => ~FannedOut
  BY <1>2 DEF Clean, Blamed
<1>9. /\ \A l, m \in Letters :
           letter[l].kind \in Deliveries /\ letter[l].kind = letter[m].kind
             /\ letter[l].to \cap letter[m].to # {} => l = m
      /\ \A u \in Users :
           notes[u] + One(OpenFor("bulk", u)) + One(OpenFor("single", u)) <= Meant(u)
  BY <1>1, <1>6 DEF Counted
<1>10. CASE job.letters = {}
  <2>1. \A l \in Letters : letter'[l].kind \in Deliveries =>
          /\ letter[l].kind \in Deliveries
          /\ letter'[l].kind = letter[l].kind /\ letter'[l].to = letter[l].to
          /\ ~letter'[l].resolved => ~letter[l].resolved /\ l \notin job.done
    <3> SUFFICES ASSUME NEW l \in Letters, letter'[l].kind \in Deliveries
                 PROVE  /\ letter[l].kind \in Deliveries
                        /\ letter'[l].kind = letter[l].kind /\ letter'[l].to = letter[l].to
                        /\ ~letter'[l].resolved => ~letter[l].resolved /\ l \notin job.done
      OBVIOUS
    <3>1. letter[l].kind # "none"
      BY <1>4, <1>10 DEF Deliveries
    <3> QED
      BY <1>3, <3>1
  <2>2. \A l, m \in Letters :
           letter'[l].kind \in Deliveries /\ letter'[l].kind = letter'[m].kind
             /\ letter'[l].to \cap letter'[m].to # {} => l = m
    BY <1>9, <2>1
  <2>3. ASSUME NEW u \in Users
        PROVE  /\ OpenFor("bulk", u)' => OpenFor("bulk", u)
               /\ OpenFor("single", u)' => OpenFor("single", u)
    BY <2>1 DEF OpenFor, Deliveries
  <2>4. ASSUME NEW u \in Users
        PROVE  notes'[u] + One(OpenFor("bulk", u)') + One(OpenFor("single", u)') <= Meant(u)'
    <3>1. CASE job.notes[u] = 0
      BY <1>2, <1>5, <1>9, <2>3, <2>4, <3>1 DEF One
    <3>2. CASE job.notes[u] > 0 /\ job.job = "fan_out"
      <4>1. Tells(job)
        BY <3>2 DEF Tells
      <4>2. notes[u] = 0 /\ ann.published /\ job.to = ann.to /\ GivesAll(job)
        BY <1>1, <1>2, <1>6, <1>7, <3>2, <4>1 DEF FanOutSound, AlreadySent
      <4>3. ~OpenFor("bulk", u)' /\ ~OpenFor("single", u)'
        BY <1>8, <2>1, <3>2 DEF OpenFor, FannedOut, Deliveries
      <4>4. job.notes[u] <= One(u \in job.to) + One(u \in Roles)
        <5>1. job.notes[u] + One(WrittenFor(job, "bulk", u)) + One(WrittenFor(job, "single", u))
                <= One(u \in job.to) + One(u \in Roles)
          BY <4>2 DEF GivesAll
        <5> QED
          BY <1>2, <5>1 DEF One
      <4>5. Meant(u) = One(u \in job.to) + One(u \in Roles)
        BY <4>2 DEF Meant, One
      <4> QED
        BY <1>2, <1>5, <4>2, <4>3, <4>4, <4>5 DEF One
    <3>3. CASE job.notes[u] > 0 /\ job.job = "sweep"
      <4>1. Tells(job)
        BY <3>3 DEF Tells
      <4>2. job.notes[u] <= One(ReplayedFor(job, "bulk", u)) + One(ReplayedFor(job, "single", u))
        BY <1>1, <1>2, <1>6, <3>3 DEF SweepSound
      <4>3. \A l \in job.done : l \in Letters /\
              (letter[l].kind \in Deliveries => ~letter[l].resolved)
        BY <1>1, <1>7, <3>3, <4>1 DEF SweepSound, Shape, Selected
      <4>4. ReplayedFor(job, "bulk", u) => OpenFor("bulk", u) /\ ~OpenFor("bulk", u)'
        BY <1>9, <2>1, <4>3 DEF ReplayedFor, OpenFor, Deliveries
      <4>5. ReplayedFor(job, "single", u) => OpenFor("single", u) /\ ~OpenFor("single", u)'
        BY <1>9, <2>1, <4>3 DEF ReplayedFor, OpenFor, Deliveries
      <4> QED
        BY <1>2, <1>5, <1>9, <2>3, <2>4, <4>2, <4>4, <4>5 DEF One
    <3> QED
      BY <1>2, <3>1, <3>2, <3>3
  <2> QED
    BY <2>2, <2>4
<1>11. CASE job.letters # {}
  <2>1. job.job = "fan_out" /\ ~job.stale /\ ~FannedOut
    BY <1>1, <1>2, <1>7, <1>8, <1>11 DEF Shape
  <2>2. /\ ann.published /\ job.to = ann.to /\ GivesAll(job)
        /\ \A u \in Users : notes[u] = 0
    BY <1>1, <1>2, <1>6, <2>1 DEF FanOutSound, AlreadySent
  <2>3. \A l \in Letters : letter[l].kind \notin Deliveries
    BY <2>1 DEF FannedOut, Deliveries
  <2>4. \A l \in Letters : letter'[l].kind \in Deliveries =>
          letter'[l] \in job.letters /\ letter'[l] # Swept(job, l)
    <3> SUFFICES ASSUME NEW l \in Letters, letter'[l].kind \in Deliveries
                 PROVE  letter'[l] \in job.letters /\ letter'[l] # Swept(job, l)
      OBVIOUS
    <3>1. letter[l].kind = "none"
      BY <1>3, <2>3
    <3>2. letter'[l] \in job.letters
      BY <1>4, <3>1 DEF Deliveries
    <3>3. Swept(job, l).kind = letter[l].kind
      BY <1>1, SweptRow
    <3> QED
      BY <3>1, <3>2, <3>3 DEF Deliveries
  <2>5. \A l, m \in Letters : letter'[l] = letter'[m] /\ letter'[l] # Swept(job, l)
          /\ letter'[m] # Swept(job, m) => l = m
    BY <1>1, Committed
  <2>6. \A a, b \in job.letters : a.kind = b.kind /\ a.to \cap b.to # {} => a = b
    BY <1>1 DEF Shape, LettersFit
  <2>7. \A l, m \in Letters :
           letter'[l].kind \in Deliveries /\ letter'[l].kind = letter'[m].kind
             /\ letter'[l].to \cap letter'[m].to # {} => l = m
    BY <2>4, <2>5, <2>6
  <2>8. ASSUME NEW u \in Users
        PROVE  notes'[u] + One(OpenFor("bulk", u)') + One(OpenFor("single", u)') <= Meant(u)'
    <3>1. /\ OpenFor("bulk", u)' => WrittenFor(job, "bulk", u)
          /\ OpenFor("single", u)' => WrittenFor(job, "single", u)
      BY <2>4 DEF OpenFor, WrittenFor, Deliveries
    <3>2. job.notes[u] + One(WrittenFor(job, "bulk", u)) + One(WrittenFor(job, "single", u))
            <= One(u \in job.to) + One(u \in Roles)
      BY <2>2 DEF GivesAll
    <3>3. Meant(u) = One(u \in job.to) + One(u \in Roles)
      BY <2>2 DEF Meant, One
    <3> QED
      BY <1>2, <1>5, <2>2, <3>1, <3>2, <3>3 DEF One
  <2> QED
    BY <2>7, <2>8
<1> QED
  BY <1>10, <1>11

LEMMA CommitMoves ==
  ASSUME IInv, NEW w \in Workers, Commit(w)
  PROVE  IInv'
<1>1. TypeOK'
  BY CommitType DEF IInv
<1> QED
  BY <1>1, CommitJobs, CommitSettles, CommitCounts DEF IInv

-----------------------------------------------------------------------------
(* The invariant, and what follows from it. *)

LEMMA InitIInv == Init => IInv
<1> SUFFICES ASSUME Init PROVE IInv
  OBVIOUS
<1>1. TypeOK
  BY InitType
<1>2. \A w \in Workers : work[w] = Free
  BY DEF Init
<1>3. /\ \A l \in Letters : letter[l] = NoLetter
      /\ \A u \in Users : notes[u] = 0
      /\ ~ann.published
      /\ \A p \in Publishers : pub[p].step = "idle"
  BY DEF Init, NoNotes
<1>4. JobsSound
  BY <1>2, FreeShape DEF JobsSound, Shape, LettersFit, Selected, NoRows, FanOutSound, SweepSound
<1>5. \A l \in Letters : letter[l].kind = "none"
  BY <1>3 DEF NoLetter
<1>6. LettersSound /\ SentSettled /\ Announced /\ Queued
  BY <1>3, <1>5 DEF LettersSound, SentSettled, AlreadySent, FannedOut, Announced, Queued, Deliveries
<1>7. Counted
  BY <1>3, <1>5 DEF Counted, OpenFor, Meant, Deliveries, One
<1> QED
  BY <1>1, <1>4, <1>6, <1>7 DEF IInv

LEMMA NextIInv == IInv /\ [Next]_vars => IInv'
<1> SUFFICES ASSUME IInv, [Next]_vars PROVE IInv'
  OBVIOUS
<1>1. CASE EditRead
  BY <1>1, EditReadMoves
<1>2. ASSUME NEW to \in SUBSET Residents, EditCommit(to) PROVE IInv'
  BY <1>2, EditCommitMoves
<1>3. ASSUME NEW p \in Publishers, Request(p) PROVE IInv'
  BY <1>3, PublishReadMoves, PublishSendMoves, PublishCommitMoves, PublishFailMoves DEF Request
<1>4. ASSUME NEW w \in Workers, Job(w) PROVE IInv'
  <2>1. ASSUME NEW n \in Tries, Take(w, n) PROVE IInv'
    BY <2>1, TakeMoves
  <2>2. CASE Postpone(w) \/ GiveUp(w) \/ Skip(w) \/ Begin(w) \/ Ack(w) \/ Sweep(w)
    BY <2>2, PostponeMoves, GiveUpMoves, SkipMoves, BeginMoves, AckMoves, SweepMoves
  <2>3. ASSUME NEW told \in BOOLEAN, NEW failed \in SUBSET Roles, Emit(w, told, failed) PROVE IInv'
    BY <2>3, EmitMoves
  <2>4. ASSUME NEW failed \in SUBSET Letters, NEW resent \in SUBSET Letters, Replay(w, failed, resent)
        PROVE  IInv'
    BY <2>4, ReplayMoves
  <2>5. CASE Commit(w)
    BY <2>5, CommitMoves
  <2> QED
    BY <1>4, <2>1, <2>2, <2>3, <2>4, <2>5 DEF Job
<1>5. ASSUME NEW w \in Workers, Fail(w) \/ Lose(w) PROVE IInv'
  BY <1>5, FailMoves, LoseMoves
<1>6. CASE UNCHANGED vars
  <2>1. UNCHANGED <<ann, editing, pub, queue, work, letter, notes, faults, blame>>
    BY <1>6 DEF vars
  <2>2. TypeOK' /\ Queued' /\ (Waiting => Waiting')
    BY <2>1 DEF IInv, TypeOK, Queued, Waiting
  <2> QED
    BY <2>1, <2>2, RequestMoves
<1> QED
  BY <1>1, <1>2, <1>3, <1>4, <1>5, <1>6 DEF Next

LEMMA InductiveInvariant == Spec => []IInv
<1> QED
  BY InitIInv, NextIInv, PTL DEF Spec

\* The types hold.
THEOREM TypeCorrect == Spec => []TypeOK
<1>1. IInv => TypeOK
  BY DEF IInv
<1> QED
  BY <1>1, InductiveInvariant, PTL

\* Whoever a published announcement addresses has been notified, or a message, a task or a
\* dead letter is going to see to it, or one of the named causes has come about: whatever
\* the broker, the database and the workers do, for any number of them.
THEOREM NobodyIsForgotten == Spec => []NobodyForgotten
<1>1. IInv => NobodyForgotten
  <2> SUFFICES ASSUME IInv, ann.published, NEW u \in Audience
               PROVE  notes[u] > 0 \/ Coming(u) \/ Forgiven
    BY DEF NobodyForgotten
  <2>1. Handled(u) \/ \E l \in Due : letter[l].kind = "broadcast_enqueue"
    BY DEF IInv, Announced
  <2> QED
    BY <2>1 DEF Handled, Settled, Waiting, Addresses, Covers, Coming
<1> QED
  BY <1>1, InductiveInvariant, PTL

\* A draft, or a publication rolled back, is told to nobody although its task is queued before
\* the commit; and everyone is told as often as meant unless two jobs overlapped, a fan-out
\* was repeated over dead letters, or an edit overtook the publication.
THEOREM ToldOnce == Spec => []ToldAsMeant
<1>1. IInv => ToldAsMeant
  <2> SUFFICES ASSUME IInv PROVE ToldAsMeant
    OBVIOUS
  <2>1. TypeOK /\ SentSettled /\ Counted
    BY DEF IInv
  <2>2. \A u \in Users : notes[u] \in Nat
    BY <2>1 DEF TypeOK
  <2>3. ~ann.published => \A u \in Users : notes[u] = 0
    BY <2>1, <2>2 DEF SentSettled, AlreadySent
  <2>4. ASSUME NEW u \in Users, Clean PROVE notes[u] <= Meant(u)
    <3>1. notes[u] + One(OpenFor("bulk", u)) + One(OpenFor("single", u)) <= Meant(u)
      BY <2>1, <2>4 DEF Counted
    <3>2. Meant(u) \in Nat
      BY DEF Meant
    <3> QED
      BY <2>2, <3>1, <3>2 DEF One
  <2> QED
    BY <2>3, <2>4 DEF ToldAsMeant, Clean
<1> QED
  BY <1>1, InductiveInvariant, PTL

\* A fan-out that finds a notification or a delivery's dead letter may skip: everyone is
\* settled already, which is what the count in fan_out_announcement is relied on for.
THEOREM SkippingIsSafe == Spec => []SentSettled
<1>1. IInv => SentSettled
  BY DEF IInv
<1> QED
  BY <1>1, InductiveInvariant, PTL
=============================================================================
