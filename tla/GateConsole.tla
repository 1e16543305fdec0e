----------------------------- MODULE GateConsole -----------------------------
(* The guard's live gate (frontend security-guard/live-gate/page.tsx): the   *)
(* passes verified, their entries and exits, and the server calls they make. *)
(* A code is what the guard types or scans.  A pass is <<kind, code>>: the   *)
(* code may name a pass of several kinds (a visitor's PIN and a family       *)
(* member's, say).  A definition marked `faulty` is a plausible slip in the  *)
(* next one; Next never uses it.                                             *)
EXTENDS Naturals, FiniteSets

CONSTANTS
  Codes,
  Look,            \* code -> the branch its prefix selects
  Digits,          \* code -> its length after OTP-, PIN- or PASS- is cut
  Passes,          \* the passes of the server, <<kind, code>>
  Slots,           \* verifications on the console at a time
  MaxStarts,       \* bound on verifications
  MaxOthers        \* bound on answers lost, passes shut, walk-ins, and entries and exits
                   \* at other gates, together

Kinds == {"staff", "vendor", "delivery", "family", "visitor"}

ASSUME LookAssumption == Look \in [Codes -> Kinds] /\ Digits \in [Codes -> Nat]
ASSUME PassesAssumption == Passes \subseteq {"staff", "family", "visitor"} \X Codes
ASSUME BoundsAssumption == Slots \subseteq Nat /\ {MaxStarts, MaxOthers} \subseteq Nat

VARIABLES
  visits,          \* pass -> entries recorded
  inside,          \* staff and visitor passes whose last entry is open
  open,            \* passes neither revoked, disabled nor inactive
  logged,          \* vendor and delivery codes with a gate event
  page,            \* the page's useState fields
  call,            \* slot -> one executeVerification
  exit,            \* handleRecordExit, and the check-out of a staff pass
  starts,          \* verifications started
  others           \* what MaxOthers bounds, so far

vars == <<visits, inside, open, logged, page, call, exit, starts, others>>
server == <<visits, inside, open, logged>>

Entry == [pass : Kinds \X Codes, id : Nat]
NoCard == [pass |-> <<"none", "none">>, id |-> 0]
Messages == {"none", "entered", "exited", "left", "read"}
Errors == {"none", "photo", "inside", "denied", "unreadable", "exit"}

Steps == {"free", "decoding", "staff", "vendor", "delivery", "family", "entry",
          "entryFamily", "entryStaff", "details", "entered", "denied"}
Asking == {"staff", "vendor", "delivery", "family", "entry", "entryFamily", "entryStaff"}
Over == {"free", "entered", "denied"}

\* what the step of a verification asks the server for
KindOf(step) ==
  CASE step = "entry" -> "visitor"
    [] step = "entryFamily" -> "family"
    [] step = "entryStaff" -> "staff"
    [] OTHER -> step

Free == [step |-> "free", code |-> "none", photo |-> FALSE, answer |-> "none",
         entry |-> NoCard, made |-> {}, lost |-> FALSE]
NoExit == [step |-> "free", entry |-> NoCard, answer |-> "none"]

Other == others < MaxOthers /\ others' = others + 1

Init ==
  /\ visits = [p \in Passes |-> 0] /\ inside = {} /\ open = Passes /\ logged = {}
  /\ page = [card |-> NoCard, success |-> "none", error |-> "none", verifying |-> FALSE,
             photo |-> FALSE, toCheckOut |-> "none"]
  /\ call = [k \in Slots |-> Free]
  /\ exit = [card |-> NoExit, pass |-> NoExit]
  /\ starts = 0 /\ others = 0

-----------------------------------------------------------------------------
(* Starting a verification                                                   *)

NeedsPhoto(c, photo) == Look[c] = "visitor" /\ ~photo /\ Digits[c] # 10

\* the head of every branch: the last visitor's result is cleared
Cleared(p) ==
  [p EXCEPT !.verifying = TRUE, !.error = "none", !.success = "none", !.card = NoCard,
            !.toCheckOut = "none"]

\* the branch of the code
Asked(c, photo) ==
  [Free EXCEPT !.step = IF Look[c] = "visitor" THEN "entry" ELSE Look[c], !.code = c, !.photo = photo]

\* executeVerification up to its first await, with the photo its closure holds
Execute(k, c, photo, p) ==
  IF NeedsPhoto(c, photo)
  THEN /\ page' = [p EXCEPT !.error = "photo"]
       /\ call' = [call EXCEPT ![k] = Free]
  ELSE /\ page' = Cleared(p)
       /\ call' = [call EXCEPT ![k] = Asked(c, photo)]

\* the first slot that is over; which one does not matter
CanStart(k) ==
  starts < MaxStarts /\ call[k].step \in Over /\ \A j \in Slots : call[j].step \in Over => k <= j

\* VERIFY & ALLOW ENTRY
Verify(k, c) ==
  /\ CanStart(k) /\ ~page.verifying
  /\ starts' = starts + 1
  /\ Execute(k, c, page.photo, page)
  /\ UNCHANGED <<server, exit, others>>

\* a QR image dropped on the card, which is never disabled
DropImage(k, c) ==
  /\ CanStart(k)
  /\ starts' = starts + 1
  /\ page' = [page EXCEPT !.error = "none", !.success = "none"]
  /\ call' = [call EXCEPT ![k] = [Free EXCEPT !.step = "decoding", !.code = c, !.photo = page.photo]]
  /\ UNCHANGED <<server, exit, others>>

\* decoded, and verified unless autoVerifyOnScan is off
Decoded(k) ==
  /\ call[k].step = "decoding"
  /\ \/ Execute(k, call[k].code, call[k].photo, page)
     \/ /\ page' = [page EXCEPT !.success = "read"]
        /\ call' = [call EXCEPT ![k] = Free]
     \/ /\ page' = [page EXCEPT !.error = "unreadable"]
        /\ call' = [call EXCEPT ![k] = Free]
  /\ UNCHANGED <<server, exit, starts, others>>

AttachPhoto ==
  /\ page' = [page EXCEPT !.photo = TRUE, !.error = "none"]
  /\ UNCHANGED <<server, call, exit, starts, others>>

\* faulty
NextVisitorKeepsMessage ==
  /\ page.card # NoCard
  /\ page' = [page EXCEPT !.card = NoCard, !.error = "none"]
  /\ UNCHANGED <<server, call, exit, starts, others>>

NextVisitor ==
  /\ page.card # NoCard
  /\ page' = [page EXCEPT !.card = NoCard, !.success = "none", !.error = "none"]
  /\ UNCHANGED <<server, call, exit, starts, others>>

-----------------------------------------------------------------------------
(* The server                                                                *)

\* check_in, verify_family_pass and record_entry accept the pass
Admits(p) ==
  /\ p \in open
  /\ p[1] = "staff" => p \notin inside
  /\ p[1] = "visitor" => visits[p] = 0

Admit(p) ==
  /\ visits' = [visits EXCEPT ![p] = @ + 1]
  /\ inside' = IF p[1] = "family" THEN inside ELSE inside \cup {p}

Refusal(p) == IF p[1] = "staff" /\ p \in inside THEN "inside" ELSE "refused"

\* the answer with the entry made
Recorded(c, p) ==
  [c EXCEPT !.answer = "ok", !.made = @ \cup {p}, !.entry = [pass |-> p, id |-> visits[p] + 1]]

ServeLog(k) ==
  /\ call[k].step \in {"vendor", "delivery"} /\ call[k].answer = "none"
  /\ logged' = logged \cup {call[k].code}
  /\ call' = [call EXCEPT ![k] = [@ EXCEPT !.answer = "ok",
                 !.entry = [pass |-> <<call[k].step, call[k].code>>, id |-> 1]]]
  /\ UNCHANGED <<visits, inside, open, page, exit, starts, others>>

Serve(k) ==
  LET p == <<KindOf(call[k].step), call[k].code>> IN
  /\ call[k].step \in Asking \ {"vendor", "delivery"} /\ call[k].answer = "none"
  /\ IF Admits(p)
     THEN /\ Admit(p)
          /\ call' = [call EXCEPT ![k] = Recorded(@, p)]
     ELSE /\ call' = [call EXCEPT ![k] = [@ EXCEPT !.answer = Refusal(p)]]
          /\ UNCHANGED <<visits, inside>>
  /\ UNCHANGED <<open, logged, page, exit, starts, others>>

\* the request, or its answer, never arrives
Lose(k) ==
  /\ call[k].step \in Asking /\ call[k].answer \in {"none", "ok"} /\ Other
  /\ call' = [call EXCEPT ![k] = [@ EXCEPT !.answer = "refused", !.lost = TRUE]]
  /\ UNCHANGED <<server, page, exit, starts>>

-----------------------------------------------------------------------------
(* The rest of executeVerification                                           *)

Ends(k, verdict) ==
  call' = [call EXCEPT ![k] = [@ EXCEPT !.step = verdict, !.answer = "none", !.photo = FALSE]]

Entered(k, e) ==
  /\ page' = [page EXCEPT !.card = e, !.success = "entered", !.verifying = FALSE]
  /\ Ends(k, "entered")

Denied(k, error) ==
  /\ page' = [page EXCEPT !.error = error, !.verifying = FALSE]
  /\ Ends(k, "denied")

\* faulty
AnswerStaffInside(k) ==
  /\ call[k].step = "staff"
  /\ IF call[k].answer \in {"ok", "inside"}
     THEN Entered(k, [call[k].entry EXCEPT !.pass = <<"staff", call[k].code>>])
     ELSE Denied(k, "denied")

AnswerStaff(k) ==
  /\ call[k].step = "staff"
  /\ CASE call[k].answer = "ok"     -> Entered(k, call[k].entry)
       [] call[k].answer = "inside" ->
            /\ page' = [page EXCEPT !.error = "inside", !.verifying = FALSE, !.toCheckOut = call[k].code]
            /\ Ends(k, "denied")
       [] OTHER                     -> Denied(k, "denied")

\* a gate event that could not be logged is replaced by an id made up on the spot
AnswerLog(k) ==
  /\ call[k].step \in {"vendor", "delivery"}
  /\ Entered(k, [pass |-> <<call[k].step, call[k].code>>,
                 id |-> IF call[k].answer = "ok" THEN call[k].entry.id ELSE 0])

AnswerFamily(k) ==
  /\ call[k].step = "family"
  /\ IF call[k].answer = "ok" THEN Entered(k, call[k].entry) ELSE Denied(k, "denied")

Continue(k, step) ==
  /\ call' = [call EXCEPT ![k] = [@ EXCEPT !.step = step, !.answer = "none"]]
  /\ UNCHANGED page

\* recordEntry; PHOTO_REQUIRED never meets the codes whose photo was not asked for
AnswerEntry(k) ==
  /\ call[k].step = "entry"
  /\ IF call[k].answer = "ok" THEN Continue(k, "details") ELSE Continue(k, "entryFamily")

\* faulty
ReturnLocked(k) ==
  /\ call[k].step = "entryFamily"
  /\ IF call[k].answer = "ok"
     THEN /\ page' = [page EXCEPT !.card = call[k].entry, !.success = "entered"]
          /\ Ends(k, "entered")
     ELSE IF Digits[call[k].code] \in {10, 12} THEN Continue(k, "entryStaff")
     ELSE Denied(k, "denied")

AnswerEntryFamily(k) ==
  /\ call[k].step = "entryFamily"
  /\ IF call[k].answer = "ok" THEN Entered(k, call[k].entry)
     ELSE IF Digits[call[k].code] \in {10, 12} THEN Continue(k, "entryStaff")
     ELSE Denied(k, "denied")

AnswerEntryStaff(k) ==
  /\ call[k].step = "entryStaff"
  /\ IF call[k].answer = "ok" THEN Entered(k, call[k].entry) ELSE Denied(k, "denied")

Answer(k) ==
  /\ call[k].answer # "none"
  /\ \/ AnswerStaff(k) \/ AnswerLog(k) \/ AnswerFamily(k)
     \/ AnswerEntry(k) \/ AnswerEntryFamily(k) \/ AnswerEntryStaff(k)
  /\ UNCHANGED <<server, exit, starts, others>>

\* faulty
DetailsFatal(k) ==
  /\ call[k].step = "details"
  /\ Denied(k, "denied")
  /\ UNCHANGED <<server, exit, starts, others>>

\* getRequest and directory, whose failure is not fatal
Details(k) ==
  /\ call[k].step = "details"
  /\ page' = [page EXCEPT !.card = call[k].entry, !.success = "entered", !.verifying = FALSE,
                          !.photo = FALSE]
  /\ Ends(k, "entered")
  /\ UNCHANGED <<server, exit, starts, others>>

-----------------------------------------------------------------------------
(* Exits                                                                     *)

\* RECORD EXIT NOW, CHECK OUT STAFF NOW
RecordExit ==
  /\ page.card # NoCard /\ exit.card.step = "free"
  /\ exit' = [exit EXCEPT !.card = [NoExit EXCEPT !.step = "asked", !.entry = page.card]]
  /\ UNCHANGED <<server, page, call, starts, others>>

\* Check Out Staff Member Now, shown under any error (bound: one at a time)
CheckOut ==
  /\ page.toCheckOut # "none" /\ page.error # "none" /\ ~page.verifying /\ exit.pass = NoExit
  /\ exit' = [exit EXCEPT !.pass = [NoExit EXCEPT
                !.step = "asked", !.entry.pass = <<"staff", page.toCheckOut>>]]
  /\ page' = [page EXCEPT !.verifying = TRUE]
  /\ UNCHANGED <<server, call, starts, others>>

\* check_out and record_exit close an open entry; a gate event of a family pass is none
ServeExit(b) ==
  LET p == exit[b].entry.pass
      closes == p \in inside /\ (b = "card" => exit[b].entry.id = visits[p])
      logs == p[1] \in {"vendor", "delivery"}
  IN
  /\ exit[b].step = "asked" /\ exit[b].answer = "none"
  /\ exit' = [exit EXCEPT ![b].answer = IF closes \/ logs THEN "ok" ELSE "refused"]
  /\ inside' = IF closes THEN inside \ {p} ELSE inside
  /\ UNCHANGED <<visits, open, logged, page, call, starts, others>>

LoseExit(b) ==
  /\ exit[b].step = "asked" /\ exit[b].answer \in {"none", "ok"} /\ Other
  /\ exit' = [exit EXCEPT ![b].answer = "refused"]
  /\ UNCHANGED <<server, page, call, starts>>

\* faulty
ExitNeverFails ==
  /\ exit.card.answer # "none"
  /\ page' = [page EXCEPT !.card = NoCard, !.success = "exited"]
  /\ exit' = [exit EXCEPT !.card = NoExit]
  /\ UNCHANGED <<server, call, starts, others>>

\* whatever card the page shows by now goes; a failed log of a vendor or delivery does not matter
ExitAnswered ==
  LET e == exit.card IN
  /\ e.answer # "none"
  /\ page' = IF e.answer = "ok" \/ e.entry.pass[1] \in {"vendor", "delivery"}
             THEN [page EXCEPT !.card = NoCard, !.success = "exited"]
             ELSE [page EXCEPT !.error = "exit"]
  /\ exit' = [exit EXCEPT !.card = NoExit]
  /\ UNCHANGED <<server, call, starts, others>>

CheckOutAnswered ==
  /\ exit.pass.answer # "none"
  /\ page' = IF exit.pass.answer = "ok"
             THEN [page EXCEPT !.success = "left", !.toCheckOut = "none", !.error = "none",
                               !.verifying = FALSE]
             ELSE [page EXCEPT !.error = "exit", !.verifying = FALSE]
  /\ exit' = [exit EXCEPT !.pass = NoExit]
  /\ UNCHANGED <<server, call, starts, others>>

-----------------------------------------------------------------------------
(* Everybody else                                                            *)

\* WalkInVisitorModal admits a request the resident approved
AdmitWalkIn(p) ==
  /\ p[1] = "visitor" /\ Admits(p) /\ Other
  /\ Admit(p)
  /\ page' = [page EXCEPT !.success = "entered", !.card = [pass |-> p, id |-> visits[p] + 1]]
  /\ UNCHANGED <<open, logged, call, exit, starts>>

\* another gate's staff entry, or any exit
Elsewhere(p) ==
  /\ \/ p[1] = "staff" /\ Admits(p) /\ Admit(p)
     \/ p \in inside /\ inside' = inside \ {p} /\ UNCHANGED visits
  /\ Other
  /\ UNCHANGED <<open, logged, page, call, exit, starts>>

\* revoked, deactivated, disabled
Shut(p) ==
  /\ p \in open /\ Other
  /\ open' = open \ {p}
  /\ UNCHANGED <<visits, inside, logged, page, call, exit, starts>>

Next ==
  \/ \E k \in Slots, c \in Codes : Verify(k, c) \/ DropImage(k, c)
  \/ \E k \in Slots : Decoded(k) \/ ServeLog(k) \/ Serve(k) \/ Lose(k) \/ Answer(k) \/ Details(k)
  \/ \E b \in {"card", "pass"} : ServeExit(b) \/ LoseExit(b)
  \/ AttachPhoto \/ NextVisitor \/ RecordExit \/ CheckOut \/ ExitAnswered \/ CheckOutAnswered
  \/ \E p \in Passes : AdmitWalkIn(p) \/ Elsewhere(p) \/ Shut(p)

Spec == Init /\ [][Next]_vars

-----------------------------------------------------------------------------
(* Properties                                                                *)

Cards == Entry \cup {NoCard}
Calls == [step : Steps, code : Codes \cup {"none"}, photo : BOOLEAN,
          answer : {"none", "ok", "inside", "refused"}, entry : Cards, made : SUBSET Passes,
          lost : BOOLEAN]
Pages == [card : Cards, success : Messages, error : Errors, verifying : BOOLEAN, photo : BOOLEAN,
          toCheckOut : Codes \cup {"none"}]
Exits == [step : {"free", "asked"}, entry : Cards, answer : {"none", "ok", "refused"}]

\* The variables have the values the code gives them.
TypeOK ==
  /\ visits \in [Passes -> Nat]
  /\ inside \subseteq Passes /\ open \subseteq Passes /\ logged \subseteq Codes
  /\ page \in Pages
  /\ call \in [Slots -> Calls]
  /\ exit \in [card : Exits, pass : Exits]
  /\ starts \in 0..MaxStarts /\ others \in 0..MaxOthers

\* Unless an answer was lost, a verification that ends in a refusal has recorded nothing,
\* and one that ends in an admission has recorded that entry and no other, through every
\* fallback of the chain visitor, family, staff.
VerdictIsTrue ==
  \A k \in Slots :
    ~call[k].lost =>
      /\ call[k].step = "denied" => call[k].made = {}
      /\ call[k].step = "entered" /\ Look[call[k].code] \notin {"vendor", "delivery"} =>
           call[k].made = {call[k].entry.pass}

\* The card on the screen stands for an entry of the server's books, except that of a
\* vendor or a delivery, whose gate event may have failed.
CardIsRecorded ==
  page.card # NoCard =>
    IF page.card.pass[1] \in {"vendor", "delivery"}
    THEN page.card.id > 0 => page.card.pass[2] \in logged
    ELSE page.card.pass \in Passes /\ page.card.id \in 1..visits[page.card.pass]

\* The message of an entry is shown with its card and that of an exit without one, however
\* verifications, exits and walk-ins overlap.
BannerFitsCard ==
  /\ page.success = "entered" => page.card # NoCard
  /\ page.success = "exited" => page.card = NoCard

\* With nothing under way the console is not left locked: every early return of
\* executeVerification gives isVerifying back.
IdleIsUnlocked ==
  (\A k \in Slots : call[k].step \in Over \cup {"decoding"}) /\ exit.pass = NoExit => ~page.verifying

\* The page says that staff or a visitor left only when the entry of the card it asked
\* for is closed, even if that person has entered again since.
ExitIsTrue ==
  [][LET e == exit.card.entry IN
     exit.card # NoExit /\ exit'.card = NoExit /\ page'.success = "exited"
       /\ e.pass[1] \in {"staff", "visitor"} =>
         e.pass \notin inside \/ visits[e.pass] > e.id]_vars

=============================================================================
