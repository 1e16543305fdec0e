-------------------------- MODULE GateConsoleProofs --------------------------
(***************************************************************************)
(* What the gate console shows, for any codes, passes and number of        *)
(* verifications on it.  The argument: a verification carries the entry it *)
(* was answered with, and an entry once recorded stays in the books        *)
(* (Booked), since a pass is only ever used more often; whatever another   *)
(* verification, exit or gate does meanwhile can take away neither.        *)
(***************************************************************************)
EXTENDS GateConsole, TLAPS

Others == {"vendor", "delivery"}

Booked(e) == e.pass \in Passes /\ e.id \in 1..visits[e.pass]

\* What a verification knows at each of its steps.
Sound(c) ==
  /\ c.step # "free" => c.code \in Codes
  /\ c.step \in Others => Look[c.code] = c.step /\ (c.answer = "ok" => c.code \in logged)
  /\ c.step = "details" \/ (c.step \in Asking \ Others /\ c.answer = "ok") => Booked(c.entry)
  /\ ~ c.lost =>
       /\ c.step = "details" \/ (c.step \in Asking \ Others /\ c.answer = "ok") =>
            c.made = {c.entry.pass}
       /\ c.step \in Others \/ (c.step \in Asking /\ c.answer # "ok") => c.made = {}

CallsSound == \A k \in Slots : Sound(call[k])

\* An exit was asked for the entry of a card, and one that succeeded closed it.
ExitSound ==
  /\ exit.card.step = "free" => exit.card = NoExit
  /\ exit.card.step = "asked" =>
       /\ page.success # "exited"
       /\ exit.card.entry.pass[1] \in Others \/ Booked(exit.card.entry)
  /\ exit.card.answer = "ok" /\ exit.card.entry.pass[1] \in {"staff", "visitor"} =>
       exit.card.entry.pass \notin inside \/ visits[exit.card.entry.pass] > exit.card.entry.id

IInv ==
  /\ TypeOK
  /\ CallsSound
  /\ VerdictIsTrue
  /\ CardIsRecorded
  /\ BannerFitsCard
  /\ IdleIsUnlocked
  /\ ExitSound

-----------------------------------------------------------------------------
(* What a step does to the books                                             *)

LEMMA Blank == NoCard \in Cards /\ Free \in Calls /\ NoExit \in Exits
  BY DEF Cards, Free, Calls, Steps, NoExit, Exits

LEMMA InitIInv == Init => IInv
<1> SUFFICES ASSUME Init PROVE IInv
  OBVIOUS
<1>2. page \in Pages
  BY Blank DEF Init, Pages, Messages, Errors
<1>3. TypeOK
  BY <1>2, Blank, BoundsAssumption DEF Init, TypeOK
<1>4. \A k \in Slots : call[k] = Free
  BY DEF Init
<1>5. CallsSound /\ VerdictIsTrue
  BY <1>4 DEF CallsSound, Sound, VerdictIsTrue, Free, Asking, Others
<1>6. CardIsRecorded /\ BannerFitsCard /\ IdleIsUnlocked /\ ExitSound
  BY DEF Init, CardIsRecorded, BannerFitsCard, IdleIsUnlocked, ExitSound, NoExit
<1> QED
  BY <1>3, <1>5, <1>6 DEF IInv

LEMMA AdmitGrows ==
  ASSUME TypeOK, NEW p \in Passes, Admit(p)
  PROVE  /\ visits' \in [Passes -> Nat]
         /\ \A q \in Passes : visits'[q] >= visits[q]
         /\ visits'[p] = visits[p] + 1
         /\ inside' \subseteq inside \cup {p}
  BY DEF TypeOK, Admit

\* A pass is used more often, never less, and whoever is inside anew has a new entry.
BooksGrow ==
  /\ visits' \in [Passes -> Nat]
  /\ \A q \in Passes : visits'[q] >= visits[q]
  /\ inside' \subseteq Passes
  /\ \A q \in inside' \ inside : visits'[q] > visits[q]
  /\ logged \subseteq logged'

LEMMA ServeGrows ==
  ASSUME TypeOK, NEW k \in Slots, Serve(k)
  PROVE  BooksGrow
<1> DEFINE p == <<KindOf(call[k].step), call[k].code>>
<1>1. CASE Admits(p)
  <2>1. p \in Passes /\ Admit(p)
    BY <1>1 DEF Serve, Admits, TypeOK
  <2> HIDE DEF p
  <2>2. logged' = logged
    BY DEF Serve
  <2> QED
    BY <2>1, <2>2, AdmitGrows DEF BooksGrow, TypeOK
<1>2. CASE ~ Admits(p)
  BY <1>2 DEF Serve, BooksGrow, TypeOK
<1> QED
  BY <1>1, <1>2

LEMMA StepGrows ==
  ASSUME TypeOK, [Next]_vars
  PROVE  BooksGrow
<1>1. CASE UNCHANGED <<visits, inside, logged>>
  BY <1>1 DEF BooksGrow, TypeOK
<1>2. ASSUME NEW k \in Slots, Serve(k) PROVE BooksGrow
  BY <1>2, ServeGrows
<1>3. ASSUME NEW k \in Slots, ServeLog(k) PROVE BooksGrow
  BY <1>3 DEF ServeLog, BooksGrow, TypeOK
<1>4. ASSUME NEW b \in {"card", "pass"}, ServeExit(b) PROVE BooksGrow
  BY <1>4 DEF ServeExit, BooksGrow, TypeOK
<1>5. ASSUME NEW p \in Passes, AdmitWalkIn(p) PROVE BooksGrow
  BY <1>5, AdmitGrows DEF AdmitWalkIn, BooksGrow, TypeOK
<1>6. ASSUME NEW p \in Passes, Elsewhere(p) PROVE BooksGrow
  BY <1>6, AdmitGrows DEF Elsewhere, BooksGrow, TypeOK
<1>7. ASSUME NEW k \in Slots, Decoded(k) \/ Lose(k) \/ Answer(k) \/ Details(k)
      PROVE  UNCHANGED <<visits, inside, logged>>
  BY <1>7 DEF Decoded, Lose, Answer, Details, server
<1>8. ASSUME NEW k \in Slots, NEW c \in Codes, Verify(k, c) \/ DropImage(k, c)
      PROVE  UNCHANGED <<visits, inside, logged>>
  BY <1>8 DEF Verify, DropImage, server
<1>9. ASSUME \/ AttachPhoto \/ NextVisitor \/ RecordExit \/ CheckOut \/ ExitAnswered \/ CheckOutAnswered
             \/ (\E b \in {"card", "pass"} : LoseExit(b)) \/ (\E p \in Passes : Shut(p))
             \/ UNCHANGED vars
      PROVE  UNCHANGED <<visits, inside, logged>>
  BY <1>9 DEF AttachPhoto, NextVisitor, RecordExit, CheckOut, ExitAnswered, CheckOutAnswered,
              LoseExit, Shut, server, vars
<1> QED
  BY <1>1, <1>2, <1>3, <1>4, <1>5, <1>6, <1>7, <1>8, <1>9 DEF Next

LEMMA BookedStays ==
  ASSUME TypeOK, BooksGrow, NEW e, Booked(e), e.id \in Nat
  PROVE  Booked(e)'
  BY DEF TypeOK, BooksGrow, Booked

-----------------------------------------------------------------------------
(* The types                                                                 *)

LEMMA ExecuteType ==
  ASSUME TypeOK, NEW k \in Slots, NEW c \in Codes, NEW photo \in BOOLEAN, NEW p \in Pages,
         Execute(k, c, photo, p)
  PROVE  page' \in Pages /\ call' \in [Slots -> Calls]
<1>1. CASE NeedsPhoto(c, photo)
  BY <1>1, Blank DEF TypeOK, Execute, Pages, Errors
<1>2. CASE ~ NeedsPhoto(c, photo)
  <2>1. (IF Look[c] = "visitor" THEN "entry" ELSE Look[c]) \in Steps
    BY LookAssumption DEF Steps, Kinds
  <2>2. Asked(c, photo) \in Calls
    BY <2>1, Blank DEF Calls, Asked
  <2>3. Cleared(p) \in Pages
    BY Blank DEF Cleared, Pages, Messages, Errors
  <2> QED
    BY <1>2, <2>2, <2>3 DEF TypeOK, Execute
<1> QED
  BY <1>1, <1>2

LEMMA CallStepType ==
  ASSUME TypeOK, NEW k \in Slots, NEW step \in Steps, NEW photo \in BOOLEAN,
         call' = [call EXCEPT ![k] = [@ EXCEPT !.step = step, !.answer = "none", !.photo = photo]]
  PROVE  call' \in [Slots -> Calls]
<1>1. [call[k] EXCEPT !.step = step, !.answer = "none", !.photo = photo] \in Calls
  BY DEF TypeOK, Calls
<1> QED
  BY <1>1 DEF TypeOK

LEMMA ContinueType ==
  ASSUME TypeOK, NEW k \in Slots, NEW step \in Steps,
         call' = [call EXCEPT ![k] = [@ EXCEPT !.step = step, !.answer = "none"]]
  PROVE  call' \in [Slots -> Calls]
<1>1. [call[k] EXCEPT !.step = step, !.answer = "none"] \in Calls
  BY DEF TypeOK, Calls
<1> QED
  BY <1>1 DEF TypeOK

LEMMA AnswerType ==
  ASSUME TypeOK, CallsSound, NEW k \in Slots, Answer(k) \/ Details(k)
  PROVE  TypeOK'
<1>1. /\ call[k] \in Calls /\ call[k].entry \in Cards
      /\ call[k].step # "free" => call[k].code \in Codes
  BY DEF TypeOK, CallsSound, Sound, Calls
<1>2. {"entered", "denied", "entryFamily", "entryStaff", "details"} \subseteq Steps
  BY DEF Steps
<1>3. ASSUME NEW e \in Cards, page' = [page EXCEPT !.card = e, !.success = "entered", !.verifying = FALSE]
      PROVE  page' \in Pages
  BY <1>3 DEF TypeOK, Pages, Messages
<1>4. ASSUME NEW error \in {"denied", "inside"},
             page' = [page EXCEPT !.error = error, !.verifying = FALSE]
      PROVE  page' \in Pages
  BY <1>4 DEF TypeOK, Pages, Errors
<1>5. CASE Answer(k)
  <2>1. ASSUME AnswerStaff(k) PROVE page' \in Pages /\ call' \in [Slots -> Calls]
    <3>1. CASE call[k].answer = "inside"
      <4>1. page' \in Pages
        BY <1>1, <2>1, <3>1 DEF AnswerStaff, TypeOK, Errors, Pages
      <4>2. call' \in [Slots -> Calls]
        BY <1>2, <2>1, <3>1, CallStepType DEF AnswerStaff, Ends
      <4> QED
        BY <4>1, <4>2
    <3>2. CASE call[k].answer # "inside"
      BY <1>1, <1>2, <1>3, <1>4, <2>1, <3>2, CallStepType DEF AnswerStaff, Entered, Denied, Ends
    <3> QED
      BY <3>1, <3>2
  <2>2. ASSUME AnswerLog(k) PROVE page' \in Pages /\ call' \in [Slots -> Calls]
    <3>1. [pass |-> <<call[k].step, call[k].code>>,
           id |-> IF call[k].answer = "ok" THEN call[k].entry.id ELSE 0] \in Cards
      BY <1>1, <2>2 DEF AnswerLog, Cards, Entry, Kinds, NoCard
    <3> QED
      BY <1>2, <1>3, <2>2, <3>1, CallStepType DEF AnswerLog, Entered, Ends
  <2>3. ASSUME AnswerFamily(k) PROVE page' \in Pages /\ call' \in [Slots -> Calls]
    BY <1>1, <1>2, <1>3, <1>4, <2>3, CallStepType DEF AnswerFamily, Entered, Denied, Ends
  <2>4. ASSUME AnswerEntry(k) PROVE page' \in Pages /\ call' \in [Slots -> Calls]
    BY <1>2, <2>4, ContinueType DEF AnswerEntry, Continue, TypeOK
  <2>5. ASSUME AnswerEntryFamily(k) PROVE page' \in Pages /\ call' \in [Slots -> Calls]
    BY <1>1, <1>2, <1>3, <1>4, <2>5, CallStepType, ContinueType
    DEF AnswerEntryFamily, Entered, Denied, Ends, Continue, TypeOK
  <2>6. ASSUME AnswerEntryStaff(k) PROVE page' \in Pages /\ call' \in [Slots -> Calls]
    BY <1>1, <1>2, <1>3, <1>4, <2>6, CallStepType DEF AnswerEntryStaff, Entered, Denied, Ends
  <2>7. page' \in Pages /\ call' \in [Slots -> Calls]
    BY <1>5, <2>1, <2>2, <2>3, <2>4, <2>5, <2>6 DEF Answer
  <2> QED
    BY <1>5, <2>7 DEF Answer, TypeOK, server
<1>6. CASE Details(k)
  <2>1. page' \in Pages
    BY <1>1, <1>6 DEF Details, TypeOK, Pages, Messages
  <2>2. call' \in [Slots -> Calls]
    BY <1>2, <1>6, CallStepType DEF Details, Ends
  <2> QED
    BY <1>6, <2>1, <2>2 DEF Details, TypeOK, server
<1> QED
  BY <1>5, <1>6

LEMMA CallType ==
  ASSUME TypeOK, CallsSound, NEW k \in Slots,
         Decoded(k) \/ ServeLog(k) \/ Serve(k) \/ Lose(k)
  PROVE  TypeOK'
<1>1. call[k] \in Calls /\ (call[k].step # "free" => call[k].code \in Codes)
  BY DEF TypeOK, CallsSound, Sound
<1>2. CASE Decoded(k)
  <2>1. CASE Execute(k, call[k].code, call[k].photo, page)
    BY <1>1, <1>2, <2>1, ExecuteType DEF Decoded, TypeOK, Calls, server
  <2>2. "read" \in Messages /\ "unreadable" \in Errors
    BY DEF Messages, Errors
  <2> QED
    BY <1>2, <2>1, <2>2, Blank DEF Decoded, TypeOK, Pages, server
<1>3. CASE ServeLog(k)
  BY <1>1, <1>3 DEF ServeLog, TypeOK, Calls, Cards, Entry, NoCard, Kinds
<1>4. CASE Serve(k)
  <2> DEFINE p == <<KindOf(call[k].step), call[k].code>>
  <2>1. CASE Admits(p)
    <3>1. p \in Passes /\ Admit(p)
      BY <1>4, <2>1 DEF Serve, Admits, TypeOK
    <3>2. [pass |-> p, id |-> visits[p] + 1] \in Cards
      BY <3>1, PassesAssumption DEF TypeOK, Cards, Entry, Kinds
    <3>3. Recorded(call[k], p) \in Calls
      BY <1>1, <3>1, <3>2 DEF Calls, Recorded
    <3>4. call' = [call EXCEPT ![k] = Recorded(call[k], p)]
      BY <1>4, <2>1 DEF Serve
    <3>5. call' \in [Slots -> Calls]
      BY <3>3, <3>4 DEF TypeOK
    <3> HIDE DEF p
    <3> QED
      BY <1>4, <3>1, <3>5, AdmitGrows DEF Serve, TypeOK
  <2>2. CASE ~ Admits(p)
    BY <1>1, <1>4, <2>2 DEF Serve, Refusal, TypeOK, Calls
  <2> QED
    BY <2>1, <2>2
<1>5. CASE Lose(k)
  <2>1. call' \in [Slots -> Calls]
    BY <1>1, <1>5 DEF Lose, TypeOK, Calls
  <2>2. others' \in 0..MaxOthers
    BY <1>5, BoundsAssumption DEF Lose, Other, TypeOK
  <2> QED
    BY <1>5, <2>1, <2>2 DEF Lose, TypeOK, server
<1> QED
  BY <1>2, <1>3, <1>4, <1>5

LEMMA NextType ==
  ASSUME TypeOK, CallsSound, [Next]_vars
  PROVE  TypeOK'
<1>1. ASSUME NEW k \in Slots, NEW c \in Codes, Verify(k, c) PROVE TypeOK'
  <2>1. page.photo \in BOOLEAN /\ page \in Pages
    BY DEF TypeOK, Pages
  <2>2. Execute(k, c, page.photo, page)
    BY <1>1 DEF Verify
  <2>3. page' \in Pages /\ call' \in [Slots -> Calls]
    BY <2>1, <2>2, ExecuteType DEF Execute
  <2> QED
    BY <1>1, <2>3, BoundsAssumption DEF Verify, CanStart, TypeOK, server
<1>2. ASSUME NEW k \in Slots, NEW c \in Codes, DropImage(k, c) PROVE TypeOK'
  <2>1. [Free EXCEPT !.step = "decoding", !.code = c, !.photo = page.photo] \in Calls
    BY Blank DEF TypeOK, Pages, Calls, Steps
  <2>2. [page EXCEPT !.error = "none", !.success = "none"] \in Pages
    BY DEF TypeOK, Pages, Messages, Errors
  <2> QED
    BY <1>2, <2>1, <2>2, BoundsAssumption DEF DropImage, CanStart, TypeOK, server
<1>3. ASSUME NEW k \in Slots,
             Decoded(k) \/ ServeLog(k) \/ Serve(k) \/ Lose(k) \/ Answer(k) \/ Details(k)
      PROVE  TypeOK'
  BY <1>3, AnswerType, CallType
<1>4. CASE AttachPhoto \/ NextVisitor
  BY <1>4, Blank DEF AttachPhoto, NextVisitor, TypeOK, Pages, Messages, Errors, server
<1>5. CASE RecordExit
  BY <1>5, Blank DEF RecordExit, TypeOK, Pages, Exits, server
<1>6. CASE CheckOut
  <2>1. [NoCard EXCEPT !.pass = <<"staff", page.toCheckOut>>] \in Cards
    BY <1>6 DEF CheckOut, TypeOK, Pages, Cards, Entry, Kinds, NoCard
  <2>2. [NoExit EXCEPT !.step = "asked", !.entry.pass = <<"staff", page.toCheckOut>>] \in Exits
    BY <2>1, Blank DEF Exits, NoExit
  <2> QED
    BY <1>6, <2>2 DEF CheckOut, TypeOK, Pages, server
<1>11. CASE ExitAnswered
  BY <1>11, Blank DEF ExitAnswered, TypeOK, Pages, Messages, Errors, server
<1>12. CASE CheckOutAnswered
  BY <1>12, Blank DEF CheckOutAnswered, TypeOK, Pages, Messages, Errors, server
<1>7. ASSUME NEW b \in {"card", "pass"}, ServeExit(b) \/ LoseExit(b) PROVE TypeOK'
  BY <1>7, BoundsAssumption DEF ServeExit, LoseExit, Other, TypeOK, Exits, server
<1>8. ASSUME NEW p \in Passes, AdmitWalkIn(p) PROVE TypeOK'
  <2>1. [pass |-> p, id |-> visits[p] + 1] \in Cards
    BY PassesAssumption DEF TypeOK, Cards, Entry, Kinds
  <2> QED
    <3>1. page' \in Pages
      BY <1>8, <2>1 DEF AdmitWalkIn, TypeOK, Pages, Messages
    <3>2. others' \in 0..MaxOthers
      BY <1>8, BoundsAssumption DEF AdmitWalkIn, Other, TypeOK
    <3> QED
      BY <1>8, <3>1, <3>2, AdmitGrows DEF AdmitWalkIn, TypeOK
<1>9. ASSUME NEW p \in Passes, Elsewhere(p) \/ Shut(p) PROVE TypeOK'
  BY <1>9, AdmitGrows, BoundsAssumption DEF Elsewhere, Shut, Other, TypeOK
<1>10. CASE UNCHANGED vars
  BY <1>10 DEF vars, TypeOK
<1> QED
  BY <1>1, <1>2, <1>3, <1>4, <1>5, <1>6, <1>7, <1>8, <1>9, <1>10, <1>11, <1>12 DEF Next

-----------------------------------------------------------------------------
(* What a verification knows                                                 *)

\* Another's step takes nothing away.
LEMMA SoundStays ==
  ASSUME TypeOK, BooksGrow, NEW c \in Calls, Sound(c)
  PROVE  Sound(c)'
<1>1. CASE Booked(c.entry)
  <2>1. c.entry.id \in Nat
    BY <1>1 DEF Booked, TypeOK
  <2>2. Booked(c.entry)'
    BY <1>1, <2>1, BookedStays
  <2> QED
    BY <2>2 DEF Sound, BooksGrow
<1>2. CASE ~ Booked(c.entry)
  BY <1>2 DEF Sound, BooksGrow
<1> QED
  BY <1>1, <1>2

\* A verification that ends has its verdict from what it knew.
Judged(c) ==
  ~ c.lost =>
    /\ c.step = "denied" => c.made = {}
    /\ c.step = "entered" /\ Look[c.code] \notin Others => c.made = {c.entry.pass}

LEMMA ExecuteSound ==
  ASSUME NEW k \in Slots, NEW c \in Codes, NEW photo \in BOOLEAN,
         call \in [Slots -> Calls],
         \/ call' = [call EXCEPT ![k] = Free]
         \/ call' = [call EXCEPT ![k] = Asked(c, photo)]
  PROVE  Sound(call[k])' /\ Judged(call[k])'
<1>1. Look[c] \in Kinds
  BY LookAssumption
<1>2. call'[k] \in {Free, Asked(c, photo)}
  OBVIOUS
<1>3. /\ call'[k].made = {} /\ call'[k].answer = "none"
      /\ \/ call'[k].step = "free"
         \/ call'[k].step = "entry" /\ call'[k].code = c
         \/ call'[k].step = Look[c] /\ call'[k].code = c /\ Look[c] # "visitor"
  <2>1. /\ Free.made = {} /\ Free.answer = "none" /\ Free.step = "free"
        /\ Asked(c, photo).made = {} /\ Asked(c, photo).answer = "none"
        /\ Asked(c, photo).code = c
        /\ Asked(c, photo).step = IF Look[c] = "visitor" THEN "entry" ELSE Look[c]
    BY DEF Free, Asked
  <2> QED
    BY <1>2, <2>1
<1>4. Sound(call[k])'
  BY <1>1, <1>3 DEF Sound, Kinds, Others, Asking
<1>5. Judged(call[k])'
  BY <1>1, <1>3 DEF Judged, Kinds
<1> QED
  BY <1>4, <1>5

LEMMA OneCall ==
  ASSUME TypeOK, BooksGrow, CallsSound, VerdictIsTrue, NEW k \in Slots,
         Sound(call[k])', Judged(call[k])',
         \A j \in Slots \ {k} : call'[j] = call[j]
  PROVE  CallsSound' /\ VerdictIsTrue'
<1>1. ASSUME NEW j \in Slots PROVE Sound(call[j])' /\ Judged(call[j])'
  <2>1. CASE j = k
    BY <2>1
  <2>2. CASE j # k
    BY <2>2, SoundStays DEF TypeOK, CallsSound, VerdictIsTrue, Judged, Others
  <2> QED
    BY <2>1, <2>2
<1> QED
  BY <1>1 DEF CallsSound, VerdictIsTrue, Judged, Others

\* One lemma per kind of step of a verification.
LEMMA ServeSound ==
  ASSUME TypeOK, CallsSound, VerdictIsTrue, BooksGrow, TypeOK', NEW k \in Slots, Serve(k)
  PROVE  CallsSound' /\ VerdictIsTrue'
<1> DEFINE p == <<KindOf(call[k].step), call[k].code>>
<1>1. Sound(call[k]) /\ Judged(call[k]) /\ call[k] \in Calls
  BY DEF CallsSound, VerdictIsTrue, Judged, Others, TypeOK
<1>2. call[k].step \in Asking \ Others /\ call[k].answer = "none"
  BY DEF Serve, Others
<1>3. CASE Admits(p)
  <2>1. p \in Passes /\ Admit(p)
    BY <1>3 DEF Serve, Admits, TypeOK
  <2>2. call' = [call EXCEPT ![k] = Recorded(call[k], p)]
    BY <1>3 DEF Serve
  <2> HIDE DEF p
  <2>3. visits[p] \in Nat /\ visits'[p] = visits[p] + 1
    BY <2>1, AdmitGrows DEF TypeOK
  <2>4. /\ call'[k].step = call[k].step /\ call'[k].code = call[k].code
        /\ call'[k].lost = call[k].lost /\ call'[k].answer = "ok"
        /\ call'[k].entry = [pass |-> p, id |-> visits[p] + 1]
        /\ call'[k].made = call[k].made \cup {p}
    BY <1>1, <2>2 DEF TypeOK, Recorded, Calls
  <2>5. Booked(call[k].entry)'
    BY <2>1, <2>3, <2>4 DEF Booked
  <2>6. Sound(call[k])'
    BY <1>1, <1>2, <2>4, <2>5 DEF Sound, Asking, Others
  <2>7. Judged(call[k])'
    BY <1>2, <2>4 DEF Judged, Asking
  <2>8. \A j \in Slots \ {k} : call'[j] = call[j]
    BY <2>2 DEF TypeOK
  <2> QED
    BY <2>6, <2>7, <2>8, OneCall
<1>4. CASE ~ Admits(p)
  <2>1. call' = [call EXCEPT ![k] = [@ EXCEPT !.answer = Refusal(p)]]
    BY <1>4 DEF Serve
  <2>2. Refusal(p) # "ok" /\ logged' = logged /\ visits' = visits
    BY <1>4 DEF Refusal, Serve
  <2> HIDE DEF p
  <2>3. /\ call'[k].step = call[k].step /\ call'[k].code = call[k].code
        /\ call'[k].lost = call[k].lost /\ call'[k].answer # "ok"
        /\ call'[k].made = call[k].made
    BY <1>1, <2>1, <2>2 DEF TypeOK, Calls
  <2>4. Sound(call[k])'
    BY <1>1, <1>2, <2>3 DEF Sound, Asking, Others
  <2>5. Judged(call[k])'
    BY <1>2, <2>3 DEF Judged, Asking
  <2>6. \A j \in Slots \ {k} : call'[j] = call[j]
    BY <2>1 DEF TypeOK
  <2> QED
    BY <2>4, <2>5, <2>6, OneCall
<1> QED
  BY <1>3, <1>4

LEMMA ServeLogSound ==
  ASSUME TypeOK, CallsSound, VerdictIsTrue, BooksGrow, NEW k \in Slots, ServeLog(k)
  PROVE  CallsSound' /\ VerdictIsTrue'
<1>1. Sound(call[k]) /\ call[k] \in Calls /\ call[k].step \in Others
  BY DEF CallsSound, ServeLog, TypeOK, Others
<1>2. /\ call'[k].step = call[k].step /\ call'[k].code = call[k].code
      /\ call'[k].lost = call[k].lost /\ call'[k].made = call[k].made
  BY <1>1 DEF ServeLog, TypeOK, Calls
<1>3. call[k].code \in logged'
  BY DEF ServeLog
<1>4. Sound(call[k])' /\ Judged(call[k])'
  BY <1>1, <1>2, <1>3 DEF Sound, Judged, Others, Asking
<1>5. \A j \in Slots \ {k} : call'[j] = call[j]
  BY DEF ServeLog, TypeOK
<1> QED
  BY <1>4, <1>5, OneCall

LEMMA LoseSound ==
  ASSUME TypeOK, CallsSound, VerdictIsTrue, BooksGrow, NEW k \in Slots, Lose(k)
  PROVE  CallsSound' /\ VerdictIsTrue'
<1>1. Sound(call[k]) /\ call[k] \in Calls /\ call[k].step \in Asking
  BY DEF CallsSound, Lose, TypeOK
<1>2. /\ call'[k].step = call[k].step /\ call'[k].code = call[k].code
      /\ call'[k].answer = "refused" /\ call'[k].lost
  BY <1>1 DEF Lose, TypeOK, Calls
<1>3. logged' = logged
  BY DEF Lose, server
<1>4. Sound(call[k])' /\ Judged(call[k])'
  BY <1>1, <1>2, <1>3 DEF Sound, Judged, Others, Asking
<1>5. \A j \in Slots \ {k} : call'[j] = call[j]
  BY DEF Lose, TypeOK
<1> QED
  BY <1>4, <1>5, OneCall

\* The slot's fields after the step of an answer.
LEMMA EndsSound ==
  ASSUME TypeOK, CallsSound, VerdictIsTrue, BooksGrow, NEW k \in Slots,
         NEW step \in {"entered", "denied"}, Ends(k, step),
         ~ call[k].lost /\ step = "denied" => call[k].made = {},
         ~ call[k].lost /\ step = "entered" /\ Look[call[k].code] \notin Others =>
           call[k].made = {call[k].entry.pass},
         call[k].code \in Codes
  PROVE  CallsSound' /\ VerdictIsTrue'
<1>1. call[k] \in Calls
  BY DEF TypeOK
<1>2. /\ call'[k].step = step /\ call'[k].code = call[k].code /\ call'[k].answer = "none"
      /\ call'[k].lost = call[k].lost /\ call'[k].made = call[k].made
      /\ call'[k].entry = call[k].entry
  BY <1>1 DEF Ends, TypeOK, Calls
<1>3. Sound(call[k])' /\ Judged(call[k])'
  BY <1>2 DEF Sound, Judged, Others, Asking
<1>4. \A j \in Slots \ {k} : call'[j] = call[j]
  BY DEF Ends, TypeOK
<1> QED
  BY <1>3, <1>4, OneCall

LEMMA ContinueSound ==
  ASSUME TypeOK, CallsSound, VerdictIsTrue, BooksGrow, NEW k \in Slots,
         NEW step \in {"details", "entryFamily", "entryStaff"},
         call' = [call EXCEPT ![k] = [@ EXCEPT !.step = step, !.answer = "none"]],
         call[k].step \in Asking \ Others, step = "details" <=> call[k].answer = "ok"
  PROVE  CallsSound' /\ VerdictIsTrue'
<1>1. call[k] \in Calls /\ Sound(call[k])
  BY DEF TypeOK, CallsSound
<1>2. /\ call'[k].step = step /\ call'[k].code = call[k].code /\ call'[k].answer = "none"
      /\ call'[k].lost = call[k].lost /\ call'[k].made = call[k].made
      /\ call'[k].entry = call[k].entry
  BY <1>1 DEF TypeOK, Calls
<1>3. step = "details" => Booked(call[k].entry)'
  <2>1. ASSUME step = "details" PROVE Booked(call[k].entry) /\ call[k].entry.id \in Nat
    BY <1>1, <2>1 DEF Sound, Booked, TypeOK
  <2> QED
    BY <1>2, <2>1, BookedStays DEF Booked
<1>4. Sound(call[k])' /\ Judged(call[k])'
  BY <1>1, <1>2, <1>3 DEF Sound, Judged, Others, Asking
<1>5. \A j \in Slots \ {k} : call'[j] = call[j]
  BY DEF TypeOK
<1> QED
  BY <1>4, <1>5, OneCall

LEMMA AnswerSound ==
  ASSUME TypeOK, CallsSound, VerdictIsTrue, BooksGrow, NEW k \in Slots, Answer(k)
  PROVE  CallsSound' /\ VerdictIsTrue'
<1>1. call[k] \in Calls /\ Sound(call[k]) /\ call[k].answer # "none"
  BY DEF TypeOK, CallsSound, Answer
<1>2. ASSUME AnswerStaff(k) PROVE CallsSound' /\ VerdictIsTrue'
  <2>1. call[k].step = "staff"
    BY <1>2 DEF AnswerStaff
  <2>2. CASE call[k].answer = "ok"
    BY <1>1, <1>2, <2>1, <2>2, EndsSound DEF AnswerStaff, Entered, Ends, Sound, Asking, Others
  <2>3. CASE call[k].answer # "ok"
    BY <1>1, <1>2, <2>1, <2>3, EndsSound DEF AnswerStaff, Denied, Ends, Sound, Asking, Others
  <2> QED
    BY <2>2, <2>3
<1>3. ASSUME AnswerLog(k) PROVE CallsSound' /\ VerdictIsTrue'
  BY <1>1, <1>3, EndsSound DEF AnswerLog, Entered, Ends, Sound, Others
<1>4. ASSUME AnswerFamily(k) PROVE CallsSound' /\ VerdictIsTrue'
  BY <1>1, <1>4, EndsSound DEF AnswerFamily, Entered, Denied, Ends, Sound, Asking, Others
<1>5. ASSUME AnswerEntry(k) PROVE CallsSound' /\ VerdictIsTrue'
  BY <1>5, ContinueSound DEF AnswerEntry, Continue, Asking, Others
<1>6. ASSUME AnswerEntryFamily(k) PROVE CallsSound' /\ VerdictIsTrue'
  <2>1. call[k].step = "entryFamily"
    BY <1>6 DEF AnswerEntryFamily
  <2>2. CASE call[k].answer = "ok"
    BY <1>1, <1>6, <2>1, <2>2, EndsSound DEF AnswerEntryFamily, Entered, Ends, Sound, Asking, Others
  <2>3. CASE call[k].answer # "ok" /\ Digits[call[k].code] \in {10, 12}
    BY <1>6, <2>1, <2>3, ContinueSound DEF AnswerEntryFamily, Continue, Asking, Others
  <2>4. CASE call[k].answer # "ok" /\ Digits[call[k].code] \notin {10, 12}
    BY <1>1, <1>6, <2>1, <2>4, EndsSound DEF AnswerEntryFamily, Denied, Ends, Sound, Asking, Others
  <2> QED
    BY <2>2, <2>3, <2>4
<1>7. ASSUME AnswerEntryStaff(k) PROVE CallsSound' /\ VerdictIsTrue'
  BY <1>1, <1>7, EndsSound DEF AnswerEntryStaff, Entered, Denied, Ends, Sound, Asking, Others
<1> QED
  BY <1>2, <1>3, <1>4, <1>5, <1>6, <1>7 DEF Answer

LEMMA DetailsSound ==
  ASSUME TypeOK, CallsSound, VerdictIsTrue, BooksGrow, NEW k \in Slots, Details(k)
  PROVE  CallsSound' /\ VerdictIsTrue'
  BY EndsSound DEF Details, CallsSound, Sound, Ends

LEMMA StartSound ==
  ASSUME TypeOK, CallsSound, VerdictIsTrue, BooksGrow, NEW k \in Slots,
         \/ Decoded(k)
         \/ \E c \in Codes : Verify(k, c) \/ DropImage(k, c)
  PROVE  CallsSound' /\ VerdictIsTrue'
<1>1. \A j \in Slots \ {k} : call'[j] = call[j]
  BY DEF Decoded, Verify, DropImage, Execute, TypeOK
<1>2. Sound(call[k])' /\ Judged(call[k])'
  <2>1. CASE Decoded(k)
    <3>1. call[k].code \in Codes /\ call[k].photo \in BOOLEAN
      BY <2>1 DEF Decoded, CallsSound, Sound, TypeOK, Calls
    <3> QED
      BY <2>1, <3>1, ExecuteSound DEF Decoded, Execute, TypeOK
  <2>2. ASSUME NEW c \in Codes, Verify(k, c)
        PROVE  Sound(call[k])' /\ Judged(call[k])'
    BY <2>2, ExecuteSound DEF Verify, Execute, TypeOK, Pages
  <2>3. ASSUME NEW c \in Codes, DropImage(k, c)
        PROVE  Sound(call[k])' /\ Judged(call[k])'
    <3>1. call'[k].step = "decoding" /\ call'[k].code = c
      BY <2>3 DEF DropImage, TypeOK, Free
    <3> QED
      BY <3>1 DEF Sound, Judged, Others, Asking
  <2> QED
    BY <2>1, <2>2, <2>3
<1> QED
  BY <1>1, <1>2, OneCall

LEMMA CallsStay ==
  ASSUME TypeOK, CallsSound, VerdictIsTrue, BooksGrow, call' = call
  PROVE  CallsSound' /\ VerdictIsTrue'
<1>1. ASSUME NEW k \in Slots PROVE Sound(call[k])'
  BY SoundStays DEF TypeOK, CallsSound
<1> QED
  BY <1>1 DEF CallsSound, VerdictIsTrue

LEMMA NextSound ==
  ASSUME TypeOK, CallsSound, VerdictIsTrue, [Next]_vars
  PROVE  CallsSound' /\ VerdictIsTrue'
<1>1. BooksGrow /\ TypeOK'
  BY StepGrows, NextType
<1>2. ASSUME NEW k \in Slots,
             \/ Decoded(k) \/ ServeLog(k) \/ Serve(k) \/ Lose(k) \/ Answer(k) \/ Details(k)
             \/ \E c \in Codes : Verify(k, c) \/ DropImage(k, c)
      PROVE  CallsSound' /\ VerdictIsTrue'
  BY <1>1, <1>2, StartSound, ServeLogSound, ServeSound, LoseSound, AnswerSound, DetailsSound
<1>3. ASSUME \/ AttachPhoto \/ NextVisitor \/ RecordExit \/ CheckOut \/ ExitAnswered \/ CheckOutAnswered
             \/ (\E b \in {"card", "pass"} : ServeExit(b) \/ LoseExit(b))
             \/ (\E p \in Passes : AdmitWalkIn(p) \/ Elsewhere(p) \/ Shut(p))
             \/ UNCHANGED vars
      PROVE  call' = call
  BY <1>3 DEF AttachPhoto, NextVisitor, RecordExit, CheckOut, ExitAnswered, CheckOutAnswered, ServeExit,
              LoseExit, AdmitWalkIn, Elsewhere, Shut, vars
<1> QED
  BY <1>1, <1>2, <1>3, CallsStay DEF Next

-----------------------------------------------------------------------------
(* What the page shows                                                       *)

\* What CardIsRecorded asks of a card.
Shown(e) ==
  IF e.pass[1] \in Others THEN e.id > 0 => e.pass[2] \in logged ELSE Booked(e)

\* All that a step may do to the card and the message.
PageMoves ==
  \/ page'.card = page.card /\ page'.success \in {page.success, "none", "read", "left"}
  \/ page'.card = NoCard /\ page'.success \in {"none", "exited"}
  \/ page'.card # NoCard /\ page'.success = "entered" /\ Shown(page.card)'

LEMMA AnswerMoves ==
  ASSUME TypeOK, CallsSound, BooksGrow, NEW k \in Slots, Answer(k) \/ Details(k)
  PROVE  PageMoves
<1>1. call[k] \in Calls /\ Sound(call[k]) /\ page \in Pages
  BY DEF TypeOK, CallsSound
<1>2. ASSUME Booked(call[k].entry), page'.card = call[k].entry, page'.success = "entered"
      PROVE  PageMoves
  <2>1. call[k].entry.pass[1] \in {"staff", "family", "visitor"} /\ call[k].entry.id \in Nat
    BY <1>2, PassesAssumption DEF Booked, TypeOK
  <2>2. Booked(page.card)'
    BY <1>2, <2>1, BookedStays DEF Booked
  <2> QED
    BY <1>2, <2>1, <2>2 DEF PageMoves, Shown, NoCard, Others
<1>3. ASSUME NEW error, page' = [page EXCEPT !.error = error, !.verifying = FALSE]
      PROVE  PageMoves
  BY <1>1, <1>3 DEF PageMoves, Pages
<1>4. CASE Details(k)
  BY <1>1, <1>2, <1>4 DEF Details, Sound, Pages
<1>5. ASSUME AnswerStaff(k) PROVE PageMoves
  <2>1. CASE call[k].answer = "ok"
    BY <1>1, <1>2, <1>5, <2>1 DEF AnswerStaff, Entered, Sound, Asking, Others, Pages
  <2>2. CASE call[k].answer # "ok"
    BY <1>1, <1>5, <2>2 DEF AnswerStaff, Denied, Pages, PageMoves
  <2> QED
    BY <2>1, <2>2
<1>6. ASSUME AnswerLog(k) PROVE PageMoves
  <2>1. /\ page'.card = [pass |-> <<call[k].step, call[k].code>>,
                         id |-> IF call[k].answer = "ok" THEN call[k].entry.id ELSE 0]
        /\ page'.success = "entered" /\ call[k].step \in Others
    BY <1>1, <1>6 DEF AnswerLog, Entered, Pages, Others
  <2>2. call[k].answer = "ok" => call[k].code \in logged'
    BY <1>1, <2>1 DEF Sound, BooksGrow
  <2> QED
    BY <2>1, <2>2 DEF PageMoves, Shown, NoCard, Others
<1>7. ASSUME AnswerFamily(k) PROVE PageMoves
  BY <1>1, <1>2, <1>3, <1>7 DEF AnswerFamily, Entered, Denied, Sound, Asking, Others, Pages
<1>8. ASSUME AnswerEntry(k) PROVE PageMoves
  BY <1>8 DEF AnswerEntry, Continue, PageMoves
<1>9. ASSUME AnswerEntryFamily(k) PROVE PageMoves
  <2>1. CASE call[k].answer = "ok"
    BY <1>1, <1>2, <1>9, <2>1 DEF AnswerEntryFamily, Entered, Sound, Asking, Others, Pages
  <2>2. CASE call[k].answer # "ok"
    BY <1>1, <1>3, <1>9, <2>2 DEF AnswerEntryFamily, Continue, Denied, PageMoves
  <2> QED
    BY <2>1, <2>2
<1>10. ASSUME AnswerEntryStaff(k) PROVE PageMoves
  BY <1>1, <1>2, <1>3, <1>10 DEF AnswerEntryStaff, Entered, Denied, Sound, Asking, Others, Pages
<1> QED
  BY <1>4, <1>5, <1>6, <1>7, <1>8, <1>9, <1>10 DEF Answer

LEMMA StartMoves ==
  ASSUME TypeOK, NEW k \in Slots,
         \/ Decoded(k)
         \/ \E c \in Codes : Verify(k, c) \/ DropImage(k, c)
  PROVE  PageMoves /\ exit' = exit /\ (page'.success = "exited" => page.success = "exited")
  BY DEF Decoded, Verify, DropImage, Execute, Cleared, PageMoves, TypeOK, Pages

LEMMA WalkInMoves ==
  ASSUME TypeOK, NEW p \in Passes, AdmitWalkIn(p)
  PROVE  PageMoves
<1>1. visits[p] \in Nat /\ visits'[p] = visits[p] + 1
  BY AdmitGrows DEF AdmitWalkIn, TypeOK
<1>2. page'.card = [pass |-> p, id |-> visits[p] + 1] /\ page'.success = "entered"
  BY DEF AdmitWalkIn, TypeOK, Pages
<1>3. p[1] \notin Others /\ p # <<"none", "none">>
  BY PassesAssumption DEF Others
<1>4. Booked(page.card)'
  BY <1>1, <1>2 DEF Booked
<1> QED
  BY <1>2, <1>3, <1>4 DEF PageMoves, Shown, NoCard

LEMMA OtherMoves ==
  ASSUME TypeOK,
         \/ AttachPhoto \/ NextVisitor \/ RecordExit \/ CheckOut \/ CheckOutAnswered \/ ExitAnswered
         \/ UNCHANGED page
  PROVE  PageMoves
  BY DEF AttachPhoto, NextVisitor, RecordExit, CheckOut, CheckOutAnswered, ExitAnswered, PageMoves,
         TypeOK, Pages

LEMMA StepMoves ==
  ASSUME TypeOK, CallsSound, [Next]_vars
  PROVE  PageMoves
<1>1. BooksGrow
  BY StepGrows
<1>2. ASSUME NEW k \in Slots, \/ Answer(k) \/ Details(k) \/ Decoded(k)
                              \/ \E c \in Codes : Verify(k, c) \/ DropImage(k, c)
      PROVE  PageMoves
  BY <1>1, <1>2, AnswerMoves, StartMoves
<1>3. ASSUME \/ \E k \in Slots : ServeLog(k) \/ Serve(k) \/ Lose(k)
             \/ \E b \in {"card", "pass"} : ServeExit(b) \/ LoseExit(b)
             \/ \E p \in Passes : Elsewhere(p) \/ Shut(p)
             \/ UNCHANGED vars
      PROVE  UNCHANGED page
  BY <1>3 DEF ServeLog, Serve, Lose, ServeExit, LoseExit, Elsewhere, Shut, vars
<1> QED
  BY <1>2, <1>3, OtherMoves, WalkInMoves DEF Next

LEMMA NextCard ==
  ASSUME TypeOK, CallsSound, CardIsRecorded, BannerFitsCard, [Next]_vars
  PROVE  CardIsRecorded' /\ BannerFitsCard'
<1>1. BooksGrow /\ PageMoves /\ page.card \in Cards
  BY StepGrows, StepMoves DEF TypeOK, Pages
<1>2. ASSUME page'.card = page.card, page.card # NoCard
      PROVE  Shown(page.card)'
  <2>1. Shown(page.card) /\ page.card.id \in Nat
    BY <1>1, <1>2 DEF CardIsRecorded, Shown, Booked, Others, Cards, Entry
  <2>2. Booked(page.card) => Booked(page.card)'
    BY <1>1, <1>2, <2>1, BookedStays DEF Booked
  <2> QED
    BY <1>1, <1>2, <2>1, <2>2 DEF Shown, BooksGrow
<1>3. page'.card # NoCard => Shown(page.card)'
  BY <1>1, <1>2 DEF PageMoves
<1>4. CardIsRecorded'
  BY <1>3 DEF CardIsRecorded, Shown, Booked, Others
<1>5. BannerFitsCard'
  BY <1>1 DEF PageMoves, BannerFitsCard
<1> QED
  BY <1>4, <1>5

-----------------------------------------------------------------------------
(* The lock                                                                  *)

Calm == Over \cup {"decoding"}

\* A step gives the lock back, takes it with something under way, or leaves all as it is.
Locks ==
  \/ ~ page'.verifying
  \/ \E k \in Slots : call'[k].step \notin Calm
  \/ exit'.pass # NoExit
  \/ /\ page'.verifying = page.verifying /\ exit'.pass = exit.pass
     /\ \A k \in Slots : call'[k].step \in Calm => call[k].step \in Calm

LEMMA AskedBusy ==
  ASSUME NEW c \in Codes, NEW photo
  PROVE  Asked(c, photo).step \notin Calm
  BY LookAssumption DEF Asked, Free, Kinds, Calm, Over

LEMMA StartLocks ==
  ASSUME TypeOK, CallsSound, NEW k \in Slots,
         \/ Decoded(k)
         \/ \E c \in Codes : Verify(k, c) \/ DropImage(k, c)
  PROVE  Locks
<1>1. ASSUME NEW c \in Codes, NEW photo, call' = [call EXCEPT ![k] = Asked(c, photo)]
      PROVE  Locks
  <2>1. call'[k] = Asked(c, photo)
    BY <1>1 DEF TypeOK
  <2> QED
    BY <2>1, AskedBusy DEF Locks
<1>2. call[k].step # "free" => call[k].code \in Codes
  BY DEF CallsSound, Sound
<1>3. CASE Decoded(k)
  <2>1. call[k].step = "decoding"
    BY <1>3 DEF Decoded
  <2>2. ASSUME call' = [call EXCEPT ![k] = Free], page'.verifying = page.verifying
        PROVE  Locks
    BY <1>3, <2>1, <2>2 DEF Decoded, Locks, Calm
  <2> QED
    BY <1>1, <1>2, <1>3, <2>1, <2>2 DEF Decoded, Execute, TypeOK, Pages
<1>4. ASSUME NEW c \in Codes, Verify(k, c) PROVE Locks
  <2>1. call[k].step \in Over
    BY <1>4 DEF Verify, CanStart
  <2>2. CASE NeedsPhoto(c, page.photo)
    BY <1>4, <2>1, <2>2 DEF Verify, Execute, Locks, Calm, TypeOK, Pages
  <2>3. CASE ~ NeedsPhoto(c, page.photo)
    BY <1>1, <1>4, <2>3 DEF Verify, Execute
  <2> QED
    BY <2>2, <2>3
<1>5. ASSUME NEW c \in Codes, DropImage(k, c) PROVE Locks
  <2>1. call[k].step \in Over
    BY <1>5 DEF DropImage, CanStart
  <2> QED
    BY <1>5, <2>1 DEF DropImage, Locks, Calm, TypeOK, Pages
<1> QED
  BY <1>3, <1>4, <1>5

LEMMA CallLocks ==
  ASSUME TypeOK, NEW k \in Slots, ServeLog(k) \/ Serve(k) \/ Lose(k)
  PROVE  Locks
<1>1. call[k] \in Calls
  BY DEF TypeOK
<1>2. CASE ServeLog(k)
  BY <1>1, <1>2 DEF ServeLog, Locks, TypeOK, Calls
<1>3. CASE Serve(k)
  <2>1. \A p : Recorded(call[k], p).step = call[k].step
    BY <1>1 DEF Recorded, Calls
  <2>2. call'[k].step = call[k].step /\ \A j \in Slots \ {k} : call'[j] = call[j]
    BY <1>1, <1>3, <2>1 DEF Serve, TypeOK, Calls
  <2> QED
    BY <1>3, <2>2 DEF Serve, Locks
<1>4. CASE Lose(k)
  BY <1>1, <1>4 DEF Lose, Locks, TypeOK, Calls
<1> QED
  BY <1>2, <1>3, <1>4

LEMMA AnswerLocks ==
  ASSUME TypeOK, NEW k \in Slots, Answer(k) \/ Details(k)
  PROVE  Locks
<1>1. call[k] \in Calls /\ page \in Pages
  BY DEF TypeOK
<1>2. ASSUME NEW step \in Steps \ Calm,
             call' = [call EXCEPT ![k] = [@ EXCEPT !.step = step, !.answer = "none"]]
      PROVE  Locks
  <2>1. call'[k].step = step
    BY <1>1, <1>2 DEF TypeOK, Calls
  <2> QED
    BY <2>1 DEF Locks
<1>3. {"entryFamily", "entryStaff", "details"} \subseteq Steps \ Calm
  BY DEF Steps, Calm, Over
<1>4. ASSUME AnswerStaff(k) \/ AnswerLog(k) \/ AnswerFamily(k) \/ AnswerEntryStaff(k) \/ Details(k)
      PROVE  ~ page'.verifying
  BY <1>1, <1>4 DEF AnswerStaff, AnswerLog, AnswerFamily, AnswerEntryStaff, Details, Entered, Denied, Pages
<1>5. ASSUME AnswerEntry(k) PROVE Locks
  BY <1>2, <1>3, <1>5 DEF AnswerEntry, Continue
<1>6. ASSUME AnswerEntryFamily(k) PROVE Locks
  <2>1. CASE call[k].answer # "ok" /\ Digits[call[k].code] \in {10, 12}
    BY <1>2, <1>3, <1>6, <2>1 DEF AnswerEntryFamily, Continue
  <2>2. CASE ~ (call[k].answer # "ok" /\ Digits[call[k].code] \in {10, 12})
    BY <1>1, <1>6, <2>2 DEF AnswerEntryFamily, Entered, Denied, Locks, Pages
  <2> QED
    BY <2>1, <2>2
<1> QED
  BY <1>4, <1>5, <1>6 DEF Answer, Locks

LEMMA ExitLocks ==
  ASSUME TypeOK, NEW b \in {"card", "pass"}, ServeExit(b) \/ LoseExit(b)
  PROVE  Locks
<1>1. exit[b] \in Exits /\ exit[b].step = "asked" /\ exit'[b].step = "asked"
  BY DEF ServeExit, LoseExit, TypeOK, Exits
<1>2. CASE b = "pass"
  BY <1>1, <1>2 DEF Locks, NoExit
<1>3. CASE b = "card"
  BY <1>3 DEF ServeExit, LoseExit, Locks, TypeOK, server
<1> QED
  BY <1>2, <1>3

LEMMA OtherLocks ==
  ASSUME TypeOK,
         \/ AttachPhoto \/ NextVisitor \/ RecordExit \/ CheckOut \/ CheckOutAnswered \/ ExitAnswered
         \/ \E p \in Passes : AdmitWalkIn(p) \/ Elsewhere(p) \/ Shut(p)
         \/ UNCHANGED vars
  PROVE  Locks
<1>1. page \in Pages /\ exit \in [card : Exits, pass : Exits]
  BY DEF TypeOK
<1>2. CASE CheckOut
  <2>1. exit'.pass.step = "asked"
    BY <1>1, <1>2 DEF CheckOut, NoExit
  <2> QED
    BY <2>1 DEF Locks, NoExit
<1>3. CASE ~ CheckOut
  BY <1>1, <1>3 DEF AttachPhoto, NextVisitor, RecordExit, CheckOutAnswered, ExitAnswered, AdmitWalkIn,
                    Elsewhere, Shut, vars, Locks, Pages
<1> QED
  BY <1>2, <1>3

LEMMA NextIdle ==
  ASSUME TypeOK, CallsSound, IdleIsUnlocked, [Next]_vars
  PROVE  IdleIsUnlocked'
<1>1. Locks
  BY StartLocks, CallLocks, AnswerLocks, ExitLocks, OtherLocks DEF Next
<1> QED
  BY <1>1 DEF Locks, IdleIsUnlocked, Calm

-----------------------------------------------------------------------------
(* Exits                                                                     *)

LEMMA ExitStays ==
  ASSUME TypeOK, BooksGrow, ExitSound, exit'.card = exit.card,
         page'.success = "exited" => page.success = "exited"
  PROVE  ExitSound'
<1> DEFINE e == exit.card.entry
<1>1. exit.card \in Exits
  BY DEF TypeOK
<1>2. CASE exit.card.step = "free"
  BY <1>2 DEF ExitSound, NoExit
<1>3. CASE exit.card.step = "asked"
  <2>1. e.pass[1] \in Others \/ (Booked(e) /\ e.id \in Nat)
    BY <1>3 DEF ExitSound, Booked, TypeOK
  <2>2. e.pass[1] \in Others \/ Booked(exit.card.entry)'
    BY <2>1, BookedStays DEF Booked
  <2>3. ASSUME e.pass[1] \in {"staff", "visitor"}, e.pass \notin inside \/ visits[e.pass] > e.id
        PROVE  e.pass \notin inside' \/ visits'[e.pass] > e.id
    BY <2>1, <2>3 DEF Booked, BooksGrow, TypeOK, Others
  <2> QED
    BY <1>3, <2>2, <2>3 DEF ExitSound
<1> QED
  BY <1>1, <1>2, <1>3 DEF Exits

LEMMA ExitSteps ==
  ASSUME TypeOK, CardIsRecorded, BannerFitsCard, ExitSound, BooksGrow,
         \/ RecordExit \/ ExitAnswered \/ ServeExit("card") \/ LoseExit("card")
  PROVE  ExitSound'
<1>1. exit.card \in Exits /\ exit \in [card : Exits, pass : Exits] /\ page \in Pages
  BY DEF TypeOK
<1>2. CASE RecordExit
  <2>1. /\ exit'.card.step = "asked" /\ exit'.card.entry = page.card
        /\ exit'.card.answer = "none" /\ page' = page
    BY <1>1, <1>2 DEF RecordExit, NoExit
  <2>2. page.card # NoCard /\ UNCHANGED <<visits, inside>>
    BY <1>2 DEF RecordExit, server
  <2>3. page.success # "exited"
    BY <2>2 DEF BannerFitsCard
  <2>4. page.card.pass[1] \in Others \/ Booked(page.card)
    BY <2>2 DEF CardIsRecorded, Booked, Others
  <2> QED
    BY <2>1, <2>2, <2>3, <2>4 DEF ExitSound, Booked
<1>3. CASE ExitAnswered
  <2>1. exit'.card = NoExit
    BY <1>1, <1>3 DEF ExitAnswered
  <2> QED
    BY <2>1 DEF ExitSound, NoExit
<1>4. CASE LoseExit("card")
  <2>1. /\ exit'.card.step = exit.card.step /\ exit'.card.entry = exit.card.entry
        /\ exit'.card.answer = "refused" /\ exit.card.step = "asked"
    BY <1>1, <1>4 DEF LoseExit, Exits
  <2>2. UNCHANGED <<visits, inside, page>>
    BY <1>4 DEF LoseExit, server
  <2> QED
    BY <2>1, <2>2 DEF ExitSound, Booked
<1>5. CASE ServeExit("card")
  <2> DEFINE p == exit.card.entry.pass
             closes == p \in inside /\ exit.card.entry.id = visits[p]
  <2>1. /\ exit'.card.step = exit.card.step /\ exit'.card.entry = exit.card.entry
        /\ exit.card.step = "asked"
        /\ exit'.card.answer = IF closes \/ p[1] \in Others THEN "ok" ELSE "refused"
    BY <1>1, <1>5 DEF ServeExit, Exits, Others
  <2>2. inside' = IF closes THEN inside \ {p} ELSE inside
    BY <1>5 DEF ServeExit
  <2>3. UNCHANGED <<visits, page>>
    BY <1>5 DEF ServeExit
  <2> QED
    BY <2>1, <2>2, <2>3 DEF ExitSound, Booked, Others
<1> QED
  BY <1>2, <1>3, <1>4, <1>5

LEMMA NextExit ==
  ASSUME IInv, [Next]_vars
  PROVE  ExitSound'
<1>1. /\ TypeOK /\ CallsSound /\ CardIsRecorded /\ BannerFitsCard /\ ExitSound
      /\ BooksGrow /\ PageMoves
      /\ exit \in [card : Exits, pass : Exits] /\ page \in Pages
  BY StepGrows, StepMoves DEF IInv, TypeOK
<1>2. ASSUME exit'.card = exit.card, page'.success = "exited" => page.success = "exited"
      PROVE  ExitSound'
  BY <1>1, <1>2, ExitStays
<1>3. ASSUME NEW k \in Slots, \/ Decoded(k)
                              \/ \E c \in Codes : Verify(k, c) \/ DropImage(k, c)
      PROVE  ExitSound'
  BY <1>1, <1>2, <1>3, StartMoves
<1>4. ASSUME NEW k \in Slots, ServeLog(k) \/ Serve(k) \/ Lose(k)
      PROVE  ExitSound'
  BY <1>2, <1>4 DEF ServeLog, Serve, Lose
<1>5. ASSUME NEW k \in Slots, Answer(k) \/ Details(k)
      PROVE  ExitSound'
  <2>1. exit' = exit
    BY <1>5 DEF Answer, Details
  <2>2. page'.success \in {page.success, "entered"}
    BY <1>1, <1>5 DEF Answer, Details, AnswerStaff, AnswerLog, AnswerFamily, AnswerEntry,
                      AnswerEntryFamily, AnswerEntryStaff, Entered, Denied, Continue, Pages
  <2> QED
    BY <1>2, <2>1, <2>2
<1>6. ASSUME RecordExit \/ ExitAnswered \/ ServeExit("card") \/ LoseExit("card")
      PROVE  ExitSound'
  BY <1>1, <1>6, ExitSteps
<1>7. ASSUME ServeExit("pass") \/ LoseExit("pass")
      PROVE  ExitSound'
  <2>1. exit'.card = exit.card /\ page' = page
    BY <1>1, <1>7 DEF ServeExit, LoseExit
  <2> QED
    BY <1>2, <2>1
<1>8. ASSUME AttachPhoto \/ NextVisitor \/ CheckOut \/ CheckOutAnswered
      PROVE  ExitSound'
  <2>1. exit'.card = exit.card /\ page'.success \in {page.success, "none", "left"}
    BY <1>1, <1>8 DEF AttachPhoto, NextVisitor, CheckOut, CheckOutAnswered, Pages
  <2> QED
    BY <1>2, <2>1
<1>9. ASSUME NEW p \in Passes, AdmitWalkIn(p) \/ Elsewhere(p) \/ Shut(p)
      PROVE  ExitSound'
  <2>1. exit' = exit /\ page'.success \in {page.success, "entered"}
    BY <1>1, <1>9 DEF AdmitWalkIn, Elsewhere, Shut, Pages
  <2> QED
    BY <1>2, <2>1
<1>10. CASE UNCHANGED vars
  BY <1>2, <1>10 DEF vars
<1> QED
  BY <1>3, <1>4, <1>5, <1>6, <1>7, <1>8, <1>9, <1>10 DEF Next

\* Only the answer to an exit ends it.
LEMMA OnlyAnswered ==
  ASSUME TypeOK, [Next]_vars, exit.card.step = "asked", exit'.card = NoExit
  PROVE  ExitAnswered
<1>1. exit.card # NoExit /\ exit \in [card : Exits, pass : Exits]
  BY DEF NoExit, TypeOK
<1>2. ASSUME NEW b \in {"card", "pass"}, ServeExit(b) \/ LoseExit(b) PROVE FALSE
  <2>1. exit'.card.step = exit.card.step
    BY <1>1, <1>2 DEF ServeExit, LoseExit, Exits
  <2> QED
    BY <2>1 DEF NoExit
<1>3. ~ RecordExit
  BY DEF RecordExit
<1>4. ASSUME CheckOut \/ CheckOutAnswered PROVE FALSE
  BY <1>1, <1>4 DEF CheckOut, CheckOutAnswered
<1>5. ASSUME exit' = exit PROVE FALSE
  BY <1>1, <1>5
<1>6. ASSUME NEW k \in Slots,
             \/ Decoded(k) \/ ServeLog(k) \/ Serve(k) \/ Lose(k) \/ Answer(k) \/ Details(k)
             \/ \E c \in Codes : Verify(k, c) \/ DropImage(k, c)
      PROVE  exit' = exit
  BY <1>6 DEF Decoded, ServeLog, Serve, Lose, Answer, Details, Verify, DropImage
<1>7. ASSUME \/ AttachPhoto \/ NextVisitor \/ UNCHANGED vars
             \/ \E p \in Passes : AdmitWalkIn(p) \/ Elsewhere(p) \/ Shut(p)
      PROVE  exit' = exit
  BY <1>7 DEF AttachPhoto, NextVisitor, vars, AdmitWalkIn, Elsewhere, Shut
<1> QED
  BY <1>2, <1>3, <1>4, <1>5, <1>6, <1>7 DEF Next

-----------------------------------------------------------------------------
(* The theorems                                                              *)

LEMMA NextIInv == IInv /\ [Next]_vars => IInv'
  BY NextType, NextSound, NextCard, NextIdle, NextExit DEF IInv

LEMMA Invariance == Spec => []IInv
  BY InitIInv, NextIInv, PTL DEF Spec

\* Every field of the page, the calls and the books keeps its type, for any number of
\* verifications at a time.
THEOREM TypeCorrect == Spec => []TypeOK
  BY Invariance, PTL DEF IInv

\* A verdict on the screen is what the server recorded, unless an answer was lost.
THEOREM VerdictTrue == Spec => []VerdictIsTrue
  BY Invariance, PTL DEF IInv

\* The card shown is in the server's books, whatever overlaps and whatever is lost.
THEOREM CardRecorded == Spec => []CardIsRecorded
  BY Invariance, PTL DEF IInv

\* Message and card go together.
THEOREM BannerFits == Spec => []BannerFitsCard
  BY Invariance, PTL DEF IInv

\* The console is not left locked.
THEOREM IdleUnlocked == Spec => []IdleIsUnlocked
  BY Invariance, PTL DEF IInv

\* An exit the page announces has closed the entry it was asked for.
THEOREM ExitTrue == Spec => ExitIsTrue
<1>1. IInv /\ [Next]_vars =>
        [LET e == exit.card.entry IN
         exit.card # NoExit /\ exit'.card = NoExit /\ page'.success = "exited"
           /\ e.pass[1] \in {"staff", "visitor"} =>
             e.pass \notin inside \/ visits[e.pass] > e.id]_vars
  <2> SUFFICES ASSUME IInv, [Next]_vars, exit.card # NoExit, exit'.card = NoExit,
                      page'.success = "exited",
                      exit.card.entry.pass[1] \in {"staff", "visitor"}
               PROVE  exit.card.entry.pass \notin inside
                        \/ visits[exit.card.entry.pass] > exit.card.entry.id
    OBVIOUS
  <2>1. ExitSound /\ exit.card \in Exits /\ page \in Pages
    BY DEF IInv, TypeOK
  <2>2. exit.card.step = "asked" /\ page.success # "exited"
    BY <2>1 DEF ExitSound, Exits
  <2>3. ExitAnswered
    BY <2>1, <2>2, OnlyAnswered DEF IInv
  <2>4. exit.card.answer = "ok"
    BY <2>1, <2>2, <2>3 DEF ExitAnswered, Pages
  <2> QED
    BY <2>1, <2>4 DEF ExitSound
<1> QED
  BY <1>1, Invariance, PTL DEF Spec, ExitIsTrue
=============================================================================
