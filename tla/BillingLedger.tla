---------------------------- MODULE BillingLedger ----------------------------
(* Invoices, payments and the unit ledger (app/modules/billing) as database  *)
(* transactions at READ COMMITTED.  Amounts are integers: money in paise.    *)
(*                                                                           *)
(* A handler is a Begin step (its reads and refusals), a SelectLatest and an *)
(* Insert step for each ledger entry it posts, and a Commit of the columns   *)
(* it changed, whatever has been committed since.  A refused call writes     *)
(* nothing.  The lines of one payment are read together.  A definition       *)
(* marked `faulty` is a plausible slip in the next one; Next never uses it.  *)
EXTENDS Integers, SequencesExt

CONSTANTS
  Units,      \* units of one community
  NoUnit,     \* ledger_entries.unit_id is NULL
  Invoices,   \* ids of maintenance_invoices rows
  Payments,   \* ids of payments rows
  Workers,    \* transactions that may be open at once
  NoWorker,   \* a ledger entry that is committed
  Totals,     \* what lines less discount plus tax may come to, below 0 included
  Fees,       \* what the late fee rule may yield; 0 where there is none
  Parts       \* amounts a payer may send for one purpose

\* tables hold finitely many rows
ASSUME FiniteAssumption ==
  IsFiniteSet(Units) /\ IsFiniteSet(Invoices) /\ IsFiniteSet(Payments)
ASSUME NoUnitAssumption == NoUnit \notin Units
ASSUME NoWorkerAssumption == NoWorker \notin Workers
ASSUME AmountsAssumption ==
  Totals \subseteq Int /\ Fees \subseteq Nat /\ Parts \subseteq Nat \ {0}

VARIABLES
  invoice,   \* maintenance_invoices
  payment,   \* payments with their payment_allocations
  ledger,    \* ledger_entries, the uncommitted ones with their writer in `by`
  txn        \* what each worker's open transaction has read and will write

vars == <<invoice, payment, ledger, txn>>

-----------------------------------------------------------------------------
(* Rows                                                                      *)

Payable == {"posted", "partially_paid", "overdue"}
Status == {"draft", "paid", "cancelled"} \cup Payable
Absent == [status |-> "absent"]

\* total_amount is base + late.  `current`: billing_period_start is the first of
\* this month; `past`: the due date has passed.
InvoiceRow == [status : Status, unit : Units, number : Nat,
               kind : {"manual", "penalty", "monthly"}, current : BOOLEAN,
               past : BOOLEAN, base : Int, late : Nat, paid : Nat, due : Int]
PaymentRow == [status : {"success", "refunded"}, alloc : [Invoices -> Nat],
               advance : Nat, unit : Units \cup {NoUnit}]
LedgerRow == [seq : Nat \ {0}, unit : Units \cup {NoUnit}, delta : Int,
              after : Int, by : Workers \cup {NoWorker}]

Exists(row) == row.status # "absent"
Total(row) == row.base + row.late
NewInvoice(u, kind, status, amount, current, n) ==
  [status |-> status, unit |-> u, number |-> n, kind |-> kind, current |-> current,
   past |-> FALSE, base |-> amount, late |-> 0, paid |-> 0, due |-> amount]

\* the columns an UPDATE sets: those whose value differs from the loaded one
Diff(old, new) == [c \in {c \in DOMAIN new : new[c] # old[c]} |-> new[c]]
Merge(cols, old) ==
  [c \in DOMAIN cols \cup DOMAIN old |-> IF c \in DOMAIN cols THEN cols[c] ELSE old[c]]
Write(table, cols) ==
  [x \in DOMAIN table |-> IF x \in DOMAIN cols THEN Merge(cols[x], table[x]) ELSE table[x]]

-----------------------------------------------------------------------------
(* Transactions                                                              *)

Nothing == [x \in {} |-> x]
Idle == [op |-> "idle", posts |-> <<>>, row |-> 0, locks |-> {},
         invoices |-> Nothing, payments |-> Nothing]

\* `posts`: ledger entries still to make; `row`: the entry selected as the latest
Begin(w, op, posts, invoices, payments) ==
  /\ txn[w] = Idle
  /\ txn' = [txn EXCEPT ![w] = [op |-> op, posts |-> posts, row |-> 0, locks |-> {},
                                invoices |-> invoices, payments |-> payments]]
  /\ UNCHANGED <<invoice, payment, ledger>>

Debit(u, amount) == [unit |-> u, delta |-> amount]
Credit(u, amount) == [unit |-> u, delta |-> -amount]

Inserting == UNION {DOMAIN txn[w].invoices : w \in Workers}
Fresh == {i \in Invoices : ~Exists(invoice[i])} \ Inserting
Recorded == {i \in Invoices : Exists(invoice[i])}

\* next_sequence counts the rows.  UNIQUE (community_id, invoice_number), whose
\* prefix tells the kinds apart, makes a second insertion of a number wait for
\* the first, and fail once that commits.
Number == Cardinality(Recorded) + 1
NumberFree(kind, n) ==
  /\ \A i \in Recorded : ~(invoice[i].kind = kind /\ invoice[i].number = n)
  /\ \A w \in Workers : \A i \in DOMAIN txn[w].invoices \ Recorded :
       ~(txn[w].invoices[i].kind = kind /\ txn[w].invoices[i].number = n)

-----------------------------------------------------------------------------
(* Invoices                                                                  *)

\* create_invoice makes a draft, which touches no other row; nothing keeps its
\* discount below what the lines come to
CreateInvoice ==
  \E i \in Fresh, u \in Units, amount \in Totals, current \in BOOLEAN :
    /\ NumberFree("manual", Number)
    /\ invoice' = [invoice EXCEPT ![i] =
                     NewInvoice(u, "manual", "draft", amount, current, Number)]
    /\ UNCHANGED <<payment, ledger, txn>>

BeginPost(w) ==
  \E i \in Invoices :
    /\ invoice[i].status = "draft"
    /\ Begin(w, "post", <<Debit(invoice[i].unit, Total(invoice[i]))>>,
             [j \in {i} |-> [status |-> "posted"]], Nothing)

MayCancel(row) ==
  row.status \in {"draft", "posted", "overdue"} /\ row.paid = 0

\* only what has been posted is credited back
CancelPostsPosted(row) ==   \* faulty
  IF row.status = "posted" THEN <<Credit(row.unit, Total(row))>> ELSE <<>>
CancelPosts(row) ==
  IF row.status = "draft" THEN <<>> ELSE <<Credit(row.unit, Total(row))>>

BeginCancel(w) ==
  \E i \in Invoices :
    /\ MayCancel(invoice[i])
    /\ Begin(w, "cancel", CancelPosts(invoice[i]),
             [j \in {i} |-> Diff(invoice[i], [status |-> "cancelled", due |-> 0])], Nothing)

\* the billing period of a penalty is the day it is assessed
BeginPenalty(w) ==
  \E i \in Fresh, u \in Units, amount \in Totals, current \in BOOLEAN :
    /\ amount > 0
    /\ NumberFree("penalty", Number)
    /\ Begin(w, "penalty", <<Debit(u, amount)>>,
             [j \in {i} |-> NewInvoice(u, "penalty", "posted", amount, current, Number)],
             Nothing)

\* _generate_monthly_invoices: one transaction bills every unit that has no
\* invoice of this month
UnbilledOpenly(u) ==   \* faulty
  \A i \in Recorded : ~(invoice[i].unit = u /\ invoice[i].current
                         /\ invoice[i].status \in Payable)
Unbilled(u) ==
  \A i \in Recorded : ~(invoice[i].unit = u /\ invoice[i].current
                         /\ invoice[i].status # "cancelled")

BeginMonthly(w) ==
  \E units \in SetToSeqs({u \in Units : Unbilled(u)}) :
    \E ids \in {s \in [DOMAIN units -> Fresh] : IsInjective(s)},
       amounts \in [DOMAIN units -> {total \in Totals : total >= 0}] :
      /\ units # <<>>
      /\ \A k \in DOMAIN units : NumberFree("monthly", Number + k - 1)
      /\ Begin(w, "monthly",
               [k \in DOMAIN units |-> Debit(units[k], amounts[k])],
               [i \in {ids[k] : k \in DOMAIN units} |->
                  LET k == CHOOSE k \in DOMAIN units : ids[k] = i
                  IN  NewInvoice(units[k], "monthly", "posted", amounts[k], TRUE,
                                 Number + k - 1)],
               Nothing)

\* _sweep_overdue_invoices: one transaction for all rows; the ledger is left alone
Overdue(row) ==
  row.status \in {"posted", "partially_paid"} /\ row.past /\ row.due > 0
Charged(row, fee) ==
  [row EXCEPT !.status = "overdue", !.late = @ + fee,
              !.due = Total(row) + fee - row.paid]

BeginSweep(w) ==
  LET late == {i \in Recorded : Overdue(invoice[i])}
  IN  \E fee \in [late -> Fees] :
        /\ late # {}
        /\ Begin(w, "sweep", <<>>,
                 [i \in late |->
                    Diff(invoice[i],
                         IF fee[i] > 0 THEN Charged(invoice[i], fee[i])
                         ELSE [invoice[i] EXCEPT !.status = "overdue"])],
                 Nothing)

-----------------------------------------------------------------------------
(* Payments                                                                  *)

AllocationFits(row, amount) == row.status \in Payable /\ amount <= row.due

Paid(row, amount) ==
  LET due == Total(row) - (row.paid + amount)
  IN  [row EXCEPT !.paid = @ + amount, !.due = due,
                  !.status = IF due <= 0 THEN "paid" ELSE "partially_paid"]

\* UNIQUE (community_id, receipt_number), numbered by counting payments, makes
\* a second payment wait for the first, and fail once that commits
BeginPay(w) ==
  \E p \in Payments, unit \in Units \cup {NoUnit}, advance \in Parts \cup {0},
     lines \in UNION {SetToSeqs(S) : S \in SUBSET Recorded} :
    \E amount \in [DOMAIN lines -> Parts] :
      LET target == IF unit = NoUnit /\ lines # <<>> THEN invoice[lines[1]].unit ELSE unit
          line(i) == CHOOSE k \in DOMAIN lines : lines[k] = i
          paid == {lines[k] : k \in DOMAIN lines}
      IN
      /\ ~Exists(payment[p])
      /\ lines # <<>> \/ advance > 0
      /\ \A x \in Workers : txn[x].op # "pay"
      /\ \A k \in DOMAIN lines : AllocationFits(invoice[lines[k]], amount[k])
      /\ Begin(w, "pay",
               [k \in DOMAIN lines |-> Credit(invoice[lines[k]].unit, amount[k])]
                 \o IF advance > 0 THEN <<Credit(target, advance)>> ELSE <<>>,
               [i \in paid |-> Diff(invoice[i], Paid(invoice[i], amount[line(i)]))],
               [x \in {p} |->
                  [status |-> "success", advance |-> advance,
                   unit |-> IF advance > 0 THEN target ELSE NoUnit,
                   alloc |-> [i \in Invoices |->
                                IF i \in paid THEN amount[line(i)] ELSE 0]]])

RefundableAgain(row) == Exists(row)   \* faulty
Refundable(row) == row.status = "success"

ReopenedPartly(row, due) ==   \* faulty
  IF due <= 0 THEN "paid" ELSE "partially_paid"
Reopened(row, due) ==
  IF due <= 0 THEN "paid"
  ELSE IF due < Total(row) THEN "partially_paid"
  ELSE IF row.past THEN "overdue" ELSE "posted"

Refunded(row, amount) ==
  LET due == Total(row) - (row.paid - amount)
  IN  [row EXCEPT !.paid = @ - amount, !.due = due, !.status = Reopened(row, due)]

BeginRefund(w) ==
  \E p \in Payments :
    LET alloc == payment[p].alloc
        paid == {i \in Invoices : alloc[i] > 0}
    IN
    /\ Refundable(payment[p])
    /\ \E lines \in SetToSeqs(paid) :
         Begin(w, "refund",
               [k \in DOMAIN lines |-> Debit(invoice[lines[k]].unit, alloc[lines[k]])]
                 \o IF payment[p].advance > 0
                      THEN <<Debit(payment[p].unit, payment[p].advance)>> ELSE <<>>,
               [i \in paid |-> Diff(invoice[i], Refunded(invoice[i], alloc[i]))],
               [x \in {p} |-> [status |-> "refunded"]])

-----------------------------------------------------------------------------
(* The ledger                                                                *)

\* what a statement of w sees: committed entries and its own
SeenCommitted(w, u) == {e \in ledger : e.unit = u /\ e.by = NoWorker}   \* faulty
Seen(w, u) == {e \in ledger : e.unit = u /\ e.by \in {w, NoWorker}}

LatestOf(entries) == CHOOSE e \in entries : \A f \in entries : f.seq <= e.seq
Locked(seq, w) == \E x \in Workers \ {w} : seq \in txn[x].locks

\* latest_balance: ORDER BY entry_seq DESC LIMIT 1 picks a row...
SelectLatest(w) ==
  /\ txn[w].posts # <<>> /\ txn[w].row = 0
  /\ LET seen == Seen(w, Head(txn[w].posts).unit)
     IN  seen # {} /\ txn' = [txn EXCEPT ![w].row = LatestOf(seen).seq]
  /\ UNCHANGED <<invoice, payment, ledger>>

\* ... and FOR UPDATE waits for that row, however many follow it by then.  The
\* monthly job does not lock.  An empty ledger has no row to lock.
Insert(w) ==
  LET post == Head(txn[w].posts)
      base == IF txn[w].row = 0 THEN 0
              ELSE (CHOOSE e \in ledger : e.seq = txn[w].row).after
  IN
  /\ txn[w].posts # <<>>
  /\ IF txn[w].row = 0 THEN Seen(w, post.unit) = {}
     ELSE txn[w].op = "monthly" \/ ~Locked(txn[w].row, w)
  /\ ledger' = ledger \cup
       {[seq |-> IF ledger = {} THEN 1 ELSE LatestOf(ledger).seq + 1, unit |-> post.unit,
         delta |-> post.delta, after |-> base + post.delta, by |-> w]}
  /\ txn' = [txn EXCEPT ![w] =
                [op |-> txn[w].op, posts |-> Tail(txn[w].posts), row |-> 0,
                 locks |-> IF txn[w].op = "monthly" THEN {}
                           ELSE txn[w].locks \cup ({txn[w].row} \ {0}),
                 invoices |-> txn[w].invoices, payments |-> txn[w].payments]]
  /\ UNCHANGED <<invoice, payment>>

Commit(w) ==
  /\ txn[w] # Idle /\ txn[w].posts = <<>>
  /\ invoice' = Write(invoice, txn[w].invoices)
  /\ payment' = Write(payment, txn[w].payments)
  /\ ledger' = {IF e.by = w THEN [e EXCEPT !.by = NoWorker] ELSE e : e \in ledger}
  /\ txn' = [txn EXCEPT ![w] = Idle]

\* a lost connection or worker, or a deadlock, rolls the transaction back
Crash(w) ==
  /\ txn[w] # Idle
  /\ ledger' = {e \in ledger : e.by # w}
  /\ txn' = [txn EXCEPT ![w] = Idle]
  /\ UNCHANGED <<invoice, payment>>

FallsDue(i) ==
  /\ Exists(invoice[i]) /\ ~invoice[i].past
  /\ invoice' = [invoice EXCEPT ![i].past = TRUE]
  /\ UNCHANGED <<payment, ledger, txn>>

-----------------------------------------------------------------------------

Init ==
  /\ invoice = [i \in Invoices |-> Absent]
  /\ payment = [p \in Payments |-> Absent]
  /\ ledger = {}
  /\ txn = [w \in Workers |-> Idle]

Handler(w) ==
  \/ BeginPost(w) \/ BeginCancel(w) \/ BeginPenalty(w) \/ BeginMonthly(w)
  \/ BeginSweep(w) \/ BeginPay(w) \/ BeginRefund(w)
  \/ SelectLatest(w) \/ Insert(w) \/ Commit(w) \/ Crash(w)

Next == (\E w \in Workers : Handler(w)) \/ CreateInvoice \/ (\E i \in Invoices : FallsDue(i))

Spec == Init /\ [][Next]_vars

-----------------------------------------------------------------------------
(* What must hold when the transactions run one after the other              *)

\* Every row has the columns the schema gives it; no fee and no amount paid is
\* negative, although a discounted total may be.
TypeOK ==
  /\ invoice \in [Invoices -> InvoiceRow \cup {Absent}]
  /\ payment \in [Payments -> PaymentRow \cup {Absent}]
  /\ ledger \subseteq LedgerRow
  /\ \A w \in Workers : txn[w].row \in {0} \cup {e.seq : e \in ledger}

Posted == {e \in ledger : e.by = NoWorker}
Balance(u, entries) ==
  LET mine == {e \in entries : e.unit = u} IN IF mine = {} THEN 0 ELSE LatestOf(mine).after

\* The running balance of a unit is the sum of its entries: each balance_after is
\* the previous one plus or minus the entry's amount (_ledger).
LedgerChain ==
  \A e \in Posted :
    e.after = Balance(e.unit, {f \in Posted : f.seq < e.seq}) + e.delta

Successful == {p \in Payments : payment[p].status = "success"}

\* What an invoice shows as paid is what its successful payments allocate to it
\* (record_payment and refund_payment keep both tables in step).
PaidIsAllocated ==
  \A i \in Recorded :
    invoice[i].paid = SumFunction([p \in Successful |-> payment[p].alloc[i]])

\* A unit's ledger balance is what its posted invoices still claim, without the
\* late fees (the sweep adds them to the invoice and to no entry, and cancelling
\* or paying credits them), less the advances not refunded.
LedgerIsDues ==
  \A u \in Units \cup {NoUnit} :
    Balance(u, Posted) =
      SumFunction([i \in {i \in Recorded : invoice[i].unit = u /\ invoice[i].status # "draft"}
                    |-> invoice[i].due - invoice[i].late])
      - SumFunction([p \in {p \in Successful : payment[p].unit = u} |-> payment[p].advance])

\* The status tells what has been paid, whatever payments, refunds, late fees
\* and cancellations an invoice went through.
StatusFitsAmounts ==
  \A i \in Recorded :
    LET row == invoice[i] IN
    /\ row.due = IF row.status = "cancelled" THEN 0 ELSE Total(row) - row.paid
    /\ row.status \in {"draft", "posted", "cancelled"} => row.paid = 0
    /\ row.status = "partially_paid" => row.paid > 0
    /\ row.status \in {"partially_paid", "overdue"} => row.due > 0
    /\ row.status = "paid" => row.due = 0

\* A month is billed to a unit once, however often the job runs and whatever
\* becomes of the invoice short of its cancellation (_generate_monthly_invoices).
BilledOnce ==
  \A i, j \in Recorded :
    /\ {invoice[i].kind, invoice[j].kind} = {"monthly"}
    /\ invoice[i].unit = invoice[j].unit
    /\ "cancelled" \notin {invoice[i].status, invoice[j].status}
    => i = j

-----------------------------------------------------------------------------
(* What must hold however the transactions overlap                           *)

\* i is cancelled, no open transaction holds columns of it to write, and no
\* payment that may still be refunded is on it
Settled(i) ==
  /\ invoice[i].status = "cancelled"
  /\ \A w \in Workers : i \notin DOMAIN txn[w].invoices
  /\ \A p \in Payments : ~(payment[p].status = "success" /\ payment[p].alloc[i] > 0)

\* Once an invoice is cancelled, what read it earlier has ended and the payments
\* on it are refunded, it stays cancelled: no later sweep, posting or payment and
\* no second refund revives it (the status checks of the billing service).
SettledIsFinal ==
  [][\A i \in Invoices : Settled(i) => Settled(i)']_vars
=============================================================================
