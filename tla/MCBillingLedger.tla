--------------------------- MODULE MCBillingLedger ---------------------------
(* Instances of BillingLedger for TLC.                                       *)
EXTENDS BillingLedger

\* Drafts carry this month's period and penalties do not: enough for both to
\* meet the monthly job, which looks at the period and not at the kind.
DraftsForThisMonth ==
  \A i \in Recorded : invoice[i].current = (invoice[i].kind # "penalty")

\* Room for one invoice to be posted, paid in two parts and refunded twice, or for
\* two invoices to be posted, and one paid and refunded or both paid.
MaxRows == 6
FewRows == Cardinality(ledger) + Cardinality(Recorded) <= MaxRows

Bounded == DraftsForThisMonth /\ FewRows

\* an invoice whose discount exceeds its lines, and one to be paid in two parts
BelowAndAbove == {-1, 3}

\* ids and units are interchangeable
Symmetry == Permutations(Invoices) \cup Permutations(Payments)
              \cup Permutations(Units) \cup Permutations(Workers)
=============================================================================
