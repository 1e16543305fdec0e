--------------------------- MODULE MCVisitorAccess ---------------------------
(* Instances of VisitorAccess for TLC.                                       *)
EXTENDS VisitorAccess, TLC

\* The policy a community starts with (_DEFAULT_POLICY): approval and blocking.
Standard == {[approval |-> TRUE, otp |-> FALSE, block |-> TRUE]}
\* The default, and one without approval and screening that insists on a PIN.
StrictOrLax == Standard \cup {[approval |-> FALSE, otp |-> TRUE, block |-> FALSE]}

\* Two recorded decisions are enough to disagree.
MaxDecisions == 2
FewDecisions == Cardinality(approval) <= MaxDecisions

\* Rows and people are interchangeable (safety runs only); where some visitors
\* are suspects, only the rows are.
RowSymmetry == Permutations(Requests) \cup Permutations(Passes)
                 \cup Permutations(Entries) \cup Permutations(Approvers)
Symmetry == RowSymmetry \cup Permutations(Visitors) \cup Permutations(Workers)
=============================================================================
