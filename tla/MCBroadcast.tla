---------------------------- MODULE MCBroadcast ----------------------------
(* An emergency for a resident and a guard, and two workers. *)
EXTENDS Broadcast

CONSTANTS r1, g1, p1, w1, w2

OneResident == {r1}
OneGuard == {g1}
OneRequest == {p1}
TwoWorkers == {w1, w2}
Rows == 1 .. MaxFaults
=============================================================================
