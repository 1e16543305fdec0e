--------------------------- MODULE MCServiceDesk ---------------------------
(* Two workers, so that two transactions overlap, on one ticket. *)
EXTENDS ServiceDesk

CONSTANTS w1, w2

TwoWorkers == {w1, w2}
ThreeRows == 1 .. 3
=============================================================================
