---------------------------- MODULE MCTowerSetup -----------------------------
(* An instance of TowerSetup for TLC.                                        *)
EXTENDS TowerSetup, TLC

CONSTANTS a, b
TwoPages == {a, b}
=============================================================================
