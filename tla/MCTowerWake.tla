----------------------------- MODULE MCTowerWake -----------------------------
(* A wake of a guest and its tower, against the loop that stops both.        *)
EXTENDS EngineTurns, TowerFleet
=============================================================================
