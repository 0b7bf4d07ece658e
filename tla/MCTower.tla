------------------------------- MODULE MCTower -------------------------------
(* The stop path on a tower and its guests: stopping one frees the other,    *)
(* while people start guests by hand and the tower stops answering.          *)
EXTENDS StopHistory, TowerFleet
=============================================================================
