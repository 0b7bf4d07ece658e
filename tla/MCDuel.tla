------------------------------- MODULE MCDuel -------------------------------
(* A wake and the loop on the same guest, which may also be switched by     *)
(* hand between any two of their steps, and whose orders may be refused or  *)
(* their answers lost.                                                      *)
EXTENDS Liveness, SoloFleet
=============================================================================
