------------------------------- MODULE MCSolo -------------------------------
(* The stop path on one guest: people write holds, the guest is used and    *)
(* may be switched by hand, signals may fail and orders be refused or lost. *)
EXTENDS StopHistory, SoloFleet
=============================================================================
