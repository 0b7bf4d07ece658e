----------------------------- MODULE MCTwoWakes -----------------------------
(* Two wakes of the same guest and the loop that may stop it, with probes   *)
(* that fail and answers that are late or lost.  The wakes are alike.       *)
EXTENDS EngineTurns, QuietHistory, SoloFleet, TLC

AlikeWakes == Permutations(Wakers)
=============================================================================
