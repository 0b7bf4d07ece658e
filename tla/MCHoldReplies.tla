--------------------------- MODULE MCHoldReplies ---------------------------
(* Two people's holds, lifted while the disk is full, and a restart.        *)
EXTENDS HoldReplies
=============================================================================
