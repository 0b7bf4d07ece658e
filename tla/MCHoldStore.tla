---------------------------- MODULE MCHoldStore ----------------------------
(* Three people's holds, taken and lifted while the process dies and writes *)
(* fail.                                                                    *)
EXTENDS HoldStore
=============================================================================
