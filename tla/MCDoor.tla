------------------------------- MODULE MCDoor -------------------------------
(* Every verb, sent to a host, to any of three controls, or to a machine no  *)
(* door is declared for.                                                     *)
EXTENDS Door

ThreeControls == <<"a", "b", "c">>
AllRequests == [verb : {"signal", "state", "up", "down"}, node : {"*", "tower", "nowhere"}]
=============================================================================
