----------------------------- MODULE TowerFleet -----------------------------
(* A configuration for TLC: an on-demand tower and its guests.  Jelly is     *)
(* stopped when nobody streams, which may free the tower, stopped when no    *)
(* guest runs.  Lab, where there is one, runs or not and is never stopped.   *)
(* Targets and Downs are given by the cfg.                                   *)
EXTENDS FleetConfig

TowerNames == SelectSeq(<<"jelly", "lab", "tower">>, LAMBDA t : t \in Targets)
TowerNodeOf == [t \in Targets |-> "tower"]
TowerChainOf == [t \in Targets |-> IF t = "tower" THEN <<"tower">> ELSE <<"tower", t>>]
TowerOne == [t \in Targets |-> 1]
TowerStopWhen == [d \in Downs |->
  <<[sig |-> IF d = "tower" THEN "guests" ELSE "streams", neg |-> TRUE]>>]
\* Jelly may be held; whoever wrote lab's entry left out the name after hold:.
HeldStopWhen == [d \in Downs |->
  CASE d = "tower" -> TowerStopWhen[d]
    [] d = "jelly" -> Append(TowerStopWhen[d], [sig |-> "hold", neg |-> TRUE])
    [] d = "lab"   -> <<[sig |-> "hold:", neg |-> TRUE]>>]
HoldOfJelly == [s \in {"hold"} |-> "jelly"]
JellyHold == {[target |-> "jelly", handsOff |-> FALSE]}
TowerGrace == [d \in Downs |-> 1]
TowerThenConsider == [d \in Downs |-> IF d = "tower" THEN << >> ELSE <<"tower">>]
FreesNothing == [d \in Downs |-> << >>]
Cyclic == [d \in Downs |-> IF d = "tower" THEN <<"jelly">> ELSE <<"tower">>]
\* A guest's entry lists every guest, lab also where it has no entry of its own.
ManageAll == [d \in Downs |-> IF d = "tower" THEN {"tower"} ELSE Targets \ {"tower"}]
ManageJelly == [d \in Downs |-> {d} \intersect {"jelly"}]
TowerSignalNames == <<"guests", "streams">>
TowerHoldOf == [s \in {} |-> "tower"]
TowerRunOn == [s \in {"guests", "streams"} |-> "tower"]
TowerTTL == [s \in {"guests", "streams"} |-> 2]
TowerWatches == [s \in {"guests"} |-> Targets \ {"tower"}]
=============================================================================
