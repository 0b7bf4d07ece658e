----------------------------- MODULE SoloFleet -----------------------------
(* A configuration for TLC: one guest on an always-on machine, stopped when *)
(* it is neither busy nor held.                                             *)
EXTENDS Integers, Sequences

Guest == "jelly"
Machine == "pve"
OnGuest(x) == [t \in {Guest} |-> x]

SoloNames == <<Guest>>
SoloNodeOf == OnGuest(Machine)
SoloChainOf == OnGuest(<<Guest>>)
SoloUpTimeout == OnGuest(1)
SoloMinUptime == OnGuest(2)
SoloStopWhen == OnGuest(<<[sig |-> "busy", neg |-> TRUE], [sig |-> "hold", neg |-> TRUE]>>)
BusyOnly == OnGuest(<<[sig |-> "busy", neg |-> TRUE]>>)
SoloGrace == OnGuest(2)
ShortGrace == OnGuest(1)
\* A duration shorter than the tick of the clock.
LessThanATick == OnGuest(0)
SoloThenConsider == OnGuest(<< >>)
SoloManages == OnGuest({Guest})
SoloSignalNames == <<"busy">>
SoloHoldOf == [s \in {"hold"} |-> Guest]
NoHolds == [s \in {} |-> Guest]
SoloRunOn == [s \in {"busy"} |-> Machine]
SoloTTL == [s \in {"busy"} |-> 1]
NeverBusy == [s \in {"busy"} |-> {}]
SoloWatches == [s \in {} |-> {}]
HandsOffHold == {[target |-> Guest, handsOff |-> TRUE]}
=============================================================================
