------------------------------- MODULE World -------------------------------
(***************************************************************************)
(* Everything the watchman does not control: the machines, what their      *)
(* probes and signals would answer at this instant, the people who start   *)
(* and stop things by hand or write holds, and the clock.  It stands for   *)
(* the far side of the door and is modelled from how the engine uses it.   *)
(***************************************************************************)
EXTENDS FleetConfig

CONSTANTS
  Watches,     \* signals that say "one of these targets is running"
  Hands,       \* targets people start and stop themselves
  HoldChoices, \* the holds people may write, each [target, handsOff]; the
               \* target may be any name, for the page does not check it
  Faults,      \* what may go wrong: "probe", "signal", "refuse", "lost", "late"
  MaxTime,     \* bound on the clock
  MaxChanges   \* bound on what people and signals change by themselves

ASSUME WorldAssumption ==
  /\ Watches \in [DOMAIN Watches -> SUBSET Targets]
  /\ DOMAIN Watches \subseteq Declared
  /\ Hands \subseteq Targets
  /\ \A h \in HoldChoices : DOMAIN h = {"target", "handsOff"}
  /\ MaxTime \in Nat /\ MaxChanges \in Nat

VARIABLES
  power,    \* target -> "off" | "booting" | "on" | "halting"
  truth,    \* free signal -> what it would answer now
  holds,    \* the holds in the store
  now,      \* the clock the engine reads
  changes   \* changes made so far, against MaxChanges

worldVars == <<power, truth, holds, now, changes>>

Powers == {"off", "booting", "on", "halting"}
FreeSignals == Declared \ DOMAIN Watches

WorldTypeOK ==
  /\ power \in [Targets -> Powers]
  /\ truth \in [FreeSignals -> BOOLEAN]
  /\ holds \subseteq HoldChoices
  /\ now \in 0..MaxTime
  /\ changes \in 0..MaxChanges

-----------------------------------------------------------------------------
\* What the store answers about target t.
HeldOn(t) == \E h \in holds : h.target = t
HandsOff(t) == [target |-> t, handsOff |-> TRUE] \in holds

Truth(s) == IF s \in DOMAIN Watches
            THEN \E g \in Watches[s] : power[g] # "off"
            ELSE truth[s]

\* The power of machine n; a machine no target stands for is always on.
MachinePower(n) == IF HostsOf(n) = << >> THEN "on" ELSE power[Head(HostsOf(n))]

YesNo(b) == IF b THEN "yes" ELSE "no"

\* What machine n may answer when `reading` is the truth: a machine that is on
\* answers it unless the run admits the fault, one going down may or may not.
Replies(n, reading, fault) ==
  (IF MachinePower(n) \in {"on", "halting"} THEN {YesNo(reading)} ELSE {})
  \union (IF MachinePower(n) # "on" \/ fault \in Faults THEN {"err"} ELSE {})

\* Answers the state probe of t may give now: up, until it is really off.
StateAnswers(t) == Replies(StateNode(t), power[t] \in {"on", "halting"}, "probe")

\* Answers signal s may give now.
SignalAnswers(s) == Replies(RunOn[s], Truth(s), "signal")

\* How an order sent to machine n may end: done, refused, or done with the
\* answer lost on the way back.
Outcomes(n) ==
  (IF MachinePower(n) = "on" THEN {"done"} ELSE {"refused"})
  \union (IF "refuse" \in Faults THEN {"refused"} ELSE {})
  \union (IF "lost" \in Faults /\ MachinePower(n) = "on" THEN {"lost"} ELSE {})

Raise(t, outcome) ==
  power' = IF outcome # "refused" /\ power[t] = "off"
           THEN [power EXCEPT ![t] = "booting"] ELSE power

Lower(t, outcome) ==
  power' = IF outcome # "refused" /\ power[t] \in {"on", "booting"}
           THEN [power EXCEPT ![t] = "halting"] ELSE power

-----------------------------------------------------------------------------
\* A target finishes booting, or finishes halting and takes its guests along.
Settle(t) ==
  /\ power[t] \in {"booting", "halting"}
  /\ power' = IF power[t] = "booting" THEN [power EXCEPT ![t] = "on"]
              ELSE [x \in Targets |->
                      IF x = t \/ (IsNode(t) /\ NodeOf[x] = NodeOf[t])
                      THEN "off" ELSE power[x]]
  /\ UNCHANGED <<truth, holds, now, changes>>

Budget == changes < MaxChanges /\ changes' = changes + 1

\* A person uses the power button, or the hypervisor's own console.
SwitchByHand(t) ==
  /\ Budget
  /\ \/ /\ power[t] = "off"
        /\ MachinePower(StateNode(t)) = "on"
        /\ power' = [power EXCEPT ![t] = "booting"]
     \/ /\ power[t] = "on"
        /\ power' = [power EXCEPT ![t] = "halting"]
  /\ UNCHANGED <<truth, holds, now>>

\* What a signal would say changes: a stream starts, a backup ends.
Flip(s) ==
  /\ Budget
  /\ truth' = [truth EXCEPT ![s] = ~@]
  /\ UNCHANGED <<power, holds, now>>

\* A person writes or lifts a hold; HoldStore models the store itself.
WriteHold(h) ==
  /\ Budget
  /\ holds' = IF h \in holds THEN holds \ {h} ELSE holds \union {h}
  /\ UNCHANGED <<power, truth, now>>

Tick ==
  /\ now < MaxTime
  /\ now' = now + 1
  /\ UNCHANGED <<power, truth, holds, changes>>

WorldNext ==
  \/ Tick
  \/ \E t \in Targets : Settle(t)
  \/ \E t \in Hands : SwitchByHand(t)
  \/ \E s \in FreeSignals : Flip(s)
  \/ \E h \in HoldChoices : WriteHold(h)
=============================================================================
