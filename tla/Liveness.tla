------------------------------ MODULE Liveness ------------------------------
(***************************************************************************)
(* What the engine gets done in the end, and the fairness it rests on.     *)
(*                                                                         *)
(* A goroutine that can take a step again and again takes one: the         *)
(* scheduler of Go runs every goroutine, its mutex hands itself to whoever *)
(* has waited a millisecond, and the door answers or times out.  Fairness  *)
(* is strong because the steps of one are disabled while another waits for *)
(* an answer (InTime) or holds the lock.  A waiting wake also gives up at  *)
(* last: the context of every caller ends after fifteen minutes.           *)
(***************************************************************************)
EXTENDS WakeHistory

CONSTANT Early  \* promises that involve a delay are about what is seen by then

\* Such a promise needs a clock that runs past the delay.
ASSUME EarlyAssumption ==
  \A t \in Downs : Early + Grace[t] <= MaxTime /\ Early + MinUptime[t] <= MaxTime

liveVars == <<vars, raisedAt>>

ClockOrPower == Tick \/ \E t \in Targets : Settle(t)

WorldStep == InTime(NoOne) /\ ClockOrPower /\ UNCHANGED <<memVars, procVars>> /\ WatchWakes
LoopStep == InTime(Loop) /\ LoopNext /\ WatchWakes
WakeStep(w) == InTime(w) /\ pc[w] # "call" /\ WakeNext(w) /\ WatchWakes
GivesUp(w) == InTime(w) /\ Awaited(w) /\ pc'[w] = "failed" /\ WatchWakes

\* People, and those who call a wake, need not do anything.
Fairness ==
  /\ SF_liveVars(WorldStep)
  /\ SF_liveVars(LoopStep)
  /\ \A w \in Wakers : SF_liveVars(WakeStep(w)) /\ SF_liveVars(GivesUp(w))

LiveSpec == HistSpec /\ Fairness

-----------------------------------------------------------------------------
\* A wake ends, well or not, however long the loop holds the lock it needs
\* and whatever becomes of the target: nobody is left waiting.
WakesEnd == \A w \in Wakers : pc[w] = "step" ~> pc[w] \in {"ok", "failed"}

\* The gauge an alert watches, veilleur_target_stoppable: ours to stop, up,
\* and every condition agrees that it may.
Stoppable(t) == okSince[t] # Never /\ up[t] /\ Managed(t)

OrderedDown(t) == pc[Loop] = "downed" /\ Subject(Loop) = t

\* A target the gauge says may be stopped does not stay so for ever: the order
\* goes out, or the gauge falls back, unless a person asked for hands off.
StoppableIsActedOn == \A t \in Downs :
  Stoppable(t) /\ now <= Early ~> ~Stoppable(t) \/ OrderedDown(t) \/ HandsOff(t)
=============================================================================
