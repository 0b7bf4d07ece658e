---------------------------- MODULE EngineTurns ----------------------------
(***************************************************************************)
(* The engine takes its targets in turns: the owner of a turn is whoever   *)
(* holds the action lock, and how far the turn is can be read off the      *)
(* label of its owner and the stops whose lock is kept.                    *)
(***************************************************************************)
EXTENDS Engine

\* The loop has announced that it stops t; it has given the order to, and
\* goes on holding the lock while it frees what needed t.
Stopping(t) == pc[Loop] \in {"down", "downed"} /\ t = Subject(Loop)
Stopped(t) == \/ pc[Loop] = "downed" /\ t = Subject(Loop)
              \/ \E i \in DOMAIN held : held[i].target = t

StopStage(t) ==
  IF Stopped(t) THEN "ordered" ELSE IF Stopping(t) THEN "announced" ELSE "looking"
RaiseStage(w) ==
  CASE pc[w] \in {"await", "awaited"} -> "ordered"
    [] pc[w] = "up"                   -> "announced"
    [] OTHER                          -> "looking"

Stage(t) == CASE acting[t] = NoOne      -> "free"
              [] acting[t] = Loop       -> StopStage(t)
              [] acting[t] \in Wakers   -> RaiseStage(acting[t])

Turn == INSTANCE Turns WITH
  Stopper <- Loop, Raisers <- Wakers,
  owner <- acting, stage <- [t \in Targets |-> Stage(t)], shown <- pending

\* The engine implements turns: no lock is taken from its owner or let go by
\* another, nothing is ordered that was not announced by the owner of the
\* turn, no turn holds two orders, and the board says nothing of a target
\* nobody is at.
InTurns == Turn!Spec

-----------------------------------------------------------------------------
\* What is pending on a target is exactly what somebody has announced and not
\* finished.
ExactOn(t) ==
  /\ pending[t] = "stopping" <=> Stopping(t)
  /\ pending[t] = "raising" <=> \E w \in Wakers : pc[w] = "up" /\ t = Subject(w)

PendingExact == \A t \in Targets : ExactOn(t)
=============================================================================
