---------------------------- MODULE QuietHistory ----------------------------
(***************************************************************************)
(* The engine with a history variable that watches what it calls quiet:    *)
(* when it last found something that speaks against stopping a target.  No *)
(* step of the engine reads it.                                            *)
(***************************************************************************)
EXTENDS Engine

VARIABLE refutedAt  \* target -> when the engine last found it down or in use

QuietInit == refutedAt = [t \in Downs |-> 0]

\* p writes down an answer that says t is down, or that its machine is.
FindsDown(p, t) ==
  /\ pc[p] \in {"probed", "asked", "looked", "awaited"} /\ pc'[p] # pc[p]
  /\ t = Subject(p) /\ ans[p] \in {"no", "asleep"}

\* The loop has begun to ask the conditions of t and has not done with it.
Considered(t) == pc[Loop] \in InConsider /\ t = Subject(Loop)

\* This step finds something that speaks against stopping t, or stops it.  Left
\* out is what a wake finds while the loop considers t: the loop has looked.
Refuted(t) ==
  \/ \E p \in Procs : FindsDown(p, t) /\ (p = Loop \/ ~Considered(t))
  \/ /\ Considering(t) /\ rest'[Loop] # rest[Loop]   \* not known to be up
     /\ ~(upKnown[t] /\ up[t])
  \/ /\ pc[Loop] \in {"cond", "fresh"} /\ t = Subject(Loop)
     /\ k <= Len(StopWhen[t]) /\ pc'[Loop] = "next"  \* a condition disagrees
  \/ /\ pc[Loop] = "downed" /\ t = Subject(Loop)     \* it is stopped
     /\ ans[Loop] = "yes" /\ pc'[Loop] = "next"

WatchRefuted ==
  refutedAt' = [t \in Downs |-> IF Refuted(t) THEN now ELSE refutedAt[t]]

QuietNext == Next /\ WatchRefuted

QuietSpec == Init /\ QuietInit /\ [][QuietNext]_<<vars, refutedAt>>

-----------------------------------------------------------------------------
\* "Quiet since" never spans a refusal: whatever instant the board and the
\* metrics show at any moment, since then no goroutine has found the target down,
\* no condition the loop asked of it was in disagreement or unknown, and it was
\* not stopped.  What wakes find while the loop considers it is set aside.
QuietSinceLastRefused ==
  \A t \in Downs : okSince[t] # Never => okSince[t] >= refutedAt[t]

\* No stop on a grace that was interrupted: when the order goes out, nothing
\* that speaks against it had been found, by the loop or by a wake, within the
\* grace before the loop began to consider the target, nor by the loop since.
GraceUnbroken ==
  pc[Loop] = "down" => began - refutedAt[Subject(Loop)] >= Grace[Subject(Loop)]
=============================================================================
