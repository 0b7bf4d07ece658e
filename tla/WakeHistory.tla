---------------------------- MODULE WakeHistory ----------------------------
(***************************************************************************)
(* The engine with a history variable that watches its wakes: when the     *)
(* engine last raised a target that has not gone off since.  No step of    *)
(* the engine reads it.                                                    *)
(***************************************************************************)
EXTENDS Engine

VARIABLE raisedAt  \* target -> when a wake's order last started it, or Never

HistInit == raisedAt = [t \in Targets |-> Never]

\* A wake's order starts t, which the engine counts as down.  Its answer may
\* be lost on the way back.
RaisedNow(t) == ~up[t] /\ \E w \in Wakers :
  /\ pc[w] = "up" /\ pc'[w] # "up" /\ t = Subject(w)
  /\ power[t] = "off" /\ power'[t] = "booting"

WatchWakes ==
  raisedAt' = [t \in Targets |-> IF power'[t] = "off" THEN Never
                                 ELSE IF RaisedNow(t) THEN now ELSE raisedAt[t]]

HistNext == Next /\ WatchWakes

HistSpec == Init /\ HistInit /\ [][HistNext]_<<vars, raisedAt>>

-----------------------------------------------------------------------------
\* A thing just raised is not yet idle: what the engine counted as down and
\* raised less than min_uptime ago, and what has not gone off since, it does
\* not order down, whichever goroutine had to wait and whoever else looked.
JustRaisedIsSpared ==
  pc[Loop] = "down" =>
    LET t == Subject(Loop) IN raisedAt[t] # Never => now - raisedAt[t] >= MinUptime[t]
=============================================================================
