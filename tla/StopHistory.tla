---------------------------- MODULE StopHistory ----------------------------
(***************************************************************************)
(* The engine with two history variables that watch its stops: what was    *)
(* really true, in the world, when the engine asked for the last time, and *)
(* when a pass last ended with a target's conditions not agreed.  Neither  *)
(* is read by a step of the engine.                                        *)
(***************************************************************************)
EXTENDS Engine

VARIABLES
  confirmed,  \* questions of the last round whose answer was true when given:
              \* 0 for "is it up", i for the i-th condition
  doubtAt     \* target -> end of the last pass that did not see them agree

histVars == <<confirmed, doubtAt>>

WorldAgrees(ref) ==
  /\ ref.sig \notin Undeclared
  /\ (IF ref.sig \in HoldSignals THEN HeldOn(HoldOf[ref.sig]) ELSE Truth(ref.sig)) # ref.neg

\* The last answers the engine got say t is up and every condition agrees.
SeenAgreed(t) ==
  /\ up[t]
  /\ \A i \in DOMAIN StopWhen[t] : Verdict(StopWhen[t][i], vals[StopWhen[t][i].sig]) = "agrees"

HistInit == confirmed = {} /\ doubtAt = [t \in Downs |-> 0]

WatchConfirmed ==
  confirmed' =
    CASE pc[Loop] = "look" /\ pc'[Loop] = "looked" ->
           IF ans'[Loop] = "yes" /\ power[Subject(Loop)] # "off" THEN {0} ELSE {}
      [] pc[Loop] = "fresh" /\ pc'[Loop] = "fresh" /\ k' = k + 1 ->
           IF WorldAgrees(StopWhen[Subject(Loop)][k]) THEN confirmed \union {k} ELSE confirmed
      [] pc'[Loop] = "next" -> {}
      [] OTHER -> confirmed

WatchDoubt ==
  doubtAt' = IF pc[Loop] # "idle" /\ pc'[Loop] = "idle"
             THEN [t \in Downs |-> IF SeenAgreed(t)' THEN doubtAt[t] ELSE now]
             ELSE doubtAt

HistNext == Next /\ WatchConfirmed /\ WatchDoubt

HistSpec == Init /\ HistInit /\ [][HistNext]_<<vars, histVars>>

-----------------------------------------------------------------------------
\* The last word is the current one: when the order to stop t goes out, t
\* was really up and each condition really held at an instant after the
\* lock was taken, however old the answers the decision started from.
LastWordIsCurrent ==
  pc[Loop] = "down" => confirmed = 0..Len(StopWhen[Subject(Loop)])

\* The grace is served in full: no pass that ended within the grace before
\* the decision had seen the target down, or with a condition that did not
\* agree.
FullGraceBeforeStop ==
  pc[Loop] = "down" => began - doubtAt[Subject(Loop)] >= Grace[Subject(Loop)]

\* Between passes, "quiet since" (the board, the metrics) is shown only for a
\* target whose conditions all agreed when last asked.
QuietMeansAgreed ==
  pc[Loop] = "idle" => \A t \in Downs : okSince[t] # Never => SeenAgreed(t)
=============================================================================
