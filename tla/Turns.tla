------------------------------- MODULE Turns -------------------------------
(***************************************************************************)
(* What the action locks are for, without the engine: targets are acted    *)
(* upon in turns.  One actor at a time has the turn of a target; it looks, *)
(* says what it is about to do, gives at most one order, and gives the     *)
(* turn back with nothing left to be said.  How it decides, how long it    *)
(* waits and what becomes of the target are left out.                      *)
(***************************************************************************)
CONSTANTS
  Targets,
  Stopper,   \* the one actor that stops
  Raisers,   \* those that raise
  NoOne

VARIABLES
  owner,     \* target -> who has its turn
  stage,     \* target -> how far that turn is
  shown      \* target -> what the board says is being done to it

turnVars == <<owner, stage, shown>>

Word(p) == IF p = Stopper THEN "stopping" ELSE "raising"

Init ==
  /\ owner = [t \in Targets |-> NoOne]
  /\ stage = [t \in Targets |-> "free"]
  /\ shown = [t \in Targets |-> ""]

Take(t, p) ==
  /\ owner[t] = NoOne
  /\ owner' = [owner EXCEPT ![t] = p]
  /\ stage' = [stage EXCEPT ![t] = "looking"]
  /\ UNCHANGED shown

Announce(t) ==
  /\ stage[t] = "looking"
  /\ stage' = [stage EXCEPT ![t] = "announced"]
  /\ shown' = [shown EXCEPT ![t] = Word(owner[t])]
  /\ UNCHANGED owner

\* What is shown may be withdrawn with the order or later in the turn.
Order(t) ==
  /\ stage[t] = "announced"
  /\ stage' = [stage EXCEPT ![t] = "ordered"]
  /\ shown' \in {shown, [shown EXCEPT ![t] = ""]}
  /\ UNCHANGED owner

Withdraw(t) ==
  /\ stage[t] = "ordered"
  /\ shown' = [shown EXCEPT ![t] = ""]
  /\ UNCHANGED <<owner, stage>>

\* The turn ends: nothing to do, done, or refused as soon as ordered.
Give(t) ==
  /\ stage[t] # "free"
  /\ owner' = [owner EXCEPT ![t] = NoOne]
  /\ stage' = [stage EXCEPT ![t] = "free"]
  /\ shown' = [shown EXCEPT ![t] = ""]

Next == \E t \in Targets :
  \/ \E p \in Raisers \union {Stopper} : Take(t, p)
  \/ Announce(t) \/ Order(t) \/ Withdraw(t) \/ Give(t)

Spec == Init /\ [][Next]_turnVars
=============================================================================
