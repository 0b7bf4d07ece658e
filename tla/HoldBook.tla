------------------------------ MODULE HoldBook ------------------------------
(***************************************************************************)
(* What the store of holds promises to the people who write them: a hold   *)
(* that was acknowledged is in force until somebody asks to lift it, and   *)
(* one whose lifting was acknowledged never comes back, restarts of the    *)
(* watchman notwithstanding.  What was asked for and not acknowledged may  *)
(* go either way, and a restart decides it.                                *)
(***************************************************************************)
CONSTANTS
  Holds,    \* the holds that may be written, each with an ID of its own
  Nothing   \* no request is under way

VARIABLES
  book,    \* the holds in force
  wish,    \* the request under way, [hold, keep], or Nothing
  doubt,   \* the holds somebody asked about and got no clear answer on
  said     \* how the last request was answered: "ok", "error" or "none" yet

vars == <<book, wish, doubt, said>>

Init == book = {} /\ wish = Nothing /\ doubt = {} /\ said = "none"

\* Somebody asks to take hold h, or to lift it.
Ask(h, keep) ==
  /\ wish = Nothing /\ wish' = [hold |-> h, keep |-> keep]
  /\ doubt' = doubt \union {h} /\ said' = "none"
  /\ UNCHANGED book

\* What was open for some holds is settled, as they stand in the book.
Settle == \E D \in SUBSET doubt : doubt' = D /\ UNCHANGED <<book, wish, said>>

\* A clear answer: the hold is written, or lifted, for good.
Granted ==
  /\ wish # Nothing /\ wish' = Nothing /\ said' = "ok"
  /\ book' = IF wish.keep THEN book \union {wish.hold} ELSE book \ {wish.hold}
  /\ doubt' = doubt \ {wish.hold}

\* An error: it was done for now, or it was not.
Failed ==
  /\ wish # Nothing /\ wish' = Nothing /\ said' = "error"
  /\ book' \in {book, IF wish.keep THEN book \union {wish.hold} ELSE book \ {wish.hold}}
  /\ doubt' \in {doubt, doubt \ {wish.hold}}

\* The watchman dies, and nobody will answer the request under way.
Die ==
  /\ wish' = Nothing /\ said' = "none"
  /\ \E D \in SUBSET doubt : doubt' = D
  /\ UNCHANGED book

\* It is started again: what is not in doubt is as it was.
Restart ==
  /\ wish = Nothing
  /\ \E S \in SUBSET doubt : book' = (book \ doubt) \union S
  /\ doubt' = {}
  /\ UNCHANGED <<wish, said>>

Next ==
  \/ Settle \/ Granted \/ Failed \/ Die \/ Restart
  \/ \E h \in Holds, keep \in BOOLEAN : Ask(h, keep)

Spec == Init /\ [][Next]_vars
=============================================================================
