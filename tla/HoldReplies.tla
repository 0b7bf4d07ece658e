---------------------------- MODULE HoldReplies ----------------------------
(***************************************************************************)
(* The store with what the API tells whoever lifts a hold: any error of    *)
(* Release, a failed save included, is answered 404, "no such hold".       *)
(***************************************************************************)
EXTENDS HoldStore

VARIABLE toldGone    \* the holds of which somebody was told there is no such

AnswersError ==
  asked # Nothing /\ ~asked.keep /\ said' = "error"

ReplyNext ==
  \/ /\ Next
     /\ toldGone' = IF AnswersError THEN toldGone \union {asked.hold} ELSE toldGone
  \/ \E h \in used : ReleaseUnknown(h) /\ toldGone' = toldGone \union {h}

ReplySpec == Init /\ toldGone = {} /\ [][ReplyNext]_<<vars, toldGone>>

-----------------------------------------------------------------------------
\* "No such hold": a hold the API has said does not exist is not in force.
GoneStaysGone == at = "idle" => toldGone \intersect mem = {}
=============================================================================
