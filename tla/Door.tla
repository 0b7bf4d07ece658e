-------------------------------- MODULE Door --------------------------------
(***************************************************************************)
(* The ssh door: how a named question or action reaches a machine, or      *)
(* whichever always-on control host answers first, and how what came back  *)
(* is read.  What a host does with the request is nondeterministic and may *)
(* differ at every try.                                                    *)
(***************************************************************************)
EXTENDS Naturals, Sequences, SequencesExt

CONSTANTS
  Hosts,        \* machines a door is declared for
  Controls,     \* those of them that are always on, sorted
  AnyControl,   \* "whichever always-on control host answers"
  Requests,     \* what the engine may send, each [verb, node]
  Conditions    \* the states a host may be found in

AllConditions == {"off", "cut", "stale", "denied", "good", "bad"}
Questions == {"signal", "state"}
Actions == {"up", "down"}

ASSUME DoorAssumption ==
  /\ Controls \in Seq(Hosts)
  /\ Requests \subseteq [verb : Questions \union Actions, node : STRING]
  /\ Conditions \subseteq AllConditions

VARIABLES
  req,     \* the request being served
  ahead,   \* hosts that may still be tried for it
  tried,   \* the tries made, each [host, cond]
  result   \* "asking", or how the request was answered

vars == <<req, ahead, tried, result>>

\* How a question may be answered, and how an action may end.
Results(verb) == IF verb \in Questions THEN {"yes", "no", "unknown"}
                 ELSE {"done", "refused", "unknown"}

\* The type invariant: a question and an action do not read an exit status the
\* same way, so neither ever gets the other's kind of result.
TypeOK ==
  /\ req \in Requests
  /\ ahead \in Seq(Hosts \union {req.node})
  /\ tried \in Seq([host : Hosts \union {req.node}, cond : AllConditions])
  /\ result \in {"asking"} \union Results(req.verb)

-----------------------------------------------------------------------------
\* Did the host's command end with an exit status that came back to us?  A host
\* that is off, or is lost before the command ends, gives none.
Reached(c) == c \notin {"off", "cut"}

\* Exit status: 0 or not from the command itself; 3 from a node that holds no
\* such entry or no table; 127 where the forced command is not found.
Exit(c) == CASE c = "good" -> 0 [] c = "bad" -> 1 [] c = "denied" -> 3 [] c = "stale" -> 127

CannotRunNothing(exit) == FALSE
CannotRun(exit) == exit \in {126, 127}

JudgeAllAlike(verb, exit) == IF exit = 0 THEN IF verb \in Questions THEN "yes" ELSE "done"
                             ELSE IF verb = "signal" THEN "no" ELSE "done"
\* A question is answered by any exit status, an action only by 0.
Judge(verb, exit) ==
  CASE CannotRun(exit) -> "unknown"
    [] ~CannotRun(exit) /\ verb \in Questions -> IF exit = 0 THEN "yes" ELSE "no"
    [] ~CannotRun(exit) /\ verb \in Actions -> IF exit = 0 THEN "done" ELSE "refused"

\* dispatch.
Route(node) == IF node \in {AnyControl, ""} THEN Controls ELSE <<node>>

Init ==
  /\ req \in Requests
  /\ ahead = Route(req.node) /\ tried = << >> /\ result = "asking"

AheadAfterNo(c) == IF Reached(c) /\ Exit(c) = 0 THEN << >> ELSE Tail(ahead)
\* anyControl goes on to the next control only when one could not be reached.
AheadAfter(c) == IF Reached(c) THEN << >> ELSE Tail(ahead)

\* run, on the next host; no door is declared for a machine that is no host.
Try ==
  /\ result = "asking" /\ ahead # << >>
  /\ \E c \in IF Head(ahead) \in Hosts THEN Conditions ELSE {"off"} :
       /\ tried' = Append(tried, [host |-> Head(ahead), cond |-> c])
       /\ ahead' = AheadAfter(c)
  /\ UNCHANGED <<req, result>>

\* Signal or Act reads what came back, if anything did.
Read ==
  /\ result = "asking" /\ ahead = << >>
  /\ result' = IF tried # << >> /\ Reached(Last(tried).cond)
               THEN Judge(req.verb, Exit(Last(tried).cond)) ELSE "unknown"
  /\ UNCHANGED <<req, ahead, tried>>

\* The engine sends its next request.
Send(r) ==
  /\ result # "asking"
  /\ req' = r /\ ahead' = Route(r.node) /\ tried' = << >> /\ result' = "asking"

Next == Try \/ Read \/ \E r \in Requests : Send(r)

Spec == Init /\ [][Next]_vars

-----------------------------------------------------------------------------
\* A confident no comes from a command that ran and said no: a door that
\* cannot run the question has not answered it.
NoMeansAsked == result = "no" => Last(tried).cond = "bad"

\* An action is reported done when a host carried it out, and refused when the
\* last host it was sent to was reached and did not.
DoneMeansDone ==
  /\ result = "done" => Last(tried).cond = "good"
  /\ result = "refused" => Reached(Last(tried).cond) /\ Last(tried).cond # "good"

\* An answer is not shopped around: once a host has let us know how the command
\* ended, no other host is sent it.
OneAnswer ==
  \A i \in DOMAIN tried : Reached(tried[i].cond) => i = Len(tried)
=============================================================================
