------------------------------- MODULE Config -------------------------------
(***************************************************************************)
(* The configuration as it is written, what Validate refuses of it, and    *)
(* the two walks over `needs`: checkCycles, from every target, and Chain,  *)
(* from the one to be raised.  Both go depth first and mark a target when  *)
(* they enter it; they differ in what a marked one means to them.          *)
(***************************************************************************)
EXTENDS Naturals, Sequences, FiniteSets, SequencesExt

CONSTANT
  Written    \* the configurations somebody may write

\* A configuration maps the declared targets to [kind, onDemand, node, needs],
\* and the down entries to [stopWhen, manages, thenConsider], where a condition
\* is "hold" or the name of a signal; its door is [mode, key, hosts].
Kinds == {"node", "guest", "other"}

ASSUME WrittenAssumption ==
  \A c \in Written : \A t \in DOMAIN c.targets : c.targets[t].needs \in Seq(STRING)

VARIABLES
  conf,    \* the configuration being loaded
  phase,   \* "reading" | "checking" | "refused" | "accepted" | "walking"
  colour,  \* target -> "white" | "grey" while its needs are walked | "black"
  stack,   \* the calls under way, each [node, left]: needs still to visit
  roots,   \* targets the walk still has to start from; the code takes them
           \* in the order of their names, and nothing rests on that order
  out,     \* targets left, in order: what Chain is to return
  asked    \* the target of the last Chain

walkVars == <<colour, stack, roots, out>>
vars == <<conf, phase, asked, walkVars>>

Declared == DOMAIN conf.targets
Needs(t) == ToSet(conf.targets[t].needs)
White == [t \in Declared |-> "white"]

TypeOK ==
  /\ conf \in Written
  /\ phase \in {"reading", "checking", "refused", "accepted", "walking"}
  /\ colour \in [Declared -> {"white", "grey", "black"}]
  /\ stack \in Seq([node : Declared, left : Seq(STRING)])
  /\ roots \subseteq Declared /\ out \in Seq(Declared)
  /\ asked \in Declared \union {""}

-----------------------------------------------------------------------------
(* What Validate asks of each part. *)

TargetSound(n) ==
  LET t == conf.targets[n] IN
  /\ t.kind \in {"node", "guest"}
  /\ t.kind = "node" => t.onDemand /\ t.needs = << >>
  /\ t.kind = "guest" => t.node # ""
  /\ \A m \in Needs(n) : m \in Declared /\ m # n

TargetsSound == Declared # {} /\ \A n \in Declared : TargetSound(n)

DownSound(n) ==
  LET d == conf.downs[n] IN
  /\ n \in Declared
  /\ d.stopWhen # {} /\ d.stopWhen \subseteq conf.signals \union {"hold"}
  /\ d.manages \subseteq Declared /\ d.thenConsider \subseteq Declared

DownsSound == \A n \in DOMAIN conf.downs : DownSound(n)

DoorSound == conf.door.mode = "ssh" =>
  /\ conf.door.key
  /\ \A h \in conf.door.hosts : h.complete
  /\ \E h \in conf.door.hosts : h.control

-----------------------------------------------------------------------------
Init ==
  /\ conf \in Written
  /\ phase = "reading" /\ asked = ""
  /\ colour = White /\ stack = << >> /\ roots = {} /\ out = << >>

\* Validate up to checkCycles.
Read ==
  /\ phase = "reading"
  /\ \/ TargetsSound /\ phase' = "checking" /\ roots' = Declared
     \/ ~TargetsSound /\ phase' = "refused" /\ UNCHANGED roots
  /\ UNCHANGED <<conf, asked, colour, stack, out>>

OnPathOrDone(m) == phase = "checking" /\ colour[m] # "white"
\* checkCycles meets a target whose needs are still being walked.
OnPath(m) == phase = "checking" /\ colour[m] = "grey"

\* visit, or walk, of m is called on top of `calls`: it is entered the first
\* time, and returned from at once otherwise.
Visit(m, calls) ==
  \/ /\ colour[m] = "white"
     /\ colour' = [colour EXCEPT ![m] = "grey"]
     /\ stack' = Append(calls, [node |-> m, left |-> conf.targets[m].needs])
     /\ UNCHANGED phase
  \/ /\ colour[m] # "white" /\ ~OnPath(m)
     /\ stack' = calls
     /\ UNCHANGED <<phase, colour>>
  \/ /\ OnPath(m)
     /\ phase' = "refused"
     /\ UNCHANGED <<colour, stack>>

Walking == phase \in {"checking", "walking"}

NextRoot ==
  /\ Walking /\ stack = << >>
  /\ \E m \in roots : Visit(m, << >>) /\ roots' = roots \ {m}
  /\ UNCHANGED <<conf, asked, out>>

NextNeed ==
  /\ Walking /\ stack # << >> /\ Last(stack).left # << >>
  /\ LET call == Last(stack) IN
     Visit(Head(call.left), Append(Front(stack), [call EXCEPT !.left = Tail(@)]))
  /\ UNCHANGED <<conf, asked, roots, out>>

OutAfterFirst(n) == << n >> \o out
OutAfter(n) == Append(out, n)

\* All that the target on top needs was walked; only Chain keeps a list.
Leave ==
  /\ Walking /\ stack # << >> /\ Last(stack).left = << >>
  /\ colour' = [colour EXCEPT ![Last(stack).node] = "black"]
  /\ out' = IF phase = "walking" THEN OutAfter(Last(stack).node) ELSE out
  /\ stack' = Front(stack)
  /\ UNCHANGED <<conf, phase, asked, roots>>

\* checkCycles returns nil, and Validate goes on with the rest.
Checked ==
  /\ phase = "checking" /\ stack = << >> /\ roots = {}
  /\ phase' = IF DownsSound /\ DoorSound THEN "accepted" ELSE "refused"
  /\ UNCHANGED <<conf, asked, walkVars>>

\* Chain(t) is called on a configuration that was accepted.
Chain(t) ==
  /\ phase = "accepted" /\ phase' = "walking"
  /\ asked' = t
  /\ colour' = White /\ roots' = {t} /\ out' = << >>
  /\ UNCHANGED <<conf, stack>>

Chained ==
  /\ phase = "walking" /\ stack = << >> /\ roots = {}
  /\ phase' = "accepted"
  /\ UNCHANGED <<conf, asked, walkVars>>

\* A configuration that is refused ends the process.
Next ==
  \/ Read \/ NextRoot \/ NextNeed \/ Leave \/ Checked \/ Chained
  \/ \E t \in Declared : Chain(t)

Spec == Init /\ [][Next]_vars

-----------------------------------------------------------------------------
\* Somebody needs himself in the end: a set of targets each of which needs
\* another of the set.
Cyclic == \E S \in (SUBSET Declared) \ {{}} : \A n \in S : Needs(n) \intersect S # {}

\* Of configurations that are sound otherwise, those with a cycle of needs are
\* refused and no others: two targets may need the same one.
CyclesAreRefused ==
  /\ phase \in {"accepted", "walking"} => ~Cyclic
  /\ phase = "refused" /\ TargetsSound /\ DownsSound /\ DoorSound => Cyclic

\* What Chain returns can be raised in that order: everything a target needs
\* comes before it, each once, the one asked for last, and nothing is raised
\* that no later one needs.
ChainIsInOrder ==
  phase = "accepted" /\ asked # "" =>
    /\ out # << >> /\ Last(out) = asked /\ IsInjective(out)
    /\ \A i \in DOMAIN out :
         /\ \A m \in Needs(out[i]) : \E j \in 1..(i - 1) : out[j] = m
         /\ i < Len(out) => \E j \in (i + 1)..Len(out) : out[i] \in Needs(out[j])
=============================================================================
