---------------------------- MODULE FleetConfig ----------------------------
(***************************************************************************)
(* The loaded configuration the watchman works from: which targets exist,  *)
(* what each needs to come up, and when each may be stopped.  A Config     *)
(* never changes after Load, so all of it is constant.  The assumptions    *)
(* are what Load and Validate leave true of an accepted configuration.     *)
(* They do not make a duration positive, nor is the name after hold: that  *)
(* of a target, nor need there be one: such a condition names no signal.   *)
(***************************************************************************)
EXTENDS Integers, Sequences, FiniteSets, SequencesExt

CONSTANTS
  Targets,       \* names of the declared targets
  TargetNames,   \* the same names as a sorted sequence
  NodeTargets,   \* those of kind "node"; the others are guests
  Nodes,         \* machine names that may be dialled
  NoNode,        \* the empty node name
  AnyControl,    \* "whichever always-on control host answers"
  NodeOf,        \* target -> the machine it runs on
  ChainOf,       \* target -> what must come up, in order, to raise it
  UpTimeout,     \* target -> how long a wake waits for it
  MinUptime      \* target -> how long it must have been up before a stop

CONSTANTS
  Downs,         \* targets that have a down entry
  StopWhen,      \* entry -> its conditions, each [sig, neg]
  Grace,         \* entry -> how long the conditions must have agreed
  ThenConsider,  \* entry -> targets its stop may have freed
  Manages        \* entry -> targets the configuration may stop

CONSTANTS
  SignalNames,   \* declared signals, sorted
  HoldSignals,   \* the hold: signals some condition names
  HoldOf,        \* hold: signal -> the name it speaks of, declared or not
  Undeclared,    \* the other names conditions use: hold: and nothing after it
  RunOn,         \* declared signal -> the machine asked
  TTL            \* declared signal -> how long an answer stays fresh

Declared == ToSet(SignalNames)
Signals == Declared \union HoldSignals \union Undeclared
Refs == [sig : Signals, neg : BOOLEAN]

ASSUME TargetsAssumption ==
  /\ TargetNames \in Seq(Targets) /\ ToSet(TargetNames) = Targets
  /\ NodeTargets \subseteq Targets
  /\ NodeOf \in [Targets -> Nodes]
  /\ UpTimeout \in [Targets -> Int]
  /\ MinUptime \in [Targets -> Int]

\* Needs is acyclic, so Chain lists parents before what needs them, once each.
ASSUME ChainAssumption ==
  /\ ChainOf \in [Targets -> Seq(Targets)]
  /\ \A t \in Targets : ChainOf[t] # << >> /\ Last(ChainOf[t]) = t
                        /\ IsInjective(ChainOf[t])

ASSUME DownsAssumption ==
  /\ Downs \subseteq Targets
  /\ StopWhen \in [Downs -> Seq(Refs)]
  /\ \A t \in Downs : StopWhen[t] # << >>
  /\ Grace \in [Downs -> Int]
  /\ ThenConsider \in [Downs -> Seq(Targets)]
  /\ Manages \in [Downs -> SUBSET Targets]

ASSUME SignalsAssumption ==
  /\ SignalNames \in Seq(Declared)
  /\ Declared \intersect HoldSignals = {}
  /\ Undeclared \intersect (Declared \union HoldSignals) = {}
  /\ DOMAIN HoldOf = HoldSignals
  /\ RunOn \in [Declared -> Nodes]
  /\ TTL \in [Declared -> Int]

-----------------------------------------------------------------------------
IsNode(t) == t \in NodeTargets
Managed(t) == \E d \in Downs : t \in Manages[d]

\* Pass observes nodes first, so that what follows knows which machines sleep.
ProbeOrder == SelectSeq(TargetNames, IsNode) \o
              SelectSeq(TargetNames, LAMBDA t : ~IsNode(t))

\* Managed targets only, guests before the nodes they run on.
StopOrder == SelectSeq(TargetNames, LAMBDA t : Managed(t) /\ ~IsNode(t)) \o
             SelectSeq(TargetNames, LAMBDA t : Managed(t) /\ IsNode(t))

\* Filtering a sequence of targets yields a sequence of targets, and sorting
\* the managed ones leaves none out.
ASSUME OrdersAssumption ==
  /\ ProbeOrder \in Seq(Targets)
  /\ StopOrder \in Seq(Targets)
  /\ ToSet(StopOrder) = {t \in Targets : Managed(t)}

\* Where a question about t, or an order to raise it, is sent: a sleeping node
\* cannot answer for itself.
StateNode(t) == IF IsNode(t) THEN AnyControl ELSE NodeOf[t]

\* Where a stop of t is sent: a node powers itself off, under its own name.
StopNode(t) == IF IsNode(t) THEN t ELSE NodeOf[t]

\* The node target that stands for machine n: the first declared, if any.
HostsOf(n) == IF n \in {NoNode, AnyControl} THEN << >>
              ELSE SelectSeq(TargetNames, LAMBDA t : IsNode(t) /\ NodeOf[t] = n)

\* What a filter lets through passes the test.
ASSUME HostsAssumption ==
  \A n \in Nodes : HostsOf(n) # << >> => LET host == Head(HostsOf(n)) IN
    host \in Targets /\ IsNode(host) /\ NodeOf[host] = n
=============================================================================
