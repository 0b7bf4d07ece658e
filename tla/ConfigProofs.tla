---------------------------- MODULE ConfigProofs ----------------------------
(***************************************************************************)
(* What the two walks over `needs` do for any graph: checkCycles refuses   *)
(* exactly those with a cycle, and Chain lists the rest in order.          *)
(***************************************************************************)
EXTENDS Config, TLAPS

Black == {t \in Declared : colour[t] = "black"}
Node(i) == stack[i].node

\* No set of targets within B goes round.
RoundFree(B) == \A S \in SUBSET B : S # {} => \E n \in S : Needs(n) \intersect S = {}

\* The calls under way are a path along needs, of the grey targets, each once.
PathInv ==
  /\ phase \in {"checking", "accepted", "walking"} => TargetsSound
  /\ phase \in {"reading", "accepted"} => stack = << >> /\ roots = {}
  /\ \A i \in DOMAIN stack : \A j \in DOMAIN stack : Node(i) = Node(j) => i = j
  /\ \A i \in DOMAIN stack : i > 1 => Node(i) \in Needs(Node(i - 1))
  /\ \A t \in Declared : colour[t] = "grey" => \E i \in DOMAIN stack : Node(i) = t
  /\ \A i \in DOMAIN stack : colour[Node(i)] = "grey"

\* Of what the target of a call needs, all is black but what it has still to
\* visit and what it is visiting.
NeedsInv ==
  /\ \A i \in DOMAIN stack : ToSet(stack[i].left) \subseteq Needs(Node(i))
  /\ \A i \in DOMAIN stack : \A m \in Needs(Node(i)) :
       \/ m \in ToSet(stack[i].left)
       \/ m \in Black
       \/ i < Len(stack) /\ m = Node(i + 1)
  /\ Walking => \A t \in Black : Needs(t) \subseteq Black

\* checkCycles: what is black does not go round, and what was met is not
\* forgotten.
CheckInv ==
  /\ phase \in {"reading", "checking"} => asked = ""
  /\ phase = "reading" => Black = {}
  /\ phase = "checking" => RoundFree(Black)
  /\ phase = "checking" => \A t \in Declared : colour[t] = "white" => t \in roots

\* Chain: what is black is listed, once, after all it needs; all of it but the
\* last is needed by something that is listed later or yet to be.
ListInv ==
  /\ phase = "walking" =>
       /\ \A t \in Black : \E i \in DOMAIN out : out[i] = t
       /\ \A i \in DOMAIN out : out[i] \in Black
       /\ \A i \in DOMAIN out : \A j \in DOMAIN out : out[i] = out[j] => i = j
       /\ \A i \in DOMAIN out : \A m \in Needs(out[i]) : \E j \in 1..(i - 1) : out[j] = m
       /\ \A i \in DOMAIN out :
            \/ \E j \in (i + 1)..Len(out) : out[i] \in Needs(out[j])
            \/ \E j \in DOMAIN stack : out[i] \in Needs(Node(j))
            \/ stack = << >> /\ i = Len(out)
       /\ \/ roots = {asked} /\ stack = << >> /\ out = << >>
          \/ roots = {} /\ stack # << >> /\ Node(1) = asked
          \/ roots = {} /\ stack = << >> /\ out # << >> /\ Last(out) = asked

ConfigInv ==
  TypeOK /\ PathInv /\ NeedsInv /\ CheckInv /\ ListInv /\ CyclesAreRefused /\ ChainIsInOrder

Frames == [node : Declared, left : Seq(STRING)]

\* The calls under way, once the one on top has turned to m.
Turned(calls, m) ==
  /\ calls \in Seq(Frames) /\ Len(calls) = Len(stack)
  /\ \A i \in DOMAIN stack :
       /\ calls[i].node = Node(i)
       /\ i < Len(stack) => calls[i].left = stack[i].left
       /\ i = Len(stack) => /\ m \in Needs(Node(i))
                            /\ ToSet(calls[i].left) \subseteq ToSet(stack[i].left)
                            /\ ToSet(stack[i].left) \subseteq ToSet(calls[i].left) \union {m}

-----------------------------------------------------------------------------
(* Stacks and lists. *)

LEMMA Empty ==
  ASSUME NEW F PROVE << >> \in Seq(F) /\ DOMAIN << >> = {} /\ Len(<< >>) = 0
OBVIOUS

LEMMA Pushed ==
  ASSUME NEW F, NEW s \in Seq(F), NEW f \in F
  PROVE  /\ Append(s, f) \in Seq(F) /\ Len(Append(s, f)) = Len(s) + 1
         /\ DOMAIN Append(s, f) = 1..(Len(s) + 1) /\ DOMAIN s = 1..Len(s) /\ Len(s) \in Nat
         /\ Append(s, f)[Len(s) + 1] = f
         /\ \A i \in 1..Len(s) : Append(s, f)[i] = s[i]
OBVIOUS

LEMMA Popped ==
  ASSUME NEW F, NEW s \in Seq(F), s # << >>
  PROVE  /\ Front(s) \in Seq(F) /\ Len(Front(s)) = Len(s) - 1
         /\ DOMAIN Front(s) = 1..(Len(s) - 1) /\ DOMAIN s = 1..Len(s)
         /\ Len(s) \in Nat \ {0} /\ Last(s) = s[Len(s)] /\ Last(s) \in F
         /\ \A i \in 1..(Len(s) - 1) : Front(s)[i] = s[i]
<1>1. Len(s) \in Nat \ {0} /\ DOMAIN s = 1..Len(s)
  OBVIOUS
<1>2. Front(s) = SubSeq(s, 1, Len(s) - 1)
  BY DEF Front
<1>3. /\ SubSeq(s, 1, Len(s) - 1) \in Seq(F)
      /\ Len(SubSeq(s, 1, Len(s) - 1)) = Len(s) - 1
      /\ \A i \in 1..(Len(s) - 1) : SubSeq(s, 1, Len(s) - 1)[i] = s[i]
  BY <1>1
<1> QED BY <1>1, <1>2, <1>3 DEF Last

LEMMA HeadAndTail ==
  ASSUME NEW F, NEW s \in Seq(F), s # << >>
  PROVE  /\ Head(s) \in F /\ Tail(s) \in Seq(F)
         /\ Head(s) \in ToSet(s) /\ ToSet(Tail(s)) \subseteq ToSet(s)
         /\ ToSet(s) \subseteq ToSet(Tail(s)) \union {Head(s)}
<1>1. /\ Len(s) \in Nat \ {0} /\ DOMAIN s = 1..Len(s) /\ Head(s) = s[1]
      /\ DOMAIN Tail(s) = 1..(Len(s) - 1)
      /\ \A i \in 1..(Len(s) - 1) : Tail(s)[i] = s[i + 1]
  OBVIOUS
<1>2. ASSUME NEW i \in 1..Len(s) PROVE s[i] = Head(s) \/ \E j \in 1..(Len(s) - 1) : Tail(s)[j] = s[i]
  <2>1. CASE i = 1
    BY <1>1, <2>1
  <2>2. CASE i # 1
    <3>1. i - 1 \in 1..(Len(s) - 1) /\ i = (i - 1) + 1
      BY <1>1, <2>2
    <3> QED BY <1>1, <3>1
  <2> QED BY <2>1, <2>2
<1>3. \A i \in 1..(Len(s) - 1) : i + 1 \in 1..Len(s)
  BY <1>1
<1>4. Head(s) \in F /\ Tail(s) \in Seq(F)
  OBVIOUS
<1>5. Head(s) \in ToSet(s) /\ ToSet(Tail(s)) \subseteq ToSet(s)
  BY <1>1, <1>3 DEF ToSet
<1>6. ToSet(s) \subseteq ToSet(Tail(s)) \union {Head(s)}
  <2> SUFFICES ASSUME NEW x \in ToSet(s) PROVE x = Head(s) \/ x \in ToSet(Tail(s))
    OBVIOUS
  <2>1. PICK i \in 1..Len(s) : s[i] = x
    BY <1>1 DEF ToSet
  <2> QED BY <1>1, <1>2, <2>1 DEF ToSet
<1> QED BY <1>4, <1>5, <1>6

\* As long as the configuration is the same, so is all that is read of it.
LEMMA SameGraph ==
  ASSUME conf' = conf
  PROVE  /\ Declared' = Declared /\ Frames' = Frames /\ White' = White
         /\ (\A t : Needs(t)' = Needs(t))
         /\ TargetsSound' = TargetsSound /\ DownsSound' = DownsSound /\ DoorSound' = DoorSound
         /\ Cyclic' = Cyclic
<1>1. Declared' = Declared /\ \A t : Needs(t)' = Needs(t)
  BY DEF Declared, Needs
<1> QED BY <1>1 DEF Frames, White, TargetsSound, TargetSound, DownsSound, DownSound, DoorSound, Cyclic

\* What a sound configuration needs is declared.
LEMMA NeedsDeclared ==
  ASSUME TargetsSound, NEW t \in Declared
  PROVE  Needs(t) \subseteq Declared /\ t \notin Needs(t)
BY DEF TargetsSound, TargetSound

LEMMA StackTyped ==
  ASSUME TypeOK
  PROVE  /\ stack \in Seq(Frames) /\ Len(stack) \in Nat /\ DOMAIN stack = 1..Len(stack)
         /\ \A i \in 1..Len(stack) : stack[i] \in Frames /\ Node(i) \in Declared
         /\ colour \in [Declared -> {"white", "grey", "black"}]
<1>1. stack \in Seq(Frames) /\ colour \in [Declared -> {"white", "grey", "black"}]
  BY DEF TypeOK, Frames
<1>2. Len(stack) \in Nat /\ DOMAIN stack = 1..Len(stack)
  BY <1>1
<1>3. \A i \in 1..Len(stack) : stack[i] \in Frames
  BY <1>1, <1>2
<1>4. \A i \in 1..Len(stack) : Node(i) \in Declared
  BY <1>3 DEF Node, Frames
<1> QED BY <1>1, <1>2, <1>3, <1>4

-----------------------------------------------------------------------------
(* A walk. *)

\* A grey target that the one on top needs closes a cycle: the calls from its
\* own on.
LEMMA GreyMeansCyclic ==
  ASSUME TypeOK, PathInv, stack # << >>, NEW m \in Declared, colour[m] = "grey",
         m \in Needs(Node(Len(stack)))
  PROVE  Cyclic
<1> DEFINE n == Len(stack)
<1>1. /\ n \in Nat \ {0} /\ DOMAIN stack = 1..n
      /\ \A j \in 1..n : Node(j) \in Declared
  BY StackTyped
<1> HIDE DEF n
<1>2. PICK i \in 1..n : Node(i) = m
  BY <1>1 DEF PathInv
<1> DEFINE S == {Node(j) : j \in i..n}
<1>3. S \in (SUBSET Declared) \ {{}}
  <2>1. \A j \in i..n : Node(j) \in Declared
    BY <1>1
  <2>2. i \in i..n
    BY <1>1
  <2> QED BY <2>1, <2>2
<1>4. ASSUME NEW j \in i..n PROVE Needs(Node(j)) \intersect S # {}
  <2>1. CASE j = n
    <3>1. m \in S /\ m \in Needs(Node(j))
      BY <1>1, <1>2, <2>1 DEF n
    <3> QED BY <3>1
  <2>2. CASE j # n
    <3>1. j + 1 \in i..n /\ j + 1 \in DOMAIN stack /\ j + 1 > 1 /\ (j + 1) - 1 = j
      BY <1>1, <2>2
    <3>2. Node(j + 1) \in Needs(Node(j))
      BY <3>1 DEF PathInv
    <3> QED BY <3>1, <3>2
  <2> QED BY <2>1, <2>2
<1> HIDE DEF S, n
<1>5. \A t \in S : Needs(t) \intersect S # {}
  BY <1>4 DEF S
<1> QED BY <1>3, <1>5 DEF Cyclic

\* Nobody is grey while no call is under way.
LEMMA NobodyGrey ==
  ASSUME PathInv, stack = << >>, NEW m \in Declared
  PROVE  colour[m] # "grey"
<1>1. DOMAIN stack = {}
  OBVIOUS
<1> QED BY <1>1 DEF PathInv

\* When the top call turns to m, nothing it or those below need is lost sight of.
LEMMA StillLeft ==
  ASSUME NeedsInv, NEW calls, NEW m, Turned(calls, m), Len(stack) \in Nat,
         NEW i \in DOMAIN stack, i \in 1..Len(stack)
  PROVE  /\ ToSet(calls[i].left) \subseteq Needs(Node(i))
         /\ \A x \in Needs(Node(i)) : \/ x \in ToSet(calls[i].left)
                                      \/ x \in Black
                                      \/ i < Len(stack) /\ x = Node(i + 1)
                                      \/ i = Len(stack) /\ x = m
<1>1. /\ ToSet(stack[i].left) \subseteq Needs(Node(i))
      /\ \A x \in Needs(Node(i)) :
           x \in ToSet(stack[i].left) \/ x \in Black \/ (i < Len(stack) /\ x = Node(i + 1))
  BY DEF NeedsInv
<1>2. CASE i < Len(stack)
  <2>1. calls[i].left = stack[i].left
    BY <1>2 DEF Turned
  <2> QED BY <1>1, <1>2, <2>1
<1>3. CASE i = Len(stack)
  <2>1. /\ ToSet(calls[i].left) \subseteq ToSet(stack[i].left)
        /\ ToSet(stack[i].left) \subseteq ToSet(calls[i].left) \union {m}
    BY <1>3 DEF Turned
  <2> QED BY <1>1, <1>3, <2>1
<1> QED BY <1>2, <1>3

\* m is entered, on top of the calls that turned to it.
LEMMA Entered ==
  ASSUME TypeOK, PathInv, NeedsInv, TargetsSound, Walking, phase' = phase, conf' = conf,
         NEW calls, NEW m \in Declared, Turned(calls, m), colour[m] = "white",
         colour' = [colour EXCEPT ![m] = "grey"],
         stack' = Append(calls, [node |-> m, left |-> conf.targets[m].needs])
  PROVE  PathInv' /\ NeedsInv' /\ Black' = Black /\ stack' \in Seq(Frames)
<1> DEFINE n == Len(stack)
           f == [node |-> m, left |-> conf.targets[m].needs]
<1>1. /\ stack \in Seq(Frames) /\ n \in Nat /\ DOMAIN stack = 1..n
      /\ calls \in Seq(Frames) /\ Len(calls) = n /\ colour \in [Declared -> {"white", "grey", "black"}]
  BY StackTyped DEF Turned
<1>2. f \in Frames /\ f.node = m /\ ToSet(f.left) = Needs(m)
  <2>1. conf.targets[m].needs \in Seq(STRING)
    BY WrittenAssumption DEF TypeOK, Declared
  <2> QED BY <2>1 DEF Frames, Needs
<1> HIDE DEF f
<1>3. /\ stack' \in Seq(Frames) /\ Len(stack') = n + 1 /\ DOMAIN stack' = 1..(n + 1)
      /\ stack'[n + 1] = f /\ \A i \in 1..n : stack'[i] = calls[i]
  BY <1>1, <1>2, Pushed DEF f
<1>4. /\ stack'[n + 1].node = m
      /\ \A i \in 1..n : stack'[i].node = Node(i) /\ Node(i) \in Declared /\ colour[Node(i)] = "grey"
  <2>1. \A i \in 1..n : Node(i) \in Declared /\ colour[Node(i)] = "grey"
    BY <1>1, StackTyped DEF PathInv
  <2>2. \A i \in 1..n : stack'[i].node = Node(i)
    BY <1>1, <1>3 DEF Turned, Node
  <2> QED BY <1>2, <1>3, <2>1, <2>2 DEF Node
<1>5. /\ Declared' = Declared /\ (\A t : Needs(t)' = Needs(t)) /\ TargetsSound' = TargetsSound
  BY SameGraph
<1>6. /\ colour'[m] = "grey" /\ \A t \in Declared : t # m => colour'[t] = colour[t]
  BY <1>1
<1>7. Black' = Black
  BY <1>5, <1>6 DEF Black
<1> HIDE DEF n
<1>8. PathInv'
  <2>1. \A i \in 1..n : stack'[i].node # m
    BY <1>4
  <2>2. \A i \in DOMAIN stack' : \A j \in DOMAIN stack' : stack'[i].node = stack'[j].node => i = j
    <3> SUFFICES ASSUME NEW i \in 1..(n + 1), NEW j \in 1..(n + 1), stack'[i].node = stack'[j].node
                 PROVE  i = j
      BY <1>3
    <3>1. (i \in 1..n \/ i = n + 1) /\ (j \in 1..n \/ j = n + 1)
      BY <1>1 DEF n
    <3>2. CASE i \in 1..n /\ j \in 1..n
      <4>1. Node(i) = Node(j)
        BY <1>4, <3>2
      <4> QED BY <1>1, <3>2, <4>1 DEF PathInv
    <3>3. CASE i = n + 1 \/ j = n + 1
      BY <1>4, <2>1, <3>1, <3>3
    <3> QED BY <3>1, <3>2, <3>3
  <2>3. \A i \in DOMAIN stack' : i > 1 => stack'[i].node \in Needs(stack'[i - 1].node)
    <3> SUFFICES ASSUME NEW i \in 1..(n + 1), i > 1 PROVE stack'[i].node \in Needs(stack'[i - 1].node)
      BY <1>3
    <3>1. i - 1 \in 1..n /\ (i \in 1..n \/ i = n + 1)
      BY <1>1 DEF n
    <3>2. CASE i \in 1..n
      <4>1. Node(i) \in Needs(Node(i - 1))
        BY <1>1, <3>2 DEF PathInv
      <4> QED BY <1>4, <3>1, <3>2, <4>1
    <3>3. CASE i = n + 1
      <4>1. n \in DOMAIN stack /\ i - 1 = n
        BY <1>1, <3>1, <3>3 DEF n
      <4> QED BY <1>4, <3>1, <3>3, <4>1 DEF Turned, n
    <3> QED BY <3>1, <3>2, <3>3
  <2>4. \A t \in Declared : colour'[t] = "grey" => \E i \in 1..(n + 1) : stack'[i].node = t
    <3> SUFFICES ASSUME NEW t \in Declared, colour'[t] = "grey"
                 PROVE  \E i \in 1..(n + 1) : stack'[i].node = t
      OBVIOUS
    <3>1. n + 1 \in 1..(n + 1) /\ \A i \in 1..n : i \in 1..(n + 1)
      BY <1>1 DEF n
    <3>2. CASE t = m
      BY <1>4, <3>1, <3>2
    <3>3. CASE t # m
      <4>1. PICK i \in 1..n : Node(i) = t
        BY <1>1, <1>6, <3>3 DEF PathInv
      <4> QED BY <1>4, <3>1, <4>1
    <3> QED BY <3>2, <3>3
  <2>5. \A i \in 1..(n + 1) : colour'[stack'[i].node] = "grey"
    <3>1. \A i \in 1..(n + 1) : i \in 1..n \/ i = n + 1
      BY <1>1 DEF n
    <3> QED BY <1>4, <1>6, <3>1
  <2>6. phase' \notin {"reading", "accepted"}
    BY DEF Walking
  <2> QED BY ZenonT(30), <1>3, <1>5, <2>2, <2>3, <2>4, <2>5, <2>6 DEF PathInv, Node
<1>9. NeedsInv'
  <2>1. ASSUME NEW i \in 1..n
        PROVE  /\ ToSet(stack'[i].left) \subseteq Needs(Node(i))
               /\ \A x \in Needs(Node(i)) :
                     \/ x \in ToSet(stack'[i].left)
                     \/ x \in Black
                     \/ i < n + 1 /\ x = stack'[i + 1].node
    <3>1. /\ i \in DOMAIN stack /\ i < n + 1 /\ stack'[i] = calls[i]
          /\ i < n => i + 1 \in 1..n
          /\ i # n => i < n
      <4>1. n \in Nat
        BY <1>1 DEF n
      <4>2. i \in DOMAIN stack /\ stack'[i] = calls[i]
        BY <1>1, <1>3 DEF n
      <4>3. i < n + 1 /\ (i < n => i + 1 \in 1..n) /\ (i # n => i < n)
        BY <4>1
      <4> QED BY <4>2, <4>3
    <3>2. /\ ToSet(calls[i].left) \subseteq Needs(Node(i))
          /\ \A x \in Needs(Node(i)) : \/ x \in ToSet(calls[i].left)
                                       \/ x \in Black
                                       \/ i < n /\ x = Node(i + 1)
                                       \/ i = n /\ x = m
      BY <1>1, <3>1, StillLeft DEF n
    <3> QED BY <1>4, <3>1, <3>2
  <2>2. ToSet(stack'[n + 1].left) = Needs(m)
    BY <1>2, <1>3
  <2>3. \A i \in 1..(n + 1) : i \in 1..n \/ i = n + 1
    BY <1>1 DEF n
  <2>4. Walking => \A t \in Black : Needs(t) \subseteq Black
    BY DEF NeedsInv
  <2>5. \A i \in DOMAIN stack' : ToSet(stack'[i].left) \subseteq Needs(stack'[i].node)
    <3> SUFFICES ASSUME NEW i \in 1..(n + 1)
                 PROVE  ToSet(stack'[i].left) \subseteq Needs(stack'[i].node)
      BY <1>3, <1>5
    <3> QED BY <1>4, <2>1, <2>2, <2>3
  <2>6. \A i \in DOMAIN stack' : \A x \in Needs(stack'[i].node) :
          \/ x \in ToSet(stack'[i].left)
          \/ x \in Black'
          \/ i < Len(stack') /\ x = stack'[i + 1].node
    <3> SUFFICES ASSUME NEW i \in 1..(n + 1), NEW x \in Needs(stack'[i].node)
                 PROVE  \/ x \in ToSet(stack'[i].left)
                        \/ x \in Black
                        \/ i < n + 1 /\ x = stack'[i + 1].node
      BY <1>3, <1>5, <1>7
    <3> QED BY <1>4, <2>1, <2>2, <2>3
  <2>7. Walking' => \A t \in Black' : Needs(t)' \subseteq Black'
    BY <1>5, <1>7, <2>4 DEF Walking
  <2> QED BY <1>7, <2>5, <2>6, <2>7 DEF NeedsInv, Node, Needs
<1> QED BY <1>3, <1>7, <1>8, <1>9

\* m was walked before, and the calls go on without it.
LEMMA Passed ==
  ASSUME TypeOK, PathInv, NeedsInv, TargetsSound, Walking, phase' = phase, conf' = conf,
         NEW calls, NEW m \in Declared, Turned(calls, m), colour[m] = "black",
         colour' = colour, stack' = calls
  PROVE  PathInv' /\ NeedsInv' /\ Black' = Black
<1> DEFINE n == Len(stack)
<1>1. /\ n \in Nat /\ DOMAIN stack = 1..n /\ calls \in Seq(Frames) /\ Len(calls) = n
      /\ DOMAIN calls = 1..n
  <2>1. calls \in Seq(Frames) /\ Len(calls) = n
    BY DEF Turned
  <2>2. DOMAIN calls = 1..n
    BY <2>1
  <2> QED BY <2>1, <2>2, StackTyped
<1>2. \A i \in 1..n : stack'[i].node = Node(i)
  BY <1>1 DEF Turned
<1>3. /\ Declared' = Declared /\ (\A t : Needs(t)' = Needs(t)) /\ TargetsSound' = TargetsSound
  BY SameGraph
<1>4. Black' = Black
  BY <1>3 DEF Black
<1> HIDE DEF n
<1>5. PathInv'
  <2>1. phase' \notin {"reading", "accepted"}
    BY DEF Walking
  <2>2. \A i \in 1..n : i > 1 => i - 1 \in 1..n
    BY <1>1 DEF n
  <2> QED BY <1>1, <1>2, <1>3, <2>1, <2>2 DEF PathInv, Node
<1>6. ASSUME NEW i \in 1..n
      PROVE  /\ ToSet(stack'[i].left) \subseteq Needs(Node(i))
             /\ \A x \in Needs(Node(i)) :
                   \/ x \in ToSet(stack'[i].left)
                   \/ x \in Black
                   \/ i < n /\ x = stack'[i + 1].node
  <2>1. i \in DOMAIN stack /\ stack'[i] = calls[i] /\ (i < n => i + 1 \in 1..n) /\ (i # n => i < n)
    <3>1. n \in Nat
      BY <1>1
    <3>2. (i < n => i + 1 \in 1..n) /\ (i # n => i < n)
      BY <3>1
    <3> QED BY <1>1, <3>2
  <2>2. CASE i < n
    BY <1>2, <2>1, <2>2 DEF NeedsInv, Turned, n
  <2>3. CASE i = n
    <3>1. m \in Black
      BY DEF Black
    <3> QED BY <1>2, <2>1, <2>3, <3>1 DEF NeedsInv, Turned, n
  <2> QED BY <2>1, <2>2, <2>3
<1>7. NeedsInv'
  <2>1. \A i \in DOMAIN stack' : ToSet(stack'[i].left) \subseteq Needs(stack'[i].node)
    <3> SUFFICES ASSUME NEW i \in 1..n
                 PROVE  ToSet(stack'[i].left) \subseteq Needs(stack'[i].node)
      BY <1>1, <1>3
    <3> QED BY <1>2, <1>6
  <2>2. \A i \in DOMAIN stack' : \A x \in Needs(stack'[i].node) :
          \/ x \in ToSet(stack'[i].left)
          \/ x \in Black'
          \/ i < Len(stack') /\ x = stack'[i + 1].node
    <3> SUFFICES ASSUME NEW i \in 1..n, NEW x \in Needs(stack'[i].node)
                 PROVE  \/ x \in ToSet(stack'[i].left)
                        \/ x \in Black
                        \/ i < n /\ x = stack'[i + 1].node
      BY <1>1, <1>3, <1>4
    <3> QED BY <1>2, <1>6
  <2>3. Walking' => \A t \in Black' : Needs(t)' \subseteq Black'
    BY <1>3, <1>4 DEF Walking, NeedsInv
  <2> QED BY <1>1, <2>1, <2>2, <2>3 DEF NeedsInv, Node, Needs
<1> QED BY <1>4, <1>5, <1>7

\* The target on top is left: all it needs is black by now.
LEMMA LeftBlack ==
  ASSUME TypeOK, PathInv, NeedsInv, Leave
  PROVE  /\ PathInv' /\ NeedsInv'
         /\ LET m == Node(Len(stack)) IN
            /\ m \in Declared /\ colour[m] = "grey" /\ Needs(m) \subseteq Black
            /\ Black' = Black \union {m} /\ colour' = [colour EXCEPT ![m] = "black"]
<1> DEFINE n == Len(stack)
           m == Node(n)
<1>1. /\ n \in Nat \ {0} /\ DOMAIN stack = 1..n
      /\ \A i \in 1..n : Node(i) \in Declared
      /\ colour \in [Declared -> {"white", "grey", "black"}]
      /\ DOMAIN stack' = 1..(n - 1) /\ Len(stack') = n - 1
      /\ \A i \in 1..(n - 1) : stack'[i] = stack[i]
      /\ stack[n].left = << >> /\ colour' = [colour EXCEPT ![m] = "black"]
      /\ phase' = phase /\ conf' = conf /\ Walking
  <2>1. stack \in Seq(Frames) /\ stack # << >> /\ stack' = Front(stack) /\ Last(stack) = stack[n]
    BY StackTyped, Popped DEF Leave
  <2> QED BY <2>1, StackTyped, Popped DEF Leave, Node
<1>2. /\ Declared' = Declared /\ (\A t : Needs(t)' = Needs(t)) /\ TargetsSound' = TargetsSound
  BY <1>1, SameGraph
<1> HIDE DEF n
<1>0. n \in Nat \ {0}
  BY <1>1
<1>3. n \in 1..n /\ \A i \in 1..(n - 1) : i \in 1..n /\ i # n /\ i < n
  BY <1>0
<1>4. m \in Declared /\ colour[m] = "grey"
  BY <1>1, <1>3 DEF PathInv
<1>5. Needs(m) \subseteq Black
  <2>1. ToSet(stack[n].left) = {}
    BY <1>1 DEF ToSet
  <2>2. n \in DOMAIN stack /\ ~(n < Len(stack))
    <3>1. n = Len(stack) /\ ~(n < n)
      BY <1>0 DEF n
    <3> QED BY <1>1, <1>3, <3>1
  <2> QED BY <2>1, <2>2 DEF NeedsInv
<1>6. Black' = Black \union {m}
  BY <1>1, <1>2, <1>4 DEF Black
<1>7. \A i \in 1..(n - 1) : stack'[i].node = Node(i) /\ Node(i) # m
  BY <1>1, <1>3 DEF PathInv, Node
<1>8. PathInv'
  <2>1. phase' \notin {"reading", "accepted"}
    BY <1>1 DEF Walking
  <2>2. \A i \in 1..(n - 1) : colour'[Node(i)] = "grey"
    BY <1>1, <1>3, <1>7 DEF PathInv
  <2>3. ASSUME NEW t \in Declared, colour'[t] = "grey" PROVE \E i \in 1..(n - 1) : Node(i) = t
    <3>1. colour[t] = "grey" /\ t # m
      BY <1>1, <1>4, <2>3
    <3>2. PICK i \in 1..n : Node(i) = t
      BY <1>1, <3>1 DEF PathInv
    <3>3. i \in 1..(n - 1)
      BY <1>1, <3>1, <3>2 DEF n
    <3> QED BY <3>2, <3>3
  <2>4. \A i \in 1..(n - 1) : i > 1 => i - 1 \in 1..(n - 1) /\ Node(i) \in Needs(Node(i - 1))
    <3>1. \A i \in 1..(n - 1) : i > 1 => i - 1 \in 1..(n - 1)
      BY <1>0
    <3>2. \A i \in 1..(n - 1) : i > 1 => Node(i) \in Needs(Node(i - 1))
      BY <1>1, <1>3 DEF PathInv
    <3> QED BY <3>1, <3>2
  <2>5. \A i \in 1..(n - 1) : \A j \in 1..(n - 1) : Node(i) = Node(j) => i = j
    BY <1>1, <1>3 DEF PathInv
  <2>6. TargetsSound
    BY <1>1 DEF PathInv, Walking
  <2> HIDE DEF m
  <2> QED BY <1>1, <1>2, <1>7, <2>1, <2>2, <2>3, <2>4, <2>5, <2>6 DEF PathInv, Node
<1>9. ASSUME NEW i \in 1..(n - 1)
      PROVE  /\ ToSet(stack'[i].left) \subseteq Needs(Node(i))
             /\ \A x \in Needs(Node(i)) :
                   \/ x \in ToSet(stack'[i].left)
                   \/ x \in Black'
                   \/ i < n - 1 /\ x = stack'[i + 1].node
  <2>1. i \in DOMAIN stack /\ stack'[i] = stack[i] /\ i < n /\ (i = n - 1 \/ i + 1 \in 1..(n - 1))
    <3>1. i = n - 1 \/ i + 1 \in 1..(n - 1)
      BY <1>0
    <3> QED BY <1>1, <1>3, <3>1
  <2>2. CASE i = n - 1
    <3>1. i + 1 = n
      BY <1>1, <2>2 DEF n
    <3> QED BY <1>6, <2>1, <3>1 DEF NeedsInv, n
  <2>3. CASE i + 1 \in 1..(n - 1)
    <3>1. i < n - 1
      BY <1>1, <2>3 DEF n
    <3> QED BY <1>6, <1>7, <2>1, <2>3, <3>1 DEF NeedsInv, n
  <2> QED BY <2>1, <2>2, <2>3
<1>10. NeedsInv'
  <2>1. \A i \in DOMAIN stack' : ToSet(stack'[i].left) \subseteq Needs(stack'[i].node)
    BY <1>1, <1>2, <1>7, <1>9
  <2>2. \A i \in DOMAIN stack' : \A x \in Needs(stack'[i].node) :
          \/ x \in ToSet(stack'[i].left)
          \/ x \in Black'
          \/ i < Len(stack') /\ x = stack'[i + 1].node
    BY <1>1, <1>2, <1>7, <1>9
  <2>3. Walking' => \A t \in Black' : Needs(t)' \subseteq Black'
    BY <1>1, <1>2, <1>5, <1>6 DEF Walking, NeedsInv
  <2> QED BY <1>1, <2>1, <2>2, <2>3 DEF NeedsInv, Node, Needs
<1> QED BY <1>1, <1>4, <1>5, <1>6, <1>8, <1>10 DEF n
-----------------------------------------------------------------------------
(* Each step keeps the invariant. *)

LEMMA Initially ==
  ASSUME Init PROVE ConfigInv
<1>1. /\ stack = << >> /\ roots = {} /\ out = << >> /\ asked = "" /\ phase = "reading" /\ conf \in Written
      /\ \A t \in Declared : colour[t] = "white"
      /\ colour \in [Declared -> {"white", "grey", "black"}]
  BY DEF Init, White
<1>2. DOMAIN stack = {} /\ stack \in Seq([node : Declared, left : Seq(STRING)]) /\ out \in Seq(Declared)
  BY <1>1, Empty
<1>3. Black = {}
  BY <1>1 DEF Black
<1>4. TypeOK
  BY <1>1, <1>2 DEF TypeOK
<1>5. PathInv
  BY <1>1, <1>2 DEF PathInv
<1>6. NeedsInv
  BY <1>1, <1>2 DEF NeedsInv, Walking
<1> QED BY <1>1, <1>3, <1>4, <1>5, <1>6 DEF ConfigInv, CheckInv, ListInv, CyclesAreRefused, ChainIsInOrder

\* Nothing the invariant reads of a walk has changed but the phase.
LEMMA StillThere ==
  ASSUME TypeOK, PathInv, NeedsInv, conf' = conf, colour' = colour, stack' = stack, out' = out, asked' = asked,
         roots' \subseteq Declared, phase' \in {"checking", "refused", "accepted"},
         phase' \in {"checking", "accepted"} => TargetsSound,
         phase' = "accepted" => stack = << >> /\ roots' = {},
         phase' = "checking" => Black = {}
  PROVE  TypeOK' /\ PathInv' /\ NeedsInv' /\ ListInv' /\ Black' = Black
<1>1. Declared' = Declared /\ TargetsSound' = TargetsSound
  BY SameGraph
<1>2. Black' = Black
  BY <1>1 DEF Black
<1>3. TypeOK'
  BY <1>1 DEF TypeOK
<1>4. PathInv'
  BY <1>1 DEF PathInv, Node, Needs
<1>5. NeedsInv'
  BY <1>1, <1>2 DEF NeedsInv, Node, Needs, Walking
<1>6. ListInv'
  BY DEF ListInv
<1> QED BY <1>2, <1>3, <1>4, <1>5, <1>6

LEMMA ReadKeeps ==
  ASSUME ConfigInv, Read PROVE ConfigInv'
<1>1. /\ phase = "reading" /\ Black = {} /\ asked = "" /\ TypeOK /\ PathInv /\ NeedsInv
      /\ conf' = conf /\ asked' = asked /\ colour' = colour /\ stack' = stack /\ out' = out
  BY DEF ConfigInv, CheckInv, Read
<1>2. /\ Declared' = Declared /\ TargetsSound' = TargetsSound
  BY <1>1, SameGraph
<1>3. CASE TargetsSound /\ phase' = "checking" /\ roots' = Declared
  <2>1. TypeOK' /\ PathInv' /\ NeedsInv' /\ ListInv' /\ Black' = {}
    BY <1>1, <1>3, StillThere
  <2>2. CheckInv'
    BY <1>1, <1>2, <1>3, <2>1 DEF CheckInv, RoundFree
  <2> QED BY <1>3, <2>1, <2>2 DEF ConfigInv, CyclesAreRefused, ChainIsInOrder
<1>4. CASE ~TargetsSound /\ phase' = "refused" /\ roots' = roots
  <2>1. TypeOK' /\ PathInv' /\ NeedsInv' /\ ListInv'
    BY <1>1, <1>4, StillThere DEF TypeOK
  <2> QED BY <1>2, <1>4, <2>1 DEF ConfigInv, CheckInv, CyclesAreRefused, ChainIsInOrder
<1> QED BY <1>3, <1>4 DEF Read

LEMMA CheckedKeeps ==
  ASSUME ConfigInv, Checked PROVE ConfigInv'
<1>1. /\ phase = "checking" /\ asked = "" /\ TypeOK /\ PathInv /\ NeedsInv /\ stack = << >> /\ roots = {}
      /\ conf' = conf /\ asked' = asked /\ colour' = colour /\ stack' = stack /\ out' = out /\ roots' = roots
      /\ TargetsSound
  BY DEF ConfigInv, CheckInv, PathInv, Checked, walkVars
<1>2. Black = Declared
  <2>1. \A t \in Declared : colour[t] \in {"white", "grey", "black"}
    BY <1>1 DEF TypeOK
  <2>2. \A t \in Declared : colour[t] # "white"
    BY <1>1 DEF ConfigInv, CheckInv
  <2> QED BY <1>1, <2>1, <2>2, NobodyGrey DEF Black
<1>3. ~Cyclic
  BY <1>1, <1>2 DEF ConfigInv, CheckInv, RoundFree, Cyclic
<1>4. /\ Declared' = Declared /\ TargetsSound' = TargetsSound /\ Cyclic' = Cyclic
      /\ DownsSound' = DownsSound /\ DoorSound' = DoorSound
  BY <1>1, SameGraph
<1>5. phase' \in {"accepted", "refused"} /\ (phase' = "refused" => ~(DownsSound /\ DoorSound))
  BY DEF Checked
<1>6. TypeOK' /\ PathInv' /\ NeedsInv' /\ ListInv'
  BY <1>1, <1>5, StillThere DEF TypeOK
<1> QED BY <1>1, <1>3, <1>4, <1>5, <1>6 DEF ConfigInv, CheckInv, CyclesAreRefused, ChainIsInOrder

LEMMA ChainKeeps ==
  ASSUME ConfigInv, NEW t \in Declared, Chain(t) PROVE ConfigInv'
<1>1. /\ phase = "accepted" /\ TypeOK /\ stack = << >> /\ TargetsSound /\ ~Cyclic
      /\ phase' = "walking" /\ asked' = t /\ colour' = White /\ roots' = {t} /\ out' = << >>
      /\ conf' = conf /\ stack' = stack
  BY DEF ConfigInv, PathInv, CyclesAreRefused, Chain
<1>2. Declared' = Declared /\ TargetsSound' = TargetsSound /\ Cyclic' = Cyclic
  BY <1>1, SameGraph
<1>3. DOMAIN stack' = {} /\ DOMAIN out' = {} /\ \A m \in Declared : colour'[m] = "white"
  BY <1>1 DEF White
<1>4. Black' = {}
  BY <1>2, <1>3 DEF Black
<1>5. TypeOK'
  <2>1. /\ out' \in Seq(Declared) /\ colour' \in [Declared -> {"white", "grey", "black"}]
    BY <1>1, Empty DEF White
  <2> QED BY <1>1, <1>2, <2>1 DEF TypeOK
<1>6. PathInv'
  BY <1>1, <1>2, <1>3 DEF PathInv
<1>7. NeedsInv'
  BY <1>3, <1>4 DEF NeedsInv
<1>8. ListInv'
  BY <1>1, <1>3, <1>4 DEF ListInv
<1> QED BY <1>1, <1>2, <1>5, <1>6, <1>7, <1>8 DEF ConfigInv, CheckInv, CyclesAreRefused, ChainIsInOrder

LEMMA ChainedKeeps ==
  ASSUME ConfigInv, Chained PROVE ConfigInv'
<1>1. /\ phase = "walking" /\ TypeOK /\ PathInv /\ NeedsInv /\ ListInv /\ stack = << >> /\ roots = {}
      /\ phase' = "accepted" /\ TargetsSound /\ ~Cyclic
      /\ conf' = conf /\ asked' = asked /\ colour' = colour /\ stack' = stack /\ out' = out /\ roots' = roots
  BY DEF ConfigInv, PathInv, CyclesAreRefused, Chained, walkVars
<1>2. Cyclic' = Cyclic /\ DOMAIN stack = {}
  BY <1>1, SameGraph
<1>3. TypeOK' /\ PathInv' /\ NeedsInv' /\ ListInv'
  BY <1>1, StillThere DEF TypeOK
<1>4. out # << >> /\ Last(out) = asked
  BY <1>1 DEF ListInv
<1>5. IsInjective(out)
  BY <1>1 DEF ListInv, IsInjective
<1>6. \A i \in DOMAIN out :
         /\ \A m \in Needs(out[i]) : \E j \in 1..(i - 1) : out[j] = m
         /\ i < Len(out) => \E j \in (i + 1)..Len(out) : out[i] \in Needs(out[j])
  <2> SUFFICES ASSUME NEW i \in DOMAIN out, i < Len(out)
               PROVE  \E j \in (i + 1)..Len(out) : out[i] \in Needs(out[j])
    BY <1>1 DEF ListInv
  <2>1. out \in Seq(Declared)
    BY <1>1 DEF TypeOK
  <2>2. i # Len(out)
    BY <2>1
  <2> QED BY <1>1, <1>2, <2>2 DEF ListInv
<1>7. ChainIsInOrder'
  <2>1. out' # << >> /\ Last(out') = asked'
    BY <1>1, <1>4
  <2>2. IsInjective(out')
    BY <1>1, <1>5
  <2>3. \A t : Needs(t)' = Needs(t)
    BY <1>1, SameGraph
  <2>4. \A i \in DOMAIN out' :
           /\ \A m \in Needs(out[i])' : \E j \in 1..(i - 1) : out'[j] = m
           /\ i < Len(out') => \E j \in (i + 1)..Len(out') : out'[i] \in Needs(out[j])'
    BY <1>1, <1>6, <2>3
  <2> QED BY <2>1, <2>2, <2>4 DEF ChainIsInOrder
<1> QED BY <1>1, <1>2, <1>3, <1>7 DEF ConfigInv, CheckInv, CyclesAreRefused

\* The walk has turned to m: it entered it, or went on without it.
LEMMA WalkKept ==
  ASSUME ConfigInv, Walking, phase' = phase, conf' = conf, asked' = asked, out' = out,
         NEW calls, NEW m \in Declared, Turned(calls, m),
         \/ stack = << >> /\ m \in roots /\ roots' = roots \ {m}
         \/ stack # << >> /\ roots' = roots,
         PathInv', NeedsInv', Black' = Black, stack' \in Seq(Frames),
         colour' \in [Declared -> {"white", "grey", "black"}], colour'[m] # "white",
         \A t \in Declared : colour'[t] = "white" => colour[t] = "white",
         \A i \in DOMAIN stack : i \in DOMAIN stack' /\ stack'[i].node = Node(i),
         \/ colour[m] = "black"
         \/ stack = << >> => stack' # << >> /\ stack'[1].node = m
  PROVE  ConfigInv'
<1>1. /\ TypeOK /\ CheckInv /\ ListInv /\ CyclesAreRefused /\ phase \in {"checking", "walking"}
  BY DEF ConfigInv, Walking
<1>2. Declared' = Declared /\ Cyclic' = Cyclic /\ Frames' = Frames
  BY SameGraph
<1>3. TypeOK'
  BY <1>1, <1>2 DEF TypeOK, Frames
<1>4. CheckInv'
  BY <1>1, <1>2 DEF CheckInv, RoundFree, Needs
<1>5. ASSUME phase = "walking" PROVE ListInv'
  <2>1. stack = << >> => roots = {asked} /\ out = << >>
    BY <1>1, <1>5 DEF ListInv
  <2>2. stack = << >> => colour[m] # "black"
    <3> SUFFICES ASSUME stack = << >>, colour[m] = "black" PROVE FALSE
      OBVIOUS
    <3>1. m \in Black /\ DOMAIN out = {}
      BY <2>1 DEF Black
    <3> QED BY <1>1, <1>5, <3>1 DEF ListInv
  <2>3. stack = << >> => roots' = {} /\ stack' # << >> /\ stack'[1].node = asked
    BY <2>1, <2>2
  <2>4. stack # << >> => roots' = {} /\ stack' # << >> /\ stack'[1].node = asked
    <3> SUFFICES ASSUME stack # << >> PROVE roots' = {} /\ stack' # << >> /\ stack'[1].node = asked
      OBVIOUS
    <3>1. 1 \in DOMAIN stack /\ roots = {} /\ Node(1) = asked
      <4>1. 1 \in DOMAIN stack
        BY <1>1, StackTyped
      <4> QED BY <1>1, <1>5, <4>1 DEF ListInv
    <3>2. 1 \in DOMAIN stack'
      BY <3>1
    <3>3. stack' # << >>
      BY <3>2, Empty
    <3> QED BY <3>1, <3>3
  <2>5. \A i \in DOMAIN out :
            \/ \E j \in (i + 1)..Len(out) : out[i] \in Needs(out[j])
            \/ \E j \in DOMAIN stack' : out[i] \in Needs(stack'[j].node)
    <3> SUFFICES ASSUME NEW i \in DOMAIN out
                 PROVE  \/ \E j \in (i + 1)..Len(out) : out[i] \in Needs(out[j])
                        \/ \E j \in DOMAIN stack' : out[i] \in Needs(stack'[j].node)
      OBVIOUS
    <3>1. stack # << >>
      BY <2>1, Empty
    <3> QED BY <1>1, <1>5, <3>1 DEF ListInv
  <2>6. \A t : Needs(t)' = Needs(t)
    BY SameGraph
  <2> QED BY <1>1, <1>5, <2>3, <2>4, <2>5, <2>6 DEF ListInv, Node
<1> QED BY <1>1, <1>2, <1>3, <1>4, <1>5 DEF ConfigInv, ListInv, CyclesAreRefused, ChainIsInOrder

LEMMA VisitKeeps ==
  ASSUME ConfigInv, Walking, conf' = conf, asked' = asked, out' = out,
         NEW calls, NEW m \in Declared, Turned(calls, m), Visit(m, calls),
         \/ stack = << >> /\ m \in roots /\ roots' = roots \ {m}
         \/ stack # << >> /\ m \in Needs(Node(Len(stack))) /\ roots' = roots
  PROVE  ConfigInv'
<1>1. /\ TypeOK /\ PathInv /\ NeedsInv /\ CheckInv /\ ListInv /\ CyclesAreRefused
      /\ TargetsSound /\ phase \in {"checking", "walking"}
      /\ colour \in [Declared -> {"white", "grey", "black"}]
      /\ DOMAIN stack = 1..Len(stack) /\ Len(stack) \in Nat
  BY StackTyped DEF ConfigInv, PathInv, Walking
<1>2. calls \in Seq(Frames) /\ Len(calls) = Len(stack) /\ DOMAIN calls = 1..Len(calls)
  BY DEF Turned
<1>3. \A i \in DOMAIN stack : calls[i].node = Node(i)
  BY DEF Turned
<1>4. ASSUME colour[m] = "grey" PROVE Cyclic
  BY <1>1, <1>4, NobodyGrey, GreyMeansCyclic
<1>5. CASE /\ colour[m] = "white" /\ phase' = phase
           /\ colour' = [colour EXCEPT ![m] = "grey"]
           /\ stack' = Append(calls, [node |-> m, left |-> conf.targets[m].needs])
  <2>1. PathInv' /\ NeedsInv' /\ Black' = Black /\ stack' \in Seq(Frames)
    BY <1>1, <1>5, Entered
  <2>2. [node |-> m, left |-> conf.targets[m].needs] \in Frames
    <3>1. conf.targets[m].needs \in Seq(STRING)
      BY <1>1, WrittenAssumption DEF TypeOK, Declared
    <3> QED BY <3>1 DEF Frames
  <2>3. /\ stack'[Len(stack) + 1].node = m /\ DOMAIN stack' = 1..(Len(stack) + 1)
        /\ \A i \in 1..Len(stack) : stack'[i] = calls[i]
    <3> DEFINE f == [node |-> m, left |-> conf.targets[m].needs]
    <3>1. f.node = m
      OBVIOUS
    <3> HIDE DEF f
    <3>2. stack' = Append(calls, f) /\ f \in Frames
      BY <1>5, <2>2 DEF f
    <3> QED BY <1>2, <3>1, <3>2, Pushed
  <2>4. \A i \in DOMAIN stack : i \in DOMAIN stack' /\ stack'[i].node = Node(i)
    BY <1>1, <1>3, <2>3
  <2>5. stack = << >> => stack' # << >> /\ stack'[1].node = m
    <3> SUFFICES ASSUME stack = << >> PROVE stack' # << >> /\ stack'[1].node = m
      OBVIOUS
    <3>1. Len(stack) = 0
      BY Empty
    <3>2. stack'[1].node = m /\ 1 \in DOMAIN stack'
      BY <2>3, <3>1
    <3> QED BY <3>2, Empty
  <2>6. /\ colour' \in [Declared -> {"white", "grey", "black"}] /\ colour'[m] = "grey"
        /\ \A t \in Declared : colour'[t] = "white" => colour[t] = "white"
    BY <1>1, <1>5
  <2> QED BY <1>5, <2>1, <2>4, <2>5, <2>6, WalkKept
<1>6. CASE colour[m] # "white" /\ ~OnPath(m) /\ stack' = calls /\ phase' = phase /\ colour' = colour
  <2>1. colour[m] = "black"
    <3>1. colour[m] \in {"grey", "black"}
      BY <1>1, <1>6
    <3> QED BY <1>1, <1>4, <1>6, <3>1 DEF OnPath, CyclesAreRefused
  <2>2. PathInv' /\ NeedsInv' /\ Black' = Black
    BY <1>1, <1>6, <2>1, Passed
  <2>3. \A i \in DOMAIN stack : i \in DOMAIN stack' /\ stack'[i].node = Node(i)
    BY <1>1, <1>2, <1>3, <1>6
  <2> QED BY <1>1, <1>2, <1>6, <2>1, <2>2, <2>3, WalkKept
<1>7. CASE OnPath(m) /\ phase' = "refused" /\ colour' = colour /\ stack' = stack
  <2>1. Cyclic /\ Cyclic' = Cyclic
    BY <1>4, <1>7, SameGraph DEF OnPath
  <2>2. roots' \subseteq Declared
    BY <1>1 DEF TypeOK
  <2>3. TypeOK' /\ PathInv' /\ NeedsInv' /\ ListInv'
    BY <1>1, <1>7, <2>2, StillThere
  <2> QED BY <1>7, <2>1, <2>3 DEF ConfigInv, CheckInv, CyclesAreRefused, ChainIsInOrder
<1> QED BY <1>5, <1>6, <1>7 DEF Visit

LEMMA NextRootKeeps ==
  ASSUME ConfigInv, NextRoot PROVE ConfigInv'
<1>1. PICK m \in roots : Visit(m, << >>) /\ roots' = roots \ {m}
  BY DEF NextRoot
<1>2. /\ Walking /\ stack = << >> /\ conf' = conf /\ asked' = asked /\ out' = out /\ m \in Declared
  BY DEF ConfigInv, TypeOK, NextRoot
<1>3. Turned(<< >>, m)
  BY <1>2, Empty DEF Turned
<1> QED BY <1>1, <1>2, <1>3, VisitKeeps

LEMMA NextNeedKeeps ==
  ASSUME ConfigInv, NextNeed PROVE ConfigInv'
<1> DEFINE call == Last(stack)
           m == Head(call.left)
           rest == [call EXCEPT !.left = Tail(@)]
           calls == Append(Front(stack), rest)
           n == Len(stack)
<1>1. /\ TypeOK /\ PathInv /\ NeedsInv /\ TargetsSound /\ Walking /\ stack # << >> /\ call.left # << >>
      /\ conf' = conf /\ asked' = asked /\ out' = out /\ roots' = roots /\ Visit(m, calls)
  BY DEF ConfigInv, PathInv, Walking, NextNeed
<1>2. /\ stack \in Seq(Frames) /\ n \in Nat \ {0} /\ DOMAIN stack = 1..n /\ call = stack[n] /\ call \in Frames
      /\ Front(stack) \in Seq(Frames) /\ Len(Front(stack)) = n - 1
      /\ \A i \in 1..(n - 1) : Front(stack)[i] = stack[i]
  <2>1. stack \in Seq(Frames)
    BY <1>1, StackTyped
  <2> QED BY <1>1, <2>1, Popped
<1>3. call.node = Node(n) /\ Node(n) \in Declared /\ call.left \in Seq(STRING)
  BY <1>2 DEF Frames, Node
<1>4. /\ m \in ToSet(call.left) /\ Tail(call.left) \in Seq(STRING)
      /\ ToSet(Tail(call.left)) \subseteq ToSet(call.left)
      /\ ToSet(call.left) \subseteq ToSet(Tail(call.left)) \union {m}
  <2> HIDE DEF call
  <2> QED BY <1>1, <1>3, HeadAndTail
<1>5. rest \in Frames /\ rest.node = Node(n) /\ rest.left = Tail(call.left)
  <2> HIDE DEF call
  <2> QED BY <1>2, <1>3, <1>4 DEF Frames
<1> HIDE DEF rest, m, n, call
<1>6. m \in Needs(Node(n))
  <2>1. n \in DOMAIN stack
    BY <1>2
  <2> QED BY <1>1, <1>2, <1>4, <2>1 DEF NeedsInv
<1>7. m \in Declared
  BY <1>1, <1>3, <1>6, NeedsDeclared
<1>8. /\ calls \in Seq(Frames) /\ Len(calls) = n /\ calls[n] = rest
      /\ \A i \in 1..(n - 1) : calls[i] = stack[i]
  <2> DEFINE s == Front(stack)
  <2>1. s \in Seq(Frames) /\ Len(s) = n - 1 /\ \A i \in 1..(n - 1) : s[i] = stack[i]
    BY <1>2
  <2> HIDE DEF s
  <2>2. (n - 1) + 1 = n
    BY <1>2
  <2>3. /\ Append(s, rest) \in Seq(Frames) /\ Len(Append(s, rest)) = Len(s) + 1
        /\ Append(s, rest)[Len(s) + 1] = rest
        /\ \A i \in 1..Len(s) : Append(s, rest)[i] = s[i]
    BY <1>5, <2>1, Pushed
  <2>4. calls = Append(s, rest)
    BY DEF s
  <2> HIDE DEF calls
  <2> QED BY <2>1, <2>2, <2>3, <2>4
<1> HIDE DEF calls
<1>9. Turned(calls, m)
  <2>1. \A i \in 1..n : i = n \/ i \in 1..(n - 1)
    BY <1>2
  <2>2. Len(stack) = n /\ ~(n < n) /\ \A i \in 1..(n - 1) : i # n
    <3>1. ~(n < n) /\ \A i \in 1..(n - 1) : i # n
      BY <1>2
    <3> QED BY <3>1 DEF n
  <2>3. ASSUME NEW i \in 1..(n - 1) PROVE calls[i].node = Node(i) /\ calls[i].left = stack[i].left /\ i # n
    BY <1>8, <2>2 DEF Node
  <2>4. /\ calls[n].node = Node(n) /\ m \in Needs(Node(n))
        /\ ToSet(calls[n].left) \subseteq ToSet(stack[n].left)
        /\ ToSet(stack[n].left) \subseteq ToSet(calls[n].left) \union {m}
    BY <1>2, <1>4, <1>5, <1>6, <1>8
  <2> QED BY <1>2, <1>8, <2>1, <2>2, <2>3, <2>4 DEF Turned
<1>10. m \in Needs(Node(Len(stack)))
  BY <1>6 DEF n
<1> QED BY <1>1, <1>7, <1>9, <1>10, VisitKeeps

\* What is black does not go round, and a target that needs only what is
\* black joins it.
LEMMA StillRoundFree ==
  ASSUME NEW B, NEW m, RoundFree(B), \A t \in B : Needs(t) \subseteq B, Needs(m) \subseteq B, m \notin B
  PROVE  RoundFree(B \union {m})
<1> SUFFICES ASSUME NEW S \in SUBSET (B \union {m}), S # {}
             PROVE  \E t \in S : Needs(t) \intersect S = {}
  BY DEF RoundFree
<1>1. CASE S \subseteq {m}
  <2>1. m \in S /\ Needs(m) \intersect S = {}
    BY <1>1
  <2> QED BY <2>1
<1>2. CASE ~(S \subseteq {m})
  <2>1. S \ {m} \in SUBSET B /\ S \ {m} # {}
    BY <1>2
  <2>2. PICK t \in S \ {m} : Needs(t) \intersect (S \ {m}) = {}
    BY <2>1 DEF RoundFree
  <2>3. m \notin Needs(t)
    BY <2>1, <2>2
  <2> QED BY <2>2, <2>3
<1> QED BY <1>1, <1>2

LEMMA LeaveKeeps ==
  ASSUME ConfigInv, Leave PROVE ConfigInv'
<1> DEFINE n == Len(stack)
           m == Node(n)
           k == Len(out)
<1>1. /\ TypeOK /\ PathInv /\ NeedsInv /\ CheckInv /\ ListInv /\ CyclesAreRefused
      /\ phase \in {"checking", "walking"} /\ TargetsSound
      /\ conf' = conf /\ phase' = phase /\ asked' = asked /\ roots' = roots
      /\ stack # << >> /\ stack' = Front(stack) /\ Last(stack).node = m
      /\ out' = IF phase = "walking" THEN OutAfter(m) ELSE out
  <2>1. stack # << >> /\ Last(stack) = stack[n]
    BY DEF Leave, Last
  <2> QED BY <2>1 DEF ConfigInv, PathInv, Leave, Walking, Node
<1>2. /\ stack \in Seq(Frames) /\ n \in Nat \ {0} /\ DOMAIN stack = 1..n
      /\ stack' \in Seq(Frames) /\ DOMAIN stack' = 1..(n - 1)
      /\ \A i \in 1..(n - 1) : stack'[i] = stack[i]
      /\ colour \in [Declared -> {"white", "grey", "black"}]
  <2>1. stack \in Seq(Frames) /\ colour \in [Declared -> {"white", "grey", "black"}]
    BY <1>1, StackTyped
  <2> QED BY <1>1, <2>1, Popped
<1>3. /\ PathInv' /\ NeedsInv' /\ m \in Declared /\ colour[m] = "grey" /\ Needs(m) \subseteq Black
      /\ Black' = Black \union {m} /\ colour' = [colour EXCEPT ![m] = "black"]
  BY <1>1, LeftBlack
<1>4. Declared' = Declared /\ Cyclic' = Cyclic /\ Frames' = Frames
  BY <1>1, SameGraph
<1>5. m \notin Black /\ \A t \in Black : Needs(t) \subseteq Black
  BY <1>1, <1>3 DEF Black, NeedsInv, Walking
<1>6. \A t : Needs(t)' = Needs(t)
  BY <1>1, SameGraph
<1>7. out \in Seq(Declared) /\ k \in Nat /\ DOMAIN out = 1..k
  <2>1. out \in Seq(Declared)
    BY <1>1 DEF TypeOK
  <2> QED BY <2>1
<1> HIDE DEF n, m, k
<1>8. phase = "walking" =>
        /\ out' \in Seq(Declared) /\ Len(out') = k + 1 /\ DOMAIN out' = 1..(k + 1)
        /\ out'[k + 1] = m /\ \A i \in 1..k : out'[i] = out[i]
  BY <1>1, <1>3, <1>7, Pushed DEF OutAfter, k
<1>9. TypeOK'
  <2>1. out' \in Seq(Declared)
    BY <1>1, <1>7, <1>8
  <2>2. colour' \in [Declared -> {"white", "grey", "black"}]
    BY <1>2, <1>3
  <2> QED BY <1>1, <1>2, <1>4, <2>1, <2>2 DEF TypeOK, Frames
<1>10. CheckInv'
  <2>1. phase = "checking" => RoundFree(Black \union {m})
    BY <1>1, <1>3, <1>5, StillRoundFree DEF CheckInv
  <2>2. \A t \in Declared : colour'[t] = "white" => colour[t] = "white"
    BY <1>2, <1>3
  <2>3. phase = "checking" => asked = "" /\ \A t \in Declared : colour[t] = "white" => t \in roots
    BY <1>1 DEF CheckInv
  <2> QED BY <1>1, <1>3, <1>4, <2>1, <2>2, <2>3 DEF CheckInv, RoundFree, Needs
<1>11. ASSUME phase = "walking" PROVE ListInv'
  <2>1. k \in 0..k /\ k + 1 \in 1..(k + 1) /\ (\A i \in 1..(k + 1) : i \in 1..k \/ i = k + 1)
        /\ (\A i \in 1..k : i \in 1..(k + 1) /\ i # k + 1)
    BY <1>7
  <2>2. \A t \in Black \union {m} : \E i \in 1..(k + 1) : out'[i] = t
    <3>1. \A t \in Black : \E i \in 1..k : out[i] = t
      BY <1>1, <1>7, <1>11 DEF ListInv
    <3> QED BY <1>8, <1>11, <2>1, <3>1
  <2>3. \A i \in 1..k : out[i] \in Black
    BY <1>1, <1>7, <1>11 DEF ListInv
  <2>4. \A i \in 1..(k + 1) : out'[i] \in Black \union {m}
    BY <1>8, <1>11, <2>1, <2>3
  <2>5. \A i \in 1..(k + 1) : \A j \in 1..(k + 1) : out'[i] = out'[j] => i = j
    <3>1. \A i \in 1..k : \A j \in 1..k : out[i] = out[j] => i = j
      BY <1>1, <1>7, <1>11 DEF ListInv
    <3> QED BY <1>5, <1>8, <1>11, <2>1, <2>3, <3>1
  <2>6. \A i \in 1..(k + 1) : \A x \in Needs(out'[i]) : \E j \in 1..(i - 1) : out'[j] = x
    <3> SUFFICES ASSUME NEW i \in 1..(k + 1), NEW x \in Needs(out'[i])
                 PROVE  \E j \in 1..(i - 1) : out'[j] = x
      OBVIOUS
    <3>1. CASE i = k + 1
      <4>1. x \in Black
        BY <1>3, <1>8, <1>11, <3>1
      <4>2. PICK j \in 1..k : out[j] = x
        BY <1>1, <1>7, <1>11, <4>1 DEF ListInv
      <4>3. i - 1 = k
        BY <1>7, <3>1
      <4> QED BY <1>8, <1>11, <4>2, <4>3
    <3>2. CASE i \in 1..k
      <4>1. PICK j \in 1..(i - 1) : out[j] = x
        BY <1>1, <1>7, <1>8, <1>11, <3>2 DEF ListInv
      <4>2. j \in 1..k
        BY <1>7, <3>2
      <4> QED BY <1>8, <1>11, <4>1, <4>2
    <3> QED BY <2>1, <3>1, <3>2
  <2>7. \A i \in 1..(k + 1) :
            \/ \E j \in (i + 1)..(k + 1) : out'[i] \in Needs(out'[j])
            \/ \E j \in 1..(n - 1) : out'[i] \in Needs(stack'[j].node)
            \/ stack' = << >> /\ i = k + 1
    <3> SUFFICES ASSUME NEW i \in 1..(k + 1)
                 PROVE  \/ \E j \in (i + 1)..(k + 1) : out'[i] \in Needs(out'[j])
                        \/ \E j \in 1..(n - 1) : out'[i] \in Needs(stack'[j].node)
                        \/ stack' = << >> /\ i = k + 1
      OBVIOUS
    <3>1. CASE i \in 1..k
      <4>1. /\ \A j \in (i + 1)..k : j \in 1..k /\ j \in (i + 1)..(k + 1)
            /\ k + 1 \in (i + 1)..(k + 1)
        BY <1>7, <3>1
      <4>2. \/ \E j \in (i + 1)..k : out[i] \in Needs(out[j])
            \/ \E j \in 1..n : out[i] \in Needs(Node(j))
        BY <1>1, <1>2, <1>7, <1>11, <3>1 DEF ListInv, k
      <4>3. CASE \E j \in (i + 1)..k : out[i] \in Needs(out[j])
        BY <1>8, <1>11, <3>1, <4>1, <4>3
      <4>4. ASSUME NEW j \in 1..n, out[i] \in Needs(Node(j))
            PROVE  \/ \E x \in (i + 1)..(k + 1) : out'[i] \in Needs(out'[x])
                   \/ \E x \in 1..(n - 1) : out'[i] \in Needs(stack'[x].node)
        <5>1. j = n \/ j \in 1..(n - 1)
          BY <1>2
        <5>2. CASE j = n
          BY <1>8, <1>11, <3>1, <4>1, <4>4, <5>2 DEF m
        <5>3. CASE j \in 1..(n - 1)
          <6>1. stack'[j].node = Node(j)
            BY <1>2, <5>3 DEF Node
          <6> QED BY <1>8, <1>11, <3>1, <4>4, <5>3, <6>1
        <5> QED BY <5>1, <5>2, <5>3
      <4> QED BY <4>2, <4>3, <4>4
    <3>2. CASE i = k + 1 /\ n = 1
      <4>1. DOMAIN stack' = {}
        BY <1>2, <3>2
      <4>2. stack' = << >>
        BY <1>2, <4>1
      <4> QED BY <3>2, <4>2
    <3>3. CASE i = k + 1 /\ n # 1
      <4>1. n \in DOMAIN stack /\ n > 1 /\ n - 1 \in 1..(n - 1)
        BY <1>2, <3>3
      <4>2. m \in Needs(Node(n - 1))
        BY <1>1, <4>1 DEF PathInv, m
      <4>3. stack'[n - 1].node = Node(n - 1)
        BY <1>2, <4>1 DEF Node
      <4> QED BY <1>8, <1>11, <3>3, <4>1, <4>2, <4>3
    <3> QED BY <2>1, <3>1, <3>2, <3>3
  <2>8. roots = {} /\ Node(1) = asked
    BY <1>1, <1>11 DEF ListInv
  <2>9. ASSUME n = 1 PROVE roots' = {} /\ stack' = << >> /\ out' # << >> /\ Last(out') = asked'
    <3>1. DOMAIN stack' = {}
      BY <1>2, <2>9
    <3>2. stack' = << >>
      BY <1>2, <3>1
    <3>3. Last(out') = out'[k + 1] /\ out' # << >>
      <4>1. k + 1 \in DOMAIN out'
        BY <1>8, <1>11, <2>1
      <4>2. out' # << >>
        BY <4>1, Empty
      <4> QED BY <1>8, <1>11, <4>2 DEF Last
    <3>4. out'[k + 1] = asked
      BY <1>8, <1>11, <2>8, <2>9 DEF m
    <3>5. roots' = {} /\ stack' = << >> /\ out' # << >> /\ Last(out') = asked'
      BY <1>1, <2>8, <3>2, <3>3, <3>4
    <3> QED BY <3>5
  <2>10. ASSUME n # 1 PROVE roots' = {} /\ stack' # << >> /\ stack'[1].node = asked'
    <3>1. 1 \in 1..(n - 1)
      BY <1>2, <2>10
    <3>2. stack' # << >> /\ stack'[1].node = Node(1)
      BY <1>2, <3>1, Empty DEF Node
    <3>3. roots' = {} /\ stack' # << >> /\ stack'[1].node = asked'
      BY <1>1, <2>8, <3>2
    <3> QED BY <3>3
  <2>11. /\ \A t \in Black' : \E i \in DOMAIN out' : out'[i] = t
         /\ \A i \in DOMAIN out' : out'[i] \in Black'
         /\ \A i \in DOMAIN out' : \A j \in DOMAIN out' : out'[i] = out'[j] => i = j
    BY <1>3, <1>8, <1>11, <2>2, <2>4, <2>5
  <2>12. \A i \in DOMAIN out' : \A x \in Needs(out'[i]) : \E j \in 1..(i - 1) : out'[j] = x
    BY <1>8, <1>11, <2>6
  <2>13. \A i \in DOMAIN out' :
            \/ \E j \in (i + 1)..Len(out') : out'[i] \in Needs(out'[j])
            \/ \E j \in DOMAIN stack' : out'[i] \in Needs(stack'[j].node)
            \/ stack' = << >> /\ i = Len(out')
    BY <1>2, <1>8, <1>11, <2>7
  <2> QED BY <1>1, <1>6, <2>9, <2>10, <2>11, <2>12, <2>13 DEF ListInv, Node
<1>12. ListInv'
  BY <1>1, <1>11 DEF ListInv
<1> QED BY <1>1, <1>3, <1>4, <1>9, <1>10, <1>12 DEF ConfigInv, CyclesAreRefused, ChainIsInOrder

LEMMA Unchanged ==
  ASSUME ConfigInv, UNCHANGED vars PROVE ConfigInv'
<1>1. /\ conf' = conf /\ phase' = phase /\ asked' = asked /\ colour' = colour /\ stack' = stack
      /\ roots' = roots /\ out' = out
  BY DEF vars, walkVars
<1>2. /\ Declared' = Declared /\ TargetsSound' = TargetsSound /\ Cyclic' = Cyclic
      /\ DownsSound' = DownsSound /\ DoorSound' = DoorSound /\ \A t : Needs(t)' = Needs(t)
  BY <1>1, SameGraph
<1>3. Black' = Black
  BY <1>1, <1>2 DEF Black
<1>4. TypeOK' /\ PathInv'
  BY <1>1, <1>2 DEF ConfigInv, TypeOK, PathInv, Node, Needs
<1>5. NeedsInv'
  BY <1>1, <1>3 DEF ConfigInv, NeedsInv, Walking, Node, Needs
<1>6. CheckInv'
  BY <1>1, <1>2, <1>3 DEF ConfigInv, CheckInv, RoundFree, Needs
<1>7. ListInv'
  BY <1>1, <1>3 DEF ConfigInv, ListInv, Node, Needs
<1>8. CyclesAreRefused'
  BY <1>1, <1>2 DEF ConfigInv, CyclesAreRefused
<1>9. ChainIsInOrder'
  <2>1. CASE phase # "accepted" \/ asked = ""
    BY <1>1, <2>1 DEF ChainIsInOrder
  <2>2. CASE phase = "accepted" /\ asked # ""
    <3>1. /\ out' # << >> /\ Last(out') = asked' /\ IsInjective(out')
      BY <1>1, <2>2 DEF ConfigInv, ChainIsInOrder
    <3>2. \A i \in DOMAIN out' :
            /\ \A m \in Needs(out'[i]) : \E j \in 1..(i - 1) : out'[j] = m
            /\ i < Len(out') => \E j \in (i + 1)..Len(out') : out'[i] \in Needs(out'[j])
      BY <1>1, <2>2 DEF ConfigInv, ChainIsInOrder
    <3> QED BY <1>2, <3>1, <3>2 DEF ChainIsInOrder
  <2> QED BY <2>1, <2>2
<1> QED BY <1>4, <1>5, <1>6, <1>7, <1>8, <1>9 DEF ConfigInv

LEMMA ConfigInvariant == Spec => []ConfigInv
<1>1. Init => ConfigInv
  BY Initially
<1>2. ConfigInv /\ [Next]_vars => ConfigInv'
  <2> SUFFICES ASSUME ConfigInv, [Next]_vars PROVE ConfigInv'
    OBVIOUS
  <2>1. CASE UNCHANGED vars
    BY <2>1, Unchanged
  <2> QED BY <2>1, ReadKeeps, NextRootKeeps, NextNeedKeeps, LeaveKeeps, CheckedKeeps,
             ChainedKeeps, ChainKeeps DEF Next
<1> QED BY <1>1, <1>2, PTL DEF Spec

-----------------------------------------------------------------------------
\* Of configurations that are sound otherwise, checkCycles refuses those with
\* a cycle of needs and no others, whatever the targets and what they need.
THEOREM CyclesRefused == Spec => []CyclesAreRefused
<1>1. ConfigInv => CyclesAreRefused
  BY DEF ConfigInv
<1> QED BY <1>1, ConfigInvariant, PTL

\* Chain returns what it needs before the target itself, each once, the one
\* asked for last and nothing that no later one needs, whatever the graph.
THEOREM ChainOrdered == Spec => []ChainIsInOrder
<1>1. ConfigInv => ChainIsInOrder
  BY DEF ConfigInv
<1> QED BY <1>1, ConfigInvariant, PTL
=============================================================================
