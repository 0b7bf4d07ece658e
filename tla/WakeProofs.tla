----------------------------- MODULE WakeProofs -----------------------------
(***************************************************************************)
(* What a wake has raised the loop leaves alone until it is old enough.    *)
(***************************************************************************)
EXTENDS WakeHistory, LockProofs

\* What a wake raised and has not gone off was not seen up before.
RaisedInv ==
  /\ raisedAt \in [Targets -> Times]
  /\ \A t \in Targets : raisedAt[t] <= now
  /\ \A t \in Targets : raisedAt[t] # Never => upSince[t] = Never \/ upSince[t] >= raisedAt[t]

\* A guest runs on a machine that runs.
Running(n) == MachinePower(n) \in {"on", "halting"}
GuestsInv == \A t \in Targets \ NodeTargets : power[t] # "off" => Running(NodeOf[t])

\* While an answer is on its way nobody else is at it, and it is still true.
StillTrue(p) ==
  LET t == Subject(p) IN
  /\ ans[p] \in {"yes", "no", "err", "asleep"}
  /\ ans[p] = "yes" => power[t] \in {"on", "halting"} /\ ~NodeIsDown(StateNode(t))
  /\ ans[p] = "no" => power[t] \in {"off", "booting"}
  /\ ans[p] = "asleep" => NodeIsDown(StateNode(t))

LooksInv == \A p \in Procs : pc[p] \in Hearing =>
  StillTrue(p) /\ \A q \in Procs \ {p} : pc[q] \notin Hearing

\* After the second look: what was raised is up and counted so, and from the
\* recheck on it is old enough.
SparedInv ==
  LET t == Subject(Loop) IN
  /\ pc[Loop] = "recheck" /\ raisedAt[t] # Never =>
       power[t] \in {"on", "halting"} /\ up[t] /\ ~NodeIsDown(StateNode(t))
  /\ pc[Loop] \in {"fresh", "down"} /\ raisedAt[t] # Never => now - raisedAt[t] >= MinUptime[t]

-----------------------------------------------------------------------------
(* Guests and the machines they run on. *)

\* A machine that a target stands for is up with that target.
LEMMA HostOf ==
  ASSUME NEW n \in Nodes, HostsOf(n) # << >>
  PROVE  /\ Head(HostsOf(n)) \in NodeTargets /\ Head(HostsOf(n)) \in Targets
         /\ NodeOf[Head(HostsOf(n))] = n
         /\ MachinePower(n) = power[Head(HostsOf(n))]
BY HostsAssumption DEF IsNode, MachinePower

\* Nothing stands for the control hosts.
LEMMA NodesNeverSleep == ASSUME NEW t \in NodeTargets PROVE ~NodeIsDown(StateNode(t))
BY DEF NodeIsDown, StateNode, IsNode, HostsOf

LEMMA GuestsKept ==
  ASSUME TypeInv, GuestsInv, Switched PROVE GuestsInv'
<1> SUFFICES ASSUME NEW x \in Targets \ NodeTargets, power'[x] # "off" PROVE Running(NodeOf[x])'
  BY DEF GuestsInv
<1> DEFINE n == NodeOf[x]
           h == Head(HostsOf(n))
<1>1. power \in [Targets -> Powers] /\ n \in Nodes
  BY TargetsAssumption DEF TypeInv, TypeOK, WorldTypeOK
<1>2. CASE HostsOf(n) = << >>
  BY <1>2 DEF Running, MachinePower
<1>3. CASE HostsOf(n) # << >>
  <2>1. /\ h \in NodeTargets /\ h \in Targets /\ NodeOf[h] = n /\ h # x
        /\ Running(n) <=> power[h] \in {"on", "halting"}
    BY <1>1, <1>3, HostOf DEF Running
  <2>2. Running(n)' <=> power'[h] \in {"on", "halting"}
    BY <1>3 DEF Running, MachinePower
  <2>3. power[x] # "off" => power[h] \in {"on", "halting"}
    BY <2>1 DEF GuestsInv
  <2> HIDE DEF n, h
  <2>4. ASSUME power' = power PROVE power'[h] \in {"on", "halting"}
    BY <2>3, <2>4
  <2>5. ASSUME NEW t \in Targets, power[t] = "booting", power' = [power EXCEPT ![t] = "on"]
        PROVE  power'[h] \in {"on", "halting"}
    BY <1>1, <2>1, <2>3, <2>5
  <2>6. ASSUME NEW t \in Targets, power[t] = "halting",
               power' = [y \in Targets |-> IF y = t \/ (IsNode(t) /\ NodeOf[y] = NodeOf[t])
                                            THEN "off" ELSE power[y]]
        PROVE  power'[h] \in {"on", "halting"}
    <3>1. power'[x] = power[x] /\ ~(IsNode(t) /\ n = NodeOf[t])
      BY <2>6 DEF n
    <3>2. t # h
      BY <2>1, <3>1 DEF IsNode
    <3>3. power'[h] = power[h]
      BY <2>1, <2>6, <3>1, <3>2
    <3> QED BY <2>3, <3>1, <3>3
  <2>7. ASSUME NEW t \in Targets, power[t] = "off", MachinePower(StateNode(t)) = "on",
               power' = [power EXCEPT ![t] = "booting"]
        PROVE  power'[h] \in {"on", "halting"}
    <3>1. CASE t = x
      <4>1. StateNode(t) = n
        BY <3>1 DEF StateNode, IsNode, n
      <4>2. power[h] = "on"
        BY <1>1, <1>3, <2>7, <4>1, HostOf DEF h
      <4> QED BY <1>1, <2>1, <2>7, <3>1, <4>2
    <3>2. CASE t # x
      BY <1>1, <2>1, <2>3, <2>7, <3>2
    <3> QED BY <3>1, <3>2
  <2>8. ASSUME NEW t \in Targets, power[t] \in {"on", "booting"}, power' = [power EXCEPT ![t] = "halting"]
        PROVE  power'[h] \in {"on", "halting"}
    BY <1>1, <2>1, <2>3, <2>8
  <2>9. power'[h] \in {"on", "halting"}
    BY <2>3, <2>4, <2>5, <2>6, <2>7, <2>8 DEF Switched
  <2> QED BY <2>2, <2>9 DEF n
<1> QED BY <1>2, <1>3

-----------------------------------------------------------------------------
(* What is raised, and when it was seen up. *)

LEMMA RaisedKept ==
  ASSUME TypeInv, SinceInv, RaisedInv, Next, WatchWakes PROVE RaisedInv'
<1>1. /\ upSince \in [Targets -> Times] /\ now \in Nat /\ now' \in Nat /\ now' >= now
      /\ now \in Times /\ Never \in Times /\ Times \subseteq Int /\ \A x \in Nat : x # Never /\ x >= Never
  <2>1. now \in 0..MaxTime /\ upSince \in [Targets -> Times]
    BY DEF TypeInv, TypeOK, MemTypeOK, WorldTypeOK
  <2>2. now' = now \/ now' = now + 1
    BY Switching
  <2> QED BY <2>1, <2>2, WorldAssumption DEF Times, Never
<1>2. \A t \in Targets : raisedAt[t] \in Times /\ raisedAt[t] \in Int /\ upSince[t] \in Int
  BY <1>1 DEF RaisedInv
<1>3. \A t \in Targets :
        \/ raisedAt'[t] \in {Never, raisedAt[t]}
        \/ raisedAt'[t] = now /\ ~up[t] /\ power' # power
  BY DEF WatchWakes, RaisedNow
<1>4. /\ raisedAt' \in [Targets -> Times]
      /\ \A t \in Targets : raisedAt'[t] <= now'
  <2>1. \A t \in Targets : raisedAt'[t] \in {Never, raisedAt[t], now}
    BY <1>3
  <2>2. \A t \in Targets : raisedAt'[t] \in Times
    BY <1>1, <1>2, <2>1
  <2>3. raisedAt' \in [Targets -> Times]
    BY <2>2 DEF WatchWakes
  <2>4. \A t \in Targets : raisedAt'[t] <= now'
    <3> SUFFICES ASSUME NEW t \in Targets PROVE raisedAt'[t] <= now'
      OBVIOUS
    <3>1. raisedAt[t] <= now /\ raisedAt[t] \in Int /\ raisedAt'[t] \in {-1, raisedAt[t], now}
      BY <1>2, <2>1 DEF RaisedInv, Never
    <3> QED BY <1>1, <3>1
  <2> QED BY <2>3, <2>4
<1>5. ASSUME NEW t \in Targets, raisedAt'[t] # Never
      PROVE  upSince'[t] = Never \/ upSince'[t] >= raisedAt'[t]
  <2>1. CASE UNCHANGED <<up, upKnown, upSince>>
    <3>1. CASE raisedAt'[t] = now /\ ~up[t]
      BY <2>1, <3>1 DEF SinceInv
    <3>2. CASE raisedAt'[t] = raisedAt[t]
      BY <1>5, <2>1, <3>2 DEF RaisedInv
    <3> QED BY <1>3, <1>5, <3>1, <3>2
  <2>2. ASSUME NEW p \in Procs, NEW s \in Targets, Hear(p, s), UNCHANGED worldVars
        PROVE  upSince'[t] = Never \/ upSince'[t] >= raisedAt'[t]
    <3>1. raisedAt'[t] = raisedAt[t] /\ raisedAt[t] <= now /\ (upSince[t] = Never \/ upSince[t] >= raisedAt[t])
      BY <1>3, <1>5, <2>2 DEF RaisedInv, worldVars
    <3>2. upSince'[t] \in {Never, now, upSince[t]}
      BY <1>1, <2>2 DEF Hear, UpSinceAfter
    <3> QED BY <1>1, <1>2, <3>1, <3>2
  <2>3. ASSUME NEW s \in Targets, StopDone(s)
        PROVE  upSince'[t] = Never \/ upSince'[t] >= raisedAt'[t]
    <3>1. raisedAt'[t] = raisedAt[t] /\ (upSince[t] = Never \/ upSince[t] >= raisedAt[t])
      BY <1>3, <1>5, <2>3 DEF RaisedInv, StopDone, worldVars
    <3>2. upSince'[t] \in {Never, upSince[t]}
      BY <1>1, <2>3 DEF StopDone
    <3> QED BY <3>1, <3>2
  <2> QED BY <2>1, <2>2, <2>3, Sightings
<1> QED BY <1>4, <1>5 DEF RaisedInv

-----------------------------------------------------------------------------
(* Without late answers, one look at a time. *)

\* p has asked for the state of its subject.
Asked(p) == \E label \in Hearing : rest' = rest /\ Subject(p) \in Targets /\ Ask(p, Subject(p), label)

\* What a step of goroutine p leaves of the others.
LEMMA MovesOne ==
  ASSUME TypeInv, NEW p \in Procs, (p = Loop /\ LoopNext) \/ (p \in Wakers /\ WakeNext(p))
  PROVE  /\ \A q \in Procs \ {p} : pc'[q] = pc[q] /\ rest'[q] = rest[q] /\ ans'[q] = ans[q]
         /\ Asked(p) \/ pc'[p] \notin Hearing
<1>1. /\ DOMAIN pc = Procs /\ pc = [q \in Procs |-> pc[q]]
      /\ DOMAIN rest = Procs /\ rest = [q \in Procs |-> rest[q]]
      /\ DOMAIN ans = Procs /\ ans = [q \in Procs |-> ans[q]]
      /\ Loop \in Procs /\ \A w \in Wakers : w \in Procs /\ w # Loop
  BY ProcsAssumption DEF TypeInv, TypeOK, PlaceTypeOK, LocalTypeOK, Procs
<1>2. CASE p = Loop /\ LoopNext
  <2>1. CASE StartPass \/ SweepHear \/ SweepEnds \/ AskSignal \/ SignalsAsked \/ StopReturns \/ PassEnds
    BY <1>1, <1>2, <2>1 DEF StartPass, SweepHear, SweepEnds, AskSignal, SignalsAsked, StopReturns, PassEnds,
                            Goto, Hear, Hearing
  <2>2. CASE SweepAsk
    <3>1. Subject(Loop) \in Targets /\ rest' = rest
      BY <1>1, <2>2, SubjectTyped DEF SweepAsk, Ask, TypeInv, TypeOK
    <3> QED BY <1>1, <1>2, <2>2, <3>1 DEF SweepAsk, Ask, Asked, Goto, Hearing
  <2>3. ASSUME NEW t \in Targets, LookAgain(t)
        PROVE  /\ \A q \in Procs \ {p} : pc'[q] = pc[q] /\ rest'[q] = rest[q] /\ ans'[q] = ans[q]
               /\ Asked(p)
    BY <1>1, <1>2, <2>3 DEF LookAgain, Ask, Asked, Goto, Hearing
  <2>4. ASSUME NEW t \in Targets,
               \/ ConsiderRefused(t) \/ ConsiderBegins(t) \/ AskCached(t) \/ AllAgree(t)
               \/ LockToStop(t) \/ LookedAgain(t) \/ RecheckUptime(t) \/ AskFresh(t) \/ DecideStop(t)
               \/ OrderDown(t) \/ StopFailed(t) \/ StopDone(t)
        PROVE  /\ \A q \in Procs \ {p} : pc'[q] = pc[q] /\ rest'[q] = rest[q] /\ ans'[q] = ans[q]
               /\ pc'[p] \notin Hearing
    BY <1>1, <1>2, <2>4 DEF ConsiderRefused, ConsiderBegins, Considering, AskCached, AllAgree, LockToStop,
                            LookedAgain, RecheckUptime, AskFresh, Condition, DecideStop, OrderDown, StopFailed,
                            StopDone, Return, Hear, Goto, Hearing
  <2> QED BY <1>2, <2>1, <2>2, <2>3, <2>4 DEF LoopNext, StopStep
<1>3. CASE p \in Wakers /\ WakeNext(p)
  <2>1. CASE WakeAsk(p) \/ WakeLook(p) \/ AwaitAsk(p)
    <3>1. Subject(p) \in Targets /\ rest' = rest
      BY <1>1, <1>3, <2>1, SubjectTyped DEF WakeAsk, WakeLook, AwaitAsk, Ask, TypeInv, TypeOK, WellPlaced
    <3> QED BY <1>1, <1>3, <2>1, <3>1 DEF WakeAsk, WakeLook, AwaitAsk, Ask, Asked, Goto, Hearing
  <2>2. CASE \/ \E t \in Targets : Call(p, t)
             \/ WakeReturns(p) \/ WakeHandsOff(p) \/ WakeAsked(p) \/ LockToRaise(p)
             \/ WakeLooked(p) \/ OrderUp(p) \/ Awaited(p)
    BY <1>1, <1>3, <2>2 DEF Call, WakeReturns, WakeHandsOff, WakeAsked, LockToRaise, WakeLooked, OrderUp,
                            Awaited, StepOn, Hear, Goto, Hearing
  <2> QED BY <1>3, <2>1, <2>2 DEF WakeNext
<1> QED BY <1>2, <1>3

\* A machine that is on, or half so, tells the truth when it answers.
LEMMA AskedNow ==
  ASSUME TypeInv, NEW p \in Procs, Asked(p) PROVE StillTrue(p)'
<1> DEFINE t == Subject(p)
<1>1. /\ t \in Targets /\ rest' = rest /\ UNCHANGED <<worldVars, memVars>>
      /\ \E a \in IF NodeIsDown(StateNode(t)) THEN {"asleep"} ELSE StateAnswers(t) : ans' = [ans EXCEPT ![p] = a]
  BY DEF Asked, Ask
<1>2. Subject(p)' = t /\ power' = power
  BY <1>1 DEF Subject, worldVars
<1>3. NodeIsDown(StateNode(Subject(p)))' = NodeIsDown(StateNode(t))
  BY <1>1 DEF NodeIsDown, StateNode, Subject, memVars
<1>4. power[t] \in Powers /\ ans \in [Procs -> Answers]
  BY <1>1 DEF TypeInv, TypeOK, WorldTypeOK, LocalTypeOK
<1> HIDE DEF t
<1>5. CASE NodeIsDown(StateNode(t))
  <2>1. ans'[p] = "asleep"
    BY <1>1, <1>4, <1>5
  <2> QED BY <1>2, <1>3, <1>5, <2>1 DEF StillTrue
<1>6. CASE ~NodeIsDown(StateNode(t))
  <2>1. ans'[p] \in StateAnswers(t)
    BY <1>1, <1>4, <1>6
  <2>2. /\ ans'[p] \in {"yes", "no", "err"}
        /\ ans'[p] = "yes" => power[t] \in {"on", "halting"}
        /\ ans'[p] = "no" => power[t] \notin {"on", "halting"}
    BY <2>1 DEF StateAnswers, Replies, YesNo
  <2> QED BY <1>2, <1>3, <1>4, <1>6, <2>2 DEF StillTrue, Powers
<1> QED BY <1>5, <1>6

LEMMA LooksKept ==
  ASSUME TypeInv, LooksInv, Next, "late" \notin Faults PROVE LooksInv'
<1>1. CASE InTime(NoOne) /\ WorldNext /\ UNCHANGED <<memVars, procVars>>
  <2>1. \A q \in Procs : pc[q] \notin Hearing
    BY <1>1, ProcsAssumption DEF InTime, Hearing, Procs
  <2> QED BY <1>1, <2>1 DEF LooksInv, procVars
<1>2. ASSUME NEW p \in Procs, InTime(p), \A q \in Procs \ {p} : pc'[q] = pc[q],
             Asked(p) \/ pc'[p] \notin Hearing
      PROVE  LooksInv'
  <2>1. \A q \in Procs \ {p} : pc[q] \notin Hearing
    BY <1>2 DEF InTime, Hearing
  <2>3. pc'[p] \in Hearing => StillTrue(p)'
    BY <1>2, AskedNow
  <2>4. \A q \in Procs : pc'[q] \in Hearing => q = p
    BY <1>2, <2>1
  <2> SUFFICES ASSUME NEW q \in Procs, pc'[q] \in Hearing
               PROVE  StillTrue(q)' /\ \A x \in Procs \ {q} : pc'[x] \notin Hearing
    BY DEF LooksInv
  <2>5. q = p
    BY <2>4
  <2>6. StillTrue(q)'
    BY <2>3, <2>5 DEF StillTrue, Subject
  <2> QED BY <2>4, <2>5, <2>6
<1>3. CASE InTime(Loop) /\ LoopNext
  <2>1. Loop \in Procs
    BY DEF Procs
  <2>2. (\A q \in Procs \ {Loop} : pc'[q] = pc[q]) /\ (Asked(Loop) \/ pc'[Loop] \notin Hearing)
    BY <1>3, <2>1, MovesOne
  <2> QED BY <1>2, <1>3, <2>1, <2>2
<1>4. ASSUME NEW w \in Wakers, InTime(w), WakeNext(w) PROVE LooksInv'
  <2>1. w \in Procs
    BY DEF Procs
  <2>2. (\A q \in Procs \ {w} : pc'[q] = pc[q]) /\ (Asked(w) \/ pc'[w] \notin Hearing)
    BY <1>4, <2>1, MovesOne
  <2> QED BY <1>2, <1>4, <2>1, <2>2
<1> QED BY <1>1, <1>3, <1>4 DEF Next

-----------------------------------------------------------------------------
(* What was raised is spared. *)

\* A target the loop works at is nobody else's to raise.
LEMMA NotRaisedNow ==
  ASSUME TypeInv, LockInv, WatchWakes, pc[Loop] \in Locked, Subject(Loop) \in Targets
  PROVE  raisedAt'[Subject(Loop)] # Never =>
           raisedAt'[Subject(Loop)] = raisedAt[Subject(Loop)] /\ power'[Subject(Loop)] # "off"
<1> DEFINE t == Subject(Loop)
<1>1. acting[t] = Loop
  BY DEF LockInv, LockDiscipline, LoopHolds, Locked
<1>2. ~RaisedNow(t)
  <2> SUFFICES ASSUME NEW w \in Wakers, pc[w] = "up", t = Subject(w) PROVE FALSE
    BY DEF RaisedNow
  <2>1. acting[t] = w
    BY DEF LockInv, LockDiscipline, WakeHolds
  <2> QED BY <1>1, <2>1, ProcsAssumption
<1> QED BY <1>2 DEF WatchWakes

\* Whatever others see of a target that is up on a machine that runs, the
\* engine goes on having it up.
LEMMA StaysUp ==
  ASSUME TypeInv, LooksInv, GuestsInv, Next, NEW t \in Targets,
         power[t] \in {"on", "halting"}, up[t], ~NodeIsDown(StateNode(t)),
         pc[Loop] = "recheck"
  PROVE  up'[t] /\ ~(NodeIsDown(StateNode(t))')
<1>1. CASE UNCHANGED <<up, upKnown, upSince>>
  BY <1>1 DEF NodeIsDown
<1>2. ASSUME NEW s \in Targets, StopDone(s) PROVE FALSE
  BY <1>2 DEF StopDone
<1>3. ASSUME NEW p \in Procs, pc[p] \in Hearing, Subject(p) \in Targets, Hear(p, Subject(p)),
             UNCHANGED worldVars
      PROVE  up'[t] /\ ~(NodeIsDown(StateNode(t))')
  <2> DEFINE s == Subject(p)
  <2>1. /\ ans[p] \in {"yes", "no", "err", "asleep"}
        /\ ans[p] = "no" => power[s] \in {"off", "booting"}
        /\ ans[p] = "asleep" => NodeIsDown(StateNode(s))
    BY <1>3 DEF LooksInv, StillTrue
  <2>2. /\ up \in [Targets -> BOOLEAN] /\ upKnown \in [Targets -> BOOLEAN] /\ s \in Targets
        /\ upKnown' = [upKnown EXCEPT ![s] = ans[p] \in {"yes", "no"}]
        /\ up' = [up EXCEPT ![s] = IF ans[p] = "err" THEN up[s] ELSE ans[p] = "yes"]
    BY <1>3 DEF Hear, TypeInv, TypeOK, MemTypeOK
  <2> HIDE DEF s
  <2>3. up'[t]
    <3>1. CASE s = t
      BY <2>1, <2>2, <3>1
    <3>2. CASE s # t
      BY <2>2, <3>2
    <3> QED BY <3>1, <3>2
  <2>4. ~(NodeIsDown(StateNode(t))')
    <3>1. CASE t \in NodeTargets
      BY <3>1 DEF NodeIsDown, StateNode, IsNode, HostsOf
    <3>2. CASE t \notin NodeTargets /\ HostsOf(NodeOf[t]) = << >>
      BY <3>2 DEF NodeIsDown, StateNode, IsNode
    <3>3. CASE t \notin NodeTargets /\ HostsOf(NodeOf[t]) # << >>
      <4> DEFINE h == Head(HostsOf(NodeOf[t]))
      <4>1. h \in NodeTargets /\ h \in Targets /\ power[h] \in {"on", "halting"}
        <5>1. NodeOf[t] \in Nodes
          BY TargetsAssumption
        <5> QED BY <3>3, <5>1, HostOf DEF GuestsInv, Running
      <4>2. StateNode(t) = NodeOf[t] /\ ~(upKnown[h] /\ ~up[h])
        BY <3>3 DEF NodeIsDown, StateNode, IsNode
      <4> HIDE DEF h
      <4>3. CASE s # h
        <5>1. ~(upKnown'[h] /\ ~up'[h])
          BY <2>2, <4>1, <4>2, <4>3
        <5> QED BY <4>2, <5>1 DEF NodeIsDown, h
      <4>4. CASE s = h
        <5>1. ans[p] \in {"yes", "err"}
          BY <2>1, <4>1, <4>4, NodesNeverSleep
        <5>2. ~(upKnown'[h] /\ ~up'[h])
          BY <2>2, <4>4, <5>1
        <5> QED BY <4>2, <5>2 DEF NodeIsDown, h
      <4> QED BY <4>3, <4>4
    <3> QED BY <3>1, <3>2, <3>3
  <2> QED BY <2>3, <2>4
<1> QED BY <1>1, <1>2, <1>3, Sightings

\* What runs does not start to boot.
LEMMA RunsOn ==
  ASSUME TypeInv, Switched, NEW t \in Targets, power[t] \in {"on", "halting"}, power'[t] # "off"
  PROVE  power'[t] \in {"on", "halting"}
<1>1. power \in [Targets -> Powers]
  BY DEF TypeInv, TypeOK, WorldTypeOK
<1> QED BY <1>1 DEF Switched

\* The loop stays where it is, while others make a step.
LEMMA SparedWhileOthers ==
  ASSUME TypeInv, LockInv, LooksInv, GuestsInv, RaisedInv, SparedInv, Next, WatchWakes,
         pc'[Loop] = pc[Loop], rest'[Loop] = rest[Loop]
  PROVE  SparedInv'
<1> DEFINE t == Subject(Loop)
<1> SUFFICES ASSUME pc[Loop] \in {"recheck", "fresh", "down"}, raisedAt'[t] # Never PROVE SparedInv'
  BY DEF SparedInv, Subject
<1>1. t \in Targets /\ Subject(Loop)' = t
  BY SubjectTyped DEF TypeInv, TypeOK, WellPlaced, InConsider, Subject, Procs
<1>2. raisedAt'[t] = raisedAt[t] /\ power'[t] # "off"
  BY <1>1, NotRaisedNow DEF Locked
<1>3. CASE pc[Loop] = "recheck"
  <2>1. power[t] \in {"on", "halting"} /\ up[t] /\ ~NodeIsDown(StateNode(t))
    BY <1>2, <1>3 DEF SparedInv
  <2>2. power'[t] \in {"on", "halting"}
    BY <1>1, <1>2, <2>1, RunsOn, Switching
  <2>3. up'[t] /\ ~(NodeIsDown(StateNode(t))')
    BY <1>1, <1>3, <2>1, StaysUp
  <2> QED BY <1>1, <1>3, <2>2, <2>3 DEF SparedInv
<1>4. CASE pc[Loop] \in {"fresh", "down"}
  <2>1. now - raisedAt[t] >= MinUptime[t]
    BY <1>2, <1>4 DEF SparedInv
  <2>2. /\ now \in Int /\ now' \in Int /\ now' >= now /\ raisedAt[t] \in Int /\ MinUptime[t] \in Int
    <3>1. now \in 0..MaxTime
      BY DEF TypeInv, TypeOK, WorldTypeOK
    <3>2. raisedAt[t] \in Times /\ MinUptime[t] \in Int
      BY <1>1, TargetsAssumption DEF RaisedInv
    <3> QED BY <3>1, <3>2, Switching, WorldAssumption DEF Times, Never
  <2>3. now' - raisedAt'[t] >= MinUptime[t]
    BY <1>2, <2>1, <2>2
  <2> QED BY <1>1, <1>4, <2>3 DEF SparedInv
<1> QED BY <1>3, <1>4

\* The second look of a stop has found it up.
LEMMA SparedWhenLooked ==
  ASSUME TypeInv, LooksInv, NEW t \in Targets, LookedAgain(t), pc'[Loop] = "recheck"
  PROVE  SparedInv'
<1>1. /\ pc[Loop] = "looked" /\ t = Subject(Loop) /\ Hear(Loop, t) /\ ans[Loop] = "yes"
      /\ rest' = rest /\ UNCHANGED worldVars
  <2>1. Loop \in DOMAIN pc
    BY DEF TypeInv, TypeOK, PlaceTypeOK, Procs
  <2> QED BY <2>1 DEF LookedAgain, Return, Goto
<1>2. power[t] \in {"on", "halting"} /\ ~NodeIsDown(StateNode(t)) /\ Subject(Loop)' = t
  BY <1>1 DEF LooksInv, StillTrue, Hearing, Procs, Subject
<1>3. /\ up \in [Targets -> BOOLEAN] /\ upKnown \in [Targets -> BOOLEAN]
      /\ up' = [up EXCEPT ![t] = TRUE]
      /\ upKnown' = [upKnown EXCEPT ![t] = TRUE]
  BY <1>1 DEF TypeInv, TypeOK, MemTypeOK, Hear
<1>4. ~(NodeIsDown(StateNode(t))')
  <2>1. \A x : upKnown'[x] /\ ~up'[x] => upKnown[x] /\ ~up[x]
    BY <1>3
  <2> QED BY <1>2, <2>1 DEF NodeIsDown
<1>5. ~(NodeIsDown(StateNode(Subject(Loop)))')
  BY <1>1, <1>4 DEF Subject
<1> QED BY <1>1, <1>2, <1>3, <1>5 DEF SparedInv, worldVars

\* It is old enough for what the engine knows.
LEMMA SparedWhenRechecked ==
  ASSUME TypeInv, LockInv, SinceInv, RaisedInv, SparedInv, WatchWakes,
         NEW t \in Targets, RecheckUptime(t), pc'[Loop] = "fresh"
  PROVE  SparedInv'
<1>1. pc[Loop] = "recheck" /\ t = Subject(Loop) /\ OldEnough(t) /\ rest' = rest /\ UNCHANGED worldVars
  <2>1. Loop \in DOMAIN pc
    BY DEF TypeInv, TypeOK, PlaceTypeOK, Procs
  <2> QED BY <2>1 DEF RecheckUptime, Return, Goto
<1>2. Subject(Loop)' = t /\ now' = now
  BY <1>1 DEF Subject, worldVars
<1> SUFFICES ASSUME raisedAt'[t] # Never PROVE now - raisedAt'[t] >= MinUptime[t]
  BY <1>2 DEF SparedInv
<1>3. raisedAt'[t] = raisedAt[t]
  BY <1>1, NotRaisedNow DEF Locked
<1>4. upSince[t] # Never /\ upSince[t] >= raisedAt[t]
  BY <1>1, <1>3 DEF SparedInv, SinceInv, RaisedInv
<1>5. now - upSince[t] >= MinUptime[t]
  BY <1>1, <1>4 DEF OldEnough
<1>6. now \in Int /\ upSince[t] \in Int /\ raisedAt[t] \in Int /\ MinUptime[t] \in Int
  <2>1. now \in 0..MaxTime
    BY DEF TypeInv, TypeOK, WorldTypeOK
  <2>2. upSince[t] \in Times /\ raisedAt[t] \in Times /\ MinUptime[t] \in Int
    BY TargetsAssumption DEF RaisedInv, TypeInv, TypeOK, MemTypeOK
  <2> QED BY <2>1, <2>2, WorldAssumption DEF Times, Never
<1> QED BY <1>3, <1>4, <1>5, <1>6

\* From then on it only gets older.
LEMMA SparedOnward ==
  ASSUME TypeInv, LockInv, SparedInv, WatchWakes, UNCHANGED worldVars, rest'[Loop] = rest[Loop],
         pc[Loop] = "fresh", pc'[Loop] \in {"fresh", "down"}
  PROVE  SparedInv'
<1> DEFINE t == Subject(Loop)
<1>1. t \in Targets /\ Subject(Loop)' = t /\ now' = now
  BY SubjectTyped DEF TypeInv, TypeOK, WellPlaced, InConsider, Subject, Procs, worldVars
<1>2. raisedAt'[t] # Never => raisedAt'[t] = raisedAt[t]
  BY <1>1, NotRaisedNow DEF Locked
<1> QED BY <1>1, <1>2 DEF SparedInv

\* Elsewhere it says nothing.
LEMMA NothingToSpare ==
  ASSUME pc'[Loop] \notin {"recheck", "fresh", "down"} PROVE SparedInv'
BY DEF SparedInv

LEMMA LoopSpares ==
  ASSUME TypeInv, LockInv, LooksInv, SinceInv, RaisedInv, SparedInv, LoopNext, WatchWakes
  PROVE  SparedInv'
<1>0. Loop \in Procs /\ Loop \in DOMAIN pc
  BY DEF TypeInv, TypeOK, PlaceTypeOK, Procs
<1>1. CASE StartPass \/ SweepAsk \/ SweepHear \/ SweepEnds \/ AskSignal \/ SignalsAsked
           \/ StopReturns \/ PassEnds
  BY <1>0, <1>1, NothingToSpare DEF StartPass, SweepAsk, Ask, SweepHear, SweepEnds, AskSignal, SignalsAsked,
                                    StopReturns, PassEnds, Goto
<1>2. ASSUME NEW t \in Targets,
             \/ ConsiderRefused(t) \/ ConsiderBegins(t) \/ AskCached(t) \/ AllAgree(t)
             \/ LockToStop(t) \/ LookAgain(t) \/ OrderDown(t) \/ StopFailed(t) \/ StopDone(t)
      PROVE  SparedInv'
  BY <1>0, <1>2, NothingToSpare DEF ConsiderRefused, ConsiderBegins, AskCached, Condition, AllAgree,
                                    LockToStop, LookAgain, Ask, OrderDown, StopFailed, StopDone, Return, Goto
<1>3. ASSUME NEW t \in Targets, LookedAgain(t) PROVE SparedInv'
  <2>1. pc'[Loop] \in {"recheck", "next"}
    BY <1>0, <1>3 DEF LookedAgain, Return, Goto
  <2> QED BY <1>3, <2>1, SparedWhenLooked, NothingToSpare
<1>4. ASSUME NEW t \in Targets, RecheckUptime(t) PROVE SparedInv'
  <2>1. pc'[Loop] \in {"fresh", "next"}
    BY <1>0, <1>4 DEF RecheckUptime, Return, Goto
  <2> QED BY <1>4, <2>1, SparedWhenRechecked, NothingToSpare
<1>5. ASSUME NEW t \in Targets, AskFresh(t) \/ DecideStop(t) PROVE SparedInv'
  <2>1. pc'[Loop] = "next" \/ (pc'[Loop] \in {"fresh", "down"} /\ rest' = rest)
    BY <1>0, <1>5 DEF AskFresh, Condition, DecideStop, Return, Goto
  <2>2. pc[Loop] = "fresh" /\ UNCHANGED worldVars
    BY <1>5 DEF AskFresh, Condition, DecideStop
  <2> QED BY <2>1, <2>2, SparedOnward, NothingToSpare
<1> QED BY <1>1, <1>2, <1>3, <1>4, <1>5 DEF LoopNext, StopStep

RaiseInv == TypeInv /\ LockInv /\ SinceInv /\ RaisedInv /\ GuestsInv /\ LooksInv /\ SparedInv

LEMMA RaiseInit == Init /\ HistInit => RaiseInv
<1> SUFFICES ASSUME Init, HistInit PROVE RaiseInv
  OBVIOUS
<1>1. TypeInv /\ LockInv
  BY TypeInit, LockInit
<1>2. pc[Loop] = "idle" /\ \A p \in Procs : pc[p] \notin Hearing
  BY ProcsAssumption DEF Init, Procs, Hearing
<1>3. SinceInv
  BY DEF Init, SinceInv
<1>4. RaisedInv
  <2>1. \A t \in Targets : raisedAt[t] = Never
    BY DEF HistInit
  <2>2. Never \in Times /\ Never <= now
    <3>1. now = 0
      BY DEF Init
    <3> QED BY <3>1, WorldAssumption DEF Times, Never
  <2> QED BY <2>1, <2>2 DEF RaisedInv, HistInit
<1>5. GuestsInv
  <2> SUFFICES ASSUME NEW t \in Targets \ NodeTargets, power[t] # "off" PROVE Running(NodeOf[t])
    BY DEF GuestsInv
  <2>1. power[t] = "on"
    BY DEF Init
  <2>2. MachinePower(StateNode(t)) = "on"
    BY <2>1 DEF Init
  <2> QED BY <2>2 DEF StateNode, IsNode, Running
<1>6. LooksInv /\ SparedInv
  BY <1>2 DEF LooksInv, SparedInv
<1> QED BY <1>1, <1>3, <1>4, <1>5, <1>6 DEF RaiseInv

LEMMA RaiseStep ==
  ASSUME "late" \notin Faults, RaiseInv, [HistNext]_<<vars, raisedAt>> PROVE RaiseInv'
<1>1. TypeInv' /\ LockInv'
  BY NextKeepsType, LocksKept DEF RaiseInv, HistNext, vars
<1>2. CASE HistNext
  <2>1. Next /\ WatchWakes
    BY <1>2 DEF HistNext
  <2>2. SinceInv' /\ RaisedInv' /\ GuestsInv' /\ LooksInv'
    BY <2>1, SinceKept, RaisedKept, Switching, GuestsKept, LooksKept DEF RaiseInv
  <2>3. ASSUME LoopNext PROVE SparedInv'
    BY <2>1, <2>3, LoopSpares DEF RaiseInv
  <2>4. ASSUME NEW w \in Wakers, WakeNext(w) PROVE pc'[Loop] = pc[Loop] /\ rest'[Loop] = rest[Loop]
    <3>1. w \in Procs /\ Loop \in Procs \ {w}
      BY ProcsAssumption DEF Procs
    <3> QED BY <2>4, <3>1, MovesOne DEF RaiseInv
  <2>5. ASSUME pc'[Loop] = pc[Loop], rest'[Loop] = rest[Loop] PROVE SparedInv'
    BY <2>1, <2>5, SparedWhileOthers DEF RaiseInv
  <2>6. UNCHANGED procVars => pc'[Loop] = pc[Loop] /\ rest'[Loop] = rest[Loop]
    BY DEF procVars
  <2>7. LoopNext \/ (\E w \in Wakers : WakeNext(w)) \/ UNCHANGED procVars
    BY <2>1 DEF Next
  <2>8. SparedInv'
    BY <2>3, <2>4, <2>5, <2>6, <2>7
  <2> QED BY <1>1, <2>2, <2>8 DEF RaiseInv
<1>3. CASE UNCHANGED <<vars, raisedAt>>
  <2>1. UNCHANGED <<power, now, up, upKnown, upSince, pc, rest, ans, raisedAt>>
    BY <1>3 DEF vars, worldVars, memVars, procVars
  <2>2. SinceInv' /\ RaisedInv' /\ GuestsInv'
    BY <2>1 DEF RaiseInv, SinceInv, RaisedInv, GuestsInv, Running, MachinePower
  <2>3. LooksInv'
    BY <2>1 DEF RaiseInv, LooksInv, StillTrue, Subject, NodeIsDown, Running, MachinePower
  <2>4. SparedInv'
    BY <2>1 DEF RaiseInv, SparedInv, Subject, NodeIsDown
  <2> QED BY <1>1, <2>2, <2>3, <2>4 DEF RaiseInv
<1> QED BY <1>2, <1>3

\* A wake's work is not undone: what the engine raised it does not order down
\* before min_uptime, for any fleet, any number of wakes and people at the
\* switches, and whatever is refused or lost, so long as no answer is late.
THEOREM RaisedSpared == "late" \notin Faults => (HistSpec => []JustRaisedIsSpared)
<1> SUFFICES ASSUME "late" \notin Faults PROVE HistSpec => []JustRaisedIsSpared
  OBVIOUS
<1>1. RaiseInv => JustRaisedIsSpared
  BY DEF RaiseInv, SparedInv, JustRaisedIsSpared
<1>2. RaiseInv /\ [HistNext]_<<vars, raisedAt>> => RaiseInv'
  BY RaiseStep
<1> QED BY <1>1, <1>2, RaiseInit, PTL DEF HistSpec
=============================================================================
