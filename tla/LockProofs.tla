----------------------------- MODULE LockProofs -----------------------------
(***************************************************************************)
(* The action locks: who owns them, that the loop never waits for one of   *)
(* its own, and that whoever owns a target acts upon it in one turn.       *)
(***************************************************************************)
EXTENDS EngineTurns, EngineProofs

(***************************************************************************)
(* I. A stop and a wake, or two wakes, never work on the same target at    *)
(* once.                                                                   *)
(***************************************************************************)

Locked == {"look", "looked", "recheck", "fresh", "down", "downed"}
Raising == {"look", "looked", "up", "await", "awaited"}

\* The loop holds each of its locks once: the one it works under is none of
\* those it keeps for the stops it has done, and those are all different.
FramesApart ==
  /\ pc[Loop] \in Locked => \A i \in DOMAIN held : held[i].target # Subject(Loop)
  /\ \A i, j \in DOMAIN held : held[i].target = held[j].target => i = j

LockInv == LockDiscipline /\ FramesApart

-----------------------------------------------------------------------------
\* The wakes are where they were.
WakesRest == \A w \in Wakers : pc'[w] = pc[w] /\ rest'[w] = rest[w]

\* The loop is where it was, as far as locks go.
LoopRests == /\ pc'[Loop] \in Locked <=> pc[Loop] \in Locked
             /\ pc'[Loop] \in Locked => rest'[Loop] = rest[Loop]

LEMMA LockInit == Init => LockInv
<1> SUFFICES ASSUME Init PROVE LockInv
  OBVIOUS
<1>1. /\ acting = [t \in Targets |-> NoOne] /\ held = << >>
      /\ pc = [p \in Procs |-> IF p = Loop THEN "idle" ELSE "call"]
  BY DEF Init
<1>2. pc[Loop] = "idle" /\ \A w \in Wakers : pc[w] = "call"
  BY <1>1, ProcsAssumption DEF Procs
<1>3. DOMAIN held = {}
  BY <1>1
<1>4. FramesApart
  BY <1>2, <1>3 DEF FramesApart, Locked
<1>5. LockDiscipline
  BY <1>1, <1>2, <1>3, ProcsAssumption DEF LockDiscipline, LoopHolds, WakeHolds
<1> QED BY <1>4, <1>5 DEF LockInv

\* A step of anyone that takes no lock and gives none back.
LEMMA NothingLocked ==
  ASSUME LockInv, UNCHANGED <<acting, held>>, LoopRests,
         \A w \in Wakers : /\ pc'[w] \in Raising <=> pc[w] \in Raising
                           /\ pc'[w] \in Raising => rest'[w] = rest[w]
  PROVE  LockInv'
<1>1. FramesApart'
  BY DEF LockInv, FramesApart, LoopRests, Subject
<1>2. \A t \in Targets : LoopHolds(t)' <=> LoopHolds(t)
  BY DEF LoopHolds, LoopRests, Locked, Subject
<1>3. \A w \in Wakers, t \in Targets : WakeHolds(w, t)' <=> WakeHolds(w, t)
  BY DEF WakeHolds, Raising, Subject
<1>4. LockDiscipline'
  BY <1>2, <1>3 DEF LockInv, LockDiscipline
<1> QED BY <1>1, <1>4 DEF LockInv

\* The loop takes a free lock to work under it.
LEMMA LoopLocks ==
  ASSUME TypeInv, LockInv, WakesRest, UNCHANGED held, NEW t \in Targets, Lock(Loop, t),
         pc[Loop] \notin Locked, pc'[Loop] \in Locked, Subject(Loop)' = t
  PROVE  LockInv'
<1>1. /\ acting \in [Targets -> Procs \union {NoOne}]
      /\ acting[t] = NoOne /\ acting' = [acting EXCEPT ![t] = Loop]
  BY DEF TypeInv, TypeOK, PlaceTypeOK, Lock
<1>2. /\ \A i \in DOMAIN held : held[i].target # t
      /\ \A w \in Wakers : ~WakeHolds(w, t)
  BY <1>1, ProcsAssumption DEF LockInv, LockDiscipline, LoopHolds
<1>3. FramesApart'
  BY <1>2 DEF LockInv, FramesApart
<1>4. \A x \in Targets : LoopHolds(x)' <=> (x = t \/ LoopHolds(x))
  BY DEF LoopHolds, Locked
<1>5. \A w \in Wakers, x \in Targets : WakeHolds(w, x)' <=> WakeHolds(w, x)
  BY DEF WakeHolds, WakesRest, Subject
<1>6. \A x \in Targets : acting'[x] = IF x = t THEN Loop ELSE acting[x]
  BY <1>1
<1>7. LockDiscipline'
  BY <1>2, <1>4, <1>5, <1>6, ProcsAssumption DEF LockInv, LockDiscipline
<1> QED BY <1>3, <1>7 DEF LockInv

\* The loop lets go of the lock it works under and turns away.
LEMMA LoopUnlocks ==
  ASSUME TypeInv, LockInv, WakesRest, UNCHANGED held, Subject(Loop) \in Targets,
         Unlock(Subject(Loop)), pc[Loop] \in Locked, pc'[Loop] \notin Locked
  PROVE  LockInv'
<1> DEFINE t == Subject(Loop)
<1>1. /\ acting \in [Targets -> Procs \union {NoOne}]
      /\ acting' = [acting EXCEPT ![t] = NoOne]
  BY DEF TypeInv, TypeOK, PlaceTypeOK, Unlock
<1>2. \A i \in DOMAIN held : held[i].target # t
  BY DEF LockInv, FramesApart
<1>3. FramesApart'
  BY DEF LockInv, FramesApart
<1>4. \A x \in Targets : LoopHolds(x)' <=> (x # t /\ LoopHolds(x))
  BY <1>2 DEF LoopHolds, Locked
<1>5. \A w \in Wakers, x \in Targets : WakeHolds(w, x)' <=> WakeHolds(w, x)
  BY DEF WakeHolds, WakesRest, Subject
<1>6. LoopHolds(t)
  BY DEF LoopHolds, Locked
<1>7. \A x \in Targets : acting'[x] = IF x = t THEN NoOne ELSE acting[x]
  BY <1>1
<1>8. LockDiscipline'
  BY <1>4, <1>5, <1>6, <1>7, ProcsAssumption DEF LockInv, LockDiscipline
<1> QED BY <1>3, <1>8 DEF LockInv

\* The loop has stopped t and keeps its lock while it frees others.
LEMMA LoopKeepsLock ==
  ASSUME TypeInv, LockInv, WakesRest, UNCHANGED acting, pc[Loop] \in Locked,
         pc'[Loop] \notin Locked, NEW r,
         held' = Append(held, [target |-> Subject(Loop), rest |-> r])
  PROVE  LockInv'
<1> DEFINE t == Subject(Loop)
<1>1. held \in Seq(Frames)
  BY DEF TypeInv, TypeOK, PlaceTypeOK
<1>2. \A i \in DOMAIN held : held[i].target # t
  BY DEF LockInv, FramesApart
<1>3. /\ DOMAIN held' = DOMAIN held \union {Len(held) + 1}
      /\ \A i \in DOMAIN held : held'[i] = held[i] /\ i # Len(held) + 1
      /\ held'[Len(held) + 1].target = t
  BY <1>1
<1>4. FramesApart'
  BY <1>2, <1>3 DEF LockInv, FramesApart
<1>5. \A x \in Targets : LoopHolds(x)' <=> LoopHolds(x)
  BY <1>3 DEF LoopHolds, Locked
<1>6. \A w \in Wakers, x \in Targets : WakeHolds(w, x)' <=> WakeHolds(w, x)
  BY DEF WakeHolds, WakesRest, Subject
<1>7. LockDiscipline'
  BY <1>5, <1>6 DEF LockInv, LockDiscipline
<1> QED BY <1>4, <1>7 DEF LockInv

\* It has freed what it could: the last stop it did is dropped from those held.
LEMMA LastDropped ==
  ASSUME TypeInv, StopReturns
  PROVE  /\ Len(held) \in DOMAIN held /\ Last(held).target \in Targets
         /\ Last(held) = held[Len(held)]
         /\ DOMAIN held' = DOMAIN held \ {Len(held)}
         /\ \A i \in DOMAIN held' : held'[i] = held[i]
<1> DEFINE n == Len(held)
<1>1. held \in Seq(Frames) /\ held # << >> /\ Last(held) = held[n]
  BY DEF TypeInv, TypeOK, PlaceTypeOK, StopReturns, Last
<1>2. n \in DOMAIN held /\ held[n].target \in Targets
  <2>1. n \in DOMAIN held /\ held[n] \in Frames
    BY <1>1
  <2> HIDE DEF n
  <2> QED BY <2>1 DEF Frames
<1>3. held' = SubSeq(held, 1, n - 1)
  BY DEF StopReturns, Front
<1>4. DOMAIN held = 1..n /\ n \in Nat
  BY <1>1
<1>5. DOMAIN held' = 1..(n - 1) /\ \A i \in 1..(n - 1) : held'[i] = held[i]
  BY <1>1, <1>3, <1>4
<1> QED BY <1>1, <1>2, <1>4, <1>5

\* It lets the lock of that stop go.
LEMMA LoopLetsGo ==
  ASSUME TypeInv, LockInv, StopReturns
  PROVE  LockInv'
<1> DEFINE n == Len(held)
           t == held[n].target
<1>1. /\ acting \in [Targets -> Procs \union {NoOne}]
      /\ rest \in [Procs -> Seq(Targets)]
  BY DEF TypeInv, TypeOK, PlaceTypeOK
<1>2. n \in DOMAIN held /\ t \in Targets
  BY LastDropped
<1>3. /\ DOMAIN held' = DOMAIN held \ {n}
      /\ \A i \in DOMAIN held' : held'[i] = held[i]
  BY LastDropped
<1>4. acting' = [acting EXCEPT ![t] = NoOne]
  BY DEF StopReturns, Unlock, Last
<1>5. pc[Loop] = "next" /\ pc' = pc
  BY DEF StopReturns
<1>6. \A i \in DOMAIN held' : held'[i].target # t
  BY <1>2, <1>3 DEF LockInv, FramesApart
<1>7. FramesApart'
  BY <1>3, <1>5 DEF LockInv, FramesApart, Locked
<1>8. \A x \in Targets : LoopHolds(x)' <=> (x # t /\ LoopHolds(x))
  BY <1>2, <1>3, <1>5, <1>6 DEF LoopHolds
<1>9. \A w \in Wakers, x \in Targets : WakeHolds(w, x)' <=> WakeHolds(w, x)
  <2>1. \A w \in Wakers : rest'[w] = rest[w]
    BY <1>1, ProcsAssumption DEF StopReturns, Procs
  <2> QED BY <1>5, <2>1 DEF WakeHolds, Subject
<1>10. LoopHolds(t)
  BY <1>2 DEF LoopHolds
<1>11. \A x \in Targets : acting'[x] = IF x = t THEN NoOne ELSE acting[x]
  BY <1>1, <1>4
<1>12. LockDiscipline'
  BY <1>8, <1>9, <1>10, <1>11, ProcsAssumption DEF LockInv, LockDiscipline
<1> QED BY <1>7, <1>12 DEF LockInv

\* The loop and the other wakes are where they were when w makes a step.
OthersRest(w) ==
  /\ UNCHANGED held /\ pc'[Loop] = pc[Loop] /\ rest'[Loop] = rest[Loop]
  /\ \A v \in Wakers \ {w} : pc'[v] = pc[v] /\ rest'[v] = rest[v]

\* A wake takes a free lock to raise its subject under it.
LEMMA WakeLocks ==
  ASSUME TypeInv, LockInv, NEW w \in Wakers, OthersRest(w), Subject(w) \in Targets,
         Lock(w, Subject(w)), pc[w] \notin Raising, pc'[w] \in Raising, rest'[w] = rest[w]
  PROVE  LockInv'
<1> DEFINE t == Subject(w)
<1>1. /\ acting \in [Targets -> Procs \union {NoOne}]
      /\ acting[t] = NoOne /\ acting' = [acting EXCEPT ![t] = w]
  BY DEF TypeInv, TypeOK, PlaceTypeOK, Lock
<1>2. ~LoopHolds(t) /\ \A v \in Wakers : ~WakeHolds(v, t)
  BY <1>1, ProcsAssumption DEF LockInv, LockDiscipline
<1>3. FramesApart'
  BY DEF LockInv, FramesApart, OthersRest, Subject
<1>4. \A x \in Targets : LoopHolds(x)' <=> LoopHolds(x)
  BY DEF LoopHolds, OthersRest, Subject
<1>5. \A x \in Targets : /\ WakeHolds(w, x)' <=> x = t
                         /\ ~WakeHolds(w, x)
                         /\ \A v \in Wakers \ {w} : WakeHolds(v, x)' <=> WakeHolds(v, x)
  BY DEF WakeHolds, OthersRest, Raising, Subject
<1>6. \A x \in Targets : acting'[x] = IF x = t THEN w ELSE acting[x]
  BY <1>1
<1>7. LockDiscipline'
  BY <1>2, <1>4, <1>5, <1>6, ProcsAssumption DEF LockInv, LockDiscipline
<1> QED BY <1>3, <1>7 DEF LockInv

\* A wake lets go of the lock it works under.
LEMMA WakeUnlocks ==
  ASSUME TypeInv, LockInv, NEW w \in Wakers, OthersRest(w), Subject(w) \in Targets,
         Unlock(Subject(w)), pc[w] \in Raising, pc'[w] \notin Raising
  PROVE  LockInv'
<1> DEFINE t == Subject(w)
<1>1. /\ acting \in [Targets -> Procs \union {NoOne}]
      /\ acting' = [acting EXCEPT ![t] = NoOne]
  BY DEF TypeInv, TypeOK, PlaceTypeOK, Unlock
<1>2. WakeHolds(w, t) /\ acting[t] = w
  BY DEF WakeHolds, Raising, LockInv, LockDiscipline
<1>3. FramesApart'
  BY DEF LockInv, FramesApart, OthersRest, Subject
<1>4. \A x \in Targets : LoopHolds(x)' <=> LoopHolds(x)
  BY DEF LoopHolds, OthersRest, Subject
<1>5. \A x \in Targets : /\ WakeHolds(w, x) <=> x = t
                         /\ ~WakeHolds(w, x)'
                         /\ \A v \in Wakers \ {w} : WakeHolds(v, x)' <=> WakeHolds(v, x)
  BY DEF WakeHolds, OthersRest, Raising, Subject
<1>6. \A x \in Targets : acting'[x] = IF x = t THEN NoOne ELSE acting[x]
  BY <1>1
<1>7. LockDiscipline'
  BY <1>2, <1>4, <1>5, <1>6, ProcsAssumption DEF LockInv, LockDiscipline
<1> QED BY <1>3, <1>7 DEF LockInv

-----------------------------------------------------------------------------
\* Labels and lists are kept per goroutine, so no step of one moves another.
LEMMA Apart ==
  ASSUME TypeInv
  PROVE  /\ DOMAIN pc = Procs /\ pc = [p \in Procs |-> pc[p]]
         /\ DOMAIN rest = Procs /\ rest = [p \in Procs |-> rest[p]]
         /\ Loop \in Procs /\ \A w \in Wakers : w \in Procs /\ w # Loop
  BY ProcsAssumption DEF TypeInv, TypeOK, PlaceTypeOK, Procs

LEMMA LoopKeepsLocks == TypeInv /\ LockInv /\ LoopNext => LockInv'
<1> SUFFICES ASSUME TypeInv, LockInv, LoopNext PROVE LockInv'
  OBVIOUS
<1>m. /\ DOMAIN pc = Procs /\ pc = [p \in Procs |-> pc[p]]
      /\ DOMAIN rest = Procs /\ rest = [p \in Procs |-> rest[p]]
      /\ Loop \in Procs /\ \A w \in Wakers : w \in Procs /\ w # Loop
  BY Apart
<1>1. CASE StartPass \/ SweepAsk \/ SweepHear \/ SweepEnds \/ AskSignal \/ SignalsAsked
           \/ PassEnds
  <2>1. UNCHANGED <<acting, held>> /\ pc[Loop] \notin Locked /\ pc'[Loop] \notin Locked /\ WakesRest
    BY <1>1, <1>m DEF Goto, StartPass, SweepAsk, Ask, SweepHear, SweepEnds, AskSignal, SignalsAsked,
                      PassEnds, Locked, WakesRest
  <2> QED BY <2>1, NothingLocked DEF LoopRests, WakesRest
<1>2. CASE StopReturns
  BY <1>2, LoopLetsGo
<1>3. ASSUME NEW t \in Targets, ConsiderRefused(t) \/ ConsiderBegins(t) \/ AllAgree(t)
      PROVE  LockInv'
  <2>1. UNCHANGED <<acting, held>> /\ pc[Loop] \notin Locked /\ pc'[Loop] \notin Locked /\ WakesRest
    BY <1>3, <1>m DEF Goto, ConsiderRefused, ConsiderBegins, AllAgree, Considering, Return, Locked,
                      WakesRest
  <2> QED BY <2>1, NothingLocked DEF LoopRests, WakesRest
<1>4. ASSUME NEW t \in Targets, LockToStop(t) PROVE LockInv'
  <2>1. /\ UNCHANGED <<held, rest>> /\ Lock(Loop, t) /\ t = Subject(Loop)
        /\ pc[Loop] \notin Locked /\ pc'[Loop] \in Locked /\ WakesRest
    BY <1>4, <1>m DEF Goto, LockToStop, Locked, WakesRest
  <2> QED BY <2>1, LoopLocks DEF Subject
<1>5. ASSUME NEW t \in Targets, LookAgain(t) \/ DecideStop(t) \/ OrderDown(t) PROVE LockInv'
  <2>1. /\ UNCHANGED <<acting, held, rest>> /\ WakesRest
        /\ pc[Loop] \in Locked /\ pc'[Loop] \in Locked
    BY <1>5, <1>m DEF Goto, LookAgain, Ask, DecideStop, OrderDown, Locked, WakesRest
  <2> QED BY <2>1, NothingLocked DEF LoopRests, WakesRest
<1>6. ASSUME NEW t \in Targets, LookedAgain(t) \/ RecheckUptime(t) \/ StopFailed(t)
                               \/ Condition(t, "fresh", TRUE)
      PROVE  LockInv'
  <2>1. /\ pc[Loop] \in Locked /\ t = Subject(Loop) /\ UNCHANGED held
        /\ \/ UNCHANGED <<acting, rest>> /\ pc'[Loop] \in Locked /\ WakesRest
           \/ Unlock(t) /\ Return
    BY <1>6, <1>m DEF Goto, LookedAgain, RecheckUptime, StopFailed, Condition, Locked, WakesRest
  <2>2. CASE Unlock(t) /\ Return
    <3>1. pc'[Loop] \notin Locked /\ WakesRest
      BY <2>2, <1>m DEF Goto, Return, Locked, WakesRest
    <3> QED BY <2>1, <2>2, <3>1, LoopUnlocks
  <2> QED BY <2>1, <2>2, NothingLocked DEF LoopRests, WakesRest
<1>7. ASSUME NEW t \in Targets, Condition(t, "cond", FALSE) PROVE LockInv'
  <2>1. UNCHANGED <<acting, held>> /\ pc[Loop] \notin Locked /\ pc'[Loop] \notin Locked /\ WakesRest
    BY <1>7, <1>m DEF Goto, Condition, Return, Locked, WakesRest
  <2> QED BY <2>1, NothingLocked DEF LoopRests, WakesRest
<1>8. ASSUME NEW t \in Targets, StopDone(t) PROVE LockInv'
  <2>1. /\ UNCHANGED acting /\ pc[Loop] \in Locked /\ pc'[Loop] \notin Locked /\ WakesRest
        /\ held' = Append(held, [target |-> Subject(Loop), rest |-> Tail(rest[Loop])])
    BY <1>8, <1>m DEF Goto, StopDone, Locked, WakesRest
  <2> QED BY <2>1, LoopKeepsLock
<1> QED BY <1>1, <1>2, <1>3, <1>4, <1>5, <1>6, <1>7, <1>8
        DEF LoopNext, StopStep, AskCached, AskFresh

LEMMA WakeKeepsLocks ==
  ASSUME TypeInv, LockInv, NEW w \in Wakers, WakeNext(w)
  PROVE  LockInv'
<1>m. /\ DOMAIN pc = Procs /\ pc = [p \in Procs |-> pc[p]]
      /\ DOMAIN rest = Procs /\ rest = [p \in Procs |-> rest[p]]
      /\ Loop \in Procs /\ \A v \in Wakers : v \in Procs /\ v # Loop
  BY Apart
<1>1. CASE \/ \E t \in Targets : Call(w, t)
           \/ WakeReturns(w) \/ WakeHandsOff(w) \/ WakeAsk(w) \/ WakeAsked(w)
  <2>1. UNCHANGED acting /\ OthersRest(w) /\ pc[w] \notin Raising /\ pc'[w] \notin Raising
    BY <1>1, <1>m DEF Goto, Call, WakeReturns, WakeHandsOff, WakeAsk, Ask, WakeAsked, StepOn, Raising,
                      OthersRest
  <2> QED BY <2>1, NothingLocked DEF LoopRests, OthersRest
<1>2. CASE WakeLook(w) \/ AwaitAsk(w)
  <2>1. UNCHANGED <<acting, rest>> /\ OthersRest(w) /\ pc[w] \in Raising /\ pc'[w] \in Raising
    BY <1>2, <1>m DEF Goto, WakeLook, AwaitAsk, Ask, Raising, OthersRest
  <2> QED BY <2>1, NothingLocked DEF LoopRests, OthersRest
<1>3. CASE LockToRaise(w)
  <2>1. /\ OthersRest(w) /\ Lock(w, Subject(w)) /\ rest'[w] = rest[w]
        /\ pc[w] \notin Raising /\ pc'[w] \in Raising
    BY <1>3, <1>m DEF Goto, LockToRaise, Raising, OthersRest
  <2>2. Subject(w) \in Targets
    BY <1>3, Waking DEF LockToRaise, TypeInv, WellPlaced
  <2> QED BY <2>1, <2>2, WakeLocks
<1>4. CASE WakeLooked(w) \/ OrderUp(w) \/ Awaited(w)
  <2>1. pc[w] \in Raising /\ Subject(w) \in Targets
    BY <1>4, Waking DEF WakeLooked, OrderUp, Awaited, Raising, TypeInv, WellPlaced
  <2>2. /\ OthersRest(w)
        /\ \/ UNCHANGED <<acting, rest>> /\ pc'[w] \in Raising
           \/ Unlock(Subject(w)) /\ pc'[w] \notin Raising
    BY <1>4, <1>m DEF Goto, WakeLooked, OrderUp, Awaited, StepOn, Raising, OthersRest
  <2>3. CASE Unlock(Subject(w)) /\ pc'[w] \notin Raising
    BY <2>1, <2>2, <2>3, WakeUnlocks
  <2> QED BY <2>1, <2>2, <2>3, NothingLocked DEF LoopRests, OthersRest
<1> QED BY <1>1, <1>2, <1>3, <1>4 DEF WakeNext

LEMMA LocksKept == TypeInv /\ LockInv /\ [Next]_vars => LockInv'
<1> SUFFICES ASSUME TypeInv, LockInv, [Next]_vars PROVE LockInv'
  OBVIOUS
<1>1. CASE UNCHANGED procVars
  BY <1>1, NothingLocked DEF procVars, LoopRests
<1> QED BY <1>1, LoopKeepsLocks, WakeKeepsLocks DEF Next, vars

\* No two of the goroutines are ever at work on the same target: whatever the
\* fleet and however many wakes, the lock of a target is held by exactly the
\* one that is between taking it and letting go, in a stop, in the
\* consideration a stop leads to, or in a wake.
THEOREM OneOwner == Spec => []LockDiscipline
<1>1. LockInv => LockDiscipline
  BY DEF LockInv
<1> QED BY <1>1, LocksKept, TypeInit, NextKeepsType, LockInit, PTL DEF Spec

-----------------------------------------------------------------------------
(***************************************************************************)
(* II. The loop takes a second lock while it holds the first, and a mutex  *)
(* of Go is not reentrant.  If no chain of then_consider comes back to     *)
(* where it began, the loop never waits for a lock it holds itself.        *)
(***************************************************************************)

\* A stop of d makes the loop consider t.
Frees(d, t) == d \in Downs /\ \E i \in DOMAIN ThenConsider[d] : ThenConsider[d][i] = t

\* then_consider goes round: some targets are each freed by one of them.
Circle == \E S \in SUBSET Targets : S # {} /\ \A t \in S : \E d \in S : Frees(d, t)

AllFreedBy(d, list) == \A i \in DOMAIN list : Frees(d, list[i])

\* The stops whose locks are kept led one to the next, and the last of them to
\* what the loop considers now.
WayInv ==
  /\ held # << >> => pc[Loop] \in InConsider \union {"next"}
  /\ held # << >> => AllFreedBy(held[Len(held)].target, rest[Loop])
  /\ \A i \in DOMAIN held : i > 1 =>
       /\ Frees(held[i - 1].target, held[i].target)
       /\ AllFreedBy(held[i - 1].target, held[i].rest)

-----------------------------------------------------------------------------
LEMMA WayInit == Init => WayInv
<1> SUFFICES ASSUME Init PROVE WayInv
  OBVIOUS
<1>1. held = << >>
  BY DEF Init
<1>2. DOMAIN held = {}
  BY <1>1
<1> QED BY <1>1, <1>2 DEF WayInv

\* A list that is freed by d stays so when its head is dealt with.
LEMMA TailFreed ==
  ASSUME NEW s \in Seq(Targets), s # << >>, NEW d, AllFreedBy(d, s)
  PROVE  AllFreedBy(d, Tail(s)) /\ Frees(d, Head(s))
<1>1. \A i \in DOMAIN Tail(s) : i + 1 \in DOMAIN s /\ Tail(s)[i] = s[i + 1]
  OBVIOUS
<1>2. 1 \in DOMAIN s /\ Head(s) = s[1]
  OBVIOUS
<1> QED BY <1>1, <1>2 DEF AllFreedBy

\* No stop has been done yet in this pass, and none is being recorded.
LEMMA NoStopYet ==
  ASSUME WayInv, UNCHANGED held, pc[Loop] \notin InConsider \union {"next"}
  PROVE  WayInv'
BY DEF WayInv

\* The loop goes on with its subject, or somebody else makes a step.
LEMMA SameSubject ==
  ASSUME WayInv, UNCHANGED held, rest'[Loop] = rest[Loop],
         pc'[Loop] = pc[Loop] \/ pc'[Loop] \in InConsider \union {"next"}
  PROVE  WayInv'
BY DEF WayInv

\* considerDown returns from its subject.
LEMMA NextSubject ==
  ASSUME TypeInv, WayInv, UNCHANGED held, rest[Loop] # << >>, Return
  PROVE  WayInv'
<1>1. /\ rest[Loop] \in Seq(Targets)
      /\ rest'[Loop] = Tail(rest[Loop]) /\ pc'[Loop] = "next"
  BY Apart DEF Return, Goto, TypeInv, TypeOK, PlaceTypeOK
<1>2. held # << >> => AllFreedBy(held[Len(held)].target, Tail(rest[Loop]))
  BY <1>1, TailFreed DEF WayInv
<1> QED BY <1>1, <1>2 DEF WayInv

\* A stop is recorded: it was led to by the one before it, and leads to what
\* it may have freed.
LEMMA StopRecorded ==
  ASSUME TypeInv, WayInv, NEW t \in Targets, StopDone(t)
  PROVE  WayInv'
<1> DEFINE n == Len(held)
           f == [target |-> t, rest |-> Tail(rest[Loop])]
<1>1. /\ held \in Seq(Frames) /\ rest[Loop] \in Seq(Targets) /\ rest[Loop] # << >>
      /\ t = Head(rest[Loop]) /\ t \in Downs
  BY Apart DEF TypeInv, TypeOK, PlaceTypeOK, WellPlaced, InConsider, StopDone, Subject
<1>2. /\ held' = Append(held, f) /\ rest'[Loop] = ThenConsider[t] /\ pc'[Loop] = "next"
  BY Apart DEF StopDone, Goto
<1>3. /\ n \in Nat /\ Len(held') = n + 1 /\ DOMAIN held' = 1..(n + 1) /\ DOMAIN held = 1..n
      /\ held'[n + 1] = f /\ \A i \in 1..n : held'[i] = held[i]
  <2> HIDE DEF f
  <2> QED BY <1>1, <1>2
<1>4. AllFreedBy(t, ThenConsider[t])
  BY <1>1 DEF AllFreedBy, Frees
<1>5. n >= 1 => Frees(held[n].target, t) /\ AllFreedBy(held[n].target, Tail(rest[Loop]))
  <2> SUFFICES ASSUME n >= 1
               PROVE  Frees(held[n].target, t) /\ AllFreedBy(held[n].target, Tail(rest[Loop]))
    OBVIOUS
  <2>1. AllFreedBy(held[n].target, rest[Loop])
    BY <1>3 DEF WayInv
  <2> QED BY <1>1, <2>1, TailFreed
<1>6. f.target = t /\ f.rest = Tail(rest[Loop])
  OBVIOUS
<1> HIDE DEF f, n
<1>7. AllFreedBy(held'[n + 1].target, rest'[Loop])
  BY <1>2, <1>3, <1>4, <1>6
<1>8. ASSUME NEW i \in 1..(n + 1), i > 1
      PROVE  /\ Frees(held'[i - 1].target, held'[i].target)
             /\ AllFreedBy(held'[i - 1].target, held'[i].rest)
  <2>1. CASE i \in 1..n
    <3>1. i - 1 \in 1..n /\ i \in DOMAIN held /\ i > 1
      BY <1>3, <1>8, <2>1
    <3> QED BY <1>3, <2>1, <3>1 DEF WayInv
  <2>2. CASE i = n + 1
    <3>1. n \in 1..n /\ i - 1 = n /\ n >= 1
      BY <1>3, <1>8, <2>2
    <3> QED BY <1>3, <1>5, <1>6, <2>2, <3>1
  <2> QED BY <1>3, <1>8, <2>1, <2>2
<1> QED BY <1>2, <1>3, <1>7, <1>8 DEF WayInv

\* The loop has freed what it could and goes on where that stop was decided.
LEMMA StopDropped ==
  ASSUME TypeInv, WayInv, StopReturns
  PROVE  WayInv'
<1> DEFINE n == Len(held)
<1>1. /\ held \in Seq(Frames) /\ n \in Nat /\ DOMAIN held = 1..n
      /\ n \in DOMAIN held /\ Last(held) = held[n]
      /\ DOMAIN held' = DOMAIN held \ {n}
      /\ \A i \in DOMAIN held' : held'[i] = held[i]
  BY LastDropped DEF TypeInv, TypeOK, PlaceTypeOK
<1>2. /\ pc[Loop] = "next" /\ pc' = pc /\ rest'[Loop] = held[n].rest
      /\ held' = Front(held)
  BY Apart, <1>1 DEF StopReturns
<1>3. Len(held') = n - 1
  BY <1>1, <1>2 DEF Front
<1>4. held' # << >> => n - 1 \in DOMAIN held' /\ n > 1
  <2>1. held' = SubSeq(held, 1, n - 1)
    BY <1>2 DEF Front
  <2> HIDE DEF n
  <2>2. n = 1 => held' = << >>
    BY <1>1, <2>1
  <2> QED BY <1>1, <2>2
<1> HIDE DEF n
<1>5. held' # << >> => AllFreedBy(held'[Len(held')].target, rest'[Loop])
  <2> SUFFICES ASSUME held' # << >>
               PROVE  AllFreedBy(held'[Len(held')].target, rest'[Loop])
    OBVIOUS
  <2>1. held'[Len(held')] = held[n - 1] /\ n > 1
    BY <1>1, <1>3, <1>4
  <2>2. AllFreedBy(held[n - 1].target, held[n].rest)
    BY <1>1, <2>1 DEF WayInv
  <2> QED BY <1>2, <2>1, <2>2
<1>6. ASSUME NEW i \in DOMAIN held', i > 1
      PROVE  /\ Frees(held'[i - 1].target, held'[i].target)
             /\ AllFreedBy(held'[i - 1].target, held'[i].rest)
  <2>1. i \in DOMAIN held /\ i - 1 \in DOMAIN held'
    BY <1>1, <1>6
  <2> QED BY <1>1, <1>6, <2>1 DEF WayInv
<1> QED BY <1>2, <1>5, <1>6 DEF WayInv

-----------------------------------------------------------------------------
LEMMA LoopKeepsWay == TypeInv /\ WayInv /\ LoopNext => WayInv'
<1> SUFFICES ASSUME TypeInv, WayInv, LoopNext PROVE WayInv'
  OBVIOUS
<1>1. CASE StartPass \/ SweepAsk \/ SweepHear \/ SweepEnds \/ AskSignal \/ SignalsAsked
  BY <1>1, NoStopYet
     DEF StartPass, SweepAsk, Ask, SweepHear, SweepEnds, AskSignal, SignalsAsked, InConsider
<1>2. CASE StopReturns
  BY <1>2, StopDropped
<1>3. CASE PassEnds
  BY <1>3 DEF PassEnds, WayInv
<1>4. ASSUME NEW t \in Targets, ConsiderRefused(t)
      PROVE  WayInv'
  BY <1>4, NextSubject DEF ConsiderRefused, Considering
<1>5. ASSUME NEW t \in Targets,
             ConsiderBegins(t) \/ LockToStop(t) \/ LookAgain(t) \/ DecideStop(t) \/ OrderDown(t)
      PROVE  WayInv'
  <2>1. UNCHANGED <<held, rest>> /\ pc'[Loop] \in InConsider
    BY <1>5, Apart DEF ConsiderBegins, LockToStop, LookAgain, Ask, DecideStop, OrderDown, Goto,
                       InConsider
  <2> QED BY <2>1, SameSubject
<1>6. ASSUME NEW t \in Targets, AllAgree(t) \/ LookedAgain(t) \/ RecheckUptime(t)
                 \/ StopFailed(t) \/ Condition(t, "cond", FALSE) \/ Condition(t, "fresh", TRUE)
      PROVE  WayInv'
  <2>1. UNCHANGED held /\ rest[Loop] # << >>
    BY <1>6 DEF AllAgree, LookedAgain, RecheckUptime, StopFailed, Condition, TypeInv, WellPlaced,
                InConsider
  <2>2. \/ Return
        \/ UNCHANGED rest /\ (pc'[Loop] = pc[Loop] \/ pc'[Loop] \in InConsider)
    BY <1>6, Apart DEF AllAgree, LookedAgain, RecheckUptime, StopFailed, Condition, Goto, InConsider
  <2> QED BY <2>1, <2>2, NextSubject, SameSubject
<1>7. ASSUME NEW t \in Targets, StopDone(t) PROVE WayInv'
  BY <1>7, StopRecorded
<1> QED BY <1>1, <1>2, <1>3, <1>4, <1>5, <1>6, <1>7 DEF LoopNext, StopStep, AskCached, AskFresh

LEMMA WayKept == TypeInv /\ WayInv /\ [Next]_vars => WayInv'
<1> SUFFICES ASSUME TypeInv, WayInv, [Next]_vars PROVE WayInv'
  OBVIOUS
<1>1. CASE UNCHANGED procVars
  BY <1>1, SameSubject DEF procVars
<1>2. ASSUME NEW w \in Wakers, WakeNext(w) PROVE WayInv'
  <2>1. UNCHANGED held /\ pc'[Loop] = pc[Loop] /\ rest'[Loop] = rest[Loop]
    BY <1>2, Apart DEF WakeNext, Call, WakeReturns, WakeHandsOff, WakeAsk, Ask, WakeAsked, LockToRaise,
                       WakeLook, WakeLooked, OrderUp, AwaitAsk, Awaited, StepOn, Goto
  <2> QED BY <2>1, SameSubject
<1> QED BY <1>1, <1>2, LoopKeepsWay DEF Next, vars

\* A target the loop holds and comes back to is on a circle: the stops done
\* since it was stopped, each led to by the one before, the first by the last.
LEMMA BackMeansCircle ==
  ASSUME TypeInv, LockInv, WayInv, pc[Loop] = "lock", acting[Subject(Loop)] = Loop
  PROVE  Circle
<1> DEFINE t == Subject(Loop)
           n == Len(held)
<1>1. /\ held \in Seq(Frames) /\ n \in Nat /\ DOMAIN held = 1..n
      /\ rest[Loop] \in Seq(Targets) /\ rest[Loop] # << >> /\ t \in Targets
  BY Apart DEF TypeInv, TypeOK, PlaceTypeOK, WellPlaced, InConsider, Subject
<1>2. PICK i \in DOMAIN held : held[i].target = t
  BY <1>1 DEF LockInv, LockDiscipline, LoopHolds
<1>3. Frees(held[n].target, t)
  <2>1. held # << >>
    BY <1>1, <1>2
  <2> QED BY <1>1, <2>1, TailFreed DEF WayInv, Subject
<1> HIDE DEF t, n
<1> DEFINE S == {held[j].target : j \in i..n}
<1>4. S \in SUBSET Targets /\ S # {}
  <2>1. \A j \in DOMAIN held : held[j] \in Frames
    BY <1>1
  <2>2. \A j \in i..n : j \in DOMAIN held
    BY <1>1
  <2>3. i \in i..n
    BY <1>1
  <2> QED BY <2>1, <2>2, <2>3 DEF Frames
<1>5. ASSUME NEW j \in i..n PROVE \E d \in S : Frees(d, held[j].target)
  <2>1. CASE j = i
    <3>1. n \in i..n
      BY <1>1
    <3> QED BY <1>2, <1>3, <2>1, <3>1
  <2>2. CASE j # i
    <3>1. j \in DOMAIN held /\ j > 1 /\ j - 1 \in i..n
      BY <1>1, <1>5, <2>2
    <3>2. Frees(held[j - 1].target, held[j].target)
      BY <3>1 DEF WayInv
    <3> QED BY <3>1, <3>2
  <2> QED BY <2>1, <2>2
<1> QED BY <1>4, <1>5 DEF Circle

\* Where then_consider does not go round in a circle, considerDown may take
\* its locks one inside the other without ever waiting for itself, for any
\* fleet, any durations and however long the wakes keep their locks.
THEOREM NeverWaitsForItself == ~Circle => (Spec => []LoopNeverWaitsForItself)
<1> SUFFICES ASSUME ~Circle PROVE Spec => []LoopNeverWaitsForItself
  OBVIOUS
<1>1. TypeInv /\ LockInv /\ WayInv => LoopNeverWaitsForItself
  BY BackMeansCircle DEF LoopNeverWaitsForItself
<1> QED BY <1>1, TypeInit, NextKeepsType, LockInit, LocksKept, WayInit, WayKept, PTL DEF Spec

-----------------------------------------------------------------------------
(***************************************************************************)
(* III. The engine acts upon its targets in turns, for every fleet and     *)
(* however many wakes: what the board says is pending is what the owner of *)
(* the target's lock has announced and not finished.                       *)
(***************************************************************************)

TurnInv == TypeInv /\ LockInv /\ PendingExact

\* The step does nothing to the turn of x ...
SameTurn(x) ==
  /\ acting'[x] = acting[x]
  /\ acting[x] = Loop => /\ Stopping(x)' <=> Stopping(x)
                         /\ Stopped(x)' <=> Stopped(x)
  /\ \A w \in Wakers : acting[x] = w => /\ pc'[w] = "up" <=> pc[w] = "up"
                                        /\ pc'[w] \in {"await", "awaited"} <=>
                                             pc[w] \in {"await", "awaited"}

\* ... and nothing to what is announced of x.
SameWord(x) ==
  /\ pending'[x] = pending[x]
  /\ Stopping(x)' <=> Stopping(x)
  /\ \A w \in Wakers : pc'[w] = "up" /\ x = Subject(w)' <=> pc[w] = "up" /\ x = Subject(w)

\* The step may be part of the turn of t and of no other.
AloneOn(t) == \A x \in Targets \ {t} : SameTurn(x) /\ SameWord(x)

LEMMA StageKept ==
  ASSUME TypeInv, NEW x \in Targets, SameTurn(x)
  PROVE  Stage(x)' = Stage(x)
<1>1. acting[x] \in Procs \union {NoOne} /\ acting'[x] = acting[x]
  BY DEF TypeInv, TypeOK, PlaceTypeOK, SameTurn
<1>2. CASE acting[x] = NoOne
  BY <1>1, <1>2 DEF Stage
<1>3. CASE acting[x] = Loop
  BY <1>1, <1>3, ProcsAssumption DEF Stage, StopStage, SameTurn
<1>4. ASSUME NEW w \in Wakers, acting[x] = w
      PROVE  Stage(x)' = Stage(x)
  BY <1>1, <1>4, ProcsAssumption DEF Stage, RaiseStage, SameTurn
<1> QED BY <1>1, <1>2, <1>3, <1>4 DEF Procs

LEMMA WordKept ==
  ASSUME NEW x \in Targets, ExactOn(x), SameWord(x)
  PROVE  ExactOn(x)'
BY DEF ExactOn, SameWord

\* A step outside every turn.
LEMMA QuietStep ==
  ASSUME TypeInv, PendingExact, acting' = acting, pending' = pending,
         \A x \in Targets : SameTurn(x) /\ SameWord(x)
  PROVE  PendingExact' /\ UNCHANGED Turn!turnVars
<1>1. PendingExact'
  BY WordKept DEF PendingExact
<1>2. \A x \in Targets : Stage(x)' = Stage(x)
  BY StageKept
<1>3. [x \in Targets |-> Stage(x)]' = [x \in Targets |-> Stage(x)]
  BY <1>2
<1> QED BY <1>1, <1>3 DEF Turn!turnVars

\* A step in the turn of t: the stage of the others stays.
LEMMA StageOfOne ==
  ASSUME TypeInv, NEW t \in Targets, AloneOn(t)
  PROVE  [x \in Targets |-> Stage(x)]' = [[x \in Targets |-> Stage(x)] EXCEPT ![t] = Stage(t)']
<1>1. \A x \in Targets \ {t} : Stage(x)' = Stage(x)
  BY StageKept DEF AloneOn
<1> QED BY <1>1

LEMMA ExactButOne ==
  ASSUME PendingExact, NEW t \in Targets, AloneOn(t), ExactOn(t)'
  PROVE  PendingExact'
<1>1. \A x \in Targets \ {t} : ExactOn(x)'
  BY WordKept DEF AloneOn, PendingExact
<1> QED BY <1>1 DEF PendingExact

\* What is shown of a target nobody has announced an order for is nothing.
LEMMA NothingShown ==
  ASSUME TypeInv, NEW t \in Targets, ExactOn(t), ~Stopping(t),
         \A w \in Wakers : ~(pc[w] = "up" /\ t = Subject(w))
  PROVE  pending[t] = ""
BY DEF TypeInv, TypeOK, MemTypeOK, ExactOn

LEMMA Taken ==
  ASSUME TypeInv, PendingExact, NEW t \in Targets, NEW p \in Procs, AloneOn(t),
         Lock(p, t), pending' = pending, Stage(t)' = "looking", ExactOn(t)'
  PROVE  PendingExact' /\ Turn!Next
<1>1. Turn!Take(t, p)
  BY StageOfOne DEF Lock, Turn!Take
<1>2. p \in Wakers \union {Loop}
  BY DEF Procs
<1> QED BY <1>1, <1>2, ExactButOne DEF Turn!Next

LEMMA Announced ==
  ASSUME TypeInv, PendingExact, NEW t \in Targets, AloneOn(t), acting' = acting,
         Stage(t) = "looking", Stage(t)' = "announced",
         SetPending(t, Turn!Word(acting[t])), ExactOn(t)'
  PROVE  PendingExact' /\ Turn!Next
<1>1. Turn!Announce(t)
  BY StageOfOne DEF SetPending, Turn!Announce
<1> QED BY <1>1, ExactButOne DEF Turn!Next

LEMMA Ordered ==
  ASSUME TypeInv, PendingExact, NEW t \in Targets, AloneOn(t), acting' = acting,
         Stage(t) = "announced", Stage(t)' = "ordered",
         pending' = pending \/ SetPending(t, ""), ExactOn(t)'
  PROVE  PendingExact' /\ Turn!Next
<1>1. Turn!Order(t)
  BY StageOfOne DEF SetPending, Turn!Order
<1> QED BY <1>1, ExactButOne DEF Turn!Next

LEMMA Withdrawn ==
  ASSUME TypeInv, PendingExact, NEW t \in Targets, AloneOn(t), acting' = acting,
         Stage(t) = "ordered", Stage(t)' = "ordered", SetPending(t, ""), ExactOn(t)'
  PROVE  PendingExact' /\ Turn!Next
<1>1. [x \in Targets |-> Stage(x)]' = [x \in Targets |-> Stage(x)]
  BY StageOfOne
<1>2. Turn!Withdraw(t)
  BY <1>1 DEF SetPending, Turn!Withdraw
<1> QED BY <1>2, ExactButOne DEF Turn!Next

LEMMA Given ==
  ASSUME TypeInv, PendingExact, NEW t \in Targets, AloneOn(t), acting[t] \in Procs,
         Unlock(t), SetPending(t, ""), ExactOn(t)'
  PROVE  PendingExact' /\ Turn!Next
<1>1. acting \in [Targets -> Procs \union {NoOne}] /\ acting[t] # NoOne
  BY ProcsAssumption DEF TypeInv, TypeOK, PlaceTypeOK, Procs
<1>2. Stage(t) # "free"
  BY <1>1, ProcsAssumption DEF Stage, StopStage, RaiseStage, Procs
<1>3. Stage(t)' = "free"
  BY <1>1, ProcsAssumption DEF Unlock, Stage, StopStage, RaiseStage
<1>4. Turn!Give(t)
  BY <1>2, <1>3, StageOfOne DEF Unlock, SetPending, Turn!Give
<1> QED BY <1>4, ExactButOne DEF Turn!Next

\* Nothing was shown, so nothing need be withdrawn.
LEMMA GivenQuietly ==
  ASSUME TypeInv, PendingExact, NEW t \in Targets, AloneOn(t), acting[t] \in Procs,
         Unlock(t), pending' = pending, ~Stopping(t), ExactOn(t)',
         \A w \in Wakers : ~(pc[w] = "up" /\ t = Subject(w))
  PROVE  PendingExact' /\ Turn!Next
<1>1. pending \in [Targets -> {"", "stopping", "raising"}] /\ ExactOn(t)
  BY DEF TypeInv, TypeOK, MemTypeOK, PendingExact
<1>2. pending[t] = ""
  BY <1>1, NothingShown
<1>3. SetPending(t, "")
  BY <1>1, <1>2 DEF SetPending
<1> QED BY <1>3, Given

-----------------------------------------------------------------------------
(* The loop. *)

\* While the loop has the turn of t no wake is at t, and its other turns are
\* those of the stops it has done.
LEMMA LoopsTurn ==
  ASSUME TypeInv, LockInv, pc[Loop] \in Locked, NEW t, t = Subject(Loop), t \in Targets
  PROVE  /\ acting[t] = Loop
         /\ \A w \in Wakers : ~WakeHolds(w, t)
         /\ \A i \in DOMAIN held : held[i].target # t
<1>1. LoopHolds(t)
  BY DEF LoopHolds, Locked
<1>2. acting[t] = Loop
  BY <1>1 DEF LockInv, LockDiscipline
<1>3. \A w \in Wakers : ~WakeHolds(w, t)
  BY <1>2, ProcsAssumption DEF LockInv, LockDiscipline
<1> QED BY <1>2, <1>3 DEF LockInv, FramesApart

\* The wakes do not move and the loop, not about to stop before or after,
\* keeps its locks: for every target but those it takes or gives, nothing
\* changes.
LEMMA LoopAside ==
  ASSUME WakesRest, UNCHANGED <<held, pending>>, pc[Loop] \notin {"down", "downed"},
         pc'[Loop] \notin {"down", "downed"}, NEW x \in Targets
  PROVE  SameWord(x) /\ (acting'[x] = acting[x] => SameTurn(x))
BY DEF SameWord, SameTurn, WakesRest, Subject, Stopping, Stopped

LEMMA LoopGives ==
  ASSUME TurnInv, WakesRest, UNCHANGED <<held, pending>>, NEW t, t = Subject(Loop),
         t \in Targets, pc[Loop] \in Locked \ {"down", "downed"},
         pc'[Loop] \notin Locked, Unlock(t)
  PROVE  PendingExact' /\ Turn!Next
<1>1. /\ acting[t] = Loop /\ \A w \in Wakers : ~WakeHolds(w, t)
      /\ acting \in [Targets -> Procs \union {NoOne}]
  BY LoopsTurn DEF TurnInv, TypeInv, TypeOK, PlaceTypeOK
<1>2. pc[Loop] \notin {"down", "downed"} /\ pc'[Loop] \notin {"down", "downed"}
  BY DEF Locked
<1>3. AloneOn(t)
  BY <1>1, <1>2, LoopAside DEF AloneOn, Unlock
<1>4. ExactOn(t)'
  BY <1>2, LoopAside, WordKept DEF TurnInv, PendingExact
<1>5. ~Stopping(t) /\ \A w \in Wakers : ~(pc[w] = "up" /\ t = Subject(w))
  BY <1>1, <1>2 DEF Stopping, WakeHolds
<1> QED BY <1>1, <1>3, <1>4, <1>5, GivenQuietly DEF TurnInv, Procs

LEMMA LoopTakes ==
  ASSUME TurnInv, NEW t \in Targets, LockToStop(t)
  PROVE  PendingExact' /\ Turn!Next
<1>1. /\ UNCHANGED <<held, pending>> /\ Lock(Loop, t) /\ WakesRest /\ Loop \in Procs
      /\ pc[Loop] \notin {"down", "downed"} /\ pc'[Loop] = "look"
  BY Apart DEF TurnInv, LockToStop, Goto, memVars, WakesRest
<1>2. acting \in [Targets -> Procs \union {NoOne}]
  BY DEF TurnInv, TypeInv, TypeOK, PlaceTypeOK
<1>3. acting[t] = NoOne /\ acting' = [acting EXCEPT ![t] = Loop]
  BY <1>1 DEF Lock
<1>4. AloneOn(t) /\ ExactOn(t)'
  BY <1>1, <1>3, LoopAside, WordKept DEF AloneOn, TurnInv, PendingExact
<1>5. ~LoopHolds(t)
  BY <1>3, ProcsAssumption DEF TurnInv, LockInv, LockDiscipline
<1>6. ~Stopped(t)' /\ ~Stopping(t)'
  BY <1>1, <1>5 DEF LoopHolds, Stopped, Stopping
<1>7. Stage(t)' = "looking"
  <2>1. acting'[t] = Loop
    BY <1>2, <1>3
  <2> QED BY <2>1, <1>6, ProcsAssumption DEF Stage, StopStage
<1> QED BY <1>1, <1>4, <1>7, Taken DEF TurnInv

\* The three steps of the order to stop t, each in a turn of the loop.
LEMMA LoopOrders ==
  ASSUME TurnInv, NEW t \in Targets, DecideStop(t) \/ OrderDown(t)
  PROVE  PendingExact' /\ Turn!Next
<1>1. /\ WakesRest /\ UNCHANGED <<acting, held, rest>> /\ t = Subject(Loop)
      /\ Loop \in Procs /\ pc[Loop] \in {"fresh", "down"} /\ pc'[Loop] \in {"down", "downed"}
      /\ pending \in [Targets -> {"", "stopping", "raising"}]
  BY Apart DEF TurnInv, TypeInv, TypeOK, MemTypeOK, DecideStop, OrderDown, Goto, memVars, WakesRest
<1>2. /\ acting[t] = Loop /\ acting'[t] = Loop
      /\ \A w \in Wakers : ~WakeHolds(w, t)
      /\ \A i \in DOMAIN held : held[i].target # t
  BY <1>1, LoopsTurn DEF TurnInv, Locked
<1>3. /\ ~Stopped(t)
      /\ \A x \in Targets \ {t} : /\ ~Stopping(x) /\ ~Stopping(x)'
                                  /\ Stopped(x)' <=> Stopped(x)
  BY <1>1, <1>2 DEF Stopped, Stopping, Subject
<1>4. /\ Stopping(t)'
      /\ Stopping(t) <=> pc[Loop] = "down"
      /\ Stopped(t)' <=> pc'[Loop] = "downed"
  BY <1>1, <1>2 DEF Stopped, Stopping, Subject
<1>5. \A w \in Wakers : ~(pc[w] = "up" /\ t = Subject(w)) /\ ~(pc'[w] = "up" /\ t = Subject(w)')
  BY <1>1, <1>2 DEF WakeHolds, WakesRest, Subject
<1>6. ASSUME \A x \in Targets \ {t} : pending'[x] = pending[x]
      PROVE  AloneOn(t)
  BY <1>1, <1>3, <1>6 DEF AloneOn, SameTurn, SameWord, WakesRest, Subject
<1>7. CASE DecideStop(t)
  <2>1. SetPending(t, "stopping") /\ pc[Loop] = "fresh" /\ pc'[Loop] = "down"
    BY <1>1, <1>7, Apart DEF TurnInv, DecideStop, Goto
  <2>2. AloneOn(t) /\ pending'[t] = "stopping"
    BY <1>1, <1>6, <2>1 DEF SetPending
  <2>3. ExactOn(t)'
    BY <1>4, <1>5, <2>2 DEF ExactOn
  <2>4. Stage(t) = "looking" /\ Stage(t)' = "announced"
    BY <1>2, <1>3, <1>4, <2>1, ProcsAssumption DEF Stage, StopStage
  <2>5. SetPending(t, Turn!Word(acting[t]))
    BY <1>2, <2>1 DEF Turn!Word
  <2> QED BY <1>1, <2>2, <2>3, <2>4, <2>5, Announced DEF TurnInv
<1>8. CASE OrderDown(t)
  <2>1. pending' = pending /\ pc[Loop] = "down" /\ pc'[Loop] = "downed"
    BY <1>1, <1>8, Apart DEF TurnInv, OrderDown, Goto, memVars
  <2>2. AloneOn(t)
    BY <1>6, <2>1
  <2>3. ExactOn(t)'
    BY <1>4, <1>5, <2>1 DEF TurnInv, PendingExact, ExactOn
  <2>4. Stage(t) = "announced" /\ Stage(t)' = "ordered"
    BY <1>2, <1>3, <1>4, <2>1, ProcsAssumption DEF Stage, StopStage
  <2> QED BY <1>1, <2>1, <2>2, <2>3, <2>4, Ordered DEF TurnInv
<1> QED BY <1>7, <1>8

\* The order was refused and the turn is over, or it was obeyed and the loop
\* keeps the turn while it frees others.
LEMMA LoopOrdered ==
  ASSUME TurnInv, NEW t \in Targets, StopFailed(t) \/ StopDone(t)
  PROVE  PendingExact' /\ Turn!Next
<1>1. /\ WakesRest /\ t = Subject(Loop) /\ SetPending(t, "")
      /\ Loop \in Procs /\ pc[Loop] = "downed" /\ pc'[Loop] = "next"
      /\ pending \in [Targets -> {"", "stopping", "raising"}]
      /\ acting \in [Targets -> Procs \union {NoOne}]
  BY Apart DEF TurnInv, TypeInv, TypeOK, MemTypeOK, PlaceTypeOK, StopFailed, StopDone, Return, Goto,
               WakesRest
<1>2. /\ acting[t] = Loop
      /\ \A w \in Wakers : ~WakeHolds(w, t)
      /\ \A i \in DOMAIN held : held[i].target # t
  BY <1>1, LoopsTurn DEF TurnInv, Locked
<1>3. pending' = [pending EXCEPT ![t] = ""] /\ ~\E x \in Targets : Stopping(x)'
  BY <1>1 DEF SetPending, Stopping
<1>4. \A w \in Wakers : ~(pc[w] = "up" /\ t = Subject(w)) /\ ~(pc'[w] = "up" /\ t = Subject(w)')
  BY <1>1, <1>2 DEF WakeHolds, WakesRest, Subject
<1>5. ExactOn(t)'
  BY <1>1, <1>3, <1>4 DEF ExactOn
<1>6. ASSUME \A x \in Targets \ {t} : acting'[x] = acting[x] /\ (Stopped(x)' <=> Stopped(x))
      PROVE  AloneOn(t)
  <2>1. \A x \in Targets \ {t} : ~Stopping(x)
    BY <1>1 DEF Stopping
  <2> QED BY <1>1, <1>3, <1>6, <2>1 DEF AloneOn, SameTurn, SameWord, WakesRest, Subject
<1>7. CASE StopFailed(t)
  <2>1. Unlock(t) /\ held' = held
    BY <1>7 DEF StopFailed
  <2>2. \A x \in Targets \ {t} : acting'[x] = acting[x] /\ (Stopped(x)' <=> Stopped(x))
    BY <1>1, <2>1 DEF Stopped, Unlock
  <2>3. AloneOn(t)
    BY <1>6, <2>2
  <2> QED BY <1>1, <1>2, <1>5, <2>1, <2>3, Given DEF TurnInv
<1>8. CASE StopDone(t)
  <2>1. acting' = acting /\ held' = Append(held, [target |-> t, rest |-> Tail(rest[Loop])])
    BY <1>8 DEF StopDone
  <2>2. /\ DOMAIN held' = DOMAIN held \union {Len(held) + 1}
        /\ \A i \in DOMAIN held : held'[i] = held[i] /\ i # Len(held) + 1
        /\ held'[Len(held) + 1].target = t
    <3>1. held \in Seq(Frames)
      BY DEF TurnInv, TypeInv, TypeOK, PlaceTypeOK
    <3> QED BY <2>1, <3>1
  <2>3. /\ \A x \in Targets \ {t} : acting'[x] = acting[x] /\ (Stopped(x)' <=> Stopped(x))
        /\ Stopped(t) /\ Stopped(t)'
    BY <1>1, <2>1, <2>2 DEF Stopped
  <2>4. AloneOn(t)
    BY <1>6, <2>3
  <2>5. Stage(t) = "ordered" /\ Stage(t)' = "ordered"
    BY <1>2, <2>1, <2>3, ProcsAssumption DEF Stage, StopStage
  <2> QED BY <1>1, <1>5, <2>1, <2>4, <2>5, Withdrawn DEF TurnInv
<1> QED BY <1>7, <1>8

\* A kept turn ends.
LEMMA LoopEndsTurn ==
  ASSUME TurnInv, StopReturns
  PROVE  PendingExact' /\ Turn!Next
<1> DEFINE n == Len(held)
<1>1. /\ n \in DOMAIN held /\ Last(held).target \in Targets /\ Last(held) = held[n]
      /\ DOMAIN held' = DOMAIN held \ {n} /\ \A i \in DOMAIN held' : held'[i] = held[i]
  BY LastDropped DEF TurnInv
<1> PICK t \in Targets : t = Last(held).target
  BY <1>1
<1>2. /\ Unlock(t) /\ pending' = pending /\ pc' = pc /\ pc[Loop] = "next" /\ Loop \in Procs
      /\ \A w \in Wakers : rest'[w] = rest[w]
      /\ acting \in [Targets -> Procs \union {NoOne}]
  BY Apart DEF TurnInv, TypeInv, TypeOK, PlaceTypeOK, StopReturns, memVars
<1> HIDE DEF n
<1>3. acting[t] = Loop /\ \A w \in Wakers : ~WakeHolds(w, t)
  <2>1. LoopHolds(t)
    BY <1>1 DEF LoopHolds
  <2> QED BY <2>1, <1>1, ProcsAssumption DEF TurnInv, LockInv, LockDiscipline
<1>4. \A x \in Targets \ {t} : Stopped(x)' <=> Stopped(x)
  BY <1>1, <1>2 DEF Stopped
<1>5. \A x \in Targets : ~Stopping(x) /\ ~Stopping(x)'
  BY <1>2 DEF Stopping
<1>6. AloneOn(t)
  BY <1>2, <1>4, <1>5 DEF AloneOn, SameTurn, SameWord, Unlock, Subject
<1>7. ExactOn(t)'
  BY <1>1, <1>2, <1>5 DEF TurnInv, PendingExact, ExactOn, Subject
<1>8. \A w \in Wakers : ~(pc[w] = "up" /\ t = Subject(w))
  BY <1>3 DEF WakeHolds
<1> QED BY <1>1, <1>2, <1>3, <1>5, <1>6, <1>7, <1>8, GivenQuietly DEF TurnInv

LEMMA LoopTurns == TurnInv /\ LoopNext => PendingExact' /\ (Turn!Next \/ UNCHANGED Turn!turnVars)
<1> SUFFICES ASSUME TurnInv, LoopNext
             PROVE  PendingExact' /\ (Turn!Next \/ UNCHANGED Turn!turnVars)
  OBVIOUS
<1>m. /\ DOMAIN pc = Procs /\ pc = [p \in Procs |-> pc[p]]
      /\ DOMAIN rest = Procs /\ rest = [p \in Procs |-> rest[p]]
      /\ Loop \in Procs /\ \A w \in Wakers : w \in Procs /\ w # Loop
  BY Apart DEF TurnInv
<1> DEFINE Aside == /\ WakesRest /\ UNCHANGED <<acting, held, pending>>
                    /\ pc[Loop] \notin {"down", "downed"} /\ pc'[Loop] \notin {"down", "downed"}
<1>1. Aside => PendingExact' /\ UNCHANGED Turn!turnVars
  BY LoopAside, QuietStep DEF TurnInv
<1>2. CASE StartPass \/ SweepAsk \/ SweepHear \/ SweepEnds \/ AskSignal \/ SignalsAsked
           \/ PassEnds
  <2>1. Aside
    BY <1>2, <1>m DEF Goto, StartPass, SweepAsk, Ask, SweepHear, SweepEnds, AskSignal, SignalsAsked,
                      PassEnds, WakesRest, memVars
  <2> QED BY <1>1, <2>1
<1>3. CASE StopReturns
  BY <1>3, LoopEndsTurn
<1>4. ASSUME NEW t \in Targets,
             \/ ConsiderRefused(t) \/ ConsiderBegins(t) \/ AllAgree(t) \/ LookAgain(t)
             \/ Condition(t, "cond", FALSE)
      PROVE  PendingExact' /\ UNCHANGED Turn!turnVars
  <2>1. Aside
    BY <1>4, <1>m DEF Goto, ConsiderRefused, ConsiderBegins, AllAgree, Considering, Return, LookAgain,
                      Ask, Condition, WakesRest, memVars
  <2> QED BY <1>1, <2>1
<1>5. ASSUME NEW t \in Targets, LookedAgain(t) \/ RecheckUptime(t) \/ Condition(t, "fresh", TRUE)
      PROVE  PendingExact' /\ (Turn!Next \/ UNCHANGED Turn!turnVars)
  <2>1. /\ pc[Loop] \in Locked \ {"down", "downed"} /\ t = Subject(Loop) /\ UNCHANGED <<held, pending>>
        /\ Aside \/ (Unlock(t) /\ Return)
    BY <1>5, <1>m DEF Goto, LookedAgain, RecheckUptime, Condition, Locked, WakesRest
  <2>2. CASE Unlock(t) /\ Return
    <3>1. pc'[Loop] \notin Locked /\ WakesRest
      BY <2>2, <1>m DEF Goto, Return, Locked, WakesRest
    <3> QED BY <2>1, <2>2, <3>1, LoopGives
  <2> QED BY <1>1, <2>1, <2>2
<1>6. ASSUME NEW t \in Targets, LockToStop(t) \/ DecideStop(t) \/ OrderDown(t) \/ StopFailed(t)
                               \/ StopDone(t)
      PROVE  PendingExact' /\ Turn!Next
  BY <1>6, LoopTakes, LoopOrders, LoopOrdered
<1> QED BY <1>2, <1>3, <1>4, <1>5, <1>6 DEF LoopNext, StopStep, AskCached, AskFresh

-----------------------------------------------------------------------------
(* The wakes. *)

\* A step of w at t leaves the turns of other targets alone.
LEMMA WakeAlone ==
  ASSUME TurnInv, NEW w \in Wakers, NEW t \in Targets, OthersRest(w),
         pc[w] \in Raising => t = Subject(w),
         pc'[w] = "up" => t = Subject(w)',
         \A x \in Targets \ {t} : acting'[x] = acting[x] /\ pending'[x] = pending[x]
  PROVE  AloneOn(t)
<1> SUFFICES ASSUME NEW x \in Targets \ {t} PROVE SameTurn(x) /\ SameWord(x)
  BY DEF AloneOn
<1>1. /\ Stopping(x)' <=> Stopping(x)
      /\ Stopped(x)' <=> Stopped(x)
  BY DEF OthersRest, Stopping, Stopped, Subject
<1>2. acting[x] # w
  BY DEF TurnInv, LockInv, LockDiscipline, WakeHolds, Raising
<1>3. SameTurn(x)
  BY <1>1, <1>2 DEF SameTurn, OthersRest
<1>4. SameWord(x)
  <2>1. ~(pc[w] = "up" /\ x = Subject(w)) /\ ~(pc'[w] = "up" /\ x = Subject(w)')
    BY DEF Raising
  <2> QED BY <1>1, <2>1 DEF SameWord, OthersRest, Subject
<1> QED BY <1>3, <1>4

\* While w has the turn of t it is the only one at t.
LEMMA WakesTurn ==
  ASSUME TurnInv, NEW w \in Wakers, NEW t \in Targets, t = Subject(w), pc[w] \in Raising
  PROVE  /\ acting[t] = w /\ acting \in [Targets -> Procs \union {NoOne}] /\ ~LoopHolds(t)
         /\ \A v \in Wakers \ {w} : ~(pc[v] = "up" /\ t = Subject(v))
         /\ Stage(t) = RaiseStage(w)
<1>1. acting[t] = w /\ acting \in [Targets -> Procs \union {NoOne}]
  BY DEF TurnInv, LockInv, LockDiscipline, WakeHolds, Raising, TypeInv, TypeOK, PlaceTypeOK
<1>2. ~LoopHolds(t) /\ \A v \in Wakers \ {w} : ~WakeHolds(v, t)
  BY <1>1, ProcsAssumption DEF TurnInv, LockInv, LockDiscipline
<1>3. Stage(t) = RaiseStage(w)
  BY <1>1, ProcsAssumption DEF Stage
<1> QED BY <1>1, <1>2, <1>3 DEF WakeHolds

\* What must be shown of t when w has just moved: nothing, unless w is about
\* to raise it.
LEMMA WakesWord ==
  ASSUME TurnInv, NEW w \in Wakers, NEW t \in Targets, OthersRest(w), ~LoopHolds(t),
         \A v \in Wakers \ {w} : ~(pc[v] = "up" /\ t = Subject(v)),
         \/ pc'[w] = "up" /\ t = Subject(w)' /\ pending'[t] = "raising"
         \/ pc'[w] # "up" /\ pending'[t] = ""
  PROVE  ExactOn(t)'
<1>1. ~Stopping(t)'
  BY DEF OthersRest, Stopping, Subject, LoopHolds
<1>2. \A v \in Wakers \ {w} : ~(pc'[v] = "up" /\ t = Subject(v)')
  BY DEF OthersRest, Subject
<1> QED BY <1>1, <1>2 DEF ExactOn

\* A step of w that neither takes a turn nor goes on in one.
LEMMA WakeAside ==
  ASSUME TurnInv, NEW w \in Wakers, OthersRest(w), UNCHANGED <<acting, pending>>,
         pc[w] # "up", pc'[w] # "up",
         pc'[w] \in {"await", "awaited"} <=> pc[w] \in {"await", "awaited"}
  PROVE  PendingExact' /\ UNCHANGED Turn!turnVars
<1>1. \A x \in Targets : /\ Stopping(x)' <=> Stopping(x)
                         /\ Stopped(x)' <=> Stopped(x)
  BY DEF OthersRest, Stopping, Stopped, Subject
<1>2. \A x \in Targets : SameTurn(x)
  BY <1>1 DEF SameTurn, OthersRest
<1>3. \A x \in Targets : SameWord(x)
  BY <1>1 DEF SameWord, OthersRest, Subject
<1> QED BY <1>2, <1>3, QuietStep DEF TurnInv

LEMMA WakeTakes ==
  ASSUME TurnInv, NEW w \in Wakers, LockToRaise(w)
  PROVE  PendingExact' /\ Turn!Next
<1>p. pc[w] = "lock" /\ Subject(w) \in Targets
  BY Waking DEF TurnInv, TypeInv, LockToRaise, WellPlaced
<1> PICK t \in Targets : t = Subject(w)
  BY <1>p
<1>1. /\ OthersRest(w) /\ Lock(w, t) /\ rest' = rest /\ pending' = pending
      /\ pc'[w] = "look" /\ w \in Procs
  BY Apart DEF TurnInv, Goto, LockToRaise, OthersRest, memVars
<1>2. acting \in [Targets -> Procs \union {NoOne}]
  BY DEF TurnInv, TypeInv, TypeOK, PlaceTypeOK
<1>3. acting[t] = NoOne /\ acting' = [acting EXCEPT ![t] = w]
  BY <1>1 DEF Lock
<1>4. ~LoopHolds(t) /\ \A v \in Wakers : ~WakeHolds(v, t)
  BY <1>2, <1>3, ProcsAssumption DEF TurnInv, LockInv, LockDiscipline
<1>5. AloneOn(t)
  BY <1>p, <1>1, <1>2, <1>3, WakeAlone DEF Raising
<1>6. pending[t] = ""
  BY <1>4, NothingShown DEF TurnInv, PendingExact, LoopHolds, Stopping, WakeHolds
<1>7. ExactOn(t)'
  <2>1. \A v \in Wakers \ {w} : ~(pc[v] = "up" /\ t = Subject(v))
    BY <1>4 DEF WakeHolds
  <2>2. pc'[w] # "up" /\ pending'[t] = ""
    BY <1>1, <1>6
  <2> QED BY <1>1, <1>2, <1>4, <2>1, <2>2, WakesWord
<1>8. Stage(t)' = "looking"
  BY <1>1, <1>2, <1>3, ProcsAssumption DEF Stage, RaiseStage
<1> QED BY <1>1, <1>2, <1>5, <1>7, <1>8, Taken DEF TurnInv

\* Every other step of a turn w has: to the next stage of it, or to its end.
LEMMA WakeInTurn ==
  ASSUME TurnInv, NEW w \in Wakers, NEW t \in Targets, t = Subject(w), pc[w] \in Raising,
         OthersRest(w),
         \/ /\ pc[w] = "looked" /\ pc'[w] = "up" /\ rest' = rest
            /\ UNCHANGED acting /\ SetPending(t, "raising")
         \/ /\ pc[w] = "up" /\ pc'[w] = "await"
            /\ UNCHANGED acting /\ SetPending(t, "")
         \/ pc'[w] # "up" /\ Unlock(t) /\ SetPending(t, "")
         \/ pc[w] # "up" /\ pc'[w] # "up" /\ Unlock(t) /\ UNCHANGED pending
  PROVE  PendingExact' /\ Turn!Next
<1>1. /\ acting[t] = w /\ acting \in [Targets -> Procs \union {NoOne}] /\ ~LoopHolds(t)
      /\ \A v \in Wakers \ {w} : ~(pc[v] = "up" /\ t = Subject(v))
      /\ Stage(t) = RaiseStage(w)
  BY WakesTurn
<1>2. pending \in [Targets -> {"", "stopping", "raising"}] /\ ExactOn(t) /\ w \in Procs
  BY Apart DEF TurnInv, TypeInv, TypeOK, MemTypeOK, PendingExact
<1>3. AloneOn(t)
  <2>1. \A x \in Targets \ {t} : acting'[x] = acting[x] /\ pending'[x] = pending[x]
    BY <1>1, <1>2 DEF Unlock, SetPending
  <2>2. pc'[w] = "up" => t = Subject(w)'
    BY DEF Subject
  <2> QED BY <2>1, <2>2, WakeAlone
<1>4. ~Stopping(t)
  BY <1>1 DEF LoopHolds, Stopping
<1>5. pc[w] # "up" => pending[t] = ""
  BY <1>1, <1>2, <1>4, NothingShown DEF TurnInv
<1>6. ExactOn(t)'
  <2>1. \/ pc'[w] = "up" /\ t = Subject(w)' /\ pending'[t] = "raising"
        \/ pc'[w] # "up" /\ pending'[t] = ""
    BY <1>2, <1>5 DEF SetPending, Subject
  <2> QED BY <1>1, <2>1, WakesWord
<1>7. CASE pc[w] = "looked" /\ pc'[w] = "up" /\ UNCHANGED acting /\ SetPending(t, "raising")
  <2>1. Stage(t) = "looking" /\ Stage(t)' = "announced"
    BY <1>1, <1>7, ProcsAssumption DEF Stage, RaiseStage
  <2>2. SetPending(t, Turn!Word(acting[t]))
    BY <1>1, <1>7, ProcsAssumption DEF Turn!Word
  <2> QED BY <1>3, <1>6, <1>7, <2>1, <2>2, Announced DEF TurnInv
<1>8. CASE pc[w] = "up" /\ pc'[w] = "await" /\ UNCHANGED acting /\ SetPending(t, "")
  <2>1. Stage(t) = "announced" /\ Stage(t)' = "ordered"
    BY <1>1, <1>8, ProcsAssumption DEF Stage, RaiseStage
  <2> QED BY <1>3, <1>6, <1>8, <2>1, Ordered DEF TurnInv
<1>9. CASE Unlock(t) /\ SetPending(t, "")
  BY <1>1, <1>2, <1>3, <1>6, <1>9, Given DEF TurnInv
<1>10. CASE pc[w] # "up" /\ Unlock(t) /\ UNCHANGED pending
  <2>1. SetPending(t, "")
    BY <1>2, <1>5, <1>10 DEF SetPending
  <2> QED BY <1>9, <1>10, <2>1
<1> QED BY <1>7, <1>8, <1>9, <1>10

LEMMA WakeTurns ==
  ASSUME TurnInv, NEW w \in Wakers, WakeNext(w)
  PROVE  PendingExact' /\ (Turn!Next \/ UNCHANGED Turn!turnVars)
<1>m. /\ DOMAIN pc = Procs /\ pc = [p \in Procs |-> pc[p]]
      /\ DOMAIN rest = Procs /\ rest = [p \in Procs |-> rest[p]]
      /\ Loop \in Procs /\ \A v \in Wakers : v \in Procs /\ v # Loop
  BY Apart DEF TurnInv
<1>1. CASE \/ \E t \in Targets : Call(w, t)
           \/ WakeReturns(w) \/ WakeHandsOff(w) \/ WakeAsk(w) \/ WakeAsked(w)
           \/ WakeLook(w) \/ AwaitAsk(w)
  <2>1. /\ UNCHANGED <<acting, pending>> /\ OthersRest(w) /\ pc[w] # "up" /\ pc'[w] # "up"
        /\ pc'[w] \in {"await", "awaited"} <=> pc[w] \in {"await", "awaited"}
    BY <1>1, <1>m DEF Goto, Call, WakeReturns, WakeHandsOff, WakeAsk, Ask, WakeAsked, StepOn, WakeLook,
                      AwaitAsk, OthersRest, memVars
  <2> QED BY <2>1, WakeAside
<1>2. CASE LockToRaise(w)
  BY <1>2, WakeTakes
<1>3. CASE WakeLooked(w) \/ OrderUp(w) \/ Awaited(w)
  <2>1. pc[w] \in Raising /\ Subject(w) \in Targets
    BY <1>3, Waking DEF WakeLooked, OrderUp, Awaited, Raising, TurnInv, TypeInv, WellPlaced
  <2>2. OthersRest(w)
    BY <1>3, <1>m DEF Goto, WakeLooked, OrderUp, Awaited, StepOn, OthersRest
  <2>3. CASE WakeLooked(w)
    <3>1. \/ /\ pc[w] = "looked" /\ pc'[w] = "up" /\ rest' = rest
             /\ UNCHANGED acting /\ SetPending(Subject(w), "raising")
          \/ pc[w] # "up" /\ pc'[w] # "up" /\ Unlock(Subject(w)) /\ UNCHANGED pending
      BY <2>3, <1>m DEF WakeLooked, Goto, StepOn
    <3> QED BY <2>1, <2>2, <3>1, WakeInTurn
  <2>4. CASE OrderUp(w)
    <3>1. \/ /\ pc[w] = "up" /\ pc'[w] = "await"
             /\ UNCHANGED acting /\ SetPending(Subject(w), "")
          \/ pc'[w] # "up" /\ Unlock(Subject(w)) /\ SetPending(Subject(w), "")
      BY <2>4, <1>m DEF OrderUp, Goto
    <3> QED BY <2>1, <2>2, <3>1, WakeInTurn
  <2>5. CASE Awaited(w)
    <3>1. \/ pc'[w] # "up" /\ Unlock(Subject(w)) /\ SetPending(Subject(w), "")
          \/ pc[w] # "up" /\ pc'[w] # "up" /\ Unlock(Subject(w)) /\ UNCHANGED pending
          \/ pc[w] = "awaited" /\ pc'[w] = "await" /\ UNCHANGED <<acting, pending>>
      BY <2>5, <1>m DEF Awaited, Goto, StepOn
    <3>2. CASE pc[w] = "awaited" /\ pc'[w] = "await" /\ UNCHANGED <<acting, pending>>
      BY <2>2, <3>2, WakeAside
    <3> QED BY <2>1, <2>2, <3>1, <3>2, WakeInTurn
  <2> QED BY <1>3, <2>3, <2>4, <2>5
<1> QED BY <1>1, <1>2, <1>3 DEF WakeNext

-----------------------------------------------------------------------------
LEMMA TurnInit == Init => PendingExact /\ Turn!Init
<1> SUFFICES ASSUME Init PROVE PendingExact /\ Turn!Init
  OBVIOUS
<1>1. /\ acting = [t \in Targets |-> NoOne] /\ pending = [t \in Targets |-> ""]
      /\ pc[Loop] = "idle" /\ \A w \in Wakers : pc[w] = "call"
  BY ProcsAssumption DEF Init, Procs
<1>2. PendingExact
  BY <1>1 DEF PendingExact, ExactOn, Stopping
<1>3. \A t \in Targets : Stage(t) = "free"
  BY <1>1, ProcsAssumption DEF Stage, StopStage, RaiseStage
<1> QED BY <1>1, <1>2, <1>3 DEF Turn!Init

LEMMA TurnStep == TurnInv /\ [Next]_vars => PendingExact' /\ [Turn!Next]_(Turn!turnVars)
<1> SUFFICES ASSUME TurnInv, [Next]_vars
             PROVE  PendingExact' /\ (Turn!Next \/ UNCHANGED Turn!turnVars)
  OBVIOUS
<1>1. CASE UNCHANGED <<memVars, procVars>>
  <2>1. /\ acting' = acting /\ pending' = pending
        /\ \A x \in Targets : SameTurn(x) /\ SameWord(x)
    BY <1>1 DEF memVars, procVars, SameTurn, SameWord, Stopping, Stopped, Subject
  <2> QED BY <2>1, QuietStep DEF TurnInv
<1> QED BY <1>1, LoopTurns, WakeTurns DEF Next, vars

\* What the board says is under way is under way, and under way by the one
\* that holds the target's lock: nobody else has announced it and nobody
\* forgot to withdraw it, in every fleet and with any number of wakes.
THEOREM PendingOwned == Spec => []PendingIsOwned
<1>1. TurnInv => PendingIsOwned
  <2> SUFFICES ASSUME TurnInv, NEW t \in Targets
               PROVE  /\ pending[t] = "stopping" => acting[t] = Loop
                      /\ pending[t] = "raising" => acting[t] \in Wakers
    BY DEF PendingIsOwned
  <2>1. ExactOn(t)
    BY DEF TurnInv, PendingExact
  <2>2. Stopping(t) => acting[t] = Loop
    BY DEF TurnInv, LockInv, LockDiscipline, LoopHolds, Stopping
  <2>3. \A w \in Wakers : pc[w] = "up" /\ t = Subject(w) => acting[t] = w
    BY DEF TurnInv, LockInv, LockDiscipline, WakeHolds
  <2> QED BY <2>1, <2>2, <2>3 DEF ExactOn
<1> QED BY <1>1, TypeInit, NextKeepsType, LockInit, LocksKept, TurnInit, TurnStep, PTL DEF Spec, TurnInv

\* The engine implements turns: whatever the goroutines do, seen through the
\* owner of each lock, how far the owner is and what the board shows, it is
\* the turn taking of module Turns and nothing else.
THEOREM TakesTurns == Spec => InTurns
<1>1. Init => Turn!Init
  BY TurnInit
<1>2. TypeInv /\ LockInv /\ PendingExact /\ [Next]_vars => [Turn!Next]_(Turn!turnVars)
  BY TurnStep DEF TurnInv
<1>3. TypeInv /\ LockInv /\ PendingExact /\ [Next]_vars => PendingExact'
  BY TurnStep DEF TurnInv
<1> QED BY <1>1, <1>2, <1>3, TypeInit, NextKeepsType, LockInit, LocksKept, TurnInit, PTL
        DEF Spec, InTurns, Turn!Spec
=============================================================================
