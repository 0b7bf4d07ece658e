----------------------------- MODULE StopProofs -----------------------------
(***************************************************************************)
(* What a stop rests on: the answers of the last round were asked under    *)
(* the lock and were true when they were given, and nothing was found that *)
(* speaks against it for as long as its target is called quiet.            *)
(***************************************************************************)
EXTENDS StopHistory, QuietHistory, EngineProofs

(***************************************************************************)
(* I. The last word is the current one.                                    *)
(***************************************************************************)

\* How much has been confirmed at each point of the last round: that the target
\* is up, then one condition after the other.
WordInv ==
  /\ pc[Loop] = "looked" /\ ans[Loop] = "yes" => confirmed = {0}
  /\ pc[Loop] = "recheck" => confirmed = {0}
  /\ pc[Loop] = "fresh" => confirmed = 0..(k - 1) /\ k - 1 <= Len(StopWhen[Subject(Loop)])
  /\ pc[Loop] = "down" => confirmed = 0..Len(StopWhen[Subject(Loop)])

LastRound == {"looked", "recheck", "fresh", "down"}

-----------------------------------------------------------------------------
\* A target that answers that it is up is not off.
LEMMA UpIsOn ==
  ASSUME NEW t \in Targets, "yes" \in StateAnswers(t)
  PROVE  power[t] # "off"
BY DEF StateAnswers, Replies, YesNo

\* What is asked anew of a signal is true of the world it is asked in.
LEMMA AskedIsTrue ==
  ASSUME TypeInv, NEW ref \in Refs, NEW v \in Evaluations(ref.sig, TRUE),
         Verdict(ref, v) = "agrees"
  PROVE  WorldAgrees(ref)
<1>1. ref.sig \in Signals /\ ref.neg \in BOOLEAN
  BY DEF Refs
<1>2. v.known /\ v.true # ref.neg
  BY DEF Verdict
<1>3. ref.sig \notin Undeclared
  <2> SUFFICES ASSUME ref.sig \in Undeclared PROVE FALSE
    OBVIOUS
  <2>1. v = Unknown
    BY SignalsAssumption DEF Evaluations
  <2> QED BY <1>2, <2>1 DEF Unknown
<1>4. CASE ref.sig \in HoldSignals
  <2>1. ref.sig \notin Declared
    BY <1>4, SignalsAssumption
  <2>2. v = [known |-> TRUE, true |-> HeldOn(HoldOf[ref.sig]), at |-> now]
    BY <1>3, <1>4, <2>1 DEF Evaluations
  <2>3. v.true = HeldOn(HoldOf[ref.sig])
    BY <2>2
  <2> QED BY <1>2, <1>3, <1>4, <2>3 DEF WorldAgrees
<1>5. CASE ref.sig \notin HoldSignals
  <2>1. ref.sig \in Declared /\ ~Reusable(ref.sig, TRUE)
    BY <1>1, <1>3, <1>5 DEF Signals, Reusable
  <2>2. Truth(ref.sig) \in BOOLEAN
    BY <2>1 DEF Truth, TypeInv, TypeOK, WorldTypeOK, FreeSignals
  <2>3. Evaluations(ref.sig, TRUE) =
          IF NodeIsDown(RunOn[ref.sig]) THEN {Unknown}
          ELSE {IF a = "err" THEN Unknown
                ELSE [known |-> TRUE, true |-> a = "yes", at |-> now] : a \in SignalAnswers(ref.sig)}
    BY <1>3, <1>5, <2>1 DEF Evaluations
  <2>4. v # Unknown
    BY <1>2 DEF Unknown
  <2>5. PICK a \in SignalAnswers(ref.sig) :
          a # "err" /\ v = [known |-> TRUE, true |-> a = "yes", at |-> now]
    BY <2>3, <2>4
  <2>6. a = YesNo(Truth(ref.sig))
    BY <2>5 DEF SignalAnswers, Replies
  <2>7. (a = "yes") = Truth(ref.sig)
    BY <2>2, <2>6 DEF YesNo
  <2> QED BY <1>2, <1>3, <1>5, <2>5, <2>7 DEF WorldAgrees
<1> QED BY <1>4, <1>5

-----------------------------------------------------------------------------
LEMMA WordInit == Init => WordInv
<1> SUFFICES ASSUME Init PROVE WordInv
  OBVIOUS
<1>1. pc[Loop] = "idle"
  BY ProcsAssumption DEF Init, Procs
<1> QED BY <1>1 DEF WordInv

\* Somebody else makes a step.
LEMMA WordStands ==
  ASSUME TypeInv, WordInv, WatchConfirmed, pc'[Loop] = pc[Loop], ans'[Loop] = ans[Loop],
         rest'[Loop] = rest[Loop], k' = k
  PROVE  WordInv'
<1>1. k' # k + 1
  BY DEF TypeInv, TypeOK, LocalTypeOK
<1>2. pc[Loop] \in LastRound => confirmed' = confirmed
  BY <1>1 DEF WatchConfirmed, LastRound
<1> QED BY <1>2 DEF WordInv, LastRound, Subject

\* The loop is not in the last round of a stop after its step.
LEMMA NoWordYet ==
  ASSUME pc'[Loop] \notin LastRound
  PROVE  WordInv'
BY DEF WordInv, LastRound

LEMMA LabelsApart ==
  ASSUME TypeInv
  PROVE  /\ Loop \in Procs /\ Loop \in DOMAIN pc /\ Loop \in DOMAIN ans /\ Loop \in DOMAIN rest
         /\ \A w \in Wakers : w # Loop
BY ProcsAssumption DEF TypeInv, TypeOK, PlaceTypeOK, LocalTypeOK, Procs

LEMMA LoopKeepsWord ==
  ASSUME TypeInv, WordInv, LoopNext, WatchConfirmed
  PROVE  WordInv'
<1>1. CASE StartPass \/ SweepAsk \/ SweepHear \/ SweepEnds \/ AskSignal \/ SignalsAsked
           \/ StopReturns \/ PassEnds
  <2>1. pc'[Loop] \notin LastRound
    BY <1>1, LabelsApart DEF StartPass, SweepAsk, Ask, SweepHear, SweepEnds, AskSignal, SignalsAsked,
                             StopReturns, PassEnds, Goto, LastRound
  <2> QED BY <2>1, NoWordYet
<1>2. ASSUME NEW t \in Targets,
             \/ ConsiderRefused(t) \/ ConsiderBegins(t) \/ AskCached(t) \/ AllAgree(t)
             \/ LockToStop(t) \/ OrderDown(t) \/ StopFailed(t) \/ StopDone(t)
      PROVE  WordInv'
  <2>1. pc'[Loop] \notin LastRound
    BY <1>2, LabelsApart DEF ConsiderRefused, ConsiderBegins, AskCached, Condition, AllAgree, LockToStop,
                             OrderDown, StopFailed, StopDone, Return, Goto, LastRound
  <2> QED BY <2>1, NoWordYet
<1>3. ASSUME NEW t \in Targets, LookAgain(t) PROVE WordInv'
  <2>1. /\ pc[Loop] = "look" /\ pc'[Loop] = "looked" /\ t = Subject(Loop)
        /\ ans'[Loop] = "yes" => "yes" \in StateAnswers(t)
    BY <1>3, LabelsApart DEF LookAgain, Ask, Goto
  <2>2. ans'[Loop] = "yes" => power[t] # "off"
    BY <2>1, UpIsOn
  <2> QED BY <2>1, <2>2 DEF WatchConfirmed, WordInv
<1>4. ASSUME NEW t \in Targets, LookedAgain(t) PROVE WordInv'
  <2>1. /\ pc[Loop] = "looked"
        /\ pc'[Loop] \notin LastRound \/ (pc'[Loop] = "recheck" /\ ans[Loop] = "yes")
    BY <1>4, LabelsApart DEF LookedAgain, Return, Goto, LastRound
  <2>2. CASE pc'[Loop] = "recheck" /\ ans[Loop] = "yes"
    BY <2>1, <2>2 DEF WatchConfirmed, WordInv
  <2> QED BY <2>1, <2>2, NoWordYet
<1>5. ASSUME NEW t \in Targets, RecheckUptime(t) PROVE WordInv'
  <2>1. /\ pc[Loop] = "recheck" /\ t = Subject(Loop)
        /\ \/ pc'[Loop] \notin LastRound
           \/ pc'[Loop] = "fresh" /\ k' = 1 /\ rest' = rest
    BY <1>5, LabelsApart DEF RecheckUptime, Return, Goto, LastRound
  <2>2. CASE pc'[Loop] = "fresh" /\ k' = 1 /\ rest' = rest
    <3>1. confirmed' = {0} /\ 0..(k' - 1) = {0}
      BY <2>1, <2>2 DEF WatchConfirmed, WordInv
    <3>2. t \in Downs /\ Len(StopWhen[t]) \in Nat
      BY <2>1, DownsAssumption DEF TypeInv, WellPlaced, InConsider
    <3> QED BY <2>1, <2>2, <3>1, <3>2 DEF WordInv, Subject
  <2> QED BY <2>1, <2>2, NoWordYet
<1>6. ASSUME NEW t \in Targets, AskFresh(t) PROVE WordInv'
  <2> DEFINE ref == StopWhen[t][k]
  <2>1. /\ pc[Loop] = "fresh" /\ t = Subject(Loop) /\ k <= Len(StopWhen[t])
        /\ k \in Nat /\ k >= 1 /\ t \in Downs
    BY <1>6 DEF AskFresh, Condition, TypeInv, TypeOK, LocalTypeOK, WellPlaced, InConsider
  <2>2. ref \in Refs
    BY <2>1, DownsAssumption
  <2>3. \/ pc'[Loop] \notin LastRound
        \/ /\ pc' = pc /\ rest' = rest /\ k' = k + 1
           /\ \E v \in Evaluations(ref.sig, TRUE) : Verdict(ref, v) = "agrees"
    BY <1>6, LabelsApart DEF AskFresh, Condition, Return, Goto, LastRound
  <2>4. CASE /\ pc' = pc /\ rest' = rest /\ k' = k + 1
             /\ \E v \in Evaluations(ref.sig, TRUE) : Verdict(ref, v) = "agrees"
    <3>1. WorldAgrees(ref)
      BY <2>2, <2>4, AskedIsTrue
    <3>2. confirmed' = confirmed \union {k} /\ confirmed = 0..(k - 1)
      BY <2>1, <2>4, <3>1 DEF WatchConfirmed, WordInv
    <3>3. confirmed' = 0..(k' - 1) /\ k' - 1 <= Len(StopWhen[t])
      BY <2>1, <2>4, <3>2
    <3> QED BY <2>1, <2>4, <3>3 DEF WordInv, Subject
  <2> QED BY <2>3, <2>4, NoWordYet
<1>7. ASSUME NEW t \in Targets, DecideStop(t) PROVE WordInv'
  <2>1. /\ pc[Loop] = "fresh" /\ pc'[Loop] = "down" /\ rest' = rest /\ t = Subject(Loop)
        /\ k > Len(StopWhen[t]) /\ k' = k /\ k \in Nat /\ t \in Downs
    BY <1>7, LabelsApart DEF DecideStop, Goto, TypeInv, TypeOK, LocalTypeOK, WellPlaced, InConsider
  <2>2. Len(StopWhen[t]) \in Nat
    BY <2>1, DownsAssumption
  <2>3. k - 1 = Len(StopWhen[t]) /\ confirmed = 0..(k - 1)
    BY <2>1, <2>2 DEF WordInv
  <2>4. confirmed' = confirmed
    BY <2>1 DEF WatchConfirmed
  <2> QED BY <2>1, <2>3, <2>4 DEF WordInv, Subject
<1> QED BY <1>1, <1>2, <1>3, <1>4, <1>5, <1>6, <1>7 DEF LoopNext, StopStep

LEMMA WordKept ==
  TypeInv /\ WordInv /\ [HistNext]_<<vars, histVars>> => WordInv'
<1> SUFFICES ASSUME TypeInv, WordInv, [HistNext]_<<vars, histVars>> PROVE WordInv'
  OBVIOUS
<1>1. CASE UNCHANGED <<vars, histVars>>
  BY <1>1 DEF vars, histVars, procVars, WordInv, Subject
<1>2. CASE WatchConfirmed /\ UNCHANGED procVars
  BY <1>2, WordStands DEF procVars
<1>3. CASE WatchConfirmed /\ LoopNext
  BY <1>3, LoopKeepsWord
<1>4. ASSUME NEW w \in Wakers, WakeNext(w), WatchConfirmed PROVE WordInv'
  <2>1. /\ pc'[Loop] = pc[Loop] /\ ans'[Loop] = ans[Loop] /\ rest'[Loop] = rest[Loop] /\ k' = k
    BY <1>4, LabelsApart DEF WakeNext, Call, WakeReturns, WakeHandsOff, WakeAsk, Ask, WakeAsked,
                             LockToRaise, WakeLook, WakeLooked, OrderUp, AwaitAsk, Awaited, StepOn,
                             Hear, Goto
  <2> QED BY <1>4, <2>1, WordStands
<1> QED BY <1>1, <1>2, <1>3, <1>4 DEF HistNext, Next

\* Stopping may not use a cached answer: when the order goes out, every answer
\* it rests on was asked for under the lock and true when it was given, for any
\* fleet, any conditions, any number of wakes and whatever is lost or late.
THEOREM LastWord == HistSpec => []LastWordIsCurrent
<1>1. WordInv => LastWordIsCurrent
  BY DEF WordInv, LastWordIsCurrent
<1>2. [HistNext]_<<vars, histVars>> => [Next]_vars
  BY DEF HistNext
<1> QED BY <1>1, <1>2, TypeInit, NextKeepsType, WordInit, WordKept, PTL DEF HistSpec

-----------------------------------------------------------------------------
(***************************************************************************)
(* II. What is called quiet, and the grace of a stop, were not broken by   *)
(* anything the engine found.  Nothing is asked of the configuration, of   *)
(* the wakes or of what goes wrong.                                        *)
(***************************************************************************)

\* The labels between the end of the grace and the end of the stop.
Deciding == {"lock", "look", "looked", "recheck", "fresh", "down", "downed"}

RefutedInv == refutedAt \in [Downs -> 0..MaxTime] /\ \A t \in Downs : refutedAt[t] <= now

\* What the loop considers was last refuted before it began, and once the grace
\* is over, as long ago as the grace.
UnbrokenInv ==
  LET t == Subject(Loop) IN
  /\ pc[Loop] \in InConsider => began >= refutedAt[t]
  /\ pc[Loop] \in Deciding => began - refutedAt[t] >= Grace[t]

QuietInv == RefutedInv /\ QuietSinceLastRefused /\ UnbrokenInv

\* A step leaves what is said of t alone, or takes it back.
Stands(t) == okSince'[t] = okSince[t] /\ ~Refuted(t)
StandsOrGone(t) == okSince'[t] = Never \/ Stands(t)

-----------------------------------------------------------------------------
(* Times, and what a step needs to show. *)

LEMMA TimesAreInts ==
  ASSUME TypeInv
  PROVE  /\ now \in Int /\ now \in 0..MaxTime /\ MaxTime \in Nat /\ began \in Int
         /\ Never \in Int /\ began # Never
         /\ \A t \in Downs : t \in Targets /\ okSince[t] \in Int /\ Grace[t] \in Int
<1>1. now \in 0..MaxTime /\ began \in 0..MaxTime /\ okSince \in [Targets -> Times]
  BY DEF TypeInv, TypeOK, WorldTypeOK, LocalTypeOK, MemTypeOK
<1>2. MaxTime \in Nat /\ \A x \in Times : x \in Int
  BY WorldAssumption DEF Times, Never
<1>3. Never \in Int /\ \A n \in Nat : n # Never
  BY DEF Never
<1>4. \A t \in Downs : t \in Targets /\ Grace[t] \in Int
  BY DownsAssumption
<1> QED BY <1>1, <1>2, <1>3, <1>4

LEMMA MarksKept ==
  ASSUME TypeInv, QuietInv, WatchRefuted, now' \in 0..MaxTime, now' >= now,
         \A t \in Downs : StandsOrGone(t)
  PROVE  RefutedInv' /\ QuietSinceLastRefused'
<1>1. /\ now \in 0..MaxTime /\ MaxTime \in Nat /\ refutedAt \in [Downs -> 0..MaxTime]
      /\ \A t \in Downs : refutedAt[t] <= now
  BY TimesAreInts DEF QuietInv, RefutedInv
<1>2. refutedAt' = [t \in Downs |-> IF Refuted(t) THEN now ELSE refutedAt[t]]
  BY DEF WatchRefuted
<1>3. refutedAt' \in [Downs -> 0..MaxTime]
  BY <1>1, <1>2
<1>4. ASSUME NEW t \in Downs PROVE refutedAt'[t] <= now'
  <2>1. refutedAt'[t] \in {now, refutedAt[t]}
    BY <1>2
  <2> QED BY <1>1, <2>1
<1>5. ASSUME NEW t \in Downs, okSince'[t] # Never PROVE okSince'[t] >= refutedAt'[t]
  <2>1. okSince'[t] = okSince[t] /\ ~Refuted(t)
    BY <1>5 DEF StandsOrGone, Stands
  <2>2. refutedAt'[t] = refutedAt[t]
    BY <1>2, <2>1
  <2> QED BY <1>5, <2>1, <2>2 DEF QuietInv, QuietSinceLastRefused
<1> QED BY <1>3, <1>4, <1>5 DEF RefutedInv, QuietSinceLastRefused

\* The loop goes on considering what it considers, or considers nothing.
LEMMA UnbrokenKept ==
  ASSUME TypeInv, QuietInv, WatchRefuted,
         pc'[Loop] \in InConsider =>
           /\ pc[Loop] \in InConsider /\ began' = began /\ rest'[Loop] = rest[Loop]
           /\ ~Refuted(Subject(Loop)),
         pc'[Loop] \in Deciding => pc[Loop] \in Deciding
  PROVE  UnbrokenInv'
<1> DEFINE t == Subject(Loop)
<1> SUFFICES ASSUME pc'[Loop] \in InConsider PROVE UnbrokenInv'
  BY DEF UnbrokenInv, InConsider, Deciding
<1>1. t \in Downs /\ Subject(Loop)' = t
  BY DEF TypeInv, WellPlaced, Subject
<1>2. refutedAt'[t] = refutedAt[t]
  BY <1>1 DEF WatchRefuted
<1> QED BY <1>1, <1>2 DEF UnbrokenInv, QuietInv

-----------------------------------------------------------------------------
(* Steps of the others. *)

\* Where the loop stays, only a goroutine that moves can refute anything.
LEMMA OnlyMoversRefute ==
  ASSUME NEW t, pc'[Loop] = pc[Loop], rest'[Loop] = rest[Loop], Refuted(t)
  PROVE  \E p \in Procs \ {Loop} : FindsDown(p, t) /\ ~Considered(t)
BY DEF Refuted, FindsDown

LEMMA WorldKeepsQuiet ==
  ASSUME TypeInv, TypeInv', QuietInv, WatchRefuted, WorldNext, UNCHANGED <<memVars, procVars>>
  PROVE  QuietInv'
<1>1. now' >= now /\ now' \in 0..MaxTime
  <2>1. now' = now \/ now' = now + 1
    BY DEF WorldNext, Tick, Settle, SwitchByHand, Flip, WriteHold
  <2>2. now \in Int /\ now' \in 0..MaxTime
    BY TimesAreInts DEF TypeInv, TypeOK, WorldTypeOK
  <2> QED BY <2>1, <2>2
<1>2. \A t : ~Refuted(t)
  BY OnlyMoversRefute DEF FindsDown, procVars
<1>3. \A t \in Downs : StandsOrGone(t)
  BY <1>2 DEF StandsOrGone, Stands, memVars
<1> QED BY <1>1, <1>2, <1>3, MarksKept, UnbrokenKept DEF QuietInv, procVars

\* The answer written down for t tells of t alone, and takes back what was said
\* of a target that is down.
LEMMA HeardStands ==
  ASSUME TypeInv, NEW p \in Procs, NEW t \in Targets, Hear(p, t), NEW u \in Downs
  PROVE  /\ u # t => okSince'[u] = okSince[u]
         /\ ans[p] \in {"no", "asleep"} => okSince'[t] = Never
         /\ okSince'[u] \in {Never, okSince[u]}
<1>1. okSince \in [Targets -> Times] /\ u \in Targets
  BY DownsAssumption DEF TypeInv, TypeOK, MemTypeOK
<1>2. okSince' = [okSince EXCEPT ![t] = OkSinceAfter(t, ans[p])]
  BY DEF Hear
<1> QED BY <1>1, <1>2 DEF OkSinceAfter

\* What a wake's step may do: it moves alone, and where it hears of a target it
\* writes that down.
LEMMA WakeMoves ==
  ASSUME TypeInv, NEW w \in Wakers, WakeNext(w)
  PROVE  /\ pc'[Loop] = pc[Loop] /\ rest'[Loop] = rest[Loop] /\ began' = began /\ now' = now
         /\ \A q \in Procs \ {w} : pc'[q] = pc[q]
         /\ \/ Hear(w, Subject(w)) /\ pc[w] \in {"asked", "looked", "awaited"}
            \/ okSince' = okSince /\ pc[w] \notin {"asked", "looked", "awaited"}
<1>0. pc[w] \in WakePCs /\ w \in Procs /\ w # Loop
  BY LabelsApart DEF TypeInv, TypeOK, PlaceTypeOK, Procs
<1>1. /\ pc'[Loop] = pc[Loop] /\ rest'[Loop] = rest[Loop] /\ began' = began /\ now' = now
      /\ \A q \in Procs \ {w} : pc'[q] = pc[q]
  BY <1>0, LabelsApart DEF WakeNext, Call, WakeReturns, WakeHandsOff, WakeAsk, Ask, WakeAsked,
       LockToRaise, WakeLook, WakeLooked, OrderUp, AwaitAsk, Awaited, StepOn, Goto, worldVars,
       TypeInv, TypeOK, PlaceTypeOK
<1>2. \/ Hear(w, Subject(w)) /\ pc[w] \in {"asked", "looked", "awaited"}
      \/ okSince' = okSince /\ pc[w] \notin {"asked", "looked", "awaited"}
  BY DEF WakeNext, Call, WakeReturns, WakeHandsOff, WakeAsk, Ask, WakeAsked,
       LockToRaise, WakeLook, WakeLooked, OrderUp, AwaitAsk, Awaited, memVars
<1> QED BY <1>1, <1>2

LEMMA WakeKeepsQuiet ==
  ASSUME TypeInv, QuietInv, WatchRefuted, NEW w \in Wakers, WakeNext(w)
  PROVE  QuietInv'
<1> DEFINE s == Subject(w)
<1>0. w \in Procs /\ pc[w] \in WakePCs
  BY DEF Procs, TypeInv, TypeOK, PlaceTypeOK
<1>1. ASSUME NEW t, Refuted(t)
      PROVE  /\ Hear(w, s) /\ t = s /\ ans[w] \in {"no", "asleep"} /\ ~Considered(t)
  <2>1. PICK p \in Procs \ {Loop} : FindsDown(p, t) /\ ~Considered(t)
    BY <1>1, WakeMoves, OnlyMoversRefute
  <2>2. p = w
    BY <2>1, WakeMoves DEF FindsDown
  <2>3. pc[w] \in {"asked", "looked", "awaited"}
    BY <1>0, <2>1, <2>2 DEF FindsDown, WakePCs
  <2> QED BY <2>1, <2>2, <2>3, WakeMoves DEF FindsDown
<1>2. ASSUME NEW t \in Downs PROVE StandsOrGone(t)
  <2>1. CASE Hear(w, s) /\ pc[w] \in {"asked", "looked", "awaited"}
    <3>1. s \in Targets
      BY <1>0, <2>1, SubjectTyped DEF TypeInv, TypeOK, WellPlaced
    <3>2. okSince'[t] = okSince[t] \/ okSince'[t] = Never
      BY <1>0, <2>1, <3>1, HeardStands
    <3>3. Refuted(t) => okSince'[t] = Never
      BY <1>0, <1>1, <2>1, <3>1, HeardStands
    <3> QED BY <3>2, <3>3 DEF StandsOrGone, Stands
  <2>2. CASE okSince' = okSince /\ pc[w] \notin {"asked", "looked", "awaited"}
    <3>1. ~Refuted(t)
      <4> SUFFICES ASSUME Refuted(t) PROVE FALSE
        OBVIOUS
      <4>1. PICK p \in Procs \ {Loop} : FindsDown(p, t)
        BY WakeMoves, OnlyMoversRefute
      <4>2. p = w
        BY <4>1, WakeMoves DEF FindsDown
      <4> QED BY <1>0, <2>2, <4>1, <4>2 DEF FindsDown, WakePCs
    <3> QED BY <2>2, <3>1 DEF StandsOrGone, Stands
  <2> QED BY <2>1, <2>2, WakeMoves
<1>3. pc[Loop] \in InConsider => ~Refuted(Subject(Loop))
  BY <1>1 DEF Considered
<1>4. now' \in 0..MaxTime /\ now' >= now
  BY WakeMoves, TimesAreInts
<1> QED BY <1>2, <1>3, <1>4, WakeMoves, MarksKept, UnbrokenKept DEF QuietInv

-----------------------------------------------------------------------------
(* Steps of the loop. *)

LEMMA LoopMovesAlone ==
  ASSUME TypeInv, LoopNext
  PROVE  now' = now /\ \A q \in Procs \ {Loop} : pc'[q] = pc[q]
<1>1. CASE StartPass \/ SweepAsk \/ SweepHear \/ SweepEnds \/ AskSignal \/ SignalsAsked
           \/ StopReturns \/ PassEnds
  BY <1>1, LabelsApart DEF StartPass, SweepAsk, Ask, SweepHear, SweepEnds, AskSignal, SignalsAsked,
     StopReturns, PassEnds, Goto, worldVars, TypeInv, TypeOK, PlaceTypeOK
<1>2. ASSUME NEW t \in Targets, StopStep(t)
      PROVE  now' = now /\ \A q \in Procs \ {Loop} : pc'[q] = pc[q]
  <2>1. now' = now
    BY <1>2 DEF StopStep, ConsiderRefused, ConsiderBegins, AskCached, AskFresh, Condition, AllAgree,
       LockToStop, LookAgain, Ask, LookedAgain, RecheckUptime, DecideStop, OrderDown, StopFailed,
       StopDone, worldVars
  <2>2. pc' = pc \/ \E label : Goto(Loop, label)
    BY <1>2 DEF StopStep, ConsiderRefused, ConsiderBegins, AskCached, AskFresh, Condition, AllAgree,
       LockToStop, LookAgain, Ask, LookedAgain, RecheckUptime, DecideStop, OrderDown, StopFailed,
       StopDone, Return
  <2> QED BY <2>1, <2>2 DEF Goto, TypeInv, TypeOK, PlaceTypeOK
<1> QED BY <1>1, <1>2 DEF LoopNext

\* What the loop may find against a target, by where it is.
LEMMA LoopRefutes ==
  ASSUME TypeInv, LoopNext, NEW t, Refuted(t)
  PROVE  /\ t = Subject(Loop)
         /\ \/ pc[Loop] \in {"probed", "looked"} /\ ans[Loop] \in {"no", "asleep"}
            \/ pc[Loop] = "next" /\ rest[Loop] # << >> /\ rest'[Loop] # rest[Loop]
               /\ ~(upKnown[t] /\ up[t])
            \/ pc[Loop] \in {"cond", "fresh"} /\ k <= Len(StopWhen[t]) /\ pc'[Loop] = "next"
            \/ pc[Loop] = "downed" /\ ans[Loop] = "yes" /\ pc'[Loop] = "next"
<1>1. pc[Loop] \in LoopPCs
  BY DEF TypeInv, TypeOK, PlaceTypeOK
<1>2. \A p \in Procs : FindsDown(p, t) => p = Loop /\ pc[Loop] \in {"probed", "looked"}
  BY <1>1, LoopMovesAlone DEF FindsDown, LoopPCs
<1> QED BY <1>2 DEF Refuted, FindsDown, Considering

\* A step of the loop that stands by all that is said, and goes on with its
\* subject or leaves it.
LEMMA LoopStandsBy ==
  ASSUME TypeInv, QuietInv, WatchRefuted, LoopNext, okSince' = okSince,
         \A t \in Downs : ~Refuted(t),
         \/ pc'[Loop] \notin InConsider
         \/ /\ pc[Loop] \in Deciding /\ pc'[Loop] \in Deciding
            /\ rest'[Loop] = rest[Loop] /\ began' = began
  PROVE  QuietInv'
<1>1. \A t \in Downs : StandsOrGone(t)
  BY DEF StandsOrGone, Stands
<1>2. now' \in 0..MaxTime /\ now' >= now
  BY LoopMovesAlone, TimesAreInts
<1>3. pc[Loop] \in InConsider => ~Refuted(Subject(Loop))
  BY DEF TypeInv, WellPlaced
<1> QED BY <1>1, <1>2, <1>3, MarksKept, UnbrokenKept DEF QuietInv, InConsider, Deciding

\* A step of the loop that takes back what is said of its subject, and leaves it.
LEMMA LoopTakesBack ==
  ASSUME TypeInv, QuietInv, WatchRefuted, LoopNext, Subject(Loop) \in Targets,
         okSince' = [okSince EXCEPT ![Subject(Loop)] = Never], pc'[Loop] \notin InConsider
  PROVE  QuietInv'
<1>1. ASSUME NEW t \in Downs PROVE StandsOrGone(t)
  <2>1. t \in Targets /\ okSince \in [Targets -> Times]
    BY DownsAssumption DEF TypeInv, TypeOK, MemTypeOK
  <2>2. t # Subject(Loop) => ~Refuted(t)
    BY LoopRefutes
  <2> QED BY <2>1, <2>2 DEF StandsOrGone, Stands
<1>2. now' \in 0..MaxTime /\ now' >= now
  BY LoopMovesAlone, TimesAreInts
<1> QED BY <1>1, <1>2, MarksKept, UnbrokenKept DEF QuietInv, InConsider, Deciding

LEMMA PassKeepsQuiet ==
  ASSUME TypeInv, QuietInv, WatchRefuted, LoopNext,
         StartPass \/ SweepAsk \/ SweepEnds \/ AskSignal \/ SignalsAsked \/ StopReturns \/ PassEnds
  PROVE  QuietInv'
<1>1. /\ okSince' = okSince /\ pc'[Loop] \notin InConsider
      /\ \/ pc[Loop] \in {"idle", "probe", "signals"}
         \/ pc[Loop] = "next" /\ rest[Loop] = << >>
  BY LabelsApart DEF StartPass, SweepAsk, Ask, SweepEnds, AskSignal, SignalsAsked, StopReturns,
                     PassEnds, Goto, memVars, InConsider
<1>2. \A t \in Downs : ~Refuted(t)
  BY <1>1, LoopRefutes
<1> QED BY <1>1, <1>2, LoopStandsBy

\* An answer the loop gets, in its sweep or under the lock.
LEMMA HeardKeepsQuiet ==
  ASSUME TypeInv, QuietInv, WatchRefuted, LoopNext,
         SweepHear \/ \E t \in Targets : LookedAgain(t)
  PROVE  QuietInv'
<1> DEFINE s == Subject(Loop)
<1>1. /\ Hear(Loop, s) /\ pc[Loop] \in {"probed", "looked"}
      /\ \/ pc'[Loop] \notin InConsider
         \/ /\ ans[Loop] = "yes" /\ pc[Loop] \in Deciding
            /\ rest'[Loop] = rest[Loop] /\ began' = began
  BY LabelsApart DEF SweepHear, LookedAgain, Return, Goto, InConsider, Deciding
<1>2. s \in Targets /\ Loop \in Procs
  BY <1>1, SubjectTyped, LabelsApart DEF TypeInv, TypeOK, WellPlaced, InConsider
<1>3. ASSUME NEW t \in Downs PROVE StandsOrGone(t)
  <2>1. okSince'[t] = okSince[t] \/ okSince'[t] = Never
    BY <1>1, <1>2, HeardStands
  <2>2. Refuted(t) => t = s /\ ans[Loop] \in {"no", "asleep"}
    BY <1>1, LoopRefutes
  <2>3. Refuted(t) => okSince'[t] = Never
    BY <1>1, <1>2, <2>2, HeardStands
  <2> QED BY <2>1, <2>3 DEF StandsOrGone, Stands
<1>4. ans[Loop] = "yes" => ~Refuted(s)
  BY <1>1, LoopRefutes
<1>5. now' \in 0..MaxTime /\ now' >= now
  BY LoopMovesAlone, TimesAreInts
<1> QED BY <1>1, <1>3, <1>4, <1>5, MarksKept, UnbrokenKept DEF QuietInv, InConsider, Deciding

-----------------------------------------------------------------------------
\* considerDown turns back at once, or begins.
LEMMA ConsiderKeepsQuiet ==
  ASSUME TypeInv, QuietInv, WatchRefuted, LoopNext,
         NEW t \in Targets, ConsiderRefused(t) \/ ConsiderBegins(t)
  PROVE  QuietInv'
<1>1. pc[Loop] = "next" /\ t = Subject(Loop)
  BY DEF ConsiderRefused, ConsiderBegins, Considering
<1>2. CASE ConsiderRefused(t)
  <2>1. pc'[Loop] \notin InConsider
    BY <1>2, LabelsApart DEF ConsiderRefused, Return, Goto, InConsider
  <2>2. CASE t \in Downs /\ ~(upKnown[t] /\ up[t])
    <3>1. okSince' = [okSince EXCEPT ![t] = Never]
      BY <1>2, <2>2 DEF ConsiderRefused, ClearOK
    <3> QED BY <1>1, <2>1, <3>1, LoopTakesBack
  <2>3. CASE ~(t \in Downs /\ ~(upKnown[t] /\ up[t]))
    <3>1. okSince' = okSince
      BY <1>2, <2>3 DEF ConsiderRefused
    <3>2. \A u \in Downs : ~Refuted(u)
      BY <1>1, <2>3, LoopRefutes
    <3> QED BY <2>1, <3>1, <3>2, LoopStandsBy
  <2> QED BY <2>2, <2>3
<1>3. CASE ConsiderBegins(t)
  <2>1. /\ okSince' = okSince /\ rest'[Loop] = rest[Loop] /\ began' = now /\ pc'[Loop] = "cond"
        /\ t \in Downs /\ upKnown[t] /\ up[t]
    BY <1>3, LabelsApart DEF ConsiderBegins, Goto, memVars
  <2>2. \A u \in Downs : ~Refuted(u)
    BY <1>1, <2>1, LoopRefutes
  <2>3. RefutedInv' /\ QuietSinceLastRefused'
    BY <2>1, <2>2, MarksKept, LoopMovesAlone, TimesAreInts DEF StandsOrGone, Stands
  <2>4. Subject(Loop)' = t /\ refutedAt'[t] = refutedAt[t] /\ now >= refutedAt[t]
    <3>1. refutedAt'[t] = refutedAt[t]
      BY <2>1, <2>2 DEF WatchRefuted
    <3>2. refutedAt[t] <= now /\ refutedAt[t] \in 0..MaxTime
      BY <2>1 DEF QuietInv, RefutedInv
    <3> QED BY <1>1, <2>1, <3>1, <3>2, TimesAreInts DEF Subject
  <2>5. UnbrokenInv'
    BY <2>1, <2>4 DEF UnbrokenInv, Deciding
  <2> QED BY <2>3, <2>5 DEF QuietInv
<1> QED BY <1>2, <1>3

LEMMA ConditionKeepsQuiet ==
  ASSUME TypeInv, QuietInv, WatchRefuted, LoopNext,
         NEW t \in Targets, AskCached(t) \/ AskFresh(t)
  PROVE  QuietInv'
<1>1. /\ pc[Loop] \in {"cond", "fresh"} /\ t = Subject(Loop)
      /\ \/ okSince' = okSince /\ pc' = pc /\ rest' = rest /\ began' = began
         \/ okSince' = [okSince EXCEPT ![t] = Never] /\ pc'[Loop] = "next"
  BY LabelsApart DEF AskCached, AskFresh, Condition, ClearOK, Return, Goto
<1>2. CASE okSince' = okSince /\ pc' = pc /\ rest' = rest /\ began' = began
  <2>1. \A u \in Downs : ~Refuted(u)
    BY <1>1, <1>2, LoopRefutes
  <2>2. ~Refuted(t)
    BY <1>1, <2>1 DEF TypeInv, WellPlaced, InConsider
  <2>3. RefutedInv' /\ QuietSinceLastRefused'
    BY <1>2, <2>1, MarksKept, LoopMovesAlone, TimesAreInts DEF StandsOrGone, Stands
  <2> QED BY <1>1, <1>2, <2>2, <2>3, UnbrokenKept DEF QuietInv
<1>3. CASE okSince' = [okSince EXCEPT ![t] = Never] /\ pc'[Loop] = "next"
  BY <1>1, <1>3, LoopTakesBack DEF InConsider
<1> QED BY <1>1, <1>2, <1>3

\* Every condition agrees: what is set, or was, is no older than the last time
\* the target was refuted, and so the grace is counted from there at the earliest.
LEMMA AllAgreeKeepsQuiet ==
  ASSUME TypeInv, QuietInv, WatchRefuted, LoopNext, NEW t \in Targets, AllAgree(t)
  PROVE  QuietInv'
<1> DEFINE since == AgreedSince(t)
<1>1. /\ pc[Loop] = "cond" /\ t = Subject(Loop) /\ k > Len(StopWhen[t])
      /\ okSince' = [okSince EXCEPT ![t] = since]
      /\ \/ pc'[Loop] = "next"
         \/ GraceOver(t, since) /\ pc'[Loop] = "lock" /\ rest' = rest /\ began' = began
  BY LabelsApart DEF AllAgree, Return, Goto
<1>2. /\ t \in Downs /\ Len(StopWhen[t]) \in Nat /\ k \in Nat
      /\ okSince \in [Targets -> Times] /\ Downs \subseteq Targets
  <2>1. t \in Downs
    BY <1>1 DEF TypeInv, WellPlaced, InConsider
  <2>2. k \in Nat /\ okSince \in [Targets -> Times]
    BY DEF TypeInv, TypeOK, MemTypeOK, LocalTypeOK
  <2> QED BY <2>1, <2>2, DownsAssumption
<1>3. \A u \in Downs : ~Refuted(u)
  BY <1>1, <1>2, LoopRefutes
<1>4. refutedAt' = refutedAt /\ refutedAt \in [Downs -> 0..MaxTime]
  BY <1>3 DEF WatchRefuted, QuietInv, RefutedInv
<1>5. since >= refutedAt[t] /\ since \in Int
  BY <1>1, <1>2, TimesAreInts
     DEF AgreedSince, QuietInv, QuietSinceLastRefused, UnbrokenInv, InConsider
<1>6. RefutedInv'
  BY <1>4, LoopMovesAlone DEF QuietInv, RefutedInv
<1>7. ASSUME NEW u \in Downs, okSince'[u] # Never PROVE okSince'[u] >= refutedAt'[u]
  <2>1. CASE u = t
    BY <1>1, <1>2, <1>4, <1>5, <2>1
  <2>2. CASE u # t
    BY <1>1, <1>2, <1>4, <1>7, <2>2 DEF QuietInv, QuietSinceLastRefused
  <2> QED BY <2>1, <2>2
<1>8. UnbrokenInv'
  <2>1. CASE pc'[Loop] = "next"
    BY <2>1 DEF UnbrokenInv, InConsider, Deciding
  <2>2. CASE GraceOver(t, since) /\ pc'[Loop] = "lock" /\ rest' = rest /\ began' = began
    <3>1. Subject(Loop)' = t /\ began >= refutedAt[t]
      BY <1>1, <2>2 DEF Subject, QuietInv, UnbrokenInv, InConsider
    <3>2. began - since >= Grace[t] /\ refutedAt[t] \in Int
      BY <1>2, <1>4, <2>2, TimesAreInts DEF GraceOver
    <3>3. began - refutedAt[t] >= Grace[t]
      BY <1>2, <1>5, <3>2, TimesAreInts
    <3> QED BY <1>4, <2>2, <3>1, <3>3 DEF UnbrokenInv
  <2> QED BY <1>1, <2>1, <2>2
<1> QED BY <1>6, <1>7, <1>8 DEF QuietInv, QuietSinceLastRefused

\* From the lock to the order, and its failure.
LEMMA StopKeepsQuiet ==
  ASSUME TypeInv, QuietInv, WatchRefuted, LoopNext, NEW t \in Targets,
         \/ LockToStop(t) \/ LookAgain(t) \/ RecheckUptime(t) \/ DecideStop(t) \/ OrderDown(t)
         \/ StopFailed(t)
  PROVE  QuietInv'
<1>1. /\ okSince' = okSince /\ t = Subject(Loop)
      /\ \/ pc'[Loop] = "next"
         \/ pc'[Loop] \in Deciding /\ rest' = rest /\ began' = began
      /\ \/ pc[Loop] \in {"lock", "look", "recheck", "down"}
         \/ pc[Loop] = "fresh" /\ k > Len(StopWhen[t])
         \/ pc[Loop] = "downed" /\ ans[Loop] = "err"
  BY LabelsApart DEF LockToStop, LookAgain, Ask, RecheckUptime, DecideStop, OrderDown, StopFailed,
                     Return, Goto, memVars, Deciding
<1>2. t \in Downs /\ Len(StopWhen[t]) \in Nat /\ k \in Nat
  BY <1>1, DownsAssumption DEF TypeInv, TypeOK, LocalTypeOK, WellPlaced, InConsider
<1>3. \A u \in Downs : ~Refuted(u)
  BY <1>1, <1>2, LoopRefutes
<1> QED BY <1>1, <1>3, LoopStandsBy DEF InConsider, Deciding

LEMMA DoneKeepsQuiet ==
  ASSUME TypeInv, QuietInv, WatchRefuted, LoopNext, NEW t \in Targets, StopDone(t)
  PROVE  QuietInv'
<1>1. t = Subject(Loop) /\ okSince' = [okSince EXCEPT ![t] = Never] /\ pc'[Loop] = "next"
  BY LabelsApart DEF StopDone, ClearOK, Goto
<1> QED BY <1>1, LoopTakesBack DEF InConsider

LEMMA LoopKeepsQuiet ==
  ASSUME TypeInv, QuietInv, WatchRefuted, LoopNext
  PROVE  QuietInv'
<1>1. CASE StartPass \/ SweepAsk \/ SweepEnds \/ AskSignal \/ SignalsAsked \/ StopReturns \/ PassEnds
  BY <1>1, PassKeepsQuiet
<1>2. CASE SweepHear
  BY <1>2, HeardKeepsQuiet
<1>3. ASSUME NEW t \in Targets, StopStep(t) PROVE QuietInv'
  BY <1>3, ConsiderKeepsQuiet, ConditionKeepsQuiet, AllAgreeKeepsQuiet, StopKeepsQuiet,
     HeardKeepsQuiet, DoneKeepsQuiet DEF StopStep
<1> QED BY <1>1, <1>2, <1>3 DEF LoopNext

-----------------------------------------------------------------------------
LEMMA QuietAtFirst == Init /\ QuietInit => QuietInv
<1> SUFFICES ASSUME Init, QuietInit PROVE QuietInv
  OBVIOUS
<1>1. pc[Loop] = "idle" /\ now = 0 /\ okSince = [t \in Targets |-> Never]
  BY ProcsAssumption DEF Init, Procs
<1>2. RefutedInv
  BY <1>1, WorldAssumption DEF QuietInit, RefutedInv
<1>3. QuietSinceLastRefused
  BY <1>1, DownsAssumption DEF QuietSinceLastRefused
<1> QED BY <1>1, <1>2, <1>3 DEF QuietInv, UnbrokenInv, InConsider, Deciding

LEMMA QuietKept ==
  TypeInv /\ TypeInv' /\ QuietInv /\ [QuietNext]_<<vars, refutedAt>> => QuietInv'
<1> SUFFICES ASSUME TypeInv, TypeInv', QuietInv, [QuietNext]_<<vars, refutedAt>> PROVE QuietInv'
  OBVIOUS
<1>1. CASE UNCHANGED <<vars, refutedAt>>
  BY <1>1 DEF vars, worldVars, memVars, procVars, QuietInv, RefutedInv, QuietSinceLastRefused,
              UnbrokenInv, Subject
<1>2. CASE WatchRefuted /\ WorldNext /\ UNCHANGED <<memVars, procVars>>
  BY <1>2, WorldKeepsQuiet
<1>3. CASE WatchRefuted /\ LoopNext
  BY <1>3, LoopKeepsQuiet
<1>4. ASSUME NEW w \in Wakers, WakeNext(w), WatchRefuted PROVE QuietInv'
  BY <1>4, WakeKeepsQuiet
<1> QED BY <1>1, <1>2, <1>3, <1>4 DEF QuietNext, Next

\* "Quiet since", wherever it is shown, is no older than the last time anybody
\* found the target down, the loop was told that a condition does not agree or
\* could not tell, or it was stopped: for any fleet, entries that share signals
\* or that no manages names, any holds, any number of wakes and any faults.
THEOREM QuietUnrefuted == QuietSpec => []QuietSinceLastRefused
<1>1. QuietInv => QuietSinceLastRefused
  BY DEF QuietInv
<1>2. [QuietNext]_<<vars, refutedAt>> => [Next]_vars
  BY DEF QuietNext
<1> QED BY <1>1, <1>2, TypeInit, NextKeepsType, QuietAtFirst, QuietKept, PTL DEF QuietSpec

\* No target is ordered down on a grace that was interrupted, for the same
\* configurations, wakes and faults.
THEOREM GraceIsUnbroken == QuietSpec => []GraceUnbroken
<1>1. QuietInv => GraceUnbroken
  BY DEF QuietInv, UnbrokenInv, GraceUnbroken, Deciding
<1>2. [QuietNext]_<<vars, refutedAt>> => [Next]_vars
  BY DEF QuietNext
<1> QED BY <1>1, <1>2, TypeInit, NextKeepsType, QuietAtFirst, QuietKept, PTL DEF QuietSpec
=============================================================================
