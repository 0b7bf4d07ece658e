---------------------------- MODULE EngineProofs ----------------------------
(***************************************************************************)
(* What is proved of the engine for every configuration, every number of   *)
(* wakes and every choice of faults.                                       *)
(***************************************************************************)
EXTENDS Engine, TLAPS

TypeInv == TypeOK /\ WellPlaced

-----------------------------------------------------------------------------
(* What the operators the steps are built from return. *)

\* The clock may be written down as a time, and so may its absence.
LEMMA ClockTyped == WorldTypeOK => now \in 0..MaxTime /\ now \in Times /\ Never \in Times
<1> SUFFICES ASSUME WorldTypeOK PROVE now \in 0..MaxTime /\ now \in Times /\ Never \in Times
  OBVIOUS
<1>1. now \in 0..MaxTime
  BY DEF WorldTypeOK
<1> QED BY <1>1, WorldAssumption DEF Times, Never

\* Evaluating a signal gives a value, stamped within the clock's range.
LEMMA EvaluationsTyped ==
  ASSUME TypeOK, NEW s \in Signals, NEW force, NEW v \in Evaluations(s, force)
  PROVE  v \in Values
<1>1. vals[s] \in Values /\ now \in Times
  BY ClockTyped DEF TypeOK, MemTypeOK
<1>2. Unknown \in Values
  BY WorldAssumption DEF Unknown, Values, Times, Never
<1>3. \A b \in BOOLEAN : [known |-> TRUE, true |-> b, at |-> now] \in Values
  BY <1>1 DEF Values
<1>4. HeldOn(HoldOf[s]) \in BOOLEAN
  BY DEF HeldOn
<1>5. CASE s \in HoldSignals
  <2>1. v = [known |-> TRUE, true |-> HeldOn(HoldOf[s]), at |-> now]
    BY <1>5, SignalsAssumption DEF Evaluations
  <2> QED BY <2>1, <1>3, <1>4
<1>6. CASE s \in Declared /\ Reusable(s, force)
  BY <1>6, <1>1, SignalsAssumption DEF Evaluations
<1>7. CASE s \in Declared /\ ~Reusable(s, force)
  <2>1. \/ v = Unknown
        \/ \E a \in SignalAnswers(s) : v = [known |-> TRUE, true |-> a = "yes", at |-> now]
    BY <1>7, SignalsAssumption DEF Evaluations
  <2>2. \A a : (a = "yes") \in BOOLEAN
    OBVIOUS
  <2> QED BY <2>1, <2>2, <1>2, <1>3
<1>8. CASE s \in Undeclared
  <2>1. v = Unknown
    BY <1>8, SignalsAssumption DEF Evaluations
  <2> QED BY <2>1, <1>2
<1> QED BY <1>5, <1>6, <1>7, <1>8 DEF Signals

\* Machines answer yes, no, or with an error.
LEMMA StateAnswersTyped == \A t \in Targets : StateAnswers(t) \subseteq {"yes", "no", "err"}
  BY DEF StateAnswers, Replies, YesNo

\* Asking leaves everything but the answer and the label alone, and both typed.
LEMMA AskTyped ==
  ASSUME TypeOK, NEW p \in Procs, NEW t \in Targets,
         NEW label \in LoopPCs \union WakePCs, Ask(p, t, label)
  PROVE  /\ ans' \in [Procs -> Answers]
         /\ pc' = [pc EXCEPT ![p] = label]
         /\ UNCHANGED <<worldVars, memVars, acting, rest, seenAny, k, began, held, deadline>>
<1>1. \E a \in {"asleep"} \union StateAnswers(t) : ans' = [ans EXCEPT ![p] = a]
  BY DEF Ask
<1>2. ans \in [Procs -> Answers]
  BY DEF TypeOK, MemTypeOK, LocalTypeOK
<1> QED BY <1>1, <1>2, StateAnswersTyped DEF Ask, Answers, Goto

\* Writing an answer down keeps the maps it touches typed.
LEMMA HearTyped ==
  ASSUME TypeOK, NEW p \in Procs, NEW t \in Targets, Hear(p, t)
  PROVE  /\ up' \in [Targets -> BOOLEAN] /\ upKnown' \in [Targets -> BOOLEAN]
         /\ upSince' \in [Targets -> Times] /\ okSince' \in [Targets -> Times]
         /\ ans' \in [Procs -> Answers]
<1>1. up' \in [Targets -> BOOLEAN]
  <2> DEFINE b == IF ans[p] = "err" THEN up[t] ELSE ans[p] = "yes"
  <2>1. b \in BOOLEAN
    BY DEF TypeOK, MemTypeOK, LocalTypeOK
  <2>2. up' = [up EXCEPT ![t] = b]
    BY DEF Hear
  <2> HIDE DEF b
  <2> QED BY <2>1, <2>2 DEF TypeOK, MemTypeOK, LocalTypeOK
<1>2. upKnown' \in [Targets -> BOOLEAN]
  <2> DEFINE b == ans[p] \in {"yes", "no"}
  <2>1. b \in BOOLEAN
    OBVIOUS
  <2>2. upKnown' = [upKnown EXCEPT ![t] = b]
    BY DEF Hear
  <2> HIDE DEF b
  <2> QED BY <2>1, <2>2 DEF TypeOK, MemTypeOK, LocalTypeOK
<1>3. now \in Times /\ Never \in Times
  BY ClockTyped DEF TypeOK
<1>4. upSince' \in [Targets -> Times]
  <2>1. UpSinceAfter(t, ans[p]) \in Times
    BY <1>3, ClockTyped DEF TypeOK, MemTypeOK, LocalTypeOK, UpSinceAfter
  <2> QED BY <2>1 DEF Hear, TypeOK, MemTypeOK, LocalTypeOK
<1>5. okSince' \in [Targets -> Times]
  <2>1. OkSinceAfter(t, ans[p]) \in Times
    BY <1>3 DEF TypeOK, MemTypeOK, LocalTypeOK, OkSinceAfter
  <2> QED BY <2>1 DEF Hear, TypeOK, MemTypeOK, LocalTypeOK
<1>6. ans' \in [Procs -> Answers]
  BY DEF Hear, TypeOK, MemTypeOK, LocalTypeOK, Answers
<1> QED BY <1>1, <1>2, <1>4, <1>5, <1>6

-----------------------------------------------------------------------------
(* Type correctness, with what holds of the locals at each label: first that *)
(* it holds initially, then group by group that every step keeps it.         *)

LEMMA TypeInit == Init => TypeInv
<1> SUFFICES ASSUME Init PROVE TypeInv
  OBVIOUS
<1>1. WorldTypeOK
  <2>1. power \in [Targets -> Powers]
    <3>1. power \in [Targets -> {"off", "on"}]
      BY DEF Init
    <3> QED BY <3>1 DEF Powers
  <2>2. truth \in [FreeSignals -> BOOLEAN] /\ holds \subseteq HoldChoices
    BY DEF Init
  <2>3. now \in 0..MaxTime /\ changes \in 0..MaxChanges
    <3>1. now = 0 /\ changes = 0
      BY DEF Init
    <3> QED BY <3>1, WorldAssumption
  <2> QED BY <2>1, <2>2, <2>3 DEF WorldTypeOK
<1>2. Never \in Times /\ 0 \in 0..MaxTime
  BY WorldAssumption DEF Times, Never
<1>3. Unknown \in Values
  BY <1>2 DEF Unknown, Values
<1>4. MemTypeOK
  BY <1>2, <1>3 DEF Init, MemTypeOK
<1>5. PlaceTypeOK
  <2>1. acting \in [Targets -> Procs \union {NoOne}]
    BY DEF Init
  <2>2. pc \in [Procs -> LoopPCs \union WakePCs]
    <3>1. pc = [p \in Procs |-> IF p = Loop THEN "idle" ELSE "call"]
      BY DEF Init
    <3> QED BY <3>1 DEF LoopPCs, WakePCs
  <2>3. pc[Loop] = "idle" /\ \A w \in Wakers : pc[w] = "call"
    BY ProcsAssumption DEF Init, Procs
  <2>4. rest \in [Procs -> Seq(Targets)] /\ held \in Seq(Frames)
    <3>1. rest = [p \in Procs |-> << >>] /\ held = << >>
      BY DEF Init
    <3> QED BY <3>1
  <2> QED BY <2>1, <2>2, <2>3, <2>4 DEF PlaceTypeOK, LoopPCs, WakePCs
<1>6. LocalTypeOK
  <2>1. /\ ans = [p \in Procs |-> "none"] /\ deadline = [w \in Wakers |-> 0]
        /\ seenAny = FALSE /\ k = 0 /\ began = 0
    BY DEF Init
  <2>2. ans \in [Procs -> Answers]
    BY <2>1 DEF Answers
  <2>3. deadline \in [Wakers -> Int] /\ k \in Nat
    BY <2>1
  <2>4. began \in 0..MaxTime /\ seenAny \in BOOLEAN
    BY <1>2, <2>1
  <2> QED BY <2>2, <2>3, <2>4 DEF LocalTypeOK
<1>7. WellPlaced
  BY ProcsAssumption DEF Init, WellPlaced, InConsider, Procs
<1> QED BY <1>1, <1>4, <1>5, <1>6, <1>7 DEF TypeInv, TypeOK

\* What the world does by itself keeps the world typed.
LEMMA WorldStepTyped == WorldTypeOK /\ WorldNext => WorldTypeOK'
<1> SUFFICES ASSUME WorldTypeOK, WorldNext PROVE WorldTypeOK'
  OBVIOUS
<1>1. CASE Tick
  BY <1>1, WorldAssumption DEF Tick, WorldTypeOK
<1>2. ASSUME NEW t \in Targets, Settle(t) PROVE WorldTypeOK'
  <2>1. power' \in [Targets -> Powers]
    BY <1>2 DEF Settle, WorldTypeOK, Powers
  <2> QED BY <1>2, <2>1 DEF Settle, WorldTypeOK
<1>3. ASSUME Budget PROVE changes' \in 0..MaxChanges
  BY <1>3, WorldAssumption DEF Budget, WorldTypeOK
<1>4. ASSUME NEW t \in Hands, SwitchByHand(t) PROVE WorldTypeOK'
  <2>1. t \in Targets
    BY WorldAssumption
  <2>2. power' \in [Targets -> Powers]
    BY <1>4, <2>1 DEF SwitchByHand, WorldTypeOK, Powers
  <2> QED BY <1>4, <1>3, <2>2 DEF SwitchByHand, WorldTypeOK
<1>5. ASSUME NEW s \in FreeSignals, Flip(s) PROVE WorldTypeOK'
  <2>1. truth' \in [FreeSignals -> BOOLEAN]
    <3> DEFINE b == ~truth[s]
    <3>1. b \in BOOLEAN /\ truth' = [truth EXCEPT ![s] = b]
      BY <1>5 DEF Flip
    <3> HIDE DEF b
    <3> QED BY <3>1 DEF WorldTypeOK
  <2> QED BY <1>5, <1>3, <2>1 DEF Flip, WorldTypeOK
<1>6. ASSUME NEW h \in HoldChoices, WriteHold(h) PROVE WorldTypeOK'
  BY <1>6, <1>3 DEF WriteHold, WorldTypeOK
<1> QED BY <1>1, <1>2, <1>4, <1>5, <1>6 DEF WorldNext

\* So does every order the engine gives.
LEMMA OrderTyped ==
  ASSUME WorldTypeOK, NEW t \in Targets, NEW o, Raise(t, o) \/ Lower(t, o),
         UNCHANGED <<truth, holds, now, changes>>
  PROVE  WorldTypeOK'
<1>1. power' \in [Targets -> Powers]
  BY DEF Raise, Lower, WorldTypeOK, Powers
<1> QED BY <1>1 DEF WorldTypeOK

\* A goroutine that goes to one of its labels leaves the others where they are.
LEMMA LoopGoes ==
  ASSUME PlaceTypeOK, NEW label \in LoopPCs, Goto(Loop, label)
  PROVE  /\ pc' \in [Procs -> LoopPCs \union WakePCs]
         /\ pc'[Loop] = label /\ pc'[Loop] \in LoopPCs
         /\ \A w \in Wakers : pc'[w] = pc[w] /\ pc'[w] \in WakePCs
  BY ProcsAssumption DEF PlaceTypeOK, Goto, Procs

LEMMA WakeGoes ==
  ASSUME PlaceTypeOK, NEW w \in Wakers, NEW label \in WakePCs, Goto(w, label)
  PROVE  /\ pc' \in [Procs -> LoopPCs \union WakePCs]
         /\ pc'[w] = label
         /\ \A v \in Wakers : pc'[v] \in WakePCs /\ (v # w => pc'[v] = pc[v])
         /\ pc'[Loop] = pc[Loop] /\ pc'[Loop] \in LoopPCs
  BY ProcsAssumption DEF PlaceTypeOK, Goto, Procs

\* Where a goroutine is at work its subject is a target.
LEMMA SubjectTyped ==
  ASSUME PlaceTypeOK, NEW p \in Procs, rest[p] # << >>
  PROVE  Subject(p) \in Targets /\ rest[p] \in Seq(Targets) /\ Tail(rest[p]) \in Seq(Targets)
  BY DEF PlaceTypeOK, Subject

\* What a step of the loop must see to, for everyone to stay well placed.
LEMMA LoopPlaced ==
  ASSUME TypeInv, NEW label \in LoopPCs, Goto(Loop, label),
         NEW r \in Seq(Targets), rest' = [rest EXCEPT ![Loop] = r],
         acting' \in [Targets -> Procs \union {NoOne}], held' \in Seq(Frames),
         label \in InConsider \union {"probed"} => r # << >>,
         label \in InConsider => Head(r) \in Downs,
         label \in {"signals", "cond", "fresh"} => k' >= 1
  PROVE  PlaceTypeOK' /\ WellPlaced'
<1>1. /\ pc' \in [Procs -> LoopPCs \union WakePCs]
      /\ pc'[Loop] = label /\ pc'[Loop] \in LoopPCs
      /\ \A w \in Wakers : pc'[w] = pc[w] /\ pc'[w] \in WakePCs
  BY LoopGoes DEF TypeInv, TypeOK
<1>2. /\ rest' \in [Procs -> Seq(Targets)]
      /\ rest'[Loop] = r
      /\ \A w \in Wakers : rest'[w] = rest[w]
  BY ProcsAssumption DEF TypeInv, TypeOK, PlaceTypeOK, Procs
<1>3. PlaceTypeOK'
  BY <1>1, <1>2 DEF PlaceTypeOK
<1>4. \A w \in Wakers : pc'[w] \notin {"call", "step", "ok", "failed"} => rest'[w] # << >>
  BY <1>1, <1>2 DEF TypeInv, WellPlaced
<1>5. WellPlaced'
  BY <1>1, <1>2, <1>4 DEF WellPlaced, Subject
<1> QED BY <1>3, <1>5

\* The same for a step of a wake.
LEMMA WakePlaced ==
  ASSUME TypeInv, NEW w \in Wakers, NEW label \in WakePCs, Goto(w, label),
         NEW r \in Seq(Targets), rest' = [rest EXCEPT ![w] = r],
         acting' \in [Targets -> Procs \union {NoOne}], UNCHANGED <<k, held>>,
         label \notin {"call", "step", "ok", "failed"} => r # << >>
  PROVE  PlaceTypeOK' /\ WellPlaced'
<1>1. /\ pc' \in [Procs -> LoopPCs \union WakePCs]
      /\ pc'[w] = label
      /\ \A v \in Wakers : pc'[v] \in WakePCs /\ (v # w => pc'[v] = pc[v])
      /\ pc'[Loop] = pc[Loop] /\ pc'[Loop] \in LoopPCs
  BY WakeGoes DEF TypeInv, TypeOK
<1>2. /\ rest' \in [Procs -> Seq(Targets)]
      /\ rest'[w] = r /\ rest'[Loop] = rest[Loop]
      /\ \A v \in Wakers : v # w => rest'[v] = rest[v]
  BY ProcsAssumption DEF TypeInv, TypeOK, PlaceTypeOK, Procs
<1>3. PlaceTypeOK'
  BY <1>1, <1>2 DEF PlaceTypeOK, TypeInv, TypeOK
<1>4. \A v \in Wakers : pc'[v] \notin {"call", "step", "ok", "failed"} => rest'[v] # << >>
  BY <1>1, <1>2 DEF TypeInv, WellPlaced
<1>5. WellPlaced'
  BY <1>1, <1>2, <1>4 DEF TypeInv, WellPlaced, Subject
<1> QED BY <1>3, <1>5

\* A group of variables that is left alone stays typed.
LEMMA WorldStays == WorldTypeOK /\ UNCHANGED worldVars => WorldTypeOK'
  BY DEF WorldTypeOK, worldVars

LEMMA MemStays == MemTypeOK /\ UNCHANGED memVars => MemTypeOK'
  BY DEF MemTypeOK, memVars

LEMMA LocalStays ==
  LocalTypeOK /\ UNCHANGED <<ans, seenAny, k, began, deadline>> => LocalTypeOK'
  BY DEF LocalTypeOK

\* Locks are taken and released by those who may.
LEMMA LockTyped ==
  ASSUME PlaceTypeOK, NEW t \in Targets, NEW p \in Procs, Lock(p, t) \/ Unlock(t)
  PROVE  acting' \in [Targets -> Procs \union {NoOne}]
  BY DEF PlaceTypeOK, Lock, Unlock

\* Leaving a list or a label alone is setting it to what it was.
LEMMA Kept ==
  ASSUME PlaceTypeOK, NEW p \in Procs
  PROVE  /\ UNCHANGED rest => rest' = [rest EXCEPT ![p] = rest[p]]
         /\ UNCHANGED pc => Goto(p, pc[p])
  BY DEF PlaceTypeOK, Goto

-----------------------------------------------------------------------------
LEMMA SweepKeepsType ==
  TypeInv /\ (StartPass \/ SweepAsk \/ SweepHear \/ SweepEnds \/ AskSignal \/ SignalsAsked)
    => TypeInv'
<1> SUFFICES ASSUME TypeInv
    PROVE StartPass \/ SweepAsk \/ SweepHear \/ SweepEnds \/ AskSignal \/ SignalsAsked
            => TypeInv'
  OBVIOUS
<1>t. WorldTypeOK /\ MemTypeOK /\ PlaceTypeOK /\ LocalTypeOK
  BY DEF TypeInv, TypeOK
<1>p. Loop \in Procs
  BY DEF Procs
<1>r. /\ rest[Loop] \in Seq(Targets)
      /\ acting \in [Targets -> Procs \union {NoOne}] /\ held \in Seq(Frames)
      /\ UNCHANGED rest => rest' = [rest EXCEPT ![Loop] = rest[Loop]]
      /\ UNCHANGED pc => Goto(Loop, pc[Loop])
  BY <1>t, <1>p, Kept DEF PlaceTypeOK
<1> DEFINE Done == WorldTypeOK' /\ MemTypeOK' /\ LocalTypeOK' /\ (PlaceTypeOK' /\ WellPlaced')
<1>q. Done => TypeInv'
  BY DEF TypeInv, TypeOK
<1>1. CASE StartPass
  <2>1. PlaceTypeOK' /\ WellPlaced'
    <3>1. "probe" \in LoopPCs /\ "probe" \notin InConsider \union {"probed", "signals"}
      BY DEF LoopPCs, InConsider
    <3> QED BY <1>1, <1>r, <3>1, LoopPlaced, OrdersAssumption DEF StartPass, InConsider
  <2>2. WorldTypeOK' /\ MemTypeOK' /\ LocalTypeOK'
    BY <1>1, <1>t, WorldStays DEF StartPass, MemTypeOK, LocalTypeOK
  <2> QED BY <2>1, <2>2, <1>q
<1>2. CASE SweepAsk
  <2>1. Subject(Loop) \in Targets /\ "probed" \in LoopPCs /\ "probed" \notin InConsider
    BY <1>2, <1>t, <1>p, SubjectTyped DEF SweepAsk, LoopPCs, InConsider
  <2>2. /\ ans' \in [Procs -> Answers]
        /\ pc' = [pc EXCEPT ![Loop] = "probed"]
        /\ UNCHANGED <<worldVars, memVars, acting, rest, seenAny, k, began, held, deadline>>
    BY <1>2, <1>t, <1>p, <2>1, AskTyped DEF SweepAsk, TypeOK
  <2>3. PlaceTypeOK' /\ WellPlaced'
    BY <1>2, <1>r, <2>1, <2>2, LoopPlaced DEF SweepAsk, Goto
  <2>4. WorldTypeOK' /\ MemTypeOK' /\ LocalTypeOK'
    BY <1>t, <2>2, WorldStays, MemStays DEF LocalTypeOK
  <2> QED BY <2>3, <2>4, <1>q
<1>3. CASE SweepHear
  <2>1. rest[Loop] # << >>
    BY <1>3 DEF SweepHear, TypeInv, WellPlaced
  <2>2. Subject(Loop) \in Targets /\ Tail(rest[Loop]) \in Seq(Targets)
    BY <2>1, <1>t, <1>p, SubjectTyped
  <2>3. /\ up' \in [Targets -> BOOLEAN] /\ upKnown' \in [Targets -> BOOLEAN]
        /\ upSince' \in [Targets -> Times] /\ okSince' \in [Targets -> Times]
        /\ ans' \in [Procs -> Answers]
    BY <1>3, <1>t, <1>p, <2>2, HearTyped DEF SweepHear, TypeOK
  <2>4. PlaceTypeOK' /\ WellPlaced'
    <3>1. "probe" \in LoopPCs /\ "probe" \notin InConsider \union {"probed", "signals"}
      BY DEF LoopPCs, InConsider
    <3> QED BY <1>3, <1>r, <2>2, <3>1, LoopPlaced DEF SweepHear, InConsider
  <2>5. WorldTypeOK' /\ MemTypeOK'
    BY <1>3, <1>t, <2>3, WorldStays DEF SweepHear, MemTypeOK
  <2>6. LocalTypeOK'
    BY <1>3, <1>t, <2>3 DEF SweepHear, LocalTypeOK
  <2> QED BY <2>4, <2>5, <2>6, <1>q
<1>4. CASE SweepEnds
  <2>1. k' \in Nat /\ firstErr' \in {"nothing yet", "", "blind"}
    <3>1. k' = 1 \/ k' = k
      BY <1>4 DEF SweepEnds
    <3>2. firstErr' = IF seenAny THEN "" ELSE IF firstErr = "" THEN "blind" ELSE firstErr
      BY <1>4 DEF SweepEnds
    <3>3. k' \in Nat
      BY <1>t, <3>1 DEF LocalTypeOK
    <3>4. firstErr' \in {"nothing yet", "", "blind"}
      BY <1>t, <3>2 DEF MemTypeOK
    <3> QED BY <3>3, <3>4
  <2>2. PICK label \in {"signals", "idle"} : Goto(Loop, label) /\ (label = "signals" => k' = 1)
    BY <1>4 DEF SweepEnds
  <2>3. PlaceTypeOK' /\ WellPlaced'
    <3>1. label \in LoopPCs /\ label \notin InConsider \union {"probed"}
      BY DEF LoopPCs, InConsider
    <3>2. label \in {"signals", "cond", "fresh"} => k' >= 1
      BY <2>2
    <3> QED BY <1>4, <1>r, <2>2, <3>1, <3>2, LoopPlaced DEF SweepEnds
  <2>4. WorldTypeOK' /\ MemTypeOK' /\ LocalTypeOK'
    BY <1>4, <1>t, <2>1, WorldStays DEF SweepEnds, MemTypeOK, LocalTypeOK
  <2> QED BY <2>3, <2>4, <1>q
<1>5. CASE AskSignal
  <2>1. SignalNames[k] \in Signals /\ k' \in Nat /\ k' >= 1
    BY <1>5, <1>t, SignalsAssumption
    DEF AskSignal, LocalTypeOK, TypeInv, WellPlaced, Signals
  <2>2. PICK v \in Evaluations(SignalNames[k], FALSE) : Answered(SignalNames[k], v)
    BY <1>5 DEF AskSignal
  <2>3. v \in Values
    BY <2>1, EvaluationsTyped DEF TypeInv
  <2>4. PlaceTypeOK' /\ WellPlaced'
    <3>1. "signals" \in LoopPCs /\ "signals" \notin InConsider \union {"probed"}
      BY DEF LoopPCs, InConsider
    <3>2. Goto(Loop, "signals")
      BY <1>5, <1>r DEF AskSignal
    <3> QED BY <1>5, <1>r, <2>1, <3>1, <3>2, LoopPlaced DEF AskSignal
  <2>5. WorldTypeOK' /\ MemTypeOK' /\ LocalTypeOK'
    BY <1>5, <1>t, <2>1, <2>2, <2>3, WorldStays DEF AskSignal, Answered, MemTypeOK, LocalTypeOK
  <2> QED BY <2>4, <2>5, <1>q
<1>6. CASE SignalsAsked
  <2>1. PlaceTypeOK' /\ WellPlaced'
    <3>1. "next" \in LoopPCs /\ "next" \notin InConsider \union {"probed", "signals"}
      BY DEF LoopPCs, InConsider
    <3> QED BY <1>6, <1>r, <3>1, LoopPlaced, OrdersAssumption DEF SignalsAsked, InConsider
  <2>2. WorldTypeOK' /\ MemTypeOK' /\ LocalTypeOK'
    BY <1>6, <1>t, WorldStays, MemStays DEF SignalsAsked, LocalTypeOK
  <2> QED BY <2>1, <2>2, <1>q
<1> QED BY <1>1, <1>2, <1>3, <1>4, <1>5, <1>6

-----------------------------------------------------------------------------
\* Any entry of StopWhen is a reference to a declared signal or a hold.
LEMMA ReferenceTyped ==
  ASSUME NEW t \in Downs, NEW i \in Nat, i >= 1, i <= Len(StopWhen[t])
  PROVE  StopWhen[t][i] \in Refs
  BY DownsAssumption

\* considerDown returning is a step to "next" that drops the subject.
LEMMA ReturnPlaced ==
  ASSUME TypeInv, rest[Loop] # << >>, Return,
         acting' \in [Targets -> Procs \union {NoOne}], UNCHANGED held
  PROVE  PlaceTypeOK' /\ WellPlaced' /\ k' \in Nat /\ began' \in 0..MaxTime
<1>1. "next" \in LoopPCs /\ "next" \notin InConsider \union {"probed", "signals"}
  BY DEF LoopPCs, InConsider
<1>2. Tail(rest[Loop]) \in Seq(Targets) /\ held \in Seq(Frames)
  BY SubjectTyped DEF TypeInv, TypeOK, PlaceTypeOK, Procs
<1>3. k' \in Nat /\ began' \in 0..MaxTime
  BY WorldAssumption DEF Return
<1>4. Goto(Loop, "next") /\ rest' = [rest EXCEPT ![Loop] = Tail(rest[Loop])]
  BY DEF Return
<1> QED BY <1>1, <1>2, <1>3, <1>4, LoopPlaced DEF InConsider

\* Inside considerDown the loop may go to any of its labels, its subject kept.
LEMMA OnwardPlaced ==
  ASSUME TypeInv, NEW label \in InConsider, Goto(Loop, label), UNCHANGED <<rest, held>>,
         rest[Loop] # << >>, Subject(Loop) \in Downs,
         acting' \in [Targets -> Procs \union {NoOne}],
         label \in {"cond", "fresh"} => k' >= 1
  PROVE  PlaceTypeOK' /\ WellPlaced'
<1>1. label \in LoopPCs /\ label # "signals"
  BY DEF LoopPCs, InConsider
<1>2. rest[Loop] \in Seq(Targets) /\ held \in Seq(Frames)
  BY SubjectTyped DEF TypeInv, TypeOK, PlaceTypeOK, Procs
<1>3. rest' = [rest EXCEPT ![Loop] = rest[Loop]]
  BY Kept DEF TypeInv, TypeOK, Procs
<1> QED BY <1>1, <1>2, <1>3, LoopPlaced DEF Subject

\* What is true of the loop at every label inside considerDown.
LEMMA Inside ==
  ASSUME TypeInv, pc[Loop] \in InConsider
  PROVE  rest[Loop] # << >> /\ Subject(Loop) \in Downs /\ Subject(Loop) \in Targets
  BY DownsAssumption DEF TypeInv, WellPlaced

\* The notes of considerDown stay typed.
LEMMA NotesTyped ==
  ASSUME MemTypeOK, NEW t \in Targets
  PROVE  /\ \A why \in {"", "hands-off", "min_uptime", "unknown", "held-by", "grace"} :
              Block(t, why) => blocked' \in [Targets -> {"", "hands-off", "min_uptime",
                                                        "unknown", "held-by", "grace"}]
         /\ \A what \in {"", "stopping", "raising"} :
              SetPending(t, what) => pending' \in [Targets -> {"", "stopping", "raising"}]
         /\ ClearOK(t) => okSince' \in [Targets -> Times]
<1>1. Never \in Times
  BY WorldAssumption DEF Times, Never
<1> QED BY <1>1 DEF MemTypeOK, Block, SetPending, ClearOK

LEMMA ConsiderKeepsType ==
  ASSUME TypeInv, NEW t \in Targets, ConsiderRefused(t) \/ ConsiderBegins(t)
  PROVE  TypeInv'
<1>t. WorldTypeOK /\ MemTypeOK /\ PlaceTypeOK /\ LocalTypeOK
  BY DEF TypeInv, TypeOK
<1>a. acting \in [Targets -> Procs \union {NoOne}]
  BY <1>t DEF PlaceTypeOK
<1>1. CASE ConsiderRefused(t)
  <2>1. PlaceTypeOK' /\ WellPlaced' /\ k' \in Nat /\ began' \in 0..MaxTime
    BY <1>1, <1>a, ReturnPlaced DEF ConsiderRefused, Considering
  <2>2. /\ blocked' \in [Targets -> {"", "hands-off", "min_uptime", "unknown", "held-by", "grace"}]
        /\ okSince' \in [Targets -> Times]
    <3>1. \/ UNCHANGED <<blocked, okSince>>
          \/ Block(t, "") /\ ClearOK(t)
          \/ (Block(t, "hands-off") \/ Block(t, "min_uptime")) /\ UNCHANGED okSince
      BY <1>1 DEF ConsiderRefused
    <3> QED BY <3>1, <1>t, NotesTyped DEF MemTypeOK
  <2>3. WorldTypeOK' /\ MemTypeOK' /\ LocalTypeOK'
    BY <1>1, <1>t, <2>1, <2>2, WorldStays DEF ConsiderRefused, MemTypeOK, LocalTypeOK
  <2> QED BY <2>1, <2>3 DEF TypeInv, TypeOK
<1>2. CASE ConsiderBegins(t)
  <2>1. began' \in 0..MaxTime /\ k' \in Nat /\ k' >= 1
    BY <1>2, <1>t, ClockTyped DEF ConsiderBegins
  <2>2. PlaceTypeOK' /\ WellPlaced'
    <3>1. "cond" \in InConsider
      BY DEF InConsider
    <3> QED BY <1>2, <1>a, <2>1, <3>1, OnwardPlaced DEF ConsiderBegins, Considering
  <2>3. WorldTypeOK' /\ MemTypeOK' /\ LocalTypeOK'
    BY <1>2, <1>t, <2>1, WorldStays, MemStays DEF ConsiderBegins, LocalTypeOK
  <2> QED BY <2>2, <2>3 DEF TypeInv, TypeOK
<1> QED BY <1>1, <1>2

LEMMA ConditionKeepsType ==
  ASSUME TypeInv, NEW t \in Targets, NEW label \in {"cond", "fresh"}, NEW force,
         Condition(t, label, force)
  PROVE  TypeInv'
<1>t. WorldTypeOK /\ MemTypeOK /\ PlaceTypeOK /\ LocalTypeOK
  BY DEF TypeInv, TypeOK
<1>1. pc[Loop] = label /\ t = Subject(Loop) /\ k <= Len(StopWhen[t]) /\ label \in InConsider
  BY DEF Condition, InConsider
<1>2. rest[Loop] # << >> /\ t \in Downs
  BY <1>1, Inside
<1>3. k \in Nat /\ k >= 1
  BY <1>1, <1>t DEF LocalTypeOK, TypeInv, WellPlaced
<1> DEFINE ref == StopWhen[t][k]
<1>4. ref \in Refs
  BY <1>1, <1>2, <1>3, ReferenceTyped
<1>5. ref.sig \in Signals
  BY <1>4 DEF Refs
<1>6. PICK v \in Evaluations(ref.sig, force) :
        /\ Answered(ref.sig, v)
        /\ \/ /\ Verdict(ref, v) = "agrees"
              /\ k' = k + 1
              /\ UNCHANGED <<blocked, okSince, acting, pc, rest, began>>
           \/ /\ Verdict(ref, v) # "agrees"
              /\ Block(t, Verdict(ref, v)) /\ ClearOK(t)
              /\ IF label = "fresh" THEN Unlock(t) ELSE UNCHANGED acting
              /\ Return
  BY DEF Condition
<1>7. /\ UNCHANGED <<worldVars, up, upKnown, upSince, pending, firstErr, kick, ans,
                    seenAny, held, deadline>>
  BY DEF Condition
<1>8. /\ vals' \in [Signals -> Values] /\ seenSig' \subseteq Signals
  <2>1. v \in Values
    BY <1>5, EvaluationsTyped DEF TypeInv
  <2> QED BY <1>t, <1>5, <1>6, <2>1 DEF Answered, MemTypeOK
<1> HIDE DEF ref
<1>9. CASE /\ k' = k + 1
           /\ UNCHANGED <<blocked, okSince, acting, pc, rest, began>>
  <2>1. PlaceTypeOK' /\ WellPlaced'
    <3>1. Goto(Loop, label)
      BY <1>1, <1>9, <1>t, Kept DEF Procs
    <3>2. k' >= 1 /\ acting' \in [Targets -> Procs \union {NoOne}]
      BY <1>9, <1>3, <1>t DEF PlaceTypeOK
    <3> QED BY <1>1, <1>2, <1>7, <1>9, <3>1, <3>2, OnwardPlaced
  <2>2. WorldTypeOK' /\ MemTypeOK'
    BY <1>t, <1>7, <1>8, <1>9, WorldStays DEF MemTypeOK
  <2>3. LocalTypeOK'
    BY <1>t, <1>7, <1>9 DEF LocalTypeOK
  <2> QED BY <2>1, <2>2, <2>3 DEF TypeInv, TypeOK
<1>10. CASE /\ Verdict(ref, v) # "agrees"
            /\ Block(t, Verdict(ref, v)) /\ ClearOK(t)
            /\ IF label = "fresh" THEN Unlock(t) ELSE UNCHANGED acting
            /\ Return
  <2>1. acting' \in [Targets -> Procs \union {NoOne}]
    BY <1>10, <1>t, LockTyped DEF PlaceTypeOK, Procs
  <2>2. PlaceTypeOK' /\ WellPlaced' /\ k' \in Nat /\ began' \in 0..MaxTime
    BY <1>2, <1>7, <1>10, <2>1, ReturnPlaced
  <2>3. /\ blocked' \in [Targets -> {"", "hands-off", "min_uptime", "unknown", "held-by", "grace"}]
        /\ okSince' \in [Targets -> Times]
    <3>1. Verdict(ref, v) \in {"unknown", "held-by"}
      BY <1>4, <1>10 DEF Verdict, Refs
    <3> QED BY <1>10, <1>t, <3>1, NotesTyped
  <2>4. WorldTypeOK' /\ MemTypeOK'
    BY <1>t, <1>7, <1>8, <2>3, WorldStays DEF MemTypeOK
  <2>5. LocalTypeOK'
    BY <1>t, <1>7, <2>2 DEF LocalTypeOK
  <2> QED BY <2>2, <2>4, <2>5 DEF TypeInv, TypeOK
<1> QED BY <1>6, <1>9, <1>10

LEMMA AllAgreeKeepsType ==
  ASSUME TypeInv, NEW t \in Targets, AllAgree(t)
  PROVE  TypeInv'
<1>t. WorldTypeOK /\ MemTypeOK /\ PlaceTypeOK /\ LocalTypeOK
  BY DEF TypeInv, TypeOK
<1>1. pc[Loop] \in InConsider /\ t = Subject(Loop)
  BY DEF AllAgree, InConsider
<1>2. rest[Loop] # << >> /\ t \in Downs
  BY <1>1, Inside
<1> DEFINE since == AgreedSince(t)
<1>3. since \in Times
  <2>1. okSince[t] \in Times
    BY <1>t DEF MemTypeOK
  <2>2. began \in Times
    BY <1>t, WorldAssumption DEF LocalTypeOK, Times, Never
  <2> QED BY <2>1, <2>2 DEF AgreedSince
<1>4. okSince' \in [Targets -> Times]
  <2>1. okSince' = [okSince EXCEPT ![t] = since]
    BY DEF AllAgree
  <2> HIDE DEF since
  <2> QED BY <1>t, <1>3, <2>1 DEF MemTypeOK
<1>5. /\ \/ Block(t, "grace") /\ Return
         \/ Block(t, "") /\ Goto(Loop, "lock") /\ UNCHANGED <<rest, k, began>>
      /\ UNCHANGED <<worldVars, vals, up, upKnown, upSince, pending, seenSig, firstErr,
                    kick, acting, ans, seenAny, held, deadline>>
  BY DEF AllAgree
<1>6. blocked' \in [Targets -> {"", "hands-off", "min_uptime", "unknown", "held-by", "grace"}]
  BY <1>5, <1>t, NotesTyped
<1>7. WorldTypeOK' /\ MemTypeOK'
  BY <1>t, <1>4, <1>5, <1>6, WorldStays DEF MemTypeOK
<1>8. PlaceTypeOK' /\ WellPlaced' /\ k' \in Nat /\ began' \in 0..MaxTime
  <2>1. acting' \in [Targets -> Procs \union {NoOne}]
    BY <1>5, <1>t DEF PlaceTypeOK
  <2>2. CASE Return
    BY <1>2, <1>5, <2>1, <2>2, ReturnPlaced
  <2>3. CASE Goto(Loop, "lock") /\ UNCHANGED <<rest, k, began>>
    <3>1. "lock" \in InConsider
      BY DEF InConsider
    <3>2. PlaceTypeOK' /\ WellPlaced'
      BY <1>1, <1>2, <1>5, <2>1, <2>3, <3>1, OnwardPlaced
    <3> QED BY <3>2, <2>3, <1>t DEF LocalTypeOK
  <2> QED BY <1>5, <2>2, <2>3
<1>9. LocalTypeOK'
  BY <1>t, <1>5, <1>8 DEF LocalTypeOK
<1> QED BY <1>7, <1>8, <1>9 DEF TypeInv, TypeOK

\* The three answers to "is it up": asked under the lock, heard, thought over.
LEMMA LookKeepsType ==
  ASSUME TypeInv, NEW t \in Targets,
         LockToStop(t) \/ LookAgain(t) \/ LookedAgain(t) \/ RecheckUptime(t)
  PROVE  TypeInv'
<1>t. WorldTypeOK /\ MemTypeOK /\ PlaceTypeOK /\ LocalTypeOK
  BY DEF TypeInv, TypeOK
<1>1. Loop \in Procs /\ acting \in [Targets -> Procs \union {NoOne}]
  BY <1>t DEF PlaceTypeOK, Procs
<1>2. pc[Loop] \in InConsider /\ t = Subject(Loop)
  BY DEF LockToStop, LookAgain, LookedAgain, RecheckUptime, InConsider
<1>3. rest[Loop] # << >> /\ t \in Downs
  BY <1>2, Inside
<1>4. CASE LockToStop(t)
  <2>1. acting' \in [Targets -> Procs \union {NoOne}]
    BY <1>4, <1>t, <1>1, LockTyped DEF LockToStop
  <2>2. "look" \in InConsider
    BY DEF InConsider
  <2>3. PlaceTypeOK' /\ WellPlaced'
    BY <1>2, <1>3, <1>4, <2>1, <2>2, OnwardPlaced DEF LockToStop
  <2>4. WorldTypeOK' /\ MemTypeOK' /\ LocalTypeOK'
    BY <1>4, <1>t, WorldStays, MemStays DEF LockToStop, LocalTypeOK
  <2> QED BY <2>3, <2>4 DEF TypeInv, TypeOK
<1>5. CASE LookAgain(t)
  <2>1. "looked" \in InConsider /\ "looked" \in LoopPCs
    BY DEF InConsider, LoopPCs
  <2>2. /\ ans' \in [Procs -> Answers]
        /\ pc' = [pc EXCEPT ![Loop] = "looked"]
        /\ UNCHANGED <<worldVars, memVars, acting, rest, seenAny, k, began, held, deadline>>
    BY <1>1, <1>5, <2>1, AskTyped DEF LookAgain, TypeInv
  <2>3. PlaceTypeOK' /\ WellPlaced'
    BY <1>1, <1>2, <1>3, <2>1, <2>2, OnwardPlaced DEF Goto
  <2>4. WorldTypeOK' /\ MemTypeOK' /\ LocalTypeOK'
    BY <1>t, <2>2, WorldStays, MemStays DEF LocalTypeOK
  <2> QED BY <2>3, <2>4 DEF TypeInv, TypeOK
<1>6. CASE LookedAgain(t)
  <2>1. /\ up' \in [Targets -> BOOLEAN] /\ upKnown' \in [Targets -> BOOLEAN]
        /\ upSince' \in [Targets -> Times] /\ okSince' \in [Targets -> Times]
        /\ ans' \in [Procs -> Answers]
    BY <1>1, <1>6, HearTyped DEF LookedAgain, TypeInv
  <2>2. /\ \/ Goto(Loop, "recheck") /\ UNCHANGED <<acting, rest, k, began>>
           \/ Unlock(t) /\ Return
        /\ UNCHANGED <<worldVars, vals, blocked, pending, seenSig, firstErr, kick, seenAny,
                      held, deadline>>
    BY <1>6 DEF LookedAgain
  <2>3. WorldTypeOK' /\ MemTypeOK'
    BY <1>t, <2>1, <2>2, WorldStays DEF MemTypeOK
  <2>4. PlaceTypeOK' /\ WellPlaced' /\ k' \in Nat /\ began' \in 0..MaxTime
    <3>1. CASE Goto(Loop, "recheck") /\ UNCHANGED <<acting, rest, k, began>>
      <4>1. "recheck" \in InConsider
        BY DEF InConsider
      <4>2. PlaceTypeOK' /\ WellPlaced'
        BY <1>1, <1>2, <1>3, <2>2, <3>1, <4>1, OnwardPlaced
      <4> QED BY <4>2, <3>1, <1>t DEF LocalTypeOK
    <3>2. CASE Unlock(t) /\ Return
      <4>1. acting' \in [Targets -> Procs \union {NoOne}]
        BY <1>1, <1>t, <3>2, LockTyped
      <4> QED BY <1>3, <2>2, <3>2, <4>1, ReturnPlaced
    <3> QED BY <2>2, <3>1, <3>2
  <2>5. LocalTypeOK'
    BY <1>t, <2>1, <2>2, <2>4 DEF LocalTypeOK
  <2> QED BY <2>3, <2>4, <2>5 DEF TypeInv, TypeOK
<1>7. CASE RecheckUptime(t)
  <2>1. /\ \/ k' = 1 /\ Goto(Loop, "fresh") /\ UNCHANGED <<blocked, acting, rest, began>>
           \/ Block(t, "min_uptime") /\ Unlock(t) /\ Return
        /\ UNCHANGED <<worldVars, vals, up, upKnown, upSince, okSince, pending, seenSig,
                      firstErr, kick, ans, seenAny, held, deadline>>
    BY <1>7 DEF RecheckUptime
  <2>2. blocked' \in [Targets -> {"", "hands-off", "min_uptime", "unknown", "held-by", "grace"}]
    <3>1. UNCHANGED blocked \/ Block(t, "min_uptime")
      BY <2>1
    <3> QED BY <1>t, <3>1, NotesTyped DEF MemTypeOK
  <2>3. PlaceTypeOK' /\ WellPlaced' /\ k' \in Nat /\ began' \in 0..MaxTime
    <3>1. CASE k' = 1 /\ Goto(Loop, "fresh") /\ UNCHANGED <<blocked, acting, rest, began>>
      <4>1. "fresh" \in InConsider /\ k' >= 1
        BY <3>1 DEF InConsider
      <4>2. PlaceTypeOK' /\ WellPlaced'
        BY <1>1, <1>2, <1>3, <2>1, <3>1, <4>1, OnwardPlaced
      <4> QED BY <4>2, <3>1, <1>t DEF LocalTypeOK
    <3>2. CASE Block(t, "min_uptime") /\ Unlock(t) /\ Return
      <4>1. acting' \in [Targets -> Procs \union {NoOne}]
        BY <1>1, <1>t, <3>2, LockTyped
      <4> QED BY <1>3, <2>1, <3>2, <4>1, ReturnPlaced
    <3> QED BY <2>1, <3>1, <3>2
  <2>4. WorldTypeOK' /\ MemTypeOK'
    BY <1>t, <2>1, <2>2, WorldStays DEF MemTypeOK
  <2>5. LocalTypeOK'
    BY <1>t, <2>1, <2>3 DEF LocalTypeOK
  <2> QED BY <2>3, <2>4, <2>5 DEF TypeInv, TypeOK
<1> QED BY <1>4, <1>5, <1>6, <1>7

\* The decision, the order, and what its answer makes of it.
LEMMA OrderKeepsType ==
  ASSUME TypeInv, NEW t \in Targets,
         DecideStop(t) \/ OrderDown(t) \/ StopFailed(t) \/ StopDone(t)
  PROVE  TypeInv'
<1>t. WorldTypeOK /\ MemTypeOK /\ PlaceTypeOK /\ LocalTypeOK
  BY DEF TypeInv, TypeOK
<1>1. Loop \in Procs /\ acting \in [Targets -> Procs \union {NoOne}] /\ held \in Seq(Frames)
  BY <1>t DEF PlaceTypeOK, Procs
<1>2. pc[Loop] \in InConsider /\ t = Subject(Loop)
  BY DEF DecideStop, OrderDown, StopFailed, StopDone, InConsider
<1>3. rest[Loop] # << >> /\ t \in Downs
  BY <1>2, Inside
<1>4. CASE DecideStop(t)
  <2>1. "down" \in InConsider
    BY DEF InConsider
  <2>2. PlaceTypeOK' /\ WellPlaced'
    BY <1>1, <1>2, <1>3, <1>4, <2>1, OnwardPlaced DEF DecideStop
  <2>3. pending' \in [Targets -> {"", "stopping", "raising"}]
    BY <1>4, <1>t, NotesTyped DEF DecideStop
  <2>4. WorldTypeOK' /\ MemTypeOK' /\ LocalTypeOK'
    BY <1>4, <1>t, <2>3, WorldStays DEF DecideStop, MemTypeOK, LocalTypeOK
  <2> QED BY <2>2, <2>4 DEF TypeInv, TypeOK
<1>5. CASE OrderDown(t)
  <2>1. PICK o : Lower(t, o) /\ ans' = [ans EXCEPT ![Loop] = IF o = "done" THEN "yes" ELSE "err"]
    BY <1>5 DEF OrderDown
  <2>2. "downed" \in InConsider
    BY DEF InConsider
  <2>3. PlaceTypeOK' /\ WellPlaced'
    BY <1>1, <1>2, <1>3, <1>5, <2>2, OnwardPlaced DEF OrderDown
  <2>4. WorldTypeOK'
    BY <1>5, <1>t, <2>1, OrderTyped DEF OrderDown
  <2>5. ans' \in [Procs -> Answers]
    BY <1>t, <2>1 DEF LocalTypeOK, Answers
  <2>6. MemTypeOK' /\ LocalTypeOK'
    BY <1>5, <1>t, <2>5, MemStays DEF OrderDown, LocalTypeOK
  <2> QED BY <2>3, <2>4, <2>6 DEF TypeInv, TypeOK
<1>6. CASE StopFailed(t)
  <2>1. acting' \in [Targets -> Procs \union {NoOne}]
    BY <1>1, <1>6, <1>t, LockTyped DEF StopFailed
  <2>2. PlaceTypeOK' /\ WellPlaced' /\ k' \in Nat /\ began' \in 0..MaxTime
    BY <1>3, <1>6, <2>1, ReturnPlaced DEF StopFailed
  <2>3. pending' \in [Targets -> {"", "stopping", "raising"}]
    BY <1>6, <1>t, NotesTyped DEF StopFailed
  <2>4. ans' \in [Procs -> Answers]
    BY <1>6, <1>t DEF StopFailed, LocalTypeOK, Answers
  <2>5. WorldTypeOK' /\ MemTypeOK' /\ LocalTypeOK'
    BY <1>6, <1>t, <2>2, <2>3, <2>4, WorldStays DEF StopFailed, MemTypeOK, LocalTypeOK
  <2> QED BY <2>2, <2>5 DEF TypeInv, TypeOK
<1>7. CASE StopDone(t)
  <2>1. "next" \in LoopPCs /\ "next" \notin InConsider \union {"probed", "signals"}
    BY DEF LoopPCs, InConsider
  <2>2. held' \in Seq(Frames)
    <3>1. Tail(rest[Loop]) \in Seq(Targets)
      BY <1>1, <1>3, <1>t, SubjectTyped
    <3>2. [target |-> t, rest |-> Tail(rest[Loop])] \in Frames
      BY <3>1 DEF Frames
    <3>3. held' = Append(held, [target |-> t, rest |-> Tail(rest[Loop])])
      BY <1>7 DEF StopDone
    <3> QED BY <1>1, <3>2, <3>3
  <2>3. ThenConsider[t] \in Seq(Targets)
    BY <1>3, DownsAssumption
  <2>4. PlaceTypeOK' /\ WellPlaced'
    BY <1>1, <1>7, <2>1, <2>2, <2>3, LoopPlaced DEF StopDone, InConsider
  <2>5. /\ pending' \in [Targets -> {"", "stopping", "raising"}]
        /\ okSince' \in [Targets -> Times]
    BY <1>7, <1>t, NotesTyped DEF StopDone
  <2>6. up' \in [Targets -> BOOLEAN] /\ upSince' \in [Targets -> Times]
    BY <1>7, <1>t, ClockTyped DEF StopDone, MemTypeOK
  <2>7. ans' \in [Procs -> Answers]
    BY <1>7, <1>t DEF StopDone, LocalTypeOK, Answers
  <2>8. k' \in Nat /\ began' \in 0..MaxTime
    <3>1. k' = 0 /\ began' = 0
      BY <1>7 DEF StopDone
    <3> QED BY <3>1, WorldAssumption
  <2>9. WorldTypeOK' /\ MemTypeOK' /\ LocalTypeOK'
    BY <1>7, <1>t, <2>5, <2>6, <2>7, <2>8, WorldStays DEF StopDone, MemTypeOK, LocalTypeOK
  <2> QED BY <2>4, <2>9 DEF TypeInv, TypeOK
<1> QED BY <1>4, <1>5, <1>6, <1>7

LEMMA ReturnsKeepType == TypeInv /\ (StopReturns \/ PassEnds) => TypeInv'
<1> SUFFICES ASSUME TypeInv PROVE StopReturns \/ PassEnds => TypeInv'
  OBVIOUS
<1>t. WorldTypeOK /\ MemTypeOK /\ PlaceTypeOK /\ LocalTypeOK
  BY DEF TypeInv, TypeOK
<1>1. /\ Loop \in Procs /\ acting \in [Targets -> Procs \union {NoOne}]
      /\ held \in Seq(Frames) /\ rest[Loop] \in Seq(Targets)
  BY <1>t DEF PlaceTypeOK, Procs
<1>2. /\ {"next", "idle"} \subseteq LoopPCs
      /\ {"next", "idle"} \intersect (InConsider \union {"probed", "signals", "cond", "fresh"}) = {}
  BY DEF LoopPCs, InConsider
<1>3. CASE StopReturns
  <2>1. held # << >> /\ Len(held) \in DOMAIN held
    BY <1>1, <1>3 DEF StopReturns
  <2>2. Last(held) \in Frames /\ Front(held) \in Seq(Frames)
    BY <1>1, <2>1 DEF Last, Front
  <2>3. Last(held).target \in Targets /\ Last(held).rest \in Seq(Targets)
    BY <2>2 DEF Frames
  <2>4. acting' \in [Targets -> Procs \union {NoOne}]
    BY <1>1, <1>3, <1>t, <2>3, LockTyped DEF StopReturns
  <2>5. Goto(Loop, "next")
    BY <1>1, <1>3, <1>t, Kept DEF StopReturns
  <2>6. PlaceTypeOK' /\ WellPlaced'
    BY <1>2, <1>3, <2>2, <2>3, <2>4, <2>5, LoopPlaced DEF StopReturns
  <2>7. WorldTypeOK' /\ MemTypeOK' /\ LocalTypeOK'
    BY <1>3, <1>t, WorldStays, MemStays DEF StopReturns, LocalTypeOK
  <2> QED BY <2>6, <2>7 DEF TypeInv, TypeOK
<1>4. CASE PassEnds
  <2>1. rest' = [rest EXCEPT ![Loop] = rest[Loop]]
    BY <1>1, <1>4, <1>t, Kept DEF PassEnds
  <2>2. PlaceTypeOK' /\ WellPlaced'
    BY <1>1, <1>2, <1>4, <2>1, LoopPlaced DEF PassEnds
  <2>3. WorldTypeOK' /\ MemTypeOK' /\ LocalTypeOK'
    BY <1>4, <1>t, WorldStays, MemStays DEF PassEnds, LocalTypeOK
  <2> QED BY <2>2, <2>3 DEF TypeInv, TypeOK
<1> QED BY <1>3, <1>4

LEMMA LoopKeepsType == TypeInv /\ LoopNext => TypeInv'
<1> SUFFICES ASSUME TypeInv, LoopNext PROVE TypeInv'
  OBVIOUS
<1>1. ASSUME NEW t \in Targets, StopStep(t) PROVE TypeInv'
  <2>1. CASE AskCached(t)
    BY <2>1, ConditionKeepsType DEF AskCached
  <2>2. CASE AskFresh(t)
    BY <2>2, ConditionKeepsType DEF AskFresh
  <2> QED BY <1>1, <2>1, <2>2, ConsiderKeepsType, AllAgreeKeepsType, LookKeepsType,
             OrderKeepsType DEF StopStep
<1> QED BY <1>1, SweepKeepsType, ReturnsKeepType DEF LoopNext

-----------------------------------------------------------------------------
\* Inside a wake the subject is a target.
LEMMA Waking ==
  ASSUME TypeInv, NEW w \in Wakers, pc[w] \notin {"call", "ok", "failed"}, rest[w] # << >>
  PROVE  /\ w \in Procs /\ Subject(w) \in Targets
         /\ rest[w] \in Seq(Targets) /\ Tail(rest[w]) \in Seq(Targets)
         /\ acting \in [Targets -> Procs \union {NoOne}]
         /\ UNCHANGED rest => rest' = [rest EXCEPT ![w] = rest[w]]
  BY SubjectTyped, Kept DEF TypeInv, TypeOK, PlaceTypeOK, Procs

\* A wake asking for the state of its subject, from any of the three places.
LEMMA WakeAskKeepsType ==
  ASSUME TypeInv, NEW w \in Wakers, rest[w] # << >>, pc[w] \notin {"call", "ok", "failed"},
         NEW label \in {"asked", "looked", "awaited"}, Ask(w, Subject(w), label)
  PROVE  TypeInv'
<1>t. WorldTypeOK /\ MemTypeOK /\ PlaceTypeOK /\ LocalTypeOK
  BY DEF TypeInv, TypeOK
<1>1. /\ w \in Procs /\ Subject(w) \in Targets /\ rest[w] \in Seq(Targets)
      /\ acting \in [Targets -> Procs \union {NoOne}]
      /\ UNCHANGED rest => rest' = [rest EXCEPT ![w] = rest[w]]
  BY Waking
<1>2. label \in WakePCs
  BY DEF WakePCs
<1>3. /\ ans' \in [Procs -> Answers]
      /\ pc' = [pc EXCEPT ![w] = label]
      /\ UNCHANGED <<worldVars, memVars, acting, rest, seenAny, k, began, held, deadline>>
  BY <1>1, <1>2, AskTyped DEF TypeInv
<1>4. PlaceTypeOK' /\ WellPlaced'
  BY <1>1, <1>2, <1>3, WakePlaced DEF Goto
<1>5. WorldTypeOK' /\ MemTypeOK' /\ LocalTypeOK'
  BY <1>t, <1>3, WorldStays, MemStays DEF LocalTypeOK
<1> QED BY <1>4, <1>5 DEF TypeInv, TypeOK

\* The steps of a wake in which nothing is asked or heard.
LEMMA WakeMovesKeepType ==
  ASSUME TypeInv, NEW w \in Wakers,
         \/ \E t \in Targets : Call(w, t)
         \/ WakeReturns(w) \/ WakeHandsOff(w) \/ LockToRaise(w) \/ OrderUp(w)
  PROVE  TypeInv'
<1>t. WorldTypeOK /\ MemTypeOK /\ PlaceTypeOK /\ LocalTypeOK
  BY DEF TypeInv, TypeOK
<1>1. /\ w \in Procs /\ rest[w] \in Seq(Targets)
      /\ acting \in [Targets -> Procs \union {NoOne}]
      /\ UNCHANGED rest => rest' = [rest EXCEPT ![w] = rest[w]]
  BY <1>t, Kept DEF PlaceTypeOK, Procs
<1>2. {"step", "ok", "failed", "look", "await"} \subseteq WakePCs
  BY DEF WakePCs
<1>3. ASSUME NEW t \in Targets, Call(w, t) PROVE TypeInv'
  <2>1. ChainOf[t] \in Seq(Targets)
    BY ChainAssumption
  <2>2. PlaceTypeOK' /\ WellPlaced'
    BY <1>1, <1>2, <1>3, <2>1, WakePlaced DEF Call
  <2>3. WorldTypeOK' /\ MemTypeOK' /\ LocalTypeOK'
    BY <1>3, <1>t, WorldStays, MemStays DEF Call, LocalTypeOK
  <2> QED BY <2>2, <2>3 DEF TypeInv, TypeOK
<1>4. CASE WakeReturns(w)
  <2>1. PlaceTypeOK' /\ WellPlaced'
    BY <1>1, <1>2, <1>4, WakePlaced DEF WakeReturns
  <2>2. WorldTypeOK' /\ MemTypeOK' /\ LocalTypeOK'
    BY <1>4, <1>t, WorldStays DEF WakeReturns, MemTypeOK, LocalTypeOK
  <2> QED BY <2>1, <2>2 DEF TypeInv, TypeOK
<1>5. CASE WakeHandsOff(w)
  <2>1. PlaceTypeOK' /\ WellPlaced'
    BY <1>1, <1>2, <1>5, WakePlaced DEF WakeHandsOff
  <2>2. WorldTypeOK' /\ MemTypeOK' /\ LocalTypeOK'
    BY <1>5, <1>t, WorldStays, MemStays DEF WakeHandsOff, LocalTypeOK
  <2> QED BY <2>1, <2>2 DEF TypeInv, TypeOK
<1>6. CASE LockToRaise(w)
  <2>1. rest[w] # << >> /\ pc[w] \notin {"call", "ok", "failed"}
    BY <1>6 DEF LockToRaise, TypeInv, WellPlaced
  <2>2. acting' \in [Targets -> Procs \union {NoOne}]
    BY <1>1, <1>6, <1>t, <2>1, Waking, LockTyped DEF LockToRaise
  <2>3. PlaceTypeOK' /\ WellPlaced'
    BY <1>1, <1>2, <1>6, <2>1, <2>2, WakePlaced DEF LockToRaise
  <2>4. WorldTypeOK' /\ MemTypeOK' /\ LocalTypeOK'
    BY <1>6, <1>t, WorldStays, MemStays DEF LockToRaise, LocalTypeOK
  <2> QED BY <2>3, <2>4 DEF TypeInv, TypeOK
<1>7. CASE OrderUp(w)
  <2>1. rest[w] # << >> /\ pc[w] \notin {"call", "ok", "failed"}
    BY <1>7 DEF OrderUp, TypeInv, WellPlaced
  <2>2. Subject(w) \in Targets
    BY <2>1, Waking
  <2>3. PICK o : /\ Raise(Subject(w), o)
                 /\ \/ /\ deadline' = [deadline EXCEPT ![w] = now + UpTimeout[Subject(w)]]
                       /\ Goto(w, "await") /\ UNCHANGED acting
                    \/ Unlock(Subject(w)) /\ Goto(w, "failed") /\ UNCHANGED deadline
    BY <1>7 DEF OrderUp
  <2>4. /\ UNCHANGED <<truth, holds, now, changes, vals, up, upKnown, upSince, okSince,
                       blocked, seenSig, firstErr, kick, rest, ans, seenAny, k, began, held>>
        /\ SetPending(Subject(w), "")
    BY <1>7 DEF OrderUp
  <2>5. PlaceTypeOK' /\ WellPlaced'
    <3>1. acting' \in [Targets -> Procs \union {NoOne}]
      BY <1>1, <1>t, <2>2, <2>3, LockTyped
    <3> QED BY <1>1, <1>2, <2>1, <2>3, <2>4, <3>1, WakePlaced
  <2>6. WorldTypeOK'
    BY <1>t, <2>2, <2>3, <2>4, OrderTyped
  <2>7. MemTypeOK'
    <3>1. pending' \in [Targets -> {"", "stopping", "raising"}]
      BY <1>t, <2>2, <2>4, NotesTyped
    <3> QED BY <1>t, <2>4, <3>1 DEF MemTypeOK
  <2>8. deadline' \in [Wakers -> Int]
    <3>1. now + UpTimeout[Subject(w)] \in Int
      BY <1>t, <2>2, ClockTyped, TargetsAssumption
    <3> QED BY <1>t, <2>3, <3>1 DEF LocalTypeOK
  <2>9. LocalTypeOK'
    BY <1>t, <2>4, <2>8 DEF LocalTypeOK
  <2> QED BY <2>5, <2>6, <2>7, <2>9 DEF TypeInv, TypeOK
<1> QED BY <1>3, <1>4, <1>5, <1>6, <1>7

\* What every step of a wake that hears an answer must see to.
LEMMA WakeHeard ==
  ASSUME TypeInv, NEW w \in Wakers, rest[w] # << >>, pc[w] \notin {"call", "ok", "failed"},
         Hear(w, Subject(w)),
         UNCHANGED <<worldVars, vals, blocked, seenSig, firstErr, kick, seenAny, k, began,
                     held, deadline>>,
         UNCHANGED pending \/ SetPending(Subject(w), "") \/ SetPending(Subject(w), "raising"),
         UNCHANGED acting \/ Unlock(Subject(w)),
         NEW label \in WakePCs \ {"call"}, Goto(w, label),
         \/ UNCHANGED rest
         \/ rest' = [rest EXCEPT ![w] = Tail(rest[w])] /\ label = "step"
  PROVE  TypeInv'
<1>t. WorldTypeOK /\ MemTypeOK /\ PlaceTypeOK /\ LocalTypeOK
  BY DEF TypeInv, TypeOK
<1>1. /\ w \in Procs /\ Subject(w) \in Targets
      /\ rest[w] \in Seq(Targets) /\ Tail(rest[w]) \in Seq(Targets)
      /\ acting \in [Targets -> Procs \union {NoOne}]
      /\ UNCHANGED rest => rest' = [rest EXCEPT ![w] = rest[w]]
  BY Waking
<1>2. /\ up' \in [Targets -> BOOLEAN] /\ upKnown' \in [Targets -> BOOLEAN]
      /\ upSince' \in [Targets -> Times] /\ okSince' \in [Targets -> Times]
      /\ ans' \in [Procs -> Answers]
  BY <1>1, HearTyped DEF TypeInv
<1>3. pending' \in [Targets -> {"", "stopping", "raising"}]
  BY <1>t, <1>1, NotesTyped DEF MemTypeOK
<1>4. WorldTypeOK' /\ MemTypeOK'
  BY <1>t, <1>2, <1>3, WorldStays DEF MemTypeOK
<1>5. LocalTypeOK'
  BY <1>t, <1>2 DEF LocalTypeOK
<1>6. acting' \in [Targets -> Procs \union {NoOne}]
  BY <1>t, <1>1, LockTyped
<1>7. PICK r \in Seq(Targets) :
        rest' = [rest EXCEPT ![w] = r] /\ (r # << >> \/ label = "step")
  BY <1>1
<1>8. PlaceTypeOK' /\ WellPlaced'
  BY <1>6, <1>7, WakePlaced
<1> QED BY <1>4, <1>5, <1>8 DEF TypeInv, TypeOK

LEMMA WakeHearKeepsType ==
  ASSUME TypeInv, NEW w \in Wakers, WakeAsked(w) \/ WakeLooked(w) \/ Awaited(w)
  PROVE  TypeInv'
<1>1. {"step", "lock", "up", "await", "failed"} \subseteq WakePCs \ {"call"}
  BY DEF WakePCs
<1>2. rest[w] # << >> /\ pc[w] \notin {"call", "ok", "failed"}
  BY DEF WakeAsked, WakeLooked, Awaited, TypeInv, WellPlaced
<1>3. CASE WakeAsked(w)
  BY <1>1, <1>2, <1>3, WakeHeard DEF WakeAsked, StepOn
<1>4. CASE WakeLooked(w)
  BY <1>1, <1>2, <1>4, WakeHeard DEF WakeLooked, StepOn
<1>5. CASE Awaited(w)
  BY <1>1, <1>2, <1>5, WakeHeard DEF Awaited, StepOn
<1> QED BY <1>3, <1>4, <1>5

LEMMA WakeKeepsType ==
  ASSUME TypeInv, NEW w \in Wakers, WakeNext(w)
  PROVE  TypeInv'
<1>1. CASE WakeAsk(w)
  BY <1>1, WakeAskKeepsType DEF WakeAsk
<1>2. CASE WakeLook(w)
  <2>1. rest[w] # << >>
    BY <1>2 DEF WakeLook, TypeInv, WellPlaced
  <2> QED BY <1>2, <2>1, WakeAskKeepsType DEF WakeLook
<1>3. CASE AwaitAsk(w)
  <2>1. rest[w] # << >>
    BY <1>3 DEF AwaitAsk, TypeInv, WellPlaced
  <2> QED BY <1>3, <2>1, WakeAskKeepsType DEF AwaitAsk
<1> QED BY <1>1, <1>2, <1>3, WakeMovesKeepType, WakeHearKeepsType DEF WakeNext

LEMMA NextKeepsType == TypeInv /\ [Next]_vars => TypeInv'
<1> SUFFICES ASSUME TypeInv, [Next]_vars PROVE TypeInv'
  OBVIOUS
<1>t. WorldTypeOK /\ MemTypeOK /\ PlaceTypeOK /\ LocalTypeOK /\ WellPlaced
  BY DEF TypeInv, TypeOK
<1>1. CASE UNCHANGED <<memVars, procVars>> /\ WorldTypeOK'
  <2>1. MemTypeOK' /\ PlaceTypeOK' /\ LocalTypeOK'
    BY <1>1, <1>t, MemStays DEF procVars, PlaceTypeOK, LocalTypeOK
  <2>2. WellPlaced'
    BY <1>1, <1>t DEF procVars, WellPlaced, Subject
  <2> QED BY <1>1, <2>1, <2>2 DEF TypeInv, TypeOK
<1>2. CASE WorldNext /\ UNCHANGED <<memVars, procVars>>
  BY <1>1, <1>2, <1>t, WorldStepTyped
<1>3. CASE UNCHANGED vars
  BY <1>1, <1>3, <1>t, WorldStays DEF vars
<1> QED BY <1>2, <1>3, LoopKeepsType, WakeKeepsType DEF Next

\* Type correctness of the engine: in every reachable state, for every fleet
\* and any number of wakes, every variable holds a value the code may store
\* there, and the locals are what each point of the code relies on.
THEOREM TypeCorrect == Spec => []TypeOK
<1>1. Spec => []TypeInv
  BY TypeInit, NextKeepsType, PTL DEF Spec
<1>2. TypeInv => TypeOK
  BY DEF TypeInv
<1> QED BY <1>1, <1>2, PTL

-----------------------------------------------------------------------------
(* Who writes what. *)

\* The labels between an answer being given and being written down.
Hearing == {"probed", "asked", "looked", "awaited"}

\* The engine has a target up since some instant, or does not have it up.
SinceInv == \A t \in Targets : up[t] <=> upSince[t] # Never

\* What is believed of a target changes when an answer is written down, or
\* with a stop.
LEMMA Sightings ==
  ASSUME TypeInv, Next
  PROVE  \/ UNCHANGED <<up, upKnown, upSince>>
         \/ \E p \in Procs : /\ pc[p] \in Hearing /\ Subject(p) \in Targets
                             /\ Hear(p, Subject(p)) /\ UNCHANGED worldVars
         \/ \E t \in Targets : StopDone(t)
<1>1. CASE WorldNext /\ UNCHANGED <<memVars, procVars>>
  BY <1>1 DEF memVars
<1>2. Loop \in Procs /\ \A w \in Wakers : w \in Procs
  BY DEF Procs
<1>3. CASE LoopNext
  <2>1. CASE StartPass \/ SweepAsk \/ SweepEnds \/ AskSignal \/ SignalsAsked \/ StopReturns \/ PassEnds
    BY <2>1 DEF StartPass, SweepAsk, Ask, SweepEnds, AskSignal, SignalsAsked, StopReturns, PassEnds, memVars
  <2>2. CASE SweepHear
    <3>1. Subject(Loop) \in Targets
      BY <1>2, <2>2, SubjectTyped DEF SweepHear, TypeInv, TypeOK, WellPlaced
    <3> QED BY <1>2, <2>2, <3>1 DEF SweepHear, Hearing
  <2>3. ASSUME NEW t \in Targets,
               \/ ConsiderRefused(t) \/ ConsiderBegins(t) \/ AskCached(t) \/ AllAgree(t)
               \/ LockToStop(t) \/ LookAgain(t) \/ RecheckUptime(t) \/ AskFresh(t) \/ DecideStop(t)
               \/ OrderDown(t) \/ StopFailed(t)
        PROVE  UNCHANGED <<up, upKnown, upSince>>
    BY <2>3 DEF ConsiderRefused, ConsiderBegins, AskCached, AllAgree, LockToStop, LookAgain, Ask,
                RecheckUptime, AskFresh, Condition, DecideStop, OrderDown, StopFailed, memVars
  <2>4. ASSUME NEW t \in Targets, LookedAgain(t)
        PROVE  \E p \in Procs : /\ pc[p] \in Hearing /\ Subject(p) \in Targets
                                /\ Hear(p, Subject(p)) /\ UNCHANGED worldVars
    BY <1>2, <2>4 DEF LookedAgain, Hearing
  <2> QED BY <1>3, <2>1, <2>2, <2>3, <2>4 DEF LoopNext, StopStep
<1>4. ASSUME NEW w \in Wakers, WakeNext(w)
      PROVE  \/ UNCHANGED <<up, upKnown, upSince>>
             \/ \E p \in Procs : /\ pc[p] \in Hearing /\ Subject(p) \in Targets
                                 /\ Hear(p, Subject(p)) /\ UNCHANGED worldVars
  <2>1. CASE \/ \E t \in Targets : Call(w, t)
             \/ WakeReturns(w) \/ WakeHandsOff(w) \/ WakeAsk(w) \/ LockToRaise(w) \/ WakeLook(w)
             \/ OrderUp(w) \/ AwaitAsk(w)
    BY <2>1 DEF Call, WakeReturns, WakeHandsOff, WakeAsk, LockToRaise, WakeLook, Ask, OrderUp, AwaitAsk,
                memVars
  <2>2. CASE WakeAsked(w) \/ WakeLooked(w) \/ Awaited(w)
    <3>1. pc[w] \in Hearing /\ Hear(w, Subject(w)) /\ UNCHANGED worldVars
      BY <2>2 DEF WakeAsked, WakeLooked, Awaited, Hearing
    <3>2. Subject(w) \in Targets
      BY <2>2, Waking DEF WakeAsked, WakeLooked, Awaited, TypeInv, WellPlaced
    <3> QED BY <1>2, <3>1, <3>2
  <2> QED BY <1>4, <2>1, <2>2 DEF WakeNext
<1> QED BY <1>1, <1>3, <1>4 DEF Next

\* Power is switched, or a machine settles.
Switched ==
  \/ power' = power
  \/ \E t \in Targets : power[t] = "booting" /\ power' = [power EXCEPT ![t] = "on"]
  \/ \E t \in Targets : power[t] = "halting" /\
       power' = [x \in Targets |-> IF x = t \/ (IsNode(t) /\ NodeOf[x] = NodeOf[t]) THEN "off" ELSE power[x]]
  \/ \E t \in Targets : /\ power[t] = "off" /\ MachinePower(StateNode(t)) = "on"
                        /\ power' = [power EXCEPT ![t] = "booting"]
  \/ \E t \in Targets : power[t] \in {"on", "booting"} /\ power' = [power EXCEPT ![t] = "halting"]

\* The engine switches only with its orders, and only the clock itself moves
\* the clock.
LEMMA Switching ==
  ASSUME TypeInv, Next
  PROVE  Switched /\ (now' = now \/ (now' = now + 1 /\ power' = power))
<1>1. CASE WorldNext
  <2>1. CASE Tick
    BY <2>1 DEF Tick, Switched
  <2>2. ASSUME NEW t \in Targets, Settle(t) PROVE Switched /\ now' = now
    BY <2>2 DEF Settle, Switched
  <2>3. ASSUME NEW t \in Hands, SwitchByHand(t) PROVE Switched /\ now' = now
    <3>1. t \in Targets
      BY WorldAssumption
    <3> QED BY <2>3, <3>1 DEF SwitchByHand, Switched
  <2>4. CASE (\E s \in FreeSignals : Flip(s)) \/ (\E h \in HoldChoices : WriteHold(h))
    BY <2>4 DEF Flip, WriteHold, Switched
  <2> QED BY <1>1, <2>1, <2>2, <2>3, <2>4 DEF WorldNext
<1>2. ASSUME NEW t \in Targets, OrderDown(t) PROVE Switched /\ now' = now
  BY <1>2 DEF OrderDown, Lower, Switched
<1>3. ASSUME NEW w \in Wakers, OrderUp(w) PROVE Switched /\ now' = now
  <2>1. Subject(w) \in Targets
    BY <1>3, Waking DEF OrderUp, TypeInv, WellPlaced
  <2>2. PICK o \in Outcomes(StateNode(Subject(w))) : Raise(Subject(w), o)
    BY <1>3 DEF OrderUp
  <2>3. CASE o # "refused"
    <3>1. MachinePower(StateNode(Subject(w))) = "on"
      BY <2>2, <2>3 DEF Outcomes
    <3> QED BY <1>3, <2>1, <2>2, <3>1 DEF Raise, Switched, OrderUp
  <2> QED BY <1>3, <2>2, <2>3 DEF Raise, Switched, OrderUp
<1>4. ASSUME NEW t \in Targets, StopStep(t) PROVE OrderDown(t) \/ UNCHANGED worldVars
  BY <1>4 DEF StopStep, ConsiderRefused, ConsiderBegins, AskCached, AllAgree, LockToStop, LookAgain, Ask,
              LookedAgain, RecheckUptime, AskFresh, Condition, DecideStop, StopFailed, StopDone
<1>5. CASE LoopNext
  <2>1. CASE \/ StartPass \/ SweepAsk \/ SweepHear \/ SweepEnds \/ AskSignal \/ SignalsAsked
             \/ StopReturns \/ PassEnds
    BY <2>1 DEF StartPass, SweepAsk, Ask, SweepHear, SweepEnds, AskSignal, SignalsAsked, StopReturns,
                PassEnds, worldVars, Switched
  <2> QED BY <1>2, <1>4, <1>5, <2>1 DEF LoopNext, worldVars, Switched
<1>6. ASSUME NEW w \in Wakers, WakeNext(w) PROVE OrderUp(w) \/ UNCHANGED worldVars
  BY <1>6 DEF WakeNext, Call, WakeReturns, WakeHandsOff, WakeAsk, WakeAsked, LockToRaise, WakeLook,
              WakeLooked, AwaitAsk, Awaited, Ask
<1> QED BY <1>1, <1>3, <1>5, <1>6 DEF Next, worldVars, Switched

\* What is up has been up since an instant, whoever saw it come or go.
LEMMA SinceKept ==
  ASSUME TypeInv, SinceInv, Next PROVE SinceInv'
<1>1. /\ up \in [Targets -> BOOLEAN] /\ upSince \in [Targets -> Times] /\ now # Never
  <2>1. now # Never
    <3>1. now \in 0..MaxTime
      BY DEF TypeInv, TypeOK, WorldTypeOK
    <3> QED BY <3>1, WorldAssumption DEF Never
  <2> QED BY <2>1 DEF TypeInv, TypeOK, MemTypeOK
<1>2. ASSUME NEW p \in Procs, NEW s \in Targets, Hear(p, s) PROVE SinceInv'
  BY <1>1, <1>2 DEF SinceInv, Hear, UpSinceAfter
<1>3. ASSUME NEW s \in Targets, StopDone(s) PROVE SinceInv'
  BY <1>1, <1>3 DEF SinceInv, StopDone
<1>4. CASE UNCHANGED <<up, upSince>>
  BY <1>4 DEF SinceInv
<1> QED BY <1>2, <1>3, <1>4, Sightings
=============================================================================
