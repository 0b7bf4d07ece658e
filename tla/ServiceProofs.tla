---------------------------- MODULE ServiceProofs ----------------------------
(***************************************************************************)
(* For any number of requests, whatever they ask and in whatever order     *)
(* they, the wakes and the loop get on: an answered change of the holds is *)
(* always seen by a pass or about to be, and a hold is lifted once.        *)
(***************************************************************************)
EXTENDS Service, FiniteSetTheorems, TLAPS

Codes == {0, 200, 201, 202, 303, 400, 401, 403, 404, 409, 500}

LEMMA Typed == Init => TypeOK
<1> SUFFICES ASSUME Init PROVE ProcTypeOK /\ HandlerTypeOK /\ WakeTypeOK
  BY DEF TypeOK
<1>1. ProcTypeOK
  BY DEF Init, ProcTypeOK
<1>2. HandlerTypeOK
  BY DEF Init, HandlerTypeOK, InFlight
<1>3. WakeTypeOK
  BY DEF Init, WakeTypeOK, Ended
<1> QED BY <1>1, <1>2, <1>3

LEMMA CodesKnown ==
  /\ \A q, role : Refusal(q, role) \in {0, 400, 401, 403, 404}
  /\ \A q \in Calls : Success(q) \in Codes
BY ServiceAssumption DEF Refusal, Success, Codes

LEMMA ProcTyped == TypeOK /\ [Next]_vars => ProcTypeOK'
<1> SUFFICES ASSUME TypeOK, [Next]_vars PROVE ProcTypeOK'
  OBVIOUS
<1>1. /\ proc' \in {"starting", "serving", "closing", "gone"} /\ config' \in Configs
      /\ loop' \in {"off", "idle", "pass"}
  BY DEF Next, Step, Handler, Start, Signal, Exit, Tick, Kicked, PassEnds, LoopQuits, BeginPass, Refuse,
         Accept, Store, NoSuchHold, Kick, Reply, WaitOver, HangUp, TimeUp, WakeEnds, Cancelled, vars,
         TypeOK, ProcTypeOK
<1>k. kick' = TRUE \/ kick' = FALSE \/ kick' = kick
  BY DEF Next, Step, Handler, Start, Signal, Exit, Tick, Kicked, PassEnds, LoopQuits, BeginPass, Refuse,
         Accept, Store, NoSuchHold, Kick, Reply, WaitOver, HangUp, TimeUp, WakeEnds, Cancelled, vars
<1>2. holds' = holds \/ \E r \in Requests : Store(r)
  BY DEF Next, Step, Handler, Start, Signal, Exit, Tick, Kicked, PassEnds, LoopQuits, BeginPass, Refuse,
         Accept, NoSuchHold, Kick, Reply, WaitOver, HangUp, TimeUp, WakeEnds, Cancelled, vars
<1>3. holds' \subseteq OldHolds \union Requests
  BY <1>2 DEF Store, Changed, TypeOK, ProcTypeOK
<1> QED BY <1>1, <1>k, <1>3 DEF TypeOK, ProcTypeOK

LEMMA HandlerTyped == TypeOK /\ [Next]_vars => HandlerTypeOK'
<1> SUFFICES ASSUME HandlerTypeOK, [Next]_vars PROVE HandlerTypeOK'
  BY DEF TypeOK
<1> USE DEF HandlerTypeOK, InFlight
<1>1. CASE UNCHANGED handlerVars
  BY <1>1 DEF handlerVars
<1>2. CASE Exit
  BY <1>2 DEF Exit
<1>3. ASSUME NEW r \in Requests, NEW q \in Calls, Refuse(r, q) PROVE HandlerTypeOK'
  BY <1>3, CodesKnown DEF Refuse, Answer, Goto
<1>4. ASSUME NEW r \in Requests, NEW q \in Calls, Accept(r, q) PROVE HandlerTypeOK'
  <2>1. Success(q) \in Codes /\ call' = [call EXCEPT ![r] = q]
    BY <1>4, CodesKnown DEF Accept
  <2>2. \/ at' = [at EXCEPT ![r] = "store"] /\ code' = code
        \/ at' = [at EXCEPT ![r] = "waiting"] /\ code' = code
        \/ at' = [at EXCEPT ![r] = "answered"] /\ code' = [code EXCEPT ![r] = Success(q)]
    BY <1>4 DEF Accept, Answer, Goto
  <2> QED BY <2>1, <2>2 DEF Codes
<1>5. ASSUME NEW r \in Requests, Handler(r) PROVE HandlerTypeOK'
  <2>1. call[r] \in Calls /\ Success(call[r]) \in Codes /\ call' = call
    BY <1>5, CodesKnown DEF Handler, Store, NoSuchHold, Kick, Reply, WaitOver
  <2>2. \/ at' = [at EXCEPT ![r] = "kick"] /\ code' = code
        \/ at' = [at EXCEPT ![r] = "reply"] /\ code' = code
        \/ /\ at' = [at EXCEPT ![r] = "answered"]
           /\ \E c \in Codes : code' = [code EXCEPT ![r] = c]
    BY <1>5, <2>1 DEF Handler, Store, NoSuchHold, Kick, Reply, WaitOver, Answer, Goto, Codes
  <2> QED BY <2>1, <2>2 DEF Codes
<1> QED BY <1>1, <1>2, <1>3, <1>4, <1>5
        DEF Next, Step, Start, Signal, Tick, Kicked, PassEnds, LoopQuits, BeginPass, HangUp, TimeUp,
            WakeEnds, Cancelled, vars

LEMMA WakeTyped == TypeOK /\ [Next]_vars => WakeTypeOK'
<1> SUFFICES ASSUME WakeTypeOK, [Next]_vars PROVE WakeTypeOK'
  BY DEF TypeOK
<1> USE DEF WakeTypeOK, Ended, wakeVars
<1>1. wake' \in [Requests -> Ended \union {"none", "running", "lost"}]
  BY DEF Next, Step, Handler, Start, Signal, Exit, Tick, Kicked, PassEnds, LoopQuits, BeginPass, Refuse,
         Accept, Store, NoSuchHold, Kick, Reply, WaitOver, HangUp, TimeUp, WakeEnds, Cancelled, vars
<1>2. left' \subseteq Requests /\ expired' \subseteq Requests /\ news' \subseteq Requests
  BY DEF Next, Step, Handler, Start, Signal, Exit, Tick, Kicked, PassEnds, LoopQuits, BeginPass, Refuse,
         Accept, Store, NoSuchHold, Kick, Reply, WaitOver, HangUp, TimeUp, WakeEnds, Cancelled, vars
<1> QED BY <1>1, <1>2

LEMMA StepTyped == TypeOK /\ [Next]_vars => TypeOK'
BY ProcTyped, HandlerTyped, WakeTyped DEF TypeOK

\* Type correctness of the service: in every reachable state every request is
\* at a place of its handler, with a status the handlers give, and the holds
\* are the old ones and those of requests, for any number of requests.
THEOREM ServiceTyped == Spec => []TypeOK
BY Typed, StepTyped, PTL DEF Spec

-----------------------------------------------------------------------------
(* The kicks. *)

\* A request with news is past the store; before it is answered it kicks, and
\* nobody has a status before the answer.
NewsInv == \A r \in Requests :
  /\ at[r] \notin {"answered"} => code[r] = 0
  /\ r \in news => /\ at[r] \in {"kick", "reply", "answered", "cut"}
                   /\ at[r] = "reply" => kick
                   /\ code[r] \in {200, 201, 303} => kick

LEMMA NewsInit == Init => NewsInv
BY DEF Init, NewsInv

LEMMA NewsStep == TypeOK /\ NewsInv /\ [Next]_vars => NewsInv'
<1> SUFFICES ASSUME TypeOK, NewsInv, [Next]_vars PROVE NewsInv'
  OBVIOUS
<1> USE DEF TypeOK, ProcTypeOK, HandlerTypeOK, WakeTypeOK, NewsInv, InFlight
<1>1. CASE UNCHANGED vars
  BY <1>1 DEF vars, handlerVars, wakeVars
<1>2. CASE Start \/ Signal \/ Exit \/ Tick \/ Kicked \/ PassEnds \/ LoopQuits
  BY <1>2 DEF Start, Signal, Exit, Tick, Kicked, PassEnds, LoopQuits, BeginPass, handlerVars, wakeVars
<1>3. ASSUME NEW r \in Requests, NEW q \in Calls, Refuse(r, q) \/ Accept(r, q) PROVE NewsInv'
  BY <1>3 DEF Refuse, Accept, Answer, Goto, wakeVars
<1>4. ASSUME NEW r \in Requests, Handler(r) PROVE NewsInv'
  BY <1>4 DEF Handler, Store, NoSuchHold, Kick, Reply, WaitOver, Answer, Goto, wakeVars
<1>5. ASSUME NEW r \in Requests, HangUp(r) \/ TimeUp(r) \/ WakeEnds(r) \/ Cancelled(r) PROVE NewsInv'
  BY <1>5 DEF HangUp, TimeUp, WakeEnds, Cancelled, handlerVars, wakeVars
<1> QED BY <1>1, <1>2, <1>3, <1>4, <1>5 DEF Next, Step

\* No change that was answered with success waits for the ticker, with any
\* number of requests, wakes and kicks at once.
THEOREM KickNeverLost == Spec => []AnsweredChangeIsSeen
<1>1. TypeOK /\ NewsInv => AnsweredChangeIsSeen
  BY DEF TypeOK, WakeTypeOK, NewsInv, AnsweredChangeIsSeen
<1> QED BY <1>1, Typed, StepTyped, NewsInit, NewsStep, PTL DEF Spec

-----------------------------------------------------------------------------
(* The holds. *)

\* r has lifted its hold, and says so or is about to.
Lifted(r) == /\ at[r] \in {"kick", "reply"} \/ code[r] \in {200, 303}
             /\ call[r].op = "release"

\* A hold is there only once it was taken, and what was lifted never returns.
LiftInv ==
  /\ \A r \in Requests : at[r] # "answered" => code[r] = 0
  /\ \A r \in Requests : at[r] = "waiting" => call[r].op = "wake"
  /\ \A r \in Requests : r \in holds => at[r] \notin {"away", "store"}
  /\ \A r \in Requests : Lifted(r) =>
       /\ call[r].hold \notin holds
       /\ call[r].hold \in Requests => at[call[r].hold] \notin {"away", "store"}
       /\ \A s \in Requests : Lifted(s) /\ call[s].hold = call[r].hold => s = r

LEMMA LiftInit == Init => LiftInv
BY ServiceAssumption DEF Init, LiftInv, Lifted

\* The handlers stand still, but for those that are cut off.
LEMMA LiftKept ==
  ASSUME HandlerTypeOK, LiftInv, UNCHANGED <<holds, call, code>>,
         \A s \in Requests : at'[s] = at[s] \/ (at'[s] = "cut" /\ at[s] \in InFlight)
  PROVE  LiftInv'
<1>1. \A s \in Requests : Lifted(s)' => Lifted(s)
  BY DEF Lifted
<1> QED BY <1>1 DEF LiftInv, InFlight

LEMMA LiftStep == TypeOK /\ LiftInv /\ [Next]_vars => LiftInv'
<1> SUFFICES ASSUME HandlerTypeOK, LiftInv, [Next]_vars PROVE LiftInv'
  BY DEF TypeOK
<1>t. /\ at \in [Requests -> InFlight \union {"away", "answered", "cut"}]
      /\ code \in [Requests -> Codes]
      /\ call \in [Requests -> Calls \union {NoCall}]
      /\ \A r \in Requests : at[r] \in InFlight => call[r] \in Calls
  BY DEF HandlerTypeOK, Codes
<1>2. CASE UNCHANGED vars
  BY <1>2, LiftKept DEF vars, handlerVars
<1>3. CASE Start \/ Signal \/ Exit \/ Tick \/ Kicked \/ PassEnds \/ LoopQuits
  <2>1. /\ UNCHANGED <<holds, call, code>>
        /\ \A s \in Requests : at'[s] = at[s] \/ (at'[s] = "cut" /\ at[s] \in InFlight)
    BY <1>3, <1>t DEF Start, Signal, Exit, Tick, Kicked, PassEnds, LoopQuits, BeginPass, handlerVars
  <2> QED BY <2>1, LiftKept
<1>4. ASSUME NEW r \in Requests, HangUp(r) \/ TimeUp(r) \/ WakeEnds(r) \/ Cancelled(r) PROVE LiftInv'
  BY <1>4, LiftKept DEF HangUp, TimeUp, WakeEnds, Cancelled, handlerVars
<1> USE DEF LiftInv, InFlight
<1>5. ASSUME NEW r \in Requests, NEW q \in Calls, Refuse(r, q) \/ Accept(r, q) PROVE LiftInv'
  <2>1. at[r] = "away" /\ holds' = holds /\ ~Lifted(r)' /\ r \notin holds
    BY <1>5, <1>t, CodesKnown, ServiceAssumption
       DEF Refuse, Accept, Answer, Goto, Success, Lifted
  <2>2. \A s \in Requests \ {r} : at'[s] = at[s] /\ code'[s] = code[s] /\ call'[s] = call[s]
    BY <1>5, <1>t DEF Refuse, Accept, Answer, Goto
  <2>3. \A s \in Requests \ {r} : Lifted(s)' <=> Lifted(s)
    BY <2>2 DEF Lifted
  <2>4. \A s \in Requests : Lifted(s) => call[s].hold # r
    BY <2>1
  <2>5. (at'[r] # "answered" => code'[r] = 0) /\ (at'[r] = "waiting" => call'[r].op = "wake")
    BY <1>5, <1>t DEF Refuse, Accept, Answer, Goto
  <2>6. \A s \in Requests : Lifted(s)' =>
          /\ s # r /\ call'[s].hold = call[s].hold /\ call[s].hold \notin holds'
          /\ call[s].hold \in Requests => at'[call[s].hold] \notin {"away", "store"}
    BY <2>1, <2>2, <2>3, <2>4
  <2> QED BY <2>1, <2>2, <2>3, <2>5, <2>6
<1>6. ASSUME NEW r \in Requests, Store(r) PROVE LiftInv'
  <2>1. /\ at[r] = "store" /\ call' = call /\ r \notin holds /\ code[r] = 0
        /\ call[r].op \in {"take", "release", "wake"}
        /\ \A s \in Requests : Lifted(s) => call[s].hold # r
    <3>1. at[r] = "store" /\ call' = call
      BY <1>6 DEF Store
    <3> QED BY <3>1, <1>t, ServiceAssumption
  <2>2. \A s \in Requests \ {r} : at'[s] = at[s] /\ code'[s] = code[s]
    BY <1>6, <1>t DEF Store, Answer, Goto
  <2>3. \/ at'[r] = "kick" /\ code'[r] = 0
        \/ at'[r] = "answered" /\ code'[r] \in {404, 500}
    BY <1>6, <1>t, <2>1 DEF Store, Answer, Goto
  <2>4. \A s \in Requests \ {r} : Lifted(s)' <=> Lifted(s)
    BY <2>1, <2>2 DEF Lifted
  <2>5. CASE call[r].op = "take"
    <3>1. holds' = holds \union {r} /\ ~Lifted(r)'
      BY <1>6, <2>1, <2>5 DEF Store, Changed, Lifted
    <3> QED BY <2>1, <2>2, <2>3, <2>4, <3>1
  <2>6. CASE call[r].op # "take"
    <3>1. holds' = holds \ {call[r].hold} /\ call[r].hold \in holds /\ call[r].hold # r
      BY <1>6, <2>1, <2>6 DEF Store, Changed
    <3>2. \A s \in Requests : Lifted(s) => call[s].hold # call[r].hold
      BY <3>1
    <3> QED BY <2>1, <2>2, <2>3, <2>4, <3>1, <3>2
  <2> QED BY <2>5, <2>6
<1>7. ASSUME NEW r \in Requests, NoSuchHold(r) \/ Kick(r) \/ Reply(r) \/ WaitOver(r) PROVE LiftInv'
  <2>1. /\ at[r] \in {"store", "kick", "reply", "waiting"} /\ holds' = holds /\ call' = call
        /\ at'[r] \in {"reply", "answered"}
    BY <1>7, <1>t DEF NoSuchHold, Kick, Reply, WaitOver, Answer, Goto
  <2>2. \A s \in Requests \ {r} : at'[s] = at[s] /\ code'[s] = code[s]
    BY <1>7, <1>t DEF NoSuchHold, Kick, Reply, WaitOver, Answer, Goto
  <2>3. Lifted(r)' => Lifted(r)
    BY <1>7, <1>t DEF NoSuchHold, Kick, Reply, WaitOver, Answer, Goto, Lifted
  <2>4. at'[r] # "answered" => code'[r] = 0
    BY <1>7, <1>t DEF NoSuchHold, Kick, Reply, WaitOver, Answer, Goto
  <2>5. \A s \in Requests : Lifted(s)' => Lifted(s)
    BY <2>1, <2>2, <2>3 DEF Lifted
  <2> QED BY <2>1, <2>2, <2>4, <2>5
<1> QED BY <1>2, <1>3, <1>4, <1>5, <1>6, <1>7 DEF Next, Step, Handler

\* However many people lift a hold at once, and whatever is taken meanwhile,
\* one of them is told that it is lifted.
THEOREM OneLifts == Spec => []LiftedOnce
<1>1. TypeOK /\ LiftInv => LiftedOnce
  BY DEF LiftInv, LiftedOnce, Lifted
<1> QED BY <1>1, Typed, StepTyped, LiftInit, LiftStep, PTL DEF Spec

-----------------------------------------------------------------------------
(* The wakes. *)

\* Only a request for a wake has one, and it has not been answered yet, or
\* was answered at once, unless its client waits for the wake.
WaitInv == \A r \in Requests :
  /\ at[r] # "answered" => code[r] = 0
  /\ at[r] \in {"away", "store", "kick", "reply"} => wake[r] = "none"
  /\ wake[r] # "none" /\ Waits(call[r]) => code[r] \notin {202, 303}
  /\ wake[r] = "cancelled" => r \in expired \/ Waits(call[r])

LEMMA WaitInit == Init => WaitInv
BY DEF Init, WaitInv

LEMMA WaitStep == TypeOK /\ WaitInv /\ [Next]_vars => WaitInv'
<1> SUFFICES ASSUME TypeOK, WaitInv, [Next]_vars PROVE WaitInv'
  OBVIOUS
<1> USE DEF TypeOK, HandlerTypeOK, WakeTypeOK, WaitInv, InFlight, Ended
<1>1. CASE UNCHANGED vars
  BY <1>1 DEF vars, handlerVars, wakeVars, Waits
<1>2. CASE Start \/ Signal \/ Exit \/ Tick \/ Kicked \/ PassEnds \/ LoopQuits
  BY <1>2 DEF Start, Signal, Exit, Tick, Kicked, PassEnds, LoopQuits, BeginPass, handlerVars, wakeVars,
              Waits
<1>3. ASSUME NEW r \in Requests, NEW q \in Calls, Refuse(r, q) \/ Accept(r, q) PROVE WaitInv'
  BY <1>3 DEF Refuse, Accept, Answer, Goto, wakeVars, Waits
<1>4. ASSUME NEW r \in Requests, Handler(r) PROVE WaitInv'
  BY <1>4 DEF Handler, Store, NoSuchHold, Kick, Reply, WaitOver, Answer, Goto, wakeVars, Waits
<1>5. ASSUME NEW r \in Requests, HangUp(r) \/ TimeUp(r) \/ WakeEnds(r) \/ Cancelled(r) PROVE WaitInv'
  BY <1>5 DEF HangUp, TimeUp, WakeEnds, Cancelled, ContextDone, handlerVars, wakeVars, Waits
<1> QED BY <1>1, <1>2, <1>3, <1>4, <1>5 DEF Next, Step

\* A wake the watchman has said it will do is never dropped for its client.
THEOREM AcceptedWakeIsKept == Spec => []AcceptedWakeGoesOn
<1>1. WaitInv => AcceptedWakeGoesOn
  BY DEF WaitInv, AcceptedWakeGoesOn
<1> QED BY <1>1, Typed, StepTyped, WaitInit, WaitStep, PTL DEF Spec

-----------------------------------------------------------------------------
(* The tokens file. *)

\* Induction, with a set in the place of a formula: what holds of 0, and of
\* n + 1 whenever of n, holds of every number.
LEMMA Climb ==
  ASSUME NEW P \in SUBSET Nat, 0 \in P, \A n \in P : n + 1 \in P
  PROVE  P = Nat
<1> SUFFICES ASSUME NEW x \in Nat, x \notin P PROVE FALSE
  OBVIOUS
<1> DEFINE A == {n \in 0..x : n \in P}
           f == [n \in A |-> n + 1]
<1>1. IsFiniteSet(A) /\ 0 \in A
  <2>1. IsFiniteSet(0..x)
    BY FS_Interval
  <2> QED BY <2>1, FS_Subset
<1>2. IsFiniteSet(A \ {0}) /\ Cardinality(A \ {0}) = Cardinality(A) - 1
  BY <1>1, FS_RemoveElement
<1>3. Cardinality(A) \in Nat
  BY <1>1, FS_CardinalityType
<1>4. f \in [A -> A \ {0}]
  <2> SUFFICES ASSUME NEW n \in A PROVE n + 1 \in A /\ n + 1 # 0
    OBVIOUS
  <2>1. n # x
    OBVIOUS
  <2> QED BY <2>1
<1>5. PICK m \in A, n \in A : m # n /\ f[m] = f[n]
  <2> HIDE DEF A, f
  <2> QED BY <1>1, <1>2, <1>3, <1>4, FS_PigeonHole
<1> QED BY <1>5

\* The recursion of Reading has a solution, found line by line.
LEMMA ReadLineByLine ==
  ASSUME NEW file, file \in Seq(ToSet(file))
  PROVE  /\ Reading(file)[0] = NothingRead
         /\ \A n \in 1..Len(file) : Reading(file)[n] = ReadLine(Reading(file)[n - 1], file[n])
<1> DEFINE Lines(m, g) == [n \in 0..m |-> IF n = 0 THEN NothingRead ELSE ReadLine(g[n - 1], file[n])]
           P == {m \in Nat : \E g : g = Lines(m, g)}
<1>1. 0 \in P
  <2> DEFINE g == [n \in 0..0 |-> NothingRead]
  <2>1. g = Lines(0, g)
    OBVIOUS
  <2> QED BY <2>1
<1>2. ASSUME NEW m \in P PROVE m + 1 \in P
  <2>1. PICK g : g = Lines(m, g)
    OBVIOUS
  <2> DEFINE h == [n \in 0..(m + 1) |-> IF n = m + 1 THEN ReadLine(g[m], file[m + 1]) ELSE g[n]]
  <2>2. h = Lines(m + 1, h)
    <3> SUFFICES ASSUME NEW n \in 0..(m + 1) PROVE h[n] = Lines(m + 1, h)[n]
      OBVIOUS
    <3>1. CASE n = 0
      BY <2>1, <3>1
    <3>2. CASE n = m + 1
      BY <3>2
    <3>3. CASE n \in 1..m
      <4>1. g[n] = ReadLine(g[n - 1], file[n])
        BY <2>1, <3>3
      <4>2. h[n] = g[n] /\ h[n - 1] = g[n - 1]
        BY <3>3
      <4> QED BY <3>3, <4>1, <4>2
    <3> QED BY <3>1, <3>2, <3>3
  <2>3. \E x : x = Lines(m + 1, x)
    <3> HIDE DEF h, Lines
    <3> QED BY <2>2
  <2> QED BY <2>3
<1>3. \E g : g = Lines(Len(file), g)
  <2>1. P = Nat
    <3> HIDE DEF P
    <3>1. P \in SUBSET Nat
      BY DEF P
    <3> QED BY <1>1, <1>2, <3>1, Climb
  <2>2. Len(file) \in Nat
    OBVIOUS
  <2> QED BY <2>1, <2>2
<1>4. Reading(file) = CHOOSE g : g = Lines(Len(file), g)
  BY DEF Reading
<1>5. Reading(file) = Lines(Len(file), Reading(file))
  <2> HIDE DEF Lines
  <2> QED BY <1>3, <1>4
<1> QED BY <1>5

\* The first n lines of file have the last word about token at role.
Says(file, n, token, role) ==
  \E i \in 1..n : /\ file[i].kind = "entry" /\ file[i].token = token /\ file[i].role = role
                  /\ \A j \in 1..n : j > i => ~(file[j].kind = "entry" /\ file[j].token = token)

\* What was read of n lines, unless one was refused: the tokens are those the
\* lines name, each with a role there is and that the last line about it says.
AsFileSays(file, n, read) ==
  \E ok \in BOOLEAN : \E of :
    /\ read = [ok |-> ok, of |-> of]
    /\ ok => \A t \in DOMAIN of : of[t] \in Roles /\ Says(file, n, t, of[t])

LEMMA SaysMore ==
  ASSUME NEW file, NEW n \in Nat, NEW t, NEW role, Says(file, n, t, role),
         ~(file[n + 1].kind = "entry" /\ file[n + 1].token = t)
  PROVE  Says(file, n + 1, t, role)
<1>1. PICK i \in 1..n : /\ file[i].kind = "entry" /\ file[i].token = t /\ file[i].role = role
                        /\ \A j \in 1..n : j > i => ~(file[j].kind = "entry" /\ file[j].token = t)
  BY DEF Says
<1>2. i \in 1..(n + 1) /\ \A j \in 1..(n + 1) : j \in 1..n \/ j = n + 1
  OBVIOUS
<1> QED BY <1>1, <1>2 DEF Says

LEMMA LineRead ==
  ASSUME NEW file, NEW n \in Nat, NEW read, AsFileSays(file, n, read)
  PROVE  AsFileSays(file, n + 1, ReadLine(read, file[n + 1]))
<1> DEFINE line == file[n + 1]
           next == ReadLine(read, line)
<1>0. PICK ok \in BOOLEAN : \E of :
        /\ read = [ok |-> ok, of |-> of]
        /\ ok => \A t \in DOMAIN of : of[t] \in Roles /\ Says(file, n, t, of[t])
  BY DEF AsFileSays
<1>1. PICK of :
        /\ read = [ok |-> ok, of |-> of]
        /\ ok => \A t \in DOMAIN of : of[t] \in Roles /\ Says(file, n, t, of[t])
  BY <1>0
<1>2. CASE ~ok \/ line.kind = "comment"
  <2>1. next = read
    BY <1>1, <1>2 DEF ReadLine
  <2>2. ok => \A t \in DOMAIN of : of[t] \in Roles /\ Says(file, n + 1, t, of[t])
    BY <1>1, <1>2, SaysMore
  <2> QED BY <1>1, <2>1, <2>2 DEF AsFileSays
<1>3. CASE ok /\ line.kind = "entry" /\ line.role \in Roles
  <2> DEFINE more == [t \in DOMAIN of \union {line.token} |->
                        IF t = line.token THEN line.role ELSE of[t]]
  <2>1. next = [ok |-> ok, of |-> more]
    BY <1>1, <1>3 DEF ReadLine
  <2>2. ASSUME NEW t \in DOMAIN more PROVE more[t] \in Roles /\ Says(file, n + 1, t, more[t])
    <3>1. CASE t = line.token
      <4>1. \A j \in 1..(n + 1) : ~(j > n + 1)
        OBVIOUS
      <4> QED BY <1>3, <3>1, <4>1 DEF Says
    <3>2. CASE t # line.token
      <4>1. of[t] \in Roles /\ Says(file, n, t, of[t]) /\ more[t] = of[t]
        BY <1>1, <1>3, <3>2
      <4> QED BY <3>2, <4>1, SaysMore
    <3> QED BY <3>1, <3>2
  <2> HIDE DEF more
  <2> QED BY <2>1, <2>2 DEF AsFileSays
<1>4. CASE ~(~ok \/ line.kind = "comment") /\ ~(ok /\ line.kind = "entry" /\ line.role \in Roles)
  <2>1. next = [ok |-> FALSE, of |-> of]
    BY <1>1, <1>4 DEF ReadLine
  <2> QED BY <2>1 DEF AsFileSays
<1> QED BY <1>2, <1>3, <1>4

\* A tokens file that is not refused means what it says, however long it is.
LEMMA FileMeansWhatItSays ==
  ASSUME NEW file, file \in Seq(ToSet(file)), LoadTokens(file).ok
  PROVE  \A t \in DOMAIN LoadTokens(file).of :
           /\ LoadTokens(file).of[t] \in Roles
           /\ Says(file, Len(file), t, LoadTokens(file).of[t])
<1> DEFINE P == {n \in Nat : n <= Len(file) => AsFileSays(file, n, Reading(file)[n])}
<1>0. Len(file) \in Nat
  OBVIOUS
<1>1. 0 \in P
  <2>1. Reading(file)[0] = [ok |-> TRUE, of |-> [t \in {} |-> Nobody]]
    BY ReadLineByLine DEF NothingRead
  <2> QED BY <2>1 DEF AsFileSays
<1>2. ASSUME NEW n \in P PROVE n + 1 \in P
  <2> SUFFICES ASSUME n + 1 <= Len(file)
               PROVE  AsFileSays(file, n + 1, Reading(file)[n + 1])
    OBVIOUS
  <2>1. Reading(file)[n + 1] = ReadLine(Reading(file)[n], file[n + 1])
    <3>1. n + 1 \in 1..Len(file) /\ (n + 1) - 1 = n
      BY <1>0
    <3> QED BY <3>1, ReadLineByLine
  <2>2. n \in Nat /\ AsFileSays(file, n, Reading(file)[n])
    BY <1>0
  <2> QED BY <2>1, <2>2, LineRead
<1>3. P = Nat
  <2> HIDE DEF P
  <2>1. P \in SUBSET Nat
    BY DEF P
  <2> QED BY <1>1, <1>2, <2>1, Climb
<1>4. AsFileSays(file, Len(file), LoadTokens(file))
  BY <1>0, <1>3 DEF LoadTokens
<1> QED BY <1>4 DEF AsFileSays

-----------------------------------------------------------------------------
(* Who may do what. *)

\* Whoever is somebody to the code is so to the configuration and the file.
LEMMA KnownRightly ==
  ASSUME TypeOK, LoadTokens(config.tokens).ok, NEW c, RoleOf(c) # Nobody
  PROVE  May(c, RoleOf(c)) /\ RoleOf(c) \in Roles \union {config.dev}
<1> DEFINE file == config.tokens
           of == LoadTokens(file).of
<1>1. file \in Seq(ToSet(file)) /\ DOMAIN file = 1..Len(file)
  BY ServiceAssumption DEF TypeOK, ProcTypeOK
<1>2. CASE c.bearer # NoBearer
  <2>1. c.bearer \in DOMAIN of /\ RoleOf(c) = of[c.bearer]
    BY <1>2 DEF RoleOf, Identify
  <2>2. of[c.bearer] \in Roles /\ Says(file, Len(file), c.bearer, of[c.bearer])
    BY <1>1, <2>1, FileMeansWhatItSays
  <2>3. FileSays(c.bearer, of[c.bearer])
    BY <1>1, <2>2 DEF Says, FileSays
  <2> QED BY <1>2, <2>1, <2>2, <2>3 DEF May
<1>3. CASE c.bearer = NoBearer /\ Trusted(c) /\ c.named
  <2>1. RoleOf(c) = HeaderRole(c)
    BY <1>3 DEF RoleOf, Identify
  <2> QED BY <1>3, <2>1 DEF May, Trusted, HeaderRole, Roles
<1>4. CASE c.bearer = NoBearer /\ ~(Trusted(c) /\ c.named)
  <2>1. RoleOf(c) = UnnamedRole(config.dev)
    BY <1>4 DEF RoleOf, Identify
  <2> QED BY <1>4, <2>1 DEF May, Trusted, UnnamedRole, Nobody, Roles
<1> QED BY <1>2, <1>3, <1>4

\* The tokens file of a watchman that serves was read to the end, and only
\* an admin's request reaches the store.
EntitledInv ==
  /\ proc \in {"serving", "closing"} => LoadTokens(config.tokens).ok
  /\ \A r \in Requests : at[r] = "store" => May(call[r].from, "admin")

LEMMA EntitledInit == Init => EntitledInv
BY DEF Init, EntitledInv

LEMMA AcceptedRightly ==
  ASSUME TypeOK, EntitledInv, NEW r \in Requests, NEW q \in Calls, Accept(r, q)
  PROVE  \/ May(q.from, "admin")
         \/ q.op = "wake" /\ ~q.ui /\ \E role \in Roles \union {config.dev} : May(q.from, role)
<1>1. Refusal(q, RoleOf(q.from)) = 0 /\ LoadTokens(config.tokens).ok
  BY DEF Accept, EntitledInv
<1>2. \/ RoleOf(q.from) = "admin"
      \/ q.op = "wake" /\ ~q.ui /\ RoleOf(q.from) # Nobody
  <2>1. ASSUME ~q.ui, RoleOf(q.from) = Nobody PROVE Refusal(q, RoleOf(q.from)) = 401
    BY <2>1 DEF Refusal
  <2>2. ASSUME q.ui \/ q.op # "wake", RoleOf(q.from) # "admin"
        PROVE  Refusal(q, RoleOf(q.from)) \in {401, 403}
    BY <2>2 DEF Refusal
  <2> QED BY <1>1, <2>1, <2>2
<1>3. RoleOf(q.from) # Nobody
  BY <1>2 DEF Nobody
<1> QED BY <1>1, <1>2, <1>3, KnownRightly

LEMMA EntitledStep == TypeOK /\ EntitledInv /\ [Next]_vars => EntitledInv'
<1> SUFFICES ASSUME TypeOK, EntitledInv, [Next]_vars PROVE EntitledInv'
  OBVIOUS
<1>1. config' = config /\ (proc' \in {"serving", "closing"} => LoadTokens(config.tokens).ok)
  BY DEF Next, Step, Handler, Start, Signal, Exit, Tick, Kicked, PassEnds, LoopQuits, BeginPass, Refuse,
         Accept, Store, NoSuchHold, Kick, Reply, WaitOver, HangUp, TimeUp, WakeEnds, Cancelled, vars,
         EntitledInv
<1>2. (LoadTokens(config.tokens).ok)' <=> LoadTokens(config.tokens).ok
  BY <1>1
<1>3. \A c, role : May(c, role)' <=> May(c, role)
  BY <1>1 DEF May, FileSays
<1>4. ASSUME NEW r \in Requests, at'[r] = "store" PROVE May(call'[r].from, "admin")
  <2>1. \/ at[r] = "store" /\ call'[r] = call[r]
        \/ \E q \in Calls : Accept(r, q) /\ q.op # "wake" /\ call'[r] = q
    BY <1>4 DEF Next, Step, Handler, Start, Signal, Exit, Tick, Kicked, PassEnds, LoopQuits, BeginPass,
         Refuse, Accept, Store, NoSuchHold, Kick, Reply, WaitOver, HangUp, TimeUp, WakeEnds, Cancelled,
         vars, handlerVars, Goto, Answer, InFlight, TypeOK, HandlerTypeOK
  <2> QED BY <2>1, AcceptedRightly DEF EntitledInv
<1> QED BY <1>1, <1>2, <1>3, <1>4 DEF EntitledInv

\* Holds change only for an admin, and nothing is woken for somebody nobody
\* knows, whatever the configuration and however long the tokens file.
THEOREM EntitledOnly == Spec => OnlyTheEntitled
<1> DEFINE Only ==
      /\ holds' # holds => \E r \in Requests : at[r] = "store" /\ May(call[r].from, "admin")
      /\ \A r \in Requests : wake[r] = "none" /\ wake'[r] # "none" =>
           \/ May(call'[r].from, "admin")
           \/ ~call'[r].ui /\ \E role \in Roles \union {config.dev} : May(call'[r].from, role)
<1>1. ASSUME TypeOK, EntitledInv, [Next]_vars PROVE [Only]_<<holds, wake>>
  <2>1. holds' = holds \/ \E r \in Requests : Store(r)
    BY <1>1 DEF Next, Step, Handler, Start, Signal, Exit, Tick, Kicked, PassEnds, LoopQuits, BeginPass,
         Refuse, Accept, NoSuchHold, Kick, Reply, WaitOver, HangUp, TimeUp, WakeEnds, Cancelled, vars
  <2>2. holds' # holds => \E r \in Requests : at[r] = "store" /\ May(call[r].from, "admin")
    BY <1>1, <2>1 DEF Store, EntitledInv
  <2>3. ASSUME NEW r \in Requests, wake[r] = "none", wake'[r] # "none"
        PROVE  \E q \in Calls : Accept(r, q) /\ call'[r] = q
    BY <1>1, <2>3 DEF Next, Step, Handler, Start, Signal, Exit, Tick, Kicked, PassEnds, LoopQuits,
         BeginPass, Refuse, Accept, Store, NoSuchHold, Kick, Reply, WaitOver, HangUp, TimeUp, WakeEnds,
         Cancelled, vars, wakeVars, TypeOK, WakeTypeOK, HandlerTypeOK
  <2>4. ASSUME NEW r \in Requests, wake[r] = "none", wake'[r] # "none"
        PROVE  \/ May(call'[r].from, "admin")
               \/ /\ ~call'[r].ui
                  /\ \E role \in Roles \union {config.dev} : May(call'[r].from, role)
    BY <1>1, <2>3, <2>4, AcceptedRightly
  <2> QED BY <2>2, <2>4
<1> QED BY <1>1, Typed, StepTyped, EntitledInit, EntitledStep, PTL DEF Spec, OnlyTheEntitled
=============================================================================
