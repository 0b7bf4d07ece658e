------------------------------- MODULE Engine -------------------------------
(***************************************************************************)
(* The engine of the watchman: one reconcile loop that observes the fleet  *)
(* and stops what is idle, and any number of wakes, each a goroutine of    *)
(* its own, that raise a target and what it needs.  They share the         *)
(* engine's maps and one action lock per target.                           *)
(*                                                                         *)
(* A step is what one goroutine does between two points where another can  *)
(* get in: a question to a machine and the use of its answer are separate  *)
(* steps, and so are a wait for a lock, an order and its consequences.     *)
(***************************************************************************)
EXTENDS World

CONSTANTS
  Wakers,    \* the wake calls made in a behaviour
  Loop,      \* the reconcile goroutine
  NoOne      \* owner of a free lock

ASSUME ProcsAssumption == Loop \notin Wakers /\ NoOne \notin Wakers \union {Loop}

Procs == Wakers \union {Loop}
Never == -1

VARIABLES
  \* the engine's maps, each guarded by e.mu
  vals,      \* signal -> last answer
  up,        \* target -> observed up
  upKnown,   \* target -> did its state probe answer
  upSince,   \* target -> when it was first seen up, or Never
  okSince,   \* target -> since when every stop_when agreed, or Never
  blocked,   \* target -> why it is not being stopped, or ""
  pending,   \* target -> "stopping", "raising" or ""
  seenSig,   \* signals that have answered at least once
  firstErr,  \* "nothing yet" | "" | "blind"
  kick,      \* is a pass asked for
  acting,    \* target -> who holds its action lock
  \* where each goroutine is, and its locals
  pc,
  rest,      \* targets still ahead of it; the first is the one it works on
  ans,       \* an answer received and not yet written down
  seenAny,   \* loop: has any target answered in this pass
  k,         \* loop: the condition or signal being asked
  began,     \* loop: the instant this consideration began
  held,      \* loop: stops done whose lock is kept while freeing others
  deadline   \* wake: when it stops waiting for the target to come up

memVars  == <<vals, up, upKnown, upSince, okSince, blocked, pending, seenSig,
              firstErr, kick>>
procVars == <<acting, pc, rest, ans, seenAny, k, began, held, deadline>>
vars     == <<worldVars, memVars, procVars>>

Times == Never..MaxTime
Values == [known : BOOLEAN, true : BOOLEAN, at : Times]
Answers == {"none", "yes", "no", "err", "asleep"}
LoopPCs == {"idle", "probe", "probed", "signals", "next", "cond", "lock", "look",
            "looked", "recheck", "fresh", "down", "downed"}
WakePCs == {"call", "step", "asked", "lock", "look", "looked", "up", "await",
            "awaited", "ok", "failed"}
Frames == [target : Targets, rest : Seq(Targets)]

MemTypeOK ==
  /\ vals \in [Signals -> Values]
  /\ up \in [Targets -> BOOLEAN] /\ upKnown \in [Targets -> BOOLEAN]
  /\ upSince \in [Targets -> Times] /\ okSince \in [Targets -> Times]
  /\ blocked \in [Targets -> {"", "hands-off", "min_uptime", "unknown", "held-by", "grace"}]
  /\ pending \in [Targets -> {"", "stopping", "raising"}]
  /\ seenSig \subseteq Signals
  /\ firstErr \in {"nothing yet", "", "blind"}
  /\ kick \in BOOLEAN

PlaceTypeOK ==
  /\ acting \in [Targets -> Procs \union {NoOne}]
  /\ pc \in [Procs -> LoopPCs \union WakePCs]
  /\ pc[Loop] \in LoopPCs /\ \A w \in Wakers : pc[w] \in WakePCs
  /\ rest \in [Procs -> Seq(Targets)]
  /\ held \in Seq(Frames)

LocalTypeOK ==
  /\ ans \in [Procs -> Answers]
  /\ seenAny \in BOOLEAN /\ k \in Nat /\ began \in 0..MaxTime
  /\ deadline \in [Wakers -> Int]

\* The type invariant: every variable holds what the code may put in it.
TypeOK == WorldTypeOK /\ MemTypeOK /\ PlaceTypeOK /\ LocalTypeOK

Unknown == [known |-> FALSE, true |-> FALSE, at |-> Never]

Init ==
  /\ power \in [Targets -> {"off", "on"}]
  /\ \A t \in Targets : power[t] = "on" => MachinePower(StateNode(t)) = "on"
  /\ truth \in [FreeSignals -> BOOLEAN]
  /\ holds \in SUBSET HoldChoices
  /\ now = 0 /\ changes = 0
  /\ vals = [s \in Signals |-> Unknown]
  /\ up = [t \in Targets |-> FALSE] /\ upKnown = [t \in Targets |-> FALSE]
  /\ upSince = [t \in Targets |-> Never] /\ okSince = [t \in Targets |-> Never]
  /\ blocked = [t \in Targets |-> ""] /\ pending = [t \in Targets |-> ""]
  /\ seenSig = {} /\ firstErr = "nothing yet" /\ kick = FALSE
  /\ acting = [t \in Targets |-> NoOne]
  /\ pc = [p \in Procs |-> IF p = Loop THEN "idle" ELSE "call"]
  /\ rest = [p \in Procs |-> << >>]
  /\ ans = [p \in Procs |-> "none"]
  /\ seenAny = FALSE /\ k = 0 /\ began = 0 /\ held = << >>
  /\ deadline = [w \in Wakers |-> 0]

-----------------------------------------------------------------------------
(* Small pieces the steps are made of. *)

\* Operators named after a mistake (ClearOKForgotten, LockUnheeded, ...) are what
\* the next definition would be with that mistake in the code; no step uses them.

Goto(p, label) == pc' = [pc EXCEPT ![p] = label]
Subject(p) == Head(rest[p])
Block(t, why) == blocked' = [blocked EXCEPT ![t] = why]
ClearOKForgotten(t) == okSince' = okSince
ClearOK(t) == okSince' = [okSince EXCEPT ![t] = Never]
SetPendingNeverCleared(t, what) ==
  pending' = IF what = "" THEN pending ELSE [pending EXCEPT ![t] = what]
SetPending(t, what) == pending' = [pending EXCEPT ![t] = what]
LockUnheeded(p, t) == acting' = [acting EXCEPT ![t] = p]
Lock(p, t) == acting[t] = NoOne /\ acting' = [acting EXCEPT ![t] = p]
UnlockForgotten(t) == acting' = acting
Unlock(t) == acting' = [acting EXCEPT ![t] = NoOne]

\* The node target standing for n was last seen down: do not even dial n.
NodeIsDown(n) ==
  HostsOf(n) # << >> /\ upKnown[Head(HostsOf(n))] /\ ~up[Head(HostsOf(n))]

\* probe, first half: p asks for the state of t.
Ask(p, t, label) ==
  /\ \E a \in IF NodeIsDown(StateNode(t)) THEN {"asleep"} ELSE StateAnswers(t) :
       ans' = [ans EXCEPT ![p] = a]
  /\ Goto(p, label)
  /\ UNCHANGED <<worldVars, memVars, acting, rest, seenAny, k, began, held, deadline>>

UpSinceKept(t, a) == IF a = "yes" /\ upSince[t] = Never THEN now ELSE upSince[t]
UpSinceRoundedUp(t, a) == IF a = "yes" /\ upSince[t] = Never THEN now + 1 ELSE upSince[t]
UpSinceAfter(t, a) == CASE a = "err" -> upSince[t]
                        [] a = "yes" -> IF upSince[t] = Never THEN now ELSE upSince[t]
                        [] OTHER     -> Never

OkSinceKept(t, a) == okSince[t]
\* Since when t was quiet, once answer a is written down: a target that is down
\* starts anew, one that could not be asked goes on.
OkSinceAfter(t, a) == IF a \in {"err", "yes"} THEN okSince[t] ELSE Never

\* probe, second half: the answer p received is written down, whatever was
\* written since it was given.
Hear(p, t) ==
  /\ upKnown' = [upKnown EXCEPT ![t] = ans[p] \in {"yes", "no"}]
  /\ up' = [up EXCEPT ![t] = IF ans[p] = "err" THEN @ ELSE ans[p] = "yes"]
  /\ upSince' = [upSince EXCEPT ![t] = UpSinceAfter(t, ans[p])]
  /\ okSince' = [okSince EXCEPT ![t] = OkSinceAfter(t, ans[p])]
  /\ ans' = [ans EXCEPT ![p] = "none"]

Fresh(s) == vals[s].known /\ now - vals[s].at <= TTL[s]

ReusableWhenForced(s, force) == Fresh(s)
\* May the last answer be used again, or did the caller insist on a new one?
Reusable(s, force) == ~force /\ Fresh(s)

\* evalSignalAt: the values evaluating s may give.  A hold is read from the
\* store; a signal that is not declared is unknown; a fresh answer is used again
\* unless the caller insists; a machine known to be asleep is not dialled.
Evaluations(s, force) ==
  CASE s \in HoldSignals ->
         {[known |-> TRUE, true |-> HeldOn(HoldOf[s]), at |-> now]}
    [] s \in Undeclared -> {Unknown}
    [] s \in Declared /\ Reusable(s, force) -> {vals[s]}
    [] s \in Declared /\ ~Reusable(s, force) ->
         IF NodeIsDown(RunOn[s]) THEN {Unknown}
         ELSE {IF a = "err" THEN Unknown
               ELSE [known |-> TRUE, true |-> a = "yes", at |-> now] :
               a \in SignalAnswers(s)}

\* setVal.  It is not called for a signal that is not declared, which has no
\* entry: in vals it is Unknown from the start, and this leaves it so.
Answered(s, v) ==
  /\ vals' = [vals EXCEPT ![s] = v]
  /\ seenSig' = IF v.known THEN seenSig \union {s} ELSE seenSig

VerdictTakingUnknownForNo(ref, v) == IF v.true # ref.neg THEN "agrees" ELSE "held-by"
\* What answer v says of condition ref: only a known answer can agree.
Verdict(ref, v) == CASE ~v.known -> "unknown"
                     [] v.known /\ v.true # ref.neg -> "agrees"
                     [] v.known /\ v.true = ref.neg -> "held-by"

AgreedSinceThisPass(t) == began
\* Since when every condition of t agrees, now that they do.
AgreedSince(t) == IF okSince[t] = Never THEN began ELSE okSince[t]

OldEnough(t) == upSince[t] = Never \/ now - upSince[t] >= MinUptime[t]
GraceOverEarly(t, since) == began - since >= Grace[t] - 1
GraceOver(t, since) == began - since >= Grace[t]

-----------------------------------------------------------------------------
(* The loop: one pass observes every target, then every signal. *)

StartPass ==
  /\ pc[Loop] = "idle"
  /\ \/ UNCHANGED kick                    \* the ticker
     \/ kick /\ kick' = FALSE             \* somebody kicked
  /\ Goto(Loop, "probe")
  /\ rest' = [rest EXCEPT ![Loop] = ProbeOrder]
  /\ seenAny' = FALSE
  /\ UNCHANGED <<worldVars, vals, up, upKnown, upSince, okSince, blocked, pending,
                 seenSig, firstErr, acting, ans, k, began, held, deadline>>

SweepAsk ==
  /\ pc[Loop] = "probe" /\ rest[Loop] # << >>
  /\ Ask(Loop, Subject(Loop), "probed")

SweepHear ==
  /\ pc[Loop] = "probed"
  /\ Hear(Loop, Subject(Loop))
  /\ seenAny' = (seenAny \/ ans[Loop] \in {"yes", "no"})
  /\ rest' = [rest EXCEPT ![Loop] = Tail(@)]
  /\ Goto(Loop, "probe")
  /\ UNCHANGED <<worldVars, vals, blocked, pending, seenSig, firstErr, kick, acting,
                 k, began, held, deadline>>

\* A pass that saw nothing ends here and touches nothing.
SweepEnds ==
  /\ pc[Loop] = "probe" /\ rest[Loop] = << >>
  /\ firstErr' = IF seenAny THEN ""
                 ELSE IF firstErr = "" THEN "blind" ELSE firstErr
  /\ \/ seenAny /\ Goto(Loop, "signals") /\ k' = 1
     \/ ~seenAny /\ Goto(Loop, "idle") /\ UNCHANGED k
  /\ UNCHANGED <<worldVars, vals, up, upKnown, upSince, okSince, blocked, pending,
                 seenSig, kick, acting, rest, ans, seenAny, began, held, deadline>>

AskSignal ==
  /\ pc[Loop] = "signals" /\ k <= Len(SignalNames)
  /\ \E v \in Evaluations(SignalNames[k], FALSE) : Answered(SignalNames[k], v)
  /\ k' = k + 1
  /\ UNCHANGED <<worldVars, up, upKnown, upSince, okSince, blocked, pending, firstErr,
                 kick, acting, pc, rest, ans, seenAny, began, held, deadline>>

SignalsAsked ==
  /\ pc[Loop] = "signals" /\ k > Len(SignalNames)
  /\ rest' = [rest EXCEPT ![Loop] = StopOrder]
  /\ k' = 0
  /\ Goto(Loop, "next")
  /\ UNCHANGED <<worldVars, memVars, acting, ans, seenAny, began, held, deadline>>

-----------------------------------------------------------------------------
(* The stop path. *)

\* considerDown of the loop's subject returns.
Return ==
  /\ rest' = [rest EXCEPT ![Loop] = Tail(@)]
  /\ k' = 0 /\ began' = 0
  /\ Goto(Loop, "next")

Considering(t) == pc[Loop] = "next" /\ rest[Loop] # << >> /\ t = Subject(Loop)

\* considerDown up to its first condition: the ways it turns back at once.
ConsiderRefused(t) ==
  /\ Considering(t)
  /\ \/ t \notin Downs /\ UNCHANGED <<blocked, okSince>>
     \/ t \in Downs /\ ~(upKnown[t] /\ up[t]) /\ Block(t, "") /\ ClearOK(t)
     \/ /\ t \in Downs /\ upKnown[t] /\ up[t]
        /\ \/ HandsOff(t) /\ Block(t, "hands-off")
           \/ ~HandsOff(t) /\ ~OldEnough(t) /\ Block(t, "min_uptime")
        /\ UNCHANGED okSince
  /\ Return
  /\ UNCHANGED <<worldVars, vals, up, upKnown, upSince, pending, seenSig, firstErr,
                 kick, acting, ans, seenAny, held, deadline>>

ConsiderBegins(t) ==
  /\ Considering(t)
  /\ t \in Downs /\ upKnown[t] /\ up[t] /\ ~HandsOff(t) /\ OldEnough(t)
  /\ began' = now /\ k' = 1
  /\ Goto(Loop, "cond")
  /\ UNCHANGED <<worldVars, memVars, acting, rest, ans, seenAny, held, deadline>>

\* One condition: it agrees and the next is asked, or the stop is off.
Condition(t, label, force) ==
  LET ref == StopWhen[t][k] IN
  /\ pc[Loop] = label /\ t = Subject(Loop) /\ k <= Len(StopWhen[t])
  /\ \E v \in Evaluations(ref.sig, force) :
       /\ Answered(ref.sig, v)
       /\ \/ /\ Verdict(ref, v) = "agrees"
             /\ k' = k + 1
             /\ UNCHANGED <<blocked, okSince, acting, pc, rest, began>>
          \/ /\ Verdict(ref, v) # "agrees"
             /\ Block(t, Verdict(ref, v)) /\ ClearOK(t)
             /\ IF label = "fresh" THEN Unlock(t) ELSE UNCHANGED acting
             /\ Return
  /\ UNCHANGED <<worldVars, up, upKnown, upSince, pending, firstErr, kick, ans,
                 seenAny, held, deadline>>

AskCached(t) == Condition(t, "cond", FALSE)

\* Every condition agrees: the grace runs from the moment they did.
AllAgree(t) ==
  /\ pc[Loop] = "cond" /\ t = Subject(Loop) /\ k > Len(StopWhen[t])
  /\ LET since == AgreedSince(t) IN
     /\ okSince' = [okSince EXCEPT ![t] = since]
     /\ \/ /\ ~GraceOver(t, since)
           /\ Block(t, "grace")
           /\ Return
        \/ /\ GraceOver(t, since)
           /\ Block(t, "")
           /\ Goto(Loop, "lock")
           /\ UNCHANGED <<rest, k, began>>
  /\ UNCHANGED <<worldVars, vals, up, upKnown, upSince, pending, seenSig, firstErr,
                 kick, acting, ans, seenAny, held, deadline>>

LockToStop(t) ==
  /\ pc[Loop] = "lock" /\ t = Subject(Loop)
  /\ Lock(Loop, t)
  /\ Goto(Loop, "look")
  /\ UNCHANGED <<worldVars, memVars, rest, ans, seenAny, k, began, held, deadline>>

LookAgain(t) ==
  /\ pc[Loop] = "look" /\ t = Subject(Loop)
  /\ Ask(Loop, t, "looked")

LookedAgain(t) ==
  /\ pc[Loop] = "looked" /\ t = Subject(Loop)
  /\ Hear(Loop, t)
  /\ \/ ans[Loop] = "yes" /\ Goto(Loop, "recheck") /\ UNCHANGED <<acting, rest, k, began>>
     \/ ans[Loop] # "yes" /\ Unlock(t) /\ Return     \* it went away by itself
  /\ UNCHANGED <<worldVars, vals, blocked, pending, seenSig, firstErr, kick, seenAny,
                 held, deadline>>

\* A wake may have raised it while the loop waited for the lock.
RecheckUptime(t) ==
  /\ pc[Loop] = "recheck" /\ t = Subject(Loop)
  /\ \/ /\ OldEnough(t)
        /\ k' = 1 /\ Goto(Loop, "fresh")
        /\ UNCHANGED <<blocked, acting, rest, began>>
     \/ ~OldEnough(t) /\ Block(t, "min_uptime") /\ Unlock(t) /\ Return
  /\ UNCHANGED <<worldVars, vals, up, upKnown, upSince, okSince, pending, seenSig,
                 firstErr, kick, ans, seenAny, held, deadline>>

AskFresh(t) == Condition(t, "fresh", TRUE)

DecideStop(t) ==
  /\ pc[Loop] = "fresh" /\ t = Subject(Loop) /\ k > Len(StopWhen[t])
  /\ SetPending(t, "stopping")
  /\ Goto(Loop, "down")
  /\ UNCHANGED <<worldVars, vals, up, upKnown, upSince, okSince, blocked, seenSig,
                 firstErr, kick, acting, rest, ans, seenAny, k, began, held, deadline>>

\* The order itself; the answer is "yes" when the door reports success.
OrderDown(t) ==
  /\ pc[Loop] = "down" /\ t = Subject(Loop)
  /\ \E o \in Outcomes(StopNode(t)) :
       /\ Lower(t, o)
       /\ ans' = [ans EXCEPT ![Loop] = IF o = "done" THEN "yes" ELSE "err"]
  /\ Goto(Loop, "downed")
  /\ UNCHANGED <<truth, holds, now, changes, memVars, acting, rest, seenAny, k, began,
                 held, deadline>>

StopFailed(t) ==
  /\ pc[Loop] = "downed" /\ t = Subject(Loop) /\ ans[Loop] = "err"
  /\ SetPending(t, "")
  /\ Unlock(t)
  /\ ans' = [ans EXCEPT ![Loop] = "none"]
  /\ Return
  /\ UNCHANGED <<worldVars, vals, up, upKnown, upSince, okSince, blocked, seenSig,
                 firstErr, kick, seenAny, held, deadline>>

\* The stop is recorded, and with the lock still held the loop turns to what
\* it may have freed.
StopDone(t) ==
  /\ pc[Loop] = "downed" /\ t = Subject(Loop) /\ ans[Loop] = "yes"
  /\ SetPending(t, "")
  /\ up' = [up EXCEPT ![t] = FALSE]
  /\ upSince' = [upSince EXCEPT ![t] = Never]
  /\ ClearOK(t)
  /\ held' = Append(held, [target |-> t, rest |-> Tail(rest[Loop])])
  /\ rest' = [rest EXCEPT ![Loop] = ThenConsider[t]]
  /\ ans' = [ans EXCEPT ![Loop] = "none"]
  /\ k' = 0 /\ began' = 0
  /\ Goto(Loop, "next")
  /\ UNCHANGED <<worldVars, vals, upKnown, blocked, seenSig, firstErr, kick, acting,
                 seenAny, deadline>>

\* Nothing more to free: the lock of that stop is released.
StopReturns ==
  /\ pc[Loop] = "next" /\ rest[Loop] = << >> /\ held # << >>
  /\ Unlock(Last(held).target)
  /\ rest' = [rest EXCEPT ![Loop] = Last(held).rest]
  /\ held' = Front(held)
  /\ UNCHANGED <<worldVars, memVars, pc, ans, seenAny, k, began, deadline>>

PassEnds ==
  /\ pc[Loop] = "next" /\ rest[Loop] = << >> /\ held = << >>
  /\ seenAny' = FALSE
  /\ Goto(Loop, "idle")
  /\ UNCHANGED <<worldVars, memVars, acting, rest, ans, k, began, held, deadline>>

StopStep(t) ==
  \/ ConsiderRefused(t) \/ ConsiderBegins(t) \/ AskCached(t) \/ AllAgree(t)
  \/ LockToStop(t) \/ LookAgain(t) \/ LookedAgain(t) \/ RecheckUptime(t)
  \/ AskFresh(t) \/ DecideStop(t) \/ OrderDown(t) \/ StopFailed(t) \/ StopDone(t)

LoopNext ==
  \/ StartPass \/ SweepAsk \/ SweepHear \/ SweepEnds \/ AskSignal \/ SignalsAsked
  \/ StopReturns \/ PassEnds
  \/ \E t \in Targets : StopStep(t)

-----------------------------------------------------------------------------
(* A wake: raise a target and everything it needs, parents first. *)

Call(w, t) ==
  /\ pc[w] = "call"
  /\ rest' = [rest EXCEPT ![w] = ChainOf[t]]
  /\ Goto(w, "step")
  /\ UNCHANGED <<worldVars, memVars, acting, ans, seenAny, k, began, held, deadline>>

\* The wake w is done with its subject, which is up.
StepOn(w) == rest' = [rest EXCEPT ![w] = Tail(@)] /\ Goto(w, "step")

WakeReturns(w) ==
  /\ pc[w] = "step" /\ rest[w] = << >>
  /\ kick' = TRUE
  /\ Goto(w, "ok")
  /\ UNCHANGED <<worldVars, vals, up, upKnown, upSince, okSince, blocked, pending,
                 seenSig, firstErr, acting, rest, ans, seenAny, k, began, held, deadline>>

WakeHandsOff(w) ==
  /\ pc[w] = "step" /\ rest[w] # << >> /\ HandsOff(Subject(w))
  /\ Goto(w, "failed")
  /\ UNCHANGED <<worldVars, memVars, acting, rest, ans, seenAny, k, began, held, deadline>>

WakeAsk(w) ==
  /\ pc[w] = "step" /\ rest[w] # << >> /\ ~HandsOff(Subject(w))
  /\ Ask(w, Subject(w), "asked")

WakeAsked(w) ==
  /\ pc[w] = "asked"
  /\ Hear(w, Subject(w))
  /\ \/ ans[w] = "yes" /\ StepOn(w)
     \/ ans[w] # "yes" /\ Goto(w, "lock") /\ UNCHANGED rest
  /\ UNCHANGED <<worldVars, vals, blocked, pending, seenSig, firstErr, kick, acting,
                 seenAny, k, began, held, deadline>>

LockToRaise(w) ==
  /\ pc[w] = "lock"
  /\ Lock(w, Subject(w))
  /\ Goto(w, "look")
  /\ UNCHANGED <<worldVars, memVars, rest, ans, seenAny, k, began, held, deadline>>

WakeLook(w) ==
  /\ pc[w] = "look"
  /\ Ask(w, Subject(w), "looked")

WakeLooked(w) ==
  /\ pc[w] = "looked"
  /\ Hear(w, Subject(w))
  /\ \/ ans[w] = "yes" /\ Unlock(Subject(w)) /\ StepOn(w) /\ UNCHANGED pending
     \/ /\ ans[w] # "yes"
        /\ SetPending(Subject(w), "raising")
        /\ Goto(w, "up")
        /\ UNCHANGED <<acting, rest>>
  /\ UNCHANGED <<worldVars, vals, blocked, seenSig, firstErr, kick, seenAny, k, began,
                 held, deadline>>

OrderUp(w) ==
  /\ pc[w] = "up"
  /\ \E o \in Outcomes(StateNode(Subject(w))) :
       /\ Raise(Subject(w), o)
       /\ \/ /\ o = "done"
             /\ deadline' = [deadline EXCEPT ![w] = now + UpTimeout[Subject(w)]]
             /\ Goto(w, "await")
             /\ UNCHANGED acting
          \/ o # "done" /\ Unlock(Subject(w)) /\ Goto(w, "failed") /\ UNCHANGED deadline
  /\ SetPending(Subject(w), "")
  /\ UNCHANGED <<truth, holds, now, changes, vals, up, upKnown, upSince, okSince, blocked,
                 seenSig, firstErr, kick, rest, ans, seenAny, k, began, held>>

AwaitOrdersAgain(w) ==
  /\ pc[w] = "await"
  /\ Goto(w, "up")
  /\ UNCHANGED <<worldVars, memVars, acting, rest, ans, seenAny, k, began, held, deadline>>
AwaitAsk(w) ==
  /\ pc[w] = "await"
  /\ Ask(w, Subject(w), "awaited")

\* await: it is up, or the time is over, or the caller left, or ask again.
Awaited(w) ==
  /\ pc[w] = "awaited"
  /\ Hear(w, Subject(w))
  /\ \/ /\ ans[w] = "yes"
        /\ SetPending(Subject(w), "") /\ Unlock(Subject(w)) /\ StepOn(w)
     \/ /\ ans[w] # "yes" /\ now > deadline[w]
        /\ SetPending(Subject(w), "") /\ Unlock(Subject(w)) /\ Goto(w, "failed")
        /\ UNCHANGED rest
     \/ /\ ans[w] # "yes" /\ now <= deadline[w]
        /\ \/ Unlock(Subject(w)) /\ Goto(w, "failed")
           \/ UNCHANGED acting /\ Goto(w, "await")
        /\ UNCHANGED <<pending, rest>>
  /\ UNCHANGED <<worldVars, vals, blocked, seenSig, firstErr, kick, seenAny, k, began,
                 held, deadline>>

WakeNext(w) ==
  \/ \E t \in Targets : Call(w, t)
  \/ WakeReturns(w) \/ WakeHandsOff(w) \/ WakeAsk(w) \/ WakeAsked(w) \/ LockToRaise(w)
  \/ WakeLook(w) \/ WakeLooked(w) \/ OrderUp(w) \/ AwaitAsk(w) \/ Awaited(w)

-----------------------------------------------------------------------------
(* Who is where: the stretches of code between taking a lock and letting go. *)

\* The loop is past taking the lock of t, for t itself or for what t frees.
LoopHolds(t) ==
  \/ pc[Loop] \in {"look", "looked", "recheck", "fresh", "down", "downed"} /\ t = Subject(Loop)
  \/ \E i \in DOMAIN held : held[i].target = t

WakeHolds(w, t) ==
  pc[w] \in {"look", "looked", "up", "await", "awaited"} /\ t = Subject(w)

\* A stop and a wake are never both under way on a target, nor are two wakes:
\* whoever is between taking a target's lock and letting go is its one owner.
LockDiscipline ==
  \A t \in Targets :
    /\ acting[t] = Loop <=> LoopHolds(t)
    /\ \A w \in Wakers : acting[t] = w <=> WakeHolds(w, t)

\* What the board shows as in flight is done by the one who owns the target.
PendingIsOwned ==
  \A t \in Targets : /\ pending[t] = "stopping" => acting[t] = Loop
                     /\ pending[t] = "raising" => acting[t] \in Wakers

\* Only what a manages list names is ever ordered down, whatever path led the
\* loop there: the pass over managed targets, or a then_consider.
StopsOnlyManaged == pc[Loop] = "down" => Managed(Subject(Loop))

\* The loop never waits for a lock it holds itself: re-entering considerDown
\* with a lock held is safe when then_consider has no cycle.
LoopNeverWaitsForItself ==
  pc[Loop] = "lock" => acting[Subject(Loop)] # Loop

-----------------------------------------------------------------------------
(* What holds of the locals at each label, on which the typing rests. *)

InConsider == {"cond", "lock", "look", "looked", "recheck", "fresh", "down", "downed"}

WellPlaced ==
  /\ pc[Loop] \in InConsider \union {"probed"} => rest[Loop] # << >>
  /\ pc[Loop] \in InConsider => Subject(Loop) \in Downs
  /\ pc[Loop] \in {"signals", "cond", "fresh"} => k >= 1
  /\ \A w \in Wakers : pc[w] \notin {"call", "step", "ok", "failed"} => rest[w] # << >>

-----------------------------------------------------------------------------
\* An answer may be late: others act between its being given and its being
\* written down.  A run that leaves this fault out has p wait for that.
InTime(p) == "late" \in Faults \/
  \A q \in Procs \ {p} : pc[q] \notin {"probed", "asked", "looked", "awaited"}

Next ==
  \/ InTime(NoOne) /\ WorldNext /\ UNCHANGED <<memVars, procVars>>
  \/ InTime(Loop) /\ LoopNext
  \/ \E w \in Wakers : InTime(w) /\ WakeNext(w)

Spec == Init /\ [][Next]_vars
=============================================================================
