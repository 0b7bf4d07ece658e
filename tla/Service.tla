------------------------------ MODULE Service ------------------------------
(***************************************************************************)
(* The process around the engine: it starts, answers requests, each in a   *)
(* goroutine of its own, and ends on a signal.  The handlers, those of the *)
(* JSON API and those of the page, ask who calls, write holds and start    *)
(* wakes; the reconcile loop makes a pass when the ticker fires or when    *)
(* somebody kicks it.                                                      *)
(*                                                                         *)
(* A pass and a wake are modelled by their ends, for module Engine has     *)
(* what happens inside them, and the store by what it has in memory, for   *)
(* module HoldStore has the file.                                          *)
(***************************************************************************)
EXTENDS Auth, TLC

CONSTANTS
  Requests,   \* the requests made in a behaviour; a hold bears the name of
              \* the request that took it
  OldHolds,   \* the holds the store was opened with
  Calls,      \* what a request may be, see below
  Configs,    \* what the watchman may be told of its callers: the lines of
              \* the tokens file and the role of dev_user, [tokens, dev]
  Faults      \* what may go wrong: "save"

\* A call is [op, ui, from, body, hold, wait]: what is asked, from the page or
\* from the API, by whom, with a body that is "fine", "garbled", without a
\* reason or of an undeclared target, which hold to lift, and whether the
\* caller wants to wait for the wake.
ASSUME ServiceAssumption ==
  /\ OldHolds \intersect Requests = {}
  /\ \A q \in Calls : q.op \in {"take", "release", "wake"} /\ q.ui \in BOOLEAN
  /\ \A c \in Configs : c.tokens \in Seq(ToSet(c.tokens))

VARIABLES
  proc,     \* "starting" | "serving" | "closing" | "gone"
  config,   \* what it was told of its callers
  loop,     \* the reconcile loop: "off" | "idle" | "pass"
  kick,     \* is a pass asked for
  holds,    \* the holds in memory
  at,       \* request -> where its handler is
  call,     \* request -> what it is, once accepted
  code,     \* request -> the status it was answered with, or 0
  wake,     \* request -> "none", or how the wake it started fares
  left,     \* requests whose client hung up
  expired,  \* requests whose wake is out of time
  news      \* history: requests that changed a hold since the last pass began

handlerVars == <<at, call, code>>
wakeVars == <<wake, left, expired>>
vars == <<proc, config, loop, kick, holds, handlerVars, wakeVars, news>>

NoCall == [op |-> "none"]
InFlight == {"store", "kick", "reply", "waiting"}
Ended == {"up", "failed", "cancelled"}

ProcTypeOK ==
  /\ proc \in {"starting", "serving", "closing", "gone"} /\ config \in Configs
  /\ loop \in {"off", "idle", "pass"} /\ kick \in BOOLEAN
  /\ holds \subseteq OldHolds \union Requests

HandlerTypeOK ==
  /\ at \in [Requests -> InFlight \union {"away", "answered", "cut"}]
  /\ call \in [Requests -> Calls \union {NoCall}]
  /\ \A r \in Requests : at[r] \in InFlight => call[r] \in Calls
  /\ code \in [Requests -> {0, 200, 201, 202, 303, 400, 401, 403, 404, 409, 500}]

WakeTypeOK ==
  /\ wake \in [Requests -> Ended \union {"none", "running", "lost"}]
  /\ left \subseteq Requests /\ expired \subseteq Requests /\ news \subseteq Requests

TypeOK == ProcTypeOK /\ HandlerTypeOK /\ WakeTypeOK

Init ==
  /\ proc = "starting" /\ config \in Configs
  /\ loop = "off" /\ kick = FALSE /\ holds = OldHolds
  /\ at = [r \in Requests |-> "away"]
  /\ call = [r \in Requests |-> NoCall]
  /\ code = [r \in Requests |-> 0]
  /\ wake = [r \in Requests |-> "none"]
  /\ left = {} /\ expired = {} /\ news = {}

-----------------------------------------------------------------------------
(* The process and its loop. *)

\* main: it serves, or the configuration, the store, the tokens, the key of
\* the door or the address is no good and it exits.
Start ==
  /\ proc = "starting"
  /\ \/ LoadTokens(config.tokens).ok /\ proc' = "serving" /\ loop' = "pass"
     \/ proc' = "gone" /\ UNCHANGED loop
  /\ UNCHANGED <<config, kick, holds, handlerVars, wakeVars, news>>

Signal ==
  /\ proc = "serving" /\ proc' = "closing"
  /\ UNCHANGED <<config, loop, kick, holds, handlerVars, wakeVars, news>>

\* ListenAndServe returns as soon as the shutdown begins and main with it:
\* what is under way is cut off.
Exit ==
  /\ proc = "closing" /\ proc' = "gone" /\ loop' = "off"
  /\ at' = [r \in Requests |-> IF at[r] \in InFlight THEN "cut" ELSE at[r]]
  /\ wake' = [r \in Requests |-> IF wake[r] = "running" THEN "lost" ELSE wake[r]]
  /\ UNCHANGED <<config, kick, holds, call, code, left, expired, news>>

BeginPass == loop = "idle" /\ loop' = "pass" /\ news' = {}

Tick ==
  /\ BeginPass
  /\ UNCHANGED <<proc, config, kick, holds, handlerVars, wakeVars>>

Kicked ==
  /\ kick /\ kick' = FALSE /\ BeginPass
  /\ UNCHANGED <<proc, config, holds, handlerVars, wakeVars>>

PassEndsDraining ==
  /\ loop = "pass" /\ loop' = "idle" /\ kick' = FALSE
  /\ UNCHANGED <<proc, config, holds, handlerVars, wakeVars, news>>
PassEnds ==
  /\ loop = "pass" /\ loop' = "idle"
  /\ UNCHANGED <<proc, config, kick, holds, handlerVars, wakeVars, news>>

LoopQuits ==
  /\ proc = "closing" /\ loop = "idle" /\ loop' = "off"
  /\ UNCHANGED <<proc, config, kick, holds, handlerVars, wakeVars, news>>

-----------------------------------------------------------------------------
(* The handlers. *)

\* The status a call is turned away with, or 0.  Only the API wants to know
\* whether the target of a hold is declared, and what it cannot read of a
\* wake it ignores.
Refusal(q, role) ==
  IF ~q.ui /\ role = Nobody THEN 401
  ELSE IF (q.ui \/ q.op # "wake") /\ role # "admin" THEN 403
  ELSE IF q.op = "wake" /\ q.body = "undeclared" THEN IF q.ui THEN 400 ELSE 404
  ELSE IF q.op = "take" /\ (q.body = "no reason" \/ (~q.ui /\ q.body # "fine")) THEN 400
  ELSE 0

\* The client waits for its wake to end.
Waits(q) == ~q.ui /\ q.wait /\ q.body # "garbled"

Success(q) == IF q.ui THEN 303 ELSE CASE q.op = "take" -> 201
                                      [] q.op = "release" -> 200
                                      [] q.op = "wake" -> 202

\* identify.
RoleOf(c) == Identify(c, LoadTokens(config.tokens).of, config.dev)

Goto(r, place) == at' = [at EXCEPT ![r] = place]
Answer(r, status) == Goto(r, "answered") /\ code' = [code EXCEPT ![r] = status]

Refuse(r, q) ==
  LET status == Refusal(q, RoleOf(q.from)) IN
  /\ at[r] = "away" /\ proc \in {"serving", "closing"}
  /\ status # 0 /\ Answer(r, status)
  /\ UNCHANGED <<proc, config, loop, kick, holds, call, wakeVars, news>>

Accept(r, q) ==
  /\ at[r] = "away" /\ proc \in {"serving", "closing"}
  /\ Refusal(q, RoleOf(q.from)) = 0
  /\ call' = [call EXCEPT ![r] = q]
  /\ \/ q.op # "wake" /\ Goto(r, "store") /\ UNCHANGED <<code, wake>>
     \/ /\ q.op = "wake" /\ wake' = [wake EXCEPT ![r] = "running"]
        /\ \/ Waits(q) /\ Goto(r, "waiting") /\ UNCHANGED code
           \/ ~Waits(q) /\ Answer(r, Success(q))
  /\ UNCHANGED <<proc, config, loop, kick, holds, left, expired, news>>

ChangedUnderTheGivenName(r) ==
  IF call[r].op = "take" THEN holds \union {call[r].hold} ELSE holds \ {call[r].hold}
ChangedNeverLifted(r) == IF call[r].op = "take" THEN holds \union {r} ELSE holds
Changed(r) == IF call[r].op = "take" THEN holds \union {r} ELSE holds \ {call[r].hold}

\* Take or Release of the store.  What cannot be saved is changed all the
\* same, and nobody is told.
Store(r) ==
  /\ at[r] = "store" /\ (call[r].op = "take" \/ call[r].hold \in holds)
  /\ holds' = Changed(r) /\ news' = news \union {r}
  /\ \/ Goto(r, "kick") /\ UNCHANGED code
     \/ "save" \in Faults /\ Answer(r, IF call[r].op = "take" THEN 500 ELSE 404)
  /\ UNCHANGED <<proc, config, loop, kick, call, wakeVars>>

NoSuchHold(r) ==
  /\ at[r] = "store" /\ call[r].op = "release" /\ call[r].hold \notin holds
  /\ Answer(r, 404)
  /\ UNCHANGED <<proc, config, loop, kick, holds, call, wakeVars, news>>

KickFromAPIOnly(r) ==
  /\ at[r] = "kick" /\ kick' = (kick \/ ~call[r].ui) /\ Goto(r, "reply")
  /\ UNCHANGED <<proc, config, loop, holds, call, code, wakeVars, news>>
Kick(r) ==
  /\ at[r] = "kick" /\ kick' = TRUE /\ Goto(r, "reply")
  /\ UNCHANGED <<proc, config, loop, holds, call, code, wakeVars, news>>

Reply(r) ==
  /\ at[r] = "reply" /\ Answer(r, Success(call[r]))
  /\ UNCHANGED <<proc, config, loop, kick, holds, call, wakeVars, news>>

\* The other handlers do not look whether anybody is still there.
HangUp(r) ==
  /\ at[r] = "waiting" /\ r \notin left /\ left' = left \union {r}
  /\ UNCHANGED <<proc, config, loop, kick, holds, handlerVars, wake, expired, news>>

-----------------------------------------------------------------------------
(* The wakes. *)

\* The context of a request is done when its client left or its handler
\* returned.
RequestOver(r) == r \in left \/ at[r] = "answered"

ContextDoneWithRequest(r) == r \in expired \/ RequestOver(r)
\* A wake somebody waits for ends with the request, any other with its time.
ContextDone(r) == r \in expired \/ (Waits(call[r]) /\ RequestOver(r))

TimeUpNever(r) == FALSE /\ UNCHANGED vars
TimeUp(r) ==
  /\ wake[r] = "running" /\ r \notin expired /\ expired' = expired \union {r}
  /\ UNCHANGED <<proc, config, loop, kick, holds, handlerVars, wake, left, news>>

WakeEnds(r) ==
  /\ wake[r] = "running"
  /\ \/ wake' = [wake EXCEPT ![r] = "up"] /\ kick' = TRUE
     \/ wake' = [wake EXCEPT ![r] = "failed"] /\ UNCHANGED kick
  /\ UNCHANGED <<proc, config, loop, holds, handlerVars, left, expired, news>>

Cancelled(r) ==
  /\ wake[r] = "running" /\ ContextDone(r) /\ wake' = [wake EXCEPT ![r] = "cancelled"]
  /\ UNCHANGED <<proc, config, loop, kick, holds, handlerVars, left, expired, news>>

WaitOver(r) ==
  /\ at[r] = "waiting" /\ wake[r] \in Ended
  /\ Answer(r, IF wake[r] = "up" THEN 200 ELSE 409)
  /\ UNCHANGED <<proc, config, loop, kick, holds, call, wakeVars, news>>

-----------------------------------------------------------------------------
Handler(r) == Store(r) \/ NoSuchHold(r) \/ Kick(r) \/ Reply(r) \/ WaitOver(r)

Step(r) ==
  \/ \E q \in Calls : Refuse(r, q) \/ Accept(r, q)
  \/ Handler(r) \/ HangUp(r) \/ TimeUp(r) \/ WakeEnds(r) \/ Cancelled(r)

Next ==
  \/ Start \/ Signal \/ Exit \/ Tick \/ Kicked \/ PassEnds \/ LoopQuits
  \/ \E r \in Requests : Step(r)

\* Goroutines that can go on do, a context's time runs out, and a wake whose
\* context is done ends; a pass ends, and the loop heeds a kick.  The ticker
\* may be as slow as the operator wants.
Fairness ==
  /\ WF_vars(PassEnds) /\ WF_vars(Kicked)
  /\ \A r \in Requests : WF_vars(Handler(r)) /\ WF_vars(TimeUp(r)) /\ WF_vars(Cancelled(r))

Spec == Init /\ [][Next]_vars /\ Fairness

-----------------------------------------------------------------------------
\* A change of the holds that was answered with success is not left to the
\* ticker: as long as no pass has begun since, one is asked for, however many
\* requests and wakes kick, and whenever the loop takes a kick away.
AnsweredChangeIsSeen == \A r \in news : code[r] \in {200, 201, 303} => kick

\* ... so that, as long as the process runs, a pass sees it.
PassFollows == \A r \in Requests :
  (r \in news /\ code[r] \in {200, 201, 303}) ~> (r \notin news \/ proc # "serving")

\* Of several people who lift the same hold one is told it is lifted.
LiftedOnce == \A r, s \in Requests :
  /\ code[r] \in {200, 303} /\ call[r].op = "release"
  /\ code[s] \in {200, 303} /\ call[s].op = "release"
  /\ call[r].hold = call[s].hold
  => r = s

\* A wake that was accepted does not depend on its client any more: the only
\* thing that cancels it is its own time.
AcceptedWakeGoesOn == \A r \in Requests :
  wake[r] = "cancelled" /\ code[r] \in {202, 303} => r \in expired

\* Whoever is let in is answered, and whatever wake was started ends, unless
\* the process does: a wake that cannot end is cut short.
EveryoneIsAnswered == \A r \in Requests :
  (at[r] \in InFlight \/ wake[r] = "running") ~>
    (at[r] \in {"answered", "cut"} /\ wake[r] # "running")

\* The last line of the tokens file about token says role.
FileSays(token, role) ==
  LET lines == config.tokens
      about(i) == lines[i].kind = "entry" /\ lines[i].token = token
  IN \E i \in DOMAIN lines : /\ about(i) /\ lines[i].role = role
                             /\ \A j \in DOMAIN lines : j > i => ~about(j)

\* What the configuration and the tokens file make of caller c, by whatever
\* the request says: one who shows a token is what the file says and nothing
\* else, and a header counts only from a trusted proxy.
May(c, role) ==
  \/ c.bearer # NoBearer /\ FileSays(c.bearer, role)
  \/ c.bearer = NoBearer /\ c.hop \in TrustedProxies /\ c.named /\ (c.adminGroup <=> role = "admin")
  \/ /\ c.bearer = NoBearer /\ ~(c.hop \in TrustedProxies /\ c.named)
     /\ config.dev # "none" /\ role = IF config.dev = "" THEN "admin" ELSE config.dev

\* Holds are an admin's decision, from the page or from the API, and so is a
\* wake from the page; nothing is woken for somebody nobody knows.
OnlyTheEntitled ==
  [][/\ holds' # holds => \E r \in Requests : at[r] = "store" /\ May(call[r].from, "admin")
     /\ \A r \in Requests : wake[r] = "none" /\ wake'[r] # "none" =>
          \/ May(call'[r].from, "admin")
          \/ ~call'[r].ui /\ \E role \in Roles \union {config.dev} : May(call'[r].from, role)
    ]_<<holds, wake>>
=============================================================================
