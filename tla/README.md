# Le Veilleur, verified: models, checks and proofs

Le Veilleur is a watchman for a small fleet of machines. It raises what is
asked for, with everything that needs to be up first, and it stops what nobody
uses any more. A stop cannot be taken back, and everything it rests on is
measured through commands that may fail, hang or answer late, on machines that
people also switch by hand. This directory holds TLA+ modules translated from
the Go source, the configurations TLC checks them with, and theorems TLAPS
checks for every value of the constants.

- [The system](#the-system)
- [The modules](#the-modules)
- [How a step is cut](#how-a-step-is-cut)
- [What is abstracted](#what-is-abstracted)
- [The runs](#the-runs)
- [What the runs that fail show](#what-the-runs-that-fail-show)
- [What is proved](#what-is-proved)
- [What is not modelled](#what-is-not-modelled)
- [Plan](#plan)

## The system

| Component | State | Operations | Talks to | Hard because | Correct when |
|---|---|---|---|---|---|
| Configuration (`internal/config`) | none after `Load` | `Load`, `Validate`, `Managed`, `Chain`, `TargetNames` | read by all | graph of `needs`, free references between files | an accepted configuration has no cycle of needs and no dangling name; `Chain` lists parents first |
| Engine, observing (`fleet/engine.go`) | `vals`, `up`, `upKnown`, `upSince`, `okSince`, `seenSig`, `firstErr`, under `e.mu` | `probe`, `evalSignal`, `evalSignalFresh`, `Pass` | door, hold store | an answer is received outside `e.mu` and written down later; caches; machines asleep; failing probes | what is shown and decided on is what was last answered |
| Engine, stop path | `blocked`, `pending`, the action locks `acting` | `stopPass`, `considerDown` and its recursion into `then_consider` | door (`down`) | decided first, done after a wait for a lock; a lock held across the recursion; orders refused or lost | stops only what may be stopped, on current answers, after the full grace, and never what was just raised |
| Engine, wake path | the same maps and locks | `Wake`, `await`, any number at once | door (`up`), hold store, `Kick` | first look without the lock, polling to a deadline, callers that leave | one owner per target; success means up |
| Engine, run loop | `kick`, a channel of one | `Run`, `Kick` | everything above | requests merged into one | after a kick, a pass |
| Board and metrics (`fleet/board.go`) | none of its own | `Board`, `Metrics`, `Healthy` | reads the engine's maps | reads between two writes | "quiet" and "in flight" are true when shown |
| Hold store (`internal/state`) | the list, `holds.json`, the audit log | `Open`, `Take`, `Release`, `On`, `HandsOff` | file system | failed writes, death between steps | what was acknowledged survives |
| ssh door (`internal/door`) | none between requests | `Signal`, `Act`, `anyControl` | `veilleur-node` | unreachable, lost midway, unable to run, several controls | a no means no, a done means done |
| `veilleur-node` (`deploy/proxmox`) | the node's own table | `signal`, `state`, `up`, `down` | the node | missing table or entry | its exit status says what happened |
| API and pages (`internal/web`) | none of its own | wake, take, release, boards | engine, store, `Kick` | six handlers that check, write and answer each in its own way; wakes that outlive their request; contexts that end | the status says what happened; a change is followed by a pass |
| Authentication (`internal/auth`) | tokens, read at start | `loadTokens`, `Identify` | headers | tokens, trusted proxies and a role for development, one before the other | nobody gets a role by a way the configuration does not name |
| Process (`cmd/veilleur`) | none | start, signal, end | wires all | ends without waiting for what is under way; a restart forgets the engine's maps | the engine starts from nothing |

One goroutine runs the loop and every stop. Each wake is a goroutine of its
own, of an HTTP request or detached from it. They share the engine's maps
under `e.mu`, one action lock per target, and the store, which has a mutex of
its own. The only calls out are those of the door.

## The modules

| Module | What it is | Code |
|---|---|---|
| `Config` | a configuration as written, what `Validate` refuses of it, and the two walks over `needs` | `config.go` |
| `FleetConfig` | the constants, what `Load` and `Validate` leave true of them, and the operators that route a question or an order | `config.go`, `engine.go` |
| `World` | the far side of the door: power of each target, what signals would say, people, holds, the clock | external, from how the engine uses it |
| `Engine` | observing, stop path, wake path, kick | `engine.go`, the writing half of `board.go` |
| `Liveness` | what the engine gets done in the end, and under which fairness | `board.go` (the gauge), properties |
| `Turns` | targets taken in turns: who may order what, and when | abstract specification |
| `EngineTurns` | how far the turn of a target is, and that `Engine` implements `Turns` | `engine.go` |
| `StopHistory` | `Engine` with history variables that watch its stops | properties only |
| `QuietHistory` | `Engine` with a history variable that watches what it calls quiet | properties only |
| `WakeHistory` | `Engine` with history variables that watch its wakes | properties only |
| `HoldStore` | the store with its file | `state.go` |
| `HoldBook` | what the store promises: the holds in force, the request under way and its answer, and what is in doubt | abstract specification |
| `HoldReplies` | `HoldStore` with what the API tells whoever lifts a hold | `api.go` |
| `Door` | one request at a time from routing to verdict | `ssh.go`, `door.go`, `veilleur-node` |
| `Auth` | the tokens file and who a caller is, as operators | `auth.go` |
| `Service` | the process, its loop, the handlers that change something and the wakes they start | `api.go`, `server.go`, `main.go`, `engine.go` (`Run`, `Kick`) |
| `EngineProofs` | types and places of the engine; what each step writes | theorems |
| `LockProofs` | one owner of each lock, no wait for oneself, taking turns | theorems |
| `StopProofs`, `WakeProofs` | what a stop rests on, the last answers and the grace; what a wake has raised | theorems |
| `ConfigProofs`, `HoldProofs`, `DoorProofs`, `ServiceProofs` | of the module each is named for | theorems |
| `SoloFleet`, `TowerFleet` | the two fleets TLC is given | |
| `MC*` | a specification with a fleet | |

`Engine` extends `World`, which extends `FleetConfig`; the histories extend
`Engine` and no step of it reads them (`HistSpec` of `StopHistory` and of
`WakeHistory`, `QuietSpec` of `QuietHistory`). `HoldStore` is refined to `HoldBook` by
`INSTANCE ... WITH`. `World` holds the store's content as a set (`HeldOn`,
`HandsOff`), and `HoldStore` is where that set is kept on disk; `World` answers
for the door, and `Door` is where an answer comes from. `FleetConfig` takes
`ChainOf` as given, and `Config` is how it is computed. `Service` extends `Auth`
and has the process around the engine: there a pass is a beginning and an end,
a wake is running until it ends one way or another, and the store is what it
has in memory; what happens inside them is the business of `Engine` and
`HoldStore`. `Liveness` extends `WakeHistory`, and `EngineTurns` extends
`Engine`.

Variables of `Engine` have the names of the code's fields. Its actions:

| Code | Actions |
|---|---|
| `Run`, `Pass` | `StartPass`, `SweepAsk`, `SweepHear`, `SweepEnds`, `AskSignal`, `SignalsAsked`, `PassEnds` |
| `probe` | `Ask` (the question and its answer) and `Hear` (the answer written down), used by six actions |
| `evalSignalAt`, `setVal` | `Evaluations`, `Answered` |
| `considerDown` | `ConsiderRefused`, `ConsiderBegins`, `AskCached`, `AllAgree`, `LockToStop`, `LookAgain`, `LookedAgain`, `RecheckUptime`, `AskFresh`, `DecideStop`, `OrderDown`, `StopFailed`, `StopDone`, `StopReturns` |
| `Wake`, `await` | `Call`, `WakeReturns`, `WakeHandsOff`, `WakeAsk`, `WakeAsked`, `LockToRaise`, `WakeLook`, `WakeLooked`, `OrderUp`, `AwaitAsk`, `Awaited` |

Those of `Service`, where `r` is a request, from the page or from the API:

| Code | Actions |
|---|---|
| `main` | `Start`, `Signal`, `Exit` |
| `Run` | `Tick`, `Kicked`, `PassEnds`, `LoopQuits`; the first pass is part of `Start` |
| the checks of the six handlers | `Refuse(r, q)`, `Accept(r, q)`, with the status of `Refusal` and the role of `Identify` |
| `apiTakeHold`, `uiHold` | `Store`, `Kick`, `Reply` |
| `apiReleaseHold`, `uiRelease` | `Store` or `NoSuchHold`, `Kick`, `Reply` |
| `apiWake`, `uiWake` | `Accept` starts the wake; `WakeEnds`, `TimeUp`, `Cancelled`; `WaitOver` if the caller waits |
| `net/http` | `HangUp`, `RequestOver` |

The recursion of `considerDown` into `then_consider` is kept as a stack,
`held`: each frame is a target whose lock is held and what was left to do after
it. `rest` is what is left to do now.

## How a step is cut

A step is what one goroutine does between two points where another can get in.

- A call of the door takes seconds. `probe` is therefore two steps, and the
  answer is applied to the maps as they then are, whatever was written since.
- A signal is asked and written in one step. Only the loop evaluates signals,
  so nobody else can write `vals` in between, and the wakes never read it. What
  the world does in between is covered by the instant at which the answer is
  given, which may be any instant between two steps.
- An order and what its answer leads to are separate steps on the stop path,
  where `finish` and the writes of `up` follow. On the wake path `finish`
  writes only `pending` and the release of the lock on failure, and is merged
  with the order.
- A wait for a lock is a step, enabled when the lock is free.
- Writes of one goroutine under `e.mu` with no call between them are merged.
  Splitting them would show the board a state between two writes and nothing
  else; the properties about the board speak of the state between steps.
- The store's mutex is held from the change in memory to the answer, so nobody
  reads a list that is being saved. `before` in `HoldStore` is what readers
  last saw.

`Faults` says what may go wrong in a run: `"probe"` and `"signal"` (no answer),
`"refuse"`, `"lost"` (done, but the answer does not come back) and `"late"`.
Without `"late"` an answer is written down before another goroutine or the
world moves (`InTime`). With it, any number of steps may come in between. The
distinction exists because one property, `JustRaisedIsSpared`, does not
survive late answers; see [below](#a-late-answer).

Independently of `Faults`, a machine that is off or still starting does not
answer, and one that is going down may or may not.

## What is abstracted

- Time is a small natural number read at each step. `Fresh` compares `now` with
  the instant of the answer, as the code does; the difference between the
  instant before a call and after it is the ticks in between.
- An unknown value carries no instant: nothing reads it.
- `lastErr`, `acts`, the log and what a node says on stdout are left out.
- `blocked` keeps the reason and not the name of the signal.
- The branch `never-answered` of `considerDown` cannot be taken: `setVal` adds
  a signal to `seenSig` whenever its answer is known, and the branch comes
  after the test that it is known. `seenSig` itself is kept.
- `ChainOf` is a constant, assumed to be what `Chain` returns of an acyclic
  graph: not empty, without repetition, the target last. `Config` has how it is
  computed, and the theorem `ChainOrdered` says that this is what comes out.
- `FleetConfig` assumes no more than `Validate` asks. Durations are integers of
  either sign, and the name after `hold:` need not be that of a target. A
  condition that is `hold:` with nothing after it is accepted, is no hold to the
  engine (`engine.go:549`) and no declared signal either: such names are
  `Undeclared`, and unknown for ever (`engine.go:139-142`). Of the
  two orders a pass goes by it assumes what sorting and choosing from the names
  leaves: `ProbeOrder` is made of targets, `StopOrder` of managed ones, and of
  all of them.
- In `Config` the targets `checkCycles` starts from come in any order; the code
  takes them by name, and nothing rests on that.
- In `Config` a condition is `"hold"`, whatever the name after the prefix, or
  the name of a signal, and a host of the door is complete or not, a control or
  not. The two recursive walks share their actions; the `path` of `checkCycles`
  is only printed.
- A restart of the process is `Init`: the maps are empty and the world is in
  any state.
- A file is whole or torn, and `os.Rename` replaces it all or not at all. The
  loss of data that was written but not flushed, on a power cut, is a property
  of the file system and not considered.
- A try of the door has one of six ends (`Conditions`): the host is off, it is
  lost before the command ends, the script is missing (127), the script denies
  (3), the command says yes or it says no.

## The runs

Runs of the engine use two fleets. `SoloFleet` is one guest on a machine that
is always on, enough for contention over one lock and for what a
hands-off hold does to a grace (`HandsOff`). `TowerFleet` is an on-demand
tower with guests, enough for sleeping machines, orders routed to a control,
and one stop that frees another.

| Run | Module, bounds | Properties |
|---|---|---|
| `Tower` | tower, jelly, lab; lab waits for a `hold:` without a name, jelly is used, held and switched by hand; clock to 3, one change by people, faults `signal`, `refuse`, ttl 2 | `LastWordIsCurrent`, `FullGraceBeforeStop`, `QuietMeansAgreed` |
| `TowerWake` | tower, jelly, and lab, which is managed and has no entry of its own; one wake, clock to 3, `then_consider` in a circle | `LockDiscipline`, `LoopNeverWaitsForItself`, `InTurns` |
| `Duel` | one guest, one wake, clock to 4, one switch by hand, `refuse`, `lost` | `JustRaisedIsSpared`, `WakesEnd`, `StoppableIsActedOn` |
| `TwoWakes` | one guest, a hands-off hold in force or not, two interchangeable wakes, clock to 1 with a grace of one tick and a min_uptime and up_timeout shorter than one, `probe`, `lost`, `late` | `TypeOK`, `LockDiscipline`, `PendingIsOwned`, `QuietSinceLastRefused`, `GraceUnbroken`, `InTurns` |
| `HoldStore` | 3 holds, 3 crashes | `FileIsWhole`, `KeepsTheBook` |
| `Config` | 2744 graphs of needs: every list of up to two names for each of three guests, one name undeclared; 15 variations of the other parts | `CyclesAreRefused`, `ChainIsInOrder` |
| `Door` | four hosts, three of them controls, every verb | `TypeOK`, `NoMeansAsked`, `DoneMeansDone`, `OneAnswer` |
| `Service` | two requests, any of them any of the calls, one older hold, six kinds of caller, four configurations of which two have a tokens file that is refused, saves that fail | `TypeOK`, `AnsweredChangeIsSeen`, `LiftedOnce`, `AcceptedWakeGoesOn`, `OnlyTheEntitled`, `PassFollows`, `EveryoneIsAnswered` |

What they say of the engine:

- `LastWordIsCurrent`: when the order to stop a target goes out, it was really
  up and each condition really held, in the world, at an instant after the lock
  was taken. `StopHistory` records what was true at each question of the last
  round. This is the rule "Stopping may not [use a cached answer]" of
  `README.md:73`, and it fails if the last round may reuse answers or if an
  unknown is taken for a no.
- `FullGraceBeforeStop`: no pass that ended within the grace before the
  decision had seen the target down or with a condition that did not agree. It
  speaks of what passes ended with, not of `okSince`, so it fails when
  `okSince` is kept too long or the boundary is off by one. A target that could
  not be seen when it was looked at for the second time (`engine.go:390`) keeps
  its grace, which the property allows: its conditions still agree. It is
  checked in `Tower`, where no wake runs, nobody asks for hands off, every entry
  is managed and none shares a signal with another. It fails with
  [a wake](#a-grace-from-before-a-raising) and with hands-off (`HandsOff`), and
  may where an entry is looked at only when a stop frees it, since no pass in
  between revises what was said of it.
- `QuietMeansAgreed`: between passes `okSince`, from which the board and
  `veilleur_target_stoppable` are drawn, is set only for a target whose
  conditions all agreed when last asked. It relates what is shown to the last
  answers, in the same run and no further: where two entries share a signal it
  may be asked anew for the second, after the first was called quiet.
- `QuietSinceLastRefused`: at every moment, what `okSince` says has been quiet
  has been so since the engine last found otherwise. `QuietHistory` records in
  `refutedAt` when any goroutine last found the target or its machine down, when
  the loop considered it while it was not known to be up, when a condition
  disagreed or was unknown, and when it was stopped. A target that goes down and
  comes back between two passes is thereby caught if a wake saw it down, and one
  the loop could not see when it considered it starts its grace anew. The
  property fails in the run if a probe that finds the target down, the loop that
  cannot see it, or a stop forgets to clear `okSince` (`engine.go:210, 319,
  442`). In `TwoWakes` the machine is always on and the signal answers, and goes
  on saying the same; a machine found asleep (`188`), a signal that does not
  answer (`344`) and one that changes (`361`) are covered by the theorem.
- `GraceUnbroken`: what is ordered down has been without anything that speaks
  against it for its whole grace, counted to when the loop began to consider
  it, and the loop has found nothing since. It says of stops what
  `QuietSinceLastRefused` says of the board. Both set aside what a wake finds
  while the loop considers the target (`~Considered`), where the code
  [loses it](#a-grace-from-before-a-raising), and both speak of what the engine
  asked: while a hands-off hold stands nothing is asked, and so they hold where
  `FullGraceBeforeStop`, which looks at all signals of a pass, does not
  (`HandsOff`).
- `LockDiscipline`: the lock of a target is owned by exactly the goroutine that
  is between taking it and letting go, through every early return and the
  recursion.
- `InTurns`: `Engine` implements `Turns`, where whoever takes a free target
  owns its turn, announces what it will do, gives one order, and lets go. So
  no lock is taken from its owner, nothing is ordered that was not announced,
  a wake that waits does not order again, and the board falls silent before a
  target is free.
- `LoopNeverWaitsForItself`: the mutex is not reentrant and the loop takes a
  second lock while it holds the first. With a circle in `then_consider`, which
  `Validate` accepts, it still does not come back to a target it holds:
  recording the stop cleared `okSince`, so a target that a wake sees up again
  meanwhile starts a new grace, and `Load` never leaves a grace at zero. With a
  grace of zero, one probe of a wake would be enough, which is the mutant. The
  run has a circle that comes back to each target once. A configuration in
  which two paths come back to the same target within one stop could outlast
  a short grace; the property is not claimed for it.
- `JustRaisedIsSpared`: the engine never orders down what it raised itself less
  than `min_uptime` ago, whichever goroutine waited for which, and even where
  the answer to the order to raise was lost. It is also what guards against a
  race over `okSince` (`engine.go:372`): the loop has read that a target is up,
  a wake's probe finds it down and clears `okSince`, and the loop sets it again,
  so that the grace runs from before the raising. A target counts as raised if
  the engine had it down when the order started it. One that was up when last
  seen, goes off and is raised before anybody looks again keeps its `upSince`,
  and the code has no way to know better; the property does not speak of it.
- `WakesEnd`: whatever becomes of the target and of the lock, a wake ends.
- `StoppableIsActedOn`: what the gauge of `board.go:154-165` shows as stoppable
  is ordered down or no longer shown, unless somebody asked for hands off. The
  comment there says "If that persists, the watchman is not doing its job". The
  promise is made for a target seen stoppable by the instant `Early`, so that
  the clock of the model runs past the grace and the min_uptime that follow.
- `PendingIsOwned`: "stopping" and "raising" are shown only while the owner of
  the target is doing just that, whatever fails.

Of the other parts:

- `FileIsWhole`, `KeepsTheBook`: the file can always be read, and the store
  implements the book. In doubt, under the refinement, is what memory and file
  disagree on and what is being asked.
- `NoMeansAsked`, `DoneMeansDone`, `OneAnswer`: a no comes from a command that
  ran; done and refused are what the host did; once a host has let us know how
  the command ended, no other is sent it. The run `Door` leaves out the
  condition `denied`, on which `NoMeansAsked` fails.
- `CyclesAreRefused`: of configurations that are sound otherwise, exactly those
  with a cycle of needs are refused. A target needed along two paths is not a
  cycle; one reached only from outside it is. The reference is a set of targets
  each of which needs another of the set.
- `ChainIsInOrder`: after `Chain`, what a target needs comes before it, nothing
  is listed twice or for nothing, and what was asked for is last. Both walks
  are stepped with their call stack, so the property is about the marks they
  leave and not about the recursion of an operator.
- `AnsweredChangeIsSeen`, `PassFollows`: a kick that finds the channel full is
  dropped, and the loop takes one away when it begins a pass. Still, from the
  moment a change of the holds is answered with success a pass is asked for
  until one begins, and one does, without the help of the ticker. A change
  whose save failed is not kicked for; it is answered with an error, and the
  next tick sees it.
- `LiftedOnce`: of several people who lift the same hold one is told that it is
  lifted.
- `AcceptedWakeGoesOn`: a wake answered with 202 or 303 is cancelled by its
  fifteen minutes and by nothing else. One that somebody waits for does end
  with the request.
- `EveryoneIsAnswered`: whoever is let in is answered and whatever wake was
  started ends, or the process does.
- `OnlyTheEntitled`: holds change for an admin only, on the page and in the
  API; a wake starts for an admin on the page, for anybody with a role in the
  API. What a caller may is stated by the lines of the tokens file and the
  configuration (`May`), not by `Identify`: a token settles it, known or not.

The bounds let the interesting cases happen: the clock runs past a grace, the
stop and the stop it leads to (`Tower`), past a stop and the wake after it
(`Duel`); two crashes are needed for a file left behind by the first to matter
to the second; three controls are the fewest with one in the middle; three
targets are the fewest for a diamond and for a cycle entered from outside; two
requests are enough for one to kick while the other's kick is taken away, and
for two to lift one hold. Deadlock is checked in every run but `Config` and
`Service`: the ticker may always start a pass, and the store and the door can
always be asked something. A configuration that is refused ends the process, so
`Config` stops there, and so does `Service` once the process is gone.

### Fairness

`Liveness` assumes strong fairness of the loop, of each wake, and of the clock
and the power of machines; people, holds and those who call a wake need not do
anything. It is justified by what runs the code: Go schedules every goroutine,
a mutex of Go passes itself to a waiter after a millisecond, so nobody who can
take it again and again is left out, and every call of the door ends by its own
timeout. It is strong because a step of one goroutine is disabled while another
holds the lock or awaits an answer. `GivesUp` says that a wake that waits gives
up at last, which is the context of fifteen minutes every caller passes
(`api.go:104, 114`, `server.go:149`). The clock of a run stops at `MaxTime`, and
so a promise that involves a delay is checked for what happens by `Early`.

`Service` assumes weak fairness of the handlers, of the end of a pass, of the
time of a context, of the end of a wake whose context is done, and of `Kicked`.
The ticker is assumed nothing of, since its interval may be as long as the
operator wants: a kick is heeded without it. Nothing makes a wake end well.

## What the runs that fail show

Each checks one property, which states what a document or comment of the
repository says, and finds it violated.

- `HandsOff`, `FullGraceBeforeStop`. `engine.go:324-327` turns back for a
  hands-off target before its conditions are evaluated, and leaves `okSince`.
  The target is in use meanwhile and a pass sees it; when the hold is lifted
  the target is stopped as soon as it is quiet, with no new grace. The comment
  at `engine.go:370` says the grace runs from the moment every condition agreed.
- `Unmanaged`, `StopsOnlyManaged`. `engine.go:444-446` considers what a stop may
  have freed without asking `Managed`, which only `stopOrder` asks.
  `README.md:64` says "Only what a `manages` list names is ever stopped".
- `GoneHold`, `GoneStaysGone`. `api.go:178-182` answers 404 for any error of
  `Release`. When the save failed the hold has left memory but not the file,
  and a restart brings it back. `openapi.go:123` documents 404 as "no such
  hold".
- `DeniedQuestion`, `NoMeansAsked`. `veilleur-node` exits 3 when its table is
  missing or has no such entry (lines 22, 24, 45); `cannotRun` knows 126 and
  127 only, and the door reads a confident no. `README.md:89` says "A door that
  cannot run the question has not answered it".

### A late answer

`JustRaisedIsSpared` is not checked with `"late"`. The window is the one between
an answer's arrival and `e.mu.Lock()` (`engine.go:192-194`), widened by the
network on the way back. What breaks the property with it, as TLC shows for one
guest and two wakes:

1. The guest is going off, and a probe answered "yes" just before is written
   down after: it counts as up, and its conditions agree. The loop considers it,
   decides, and waits for the lock.
2. A wake finds the guest down, has the lock and raises it. Another wake asks
   before the order and is answered "no", and does not write that down yet.
3. The guest boots. The first wake hears "yes", lets go, and is done.
4. The loop has the lock, looks again and hears "yes". The second wake's "no" is
   written down now, and deletes `upSince`.
5. `engine.go:396` takes an absent `upSince` for old enough, the conditions agree
   when asked afresh, and the loop orders down what was raised a moment ago.

Nothing is claimed of `upSince` with late answers for that reason. `okSince` can
only be taken away by an answer, so `QuietSinceLastRefused` and `GraceUnbroken`
hold with them, as do the properties of the locks and of the last word.

### A grace from before a raising

The loop reads that a target is up (`engine.go:306-323`), asks its conditions, and
sets `okSince` (`372`) without looking again. If a wake's probe found the target
down in between, it has just cleared `okSince`, and the loop sets it for a target
that is down. The wake raises it, the next pass finds it up, and the grace counts
from before it was raised: once `min_uptime` is over nothing of the grace may be
left, and until then the gauge of quiet seconds counts a time the target was off.
`Engine` has this, and TLC finds it within forty steps when `FullGraceBeforeStop`
or `QuietMeansAgreed` is asked of one guest with a wake. No run claims either
there, since the repository only says of `okSince` that the conditions agreed,
which they did. This is the one thing `QuietHistory` sets aside: whatever a wake
finds at any other moment restarts the grace. What the repository does promise,
that a thing just raised is not stopped before `min_uptime`, holds:
`JustRaisedIsSpared`.

### A wake that comes while a stop is under way

The first look of a wake (`engine.go:481-483`) does not take the lock of the
target. If the loop holds it and is about to order the target down, the wake
sees it up, goes on, and may report success for a target that is off a moment
later. `WakeAsk` and `WakeAsked` have this. The comment at `engine.go:469-470`
says Wake returns when the chain is up, which it was when it was looked at.

### Durations and names nobody checks

`Validate` asks nothing of durations, and `time.ParseDuration` takes `-1m`. With
a negative grace a target is stopped in the pass that finds it quiet, and the
circle of `then_consider` of `LoopNeverWaitsForItself` may come back to a lock
the loop holds. A condition `!hold:` followed by a misspelt name is accepted, and
agrees for as long as nobody holds that name; with no name at all it is unknown
for ever, and the target is never stopped (the run `Tower` has one). The API takes no hold on a target
that is not declared (`api.go:150-153`); the page takes one on any name
(`server.go:170`). `Service` has both.

### A wake that is accepted and then refused

`openapi.go:83` says of a wake "Refused if a hands-off hold stands", and 409 is
the status for it. That is so for a caller that waits. Without `wait` the answer
is 202 before the engine has looked (`api.go:113-120`), and the refusal goes to
the log. `Service` has the wake end as failed after its request was answered.

### A hold written while a wake waits

A wake looks for hands-off before it waits for the lock (`engine.go:478-487`),
and the loop before it takes one. A hold written during the wait is not looked
at again, so one order may follow it. `Engine` allows it and the theorems cover
it (`WriteHold` may come at any time); in the run `TwoWakes` a hold is in force
from the start or never. No line of the repository promises that the wait is covered, and no property
says it is.

### The end of the process

`ListenAndServe` returns as soon as `Shutdown` begins, and `main` with it
(`main.go:96, 100`), so the five seconds given to requests under way are not
waited for. `Exit` cuts off handlers and wakes wherever they are.

### A stale control

`anyControl` gives up at the first control that returns any exit status, 127
included (`ssh.go:155-160`), and the request is then unknown although another
control could have served it. The model has this (`AheadAfter`, condition
`stale`); the outcome is cautious for a question.

## What is proved

All theorems are checked by TLAPS for any values of the constants that satisfy
the assumptions of the modules that declare them. Those of the engine are in
`FleetConfig`, `World` and `Engine`; they are what `Load` and `Validate`
guarantee (names declared, sequences of targets without a gap, durations of
either sign), what sorting and filtering the names returns, that the clock and
the bounds are natural numbers, and that the names of goroutines differ.

- `EngineProofs!TypeCorrect`: `Spec => []TypeOK`. A type alone is not
  inductive: `Subject(p)` is the head of `rest[p]`, which must not be empty
  where it is used, and `Grace[t]` needs `t` to have a down entry. `WellPlaced`
  says both, per label, and `TypeInv == TypeOK /\ WellPlaced` is the invariant.
  The proof has one lemma per action, under three headings: passes, stops and
  wakes.
- `LockProofs!OneOwner`: `Spec => []LockDiscipline`. Without more, a stop might
  return and release a lock that an earlier frame of the recursion still
  counts on. `FramesApart` says that the targets of the frames, and the target
  being stopped now, are all different. It is kept because a lock must be free
  to be taken: the loop owns the targets of all its frames, so it cannot enter
  one a second time. That also says why a circle of `then_consider` can only
  ever block, never break ownership. `LockInv == LockDiscipline /\ FramesApart`
  is inductive together with `TypeInv`. Nothing is assumed of `then_consider`,
  of the number of wakes or of `Faults`.
- `LockProofs!PendingOwned`: `Spec => []PendingIsOwned`, and
  `LockProofs!TakesTurns`: `Spec => InTurns`, the refinement. The first needs
  the converse as well, that whatever is announced is shown (`PendingExact`),
  because a step that takes something off the board must take off what it put
  there. `TurnInv == TypeInv /\ LockInv /\ PendingExact` is inductive. For the
  refinement each action is shown to move the stage of one target by one step
  of `Turns`, or of none, and to leave the stage of every other target alone;
  the frames of the recursion (`held`) are why a target that was ordered down
  keeps its stage while the loop is at another.
- `LockProofs!NeverWaitsForItself`: `~Circle => (Spec => []LoopNeverWaitsForItself)`,
  where `Circle` says that some targets are each freed by one of them. `WayInv`
  says that each kept stop was led to by the one before it, and what is
  considered now by the last. With `LockDiscipline`, a lock the loop holds and
  comes back to is that of an earlier frame, and the stops from there on are a
  circle. Nothing is said of durations: this is the part that does not rest on
  a grace being long enough.
- `StopProofs!LastWord`: `HistSpec => []LastWordIsCurrent`, from `WordInv`, which
  says how much of the last round has been confirmed at each label. It holds
  with late answers and lost orders too, since the loop itself asks, and with
  any number of wakes, since none of them asks a signal.
- `StopProofs!QuietUnrefuted`: `QuietSpec => []QuietSinceLastRefused`, and
  `StopProofs!GraceIsUnbroken`: `QuietSpec => []GraceUnbroken`, both from
  `QuietInv`. Nothing is assumed of the fleet (entries may share signals, or be
  looked at only when a stop frees them), of holds, of the number of wakes, of
  durations or of `Faults`. The two properties are not inductive: when
  `AllAgree` sets `okSince` to the instant the target began to be considered,
  that instant must be no earlier than anything that was found since.
  `UnbrokenInv` says so while a target is considered (`began >= refutedAt`), and
  from the decision on that the grace was over when it began. Each step is put
  in one of three kinds. Steps of the world write nothing. A step that refutes a
  target clears its `okSince`, and if the loop was considering it the loop goes
  on to the next one (`LoopTakesBack`); a wake may refute any target but the one
  the loop considers, so it cannot disturb `UnbrokenInv`. Any other step of the
  loop refutes nothing (`LoopRefutes`, `LoopStandsBy`), because whatever it does
  at those labels is not on the list. That the loop and a wake
  do not write to each other's places is in `TypeInv`.
- `WakeProofs!RaisedSpared`: `"late" \notin Faults => (HistSpec => []JustRaisedIsSpared)`,
  for any number of wakes and people, from `RaiseInv`: as long as a raised target
  has not gone off, the engine has not seen it up since before it was raised
  (`RaisedInv`), because what it counts as down has no `upSince` (`SinceInv`);
  while an answer is on its way it is still true and nobody else awaits one
  (`LooksInv`), which late answers would break; a guest is up only on a machine
  that is up (`GuestsInv`), so that a sleeping machine is not taken for the end of
  what runs on it; and after the second look the loop has seen the target up in
  this life of it (`SparedInv`). That nobody else raises it from then on is
  `LockInv`.
- `ConfigProofs!CyclesRefused`: `Spec => []CyclesAreRefused`, and
  `ConfigProofs!ChainOrdered`: `Spec => []ChainIsInOrder`, for any graph. The
  calls under way are a path along `needs` of exactly the grey targets
  (`PathInv`); what the target of a call needs is black, yet to be visited, or
  being visited (`NeedsInv`). So a grey target that is met closes a circle. For
  the converse, no set of black targets goes round (`CheckInv`): the one that
  turns black needs only black ones, and none of them needs it back. For the
  list, the black targets are those listed, and each but the last is needed by
  one that is listed later or still under way (`ListInv`).
- `HoldProofs!AlwaysReadable`: `Spec => []FileIsWhole`, and
  `HoldProofs!PromiseKept`: `Spec => KeepsTheBook`, the refinement, from
  `StoreInv`: the list in memory is the changed one while a request runs, the
  copy to one side is whole and equal to it before the rename, and the file
  after it. Each step of the store is shown to be a step of the book or a
  stutter. `TypeOK` of `HoldStore` is part of `StoreInv`.
- `DoorProofs`: `DoorTyped`, `AnsweredOnce`, `DoneIsDone`, and `NoIsAsked` under
  the condition that no host is found `denied`, each for any hosts and controls.
  `SearchInv` says that a host that was reached is the last one tried and ends
  the search, `ReadInv` that the answer is read from it.
- `ServiceProofs!ServiceTyped`: `Spec => []TypeOK`, by itself inductive.
- `ServiceProofs!KickNeverLost`: `Spec => []AnsweredChangeIsSeen`, from
  `NewsInv`: a request that changed a hold since the last pass began has yet to
  kick, or a pass is asked for, or its answer was an error or was cut off.
- `ServiceProofs!OneLifts`: `Spec => []LiftedOnce`, from `LiftInv`: a hold that
  a request has lifted is not among the holds any more, no name is given twice,
  and so no other request gets past the store with it.
- `ServiceProofs!AcceptedWakeIsKept`: `Spec => []AcceptedWakeGoesOn`, from
  `WaitInv`, which relates the status of a request to whether it waits.
- `ServiceProofs!EntitledOnly`: `Spec => OnlyTheEntitled`. A watchman that serves
  has read its tokens file to the end, and a request at the store is an admin's
  (`EntitledInv`). That `loadTokens` makes of the file what its lines say
  (`FileMeansWhatItSays`) is an induction over the lines: after each of them
  every token has a role there is, the one the last line about it says.

The theorems about `Service` hold for any number of requests, any callers and
any configuration.

Only model-checked: `FullGraceBeforeStop` and `QuietMeansAgreed`, for the fleet of
`Tower` and without a wake, outside of which they fail in the ways told above;
`LoopNeverWaitsForItself` where `then_consider` goes round; and what is promised under fairness (`WakesEnd`, `StoppableIsActedOn`,
`PassFollows`, `EveryoneIsAnswered`), for liveness and `ENABLED` are out of the
provers' reach. So are the library's induction theorems, which take an operator.
Where an induction over data is needed it is made with a set in place of a
formula (`Climb` of `ServiceProofs`, from the pigeonhole principle), and the
recursion is a function (`Reading` of `Auth`) shown to exist line by line. What
`SelectSeq` returns is beyond that; this is why `FleetConfig` assumes what its
filters let through, which TLC evaluates for the fleets of the runs.

## What is not modelled

Reading YAML and its defaults; the rendering of the board, of metrics and of
pages; the handlers that only read; the parsing of addresses and of header
lists; the mock door, for which `World` stands in; the ssh protocol; the audit
log; the lookup in a node's table; the in-guest agent of before version 0.3;
packaging. A key of the action counters is cut by fixed lengths when metrics are
rendered (`board.go:216-217`), which does not fit a target with a one-letter
name; this is noted and not modelled.

## Plan

Done: all the modules above and their theorems. The safety properties of the
passing runs are stated by theorems, under the conditions given with each, but
for the two named above as only model-checked.

What is left, in this order:

1. `LoopNeverWaitsForItself` where `then_consider` goes round but comes back to a
   target once, from a grace that is positive.
2. The order of a pass: nodes are probed before the guests that run on them.
