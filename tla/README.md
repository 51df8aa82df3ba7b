# The GoCraft Go SDK in TLA+

`gocraft-api-go` is the library a native GoCraft plugin is linked with. The
plugin is a process of its own: `Run` connects to the host over a unix socket,
shakes hands, and serves the host's messages until the session ends. Plugin code
runs on a worker goroutine (callbacks and handlers), on the goroutines of its
scheduler's tasks, and on whatever goroutines it starts itself. This directory
holds TLA+ models of that library, the TLC runs that check them, and TLAPS proofs.

Contents: [the system](#the-system) · [modules](#the-modules) · [runs](#the-runs) ·
[fairness](#fairness) · [proofs](#proofs) · [what the runs refute](#what-the-runs-refute) ·
[not modelled](#what-is-not-modelled) · [plan](#plan)

## The system

| part | source | state | operations | talks to |
|---|---|---|---|---|
| session: read loop | `session.go` | the connection, the `work` channel (capacity 8), `stopped` | receive, PONG, deliver EMITTED, queue a request, stop | host, worker, emitter |
| session: worker | `session.go:18-24`, `session_handle.go` | the request in hand | handle LOAD, DISPATCH, INVOKE, UNLOAD; disable when the channel is drained | lifecycle, dispatch, host |
| lifecycle | `lifecycle.go`, `context.go` | `context`, `initialized`, `enabled` | load, disable, cleanup, call | plugin callbacks, registries, scheduler |
| event registry | `event_registry.go`, `registries.go` | `listeners`, `active`, bindings | On, registeredTypes, dispatch, call, clear | any plugin goroutine, worker |
| command registry | `command_registry.go`, `registries.go` | `handlers`, `active`, tree | Register, RegisterSet, invoke, clear | any plugin goroutine, worker |
| scheduler | `scheduler.go` | `next`, `active`, `cancels`, `wait` | After, Every, Cancel, stop, run, remove | a goroutine per task |
| emitter | `emit.go:108-201` | `seq`, `pending`, `closed` | emit, expect, forget, deliver, shutdown | any plugin goroutine, read loop |
| dispatch | `dispatch.go`, `control.go` | `control.cancelled`, `effects.queue`, `effects.sealed` | dispatch, Cancel, Player, add, verdict | handlers, kept handles |
| command invocation | `command_dispatch.go`, `command.go` | `replies`, effects | invokeCommand, Reply | handlers |
| custom events, replay | `receive.go`, `emit.go:87-106` | `fields`, `mutations` | Set, SetAt, Update, Into, replay | handlers, host, emitter |
| command builder, tree | `command_set.go`, `command_tree.go` | nodes, handlers, failures; executors by path | Command, Sub, arguments, Runs, Tree; index, lookup | lifecycle, dump |
| native events | `events.gen.go`, `events.go` | the structs handlers share | eventFrom, nativeMutations, nativeCancellable | dispatch |
| value decoding | `wire_*.go`, `native_scalars.go`, `command_value_decode.go` | none | shape checks | dispatch, commands |
| handshake, dump | `run.go`, `runner_options.go`, `command_dump.go` | none | HELLO and WELCOME; write a file and exit | host, build |

What is hard about each, and what makes it correct:

* **Session.** Two goroutines, a bounded channel between them, and a host that
  sends what it likes. Whatever the plugin does in a handler, PING must be
  answered and the answer to an emission delivered; requests must be handled in
  order and none lost at the end; when `serve` returns, nothing of the plugin may
  be left. The three waits (read loop on worker, worker on tasks, any of them on
  an answer from the host) must not form a circle.
* **Lifecycle.** Four ways a load gives up, three ways disable is reached, and
  plugin goroutines that keep the context of an earlier load. Everything let go
  of must be dead, `OnDisable` must pair with a successful `OnLoad` and run
  alone, a FAIL must leave nothing behind.
* **Scheduler.** `stop` copies the table and cancels outside the mutex, while
  tasks are scheduled, fire and end. None may escape it or outlive it.
* **Emitter.** `deliver` and `shutdown` race for the same channel, outside and
  inside the mutex; the host may answer twice or late. Nobody may be parked where
  nobody can find them, the read loop may never block, no entry may leak.
* **Dispatch.** Effects are queued through handles that can be kept. An effect
  must travel with the answer of its own request, once, or be refused.
* **Custom and native events, replay.** The mutations a subscriber records, applied
  in order, must reproduce what it left, though its writes overlap, a field is
  replaced before one of its elements is set, or the dispatch is kept and written to
  after the answer. For a native event four tables of the generated file must agree
  on what can be written and cancelled. A replay is all or nothing.
* **Command builder, tree and invocation.** What the builder declares and what the
  bundle's tree indexes must be the same set of paths, and a line typed on one must
  reach that path's function with the values typed: builder, tree, host and decoder
  each name and type a value on their own.

`PROJECT.json` lists the hazards one by one, each at its line, with the
properties that cover it.

## The modules

Every action stands for a whole operation, or for one critical section, channel
operation or step of it where other goroutines can run in between. The comment on
an action names the lines. History variables (said so where they are declared)
record what the properties need and the code does not keep. Definitions whose
comment begins with "Mutant of" are plausible bugs used to test the properties;
no specification mentions them.

**`Emitter.tla`** - the exchange behind `Events.Emit`, for any number of calling
goroutines. A call is refused before it takes a number (`EmitRefused`), or is
admitted, takes a number (`Number`), registers its channel (`Expect`), sends
(`Send`, `SendFails`), receives (`Receive`, `ReceiveClosed`) and runs its deferred
`Forget`. `Deliver` is the critical section of `deliver`, `HandOver` the send after
it; `Shutdown` and `Clear` are single critical sections. `chan` and `buffer` are the
one-slot channels, which outlive their table entries. The host may answer
anything it was asked, at any time, more than once. Deliver and shutdown run on
one goroutine in `session.go`; the model does not use that, so the properties hold
of the emitter alone.

**`Scheduler.tla`** - one scheduler, a goroutine per task (`TimerFires`, `TakeDone`,
`TakeTimer`, `Finish`, `Remove`, `Done`), `Schedule` for `After` and `Every`, a `Cancel`
in two steps (it calls the cancel function after unlocking) and a `stop` in three.

**`Lifecycle.tla`** - `runtimeState`, every context ever made, and the worker's
program counter through `load`, `disable` and `cleanup`. A context's registries are
sets of context numbers (`events`, `listeners`, `commands`, `handlers`, `scheduler`), its
tasks a counter. Plugin goroutines act through any context that was handed to
them. `cleanup` is four steps, so they can act in between.

**`Session.tla`** - `serve`: the wire, the read loop, the work channel, the worker,
tasks, and who is parked in `Emit`. Loading, disabling and the emission exchange are
one step here, as coarse as the questions allow: who waits for whom. The host's
actions are external: how many requests it leaves outstanding and whether it ever
ends the session, and of the plugin whether it emits and returns from its callbacks,
are fields of `session`, which a behaviour starts with and keeps, because nothing in
`src/` says. `MCSession.tla` names the sessions each run looks at.

**`Dispatch.tla`** - a sequence of DISPATCH and INVOKE requests on the worker, each
with its handlers, its `control` or reply list, and its effects queue. `effects` has
no lock, so `add` is three steps (look at `sealed`, read the slice, write it) and
sealing and reading the queue for the answer two; `Keepers` are goroutines beside the
worker that use handles a handler left them. `Send` hands the answer to the encoder,
which refuses a verdict with a mutation to a Value of no kind (`WriteNoKind`) and may
refuse a command's result; what goes out in its place says `cancelled`, or the error, and
nothing else. So `SendMessage` returning nil is a promise with two exceptions, and
`AcceptedEffectsTravel` has both. An answer that does not encode loses every effect it
should have carried. A goroutine beside the worker races with it, and effects may be
lost. In neither case does an event's answer hold an effect that was not accepted for
it, and none is doubled or sent with another request's answer.

**`Commands.tla`** - a command set from its declaration to the handlers bound at load.
Each builder call is an action, made through any builder handed out so far, since
the author may keep them; nodes are kept by address, the names down to them. `Build`
makes the bundle (its executor numbers and `command.Validate` are external), of this
set or of one with a path more or fewer; `Bind` is one turn of `RegisterSet`'s loop,
`RegisterByHand` a plugin's own `Register` afterwards. `Invoke` is `invokeCommand` for an
executor of the bundle and the values the host read by the bundle's types, which may
have changed too, kept by their position in the path; nothing after it depends on it,
so there is one at the end of a behaviour.

**`Values.tla`, `NativeEvents.tla`, `Arguments.tla`** - operators, no state: positional values
and what each decoder accepts, with the contract library's `ApplyPath` and `Diff` as the
code uses them (external); the fourteen native events, each with its layout, its
mutable fields and whether its typed handler gets a control, beside the two functions
that state the latter again (`NativeCancellable`, `NativeMutations`); and what an invocation's
values decode to and `Integer` and `String` read of them. The content of a scalar is an
atom, of which the code can tell apart whether bytes are a uuid and a double finite.

**`Payload.tla`** - the fields of one event through its subscribers: `Dispatch` or
`DispatchFails`, any number of writes (`Set`, `SetAt` and `Update` of a `CustomDispatch`;
assignments to a native struct), `Cancel`, `Verdict`, `Send`, which may lose the mutations to
the encoder, and a host that applies what the event permits before the next
subscriber has it. `EmitReturns` is `replay` and what `Emit` returns of it, for an answer
that replays, one that does not, and one the author's `SetFields` refuses. Writes go on
after the verdict, through a dispatch that was kept.

**`Exchange.tla`, `Mailbox.tla`** - the abstract specifications. Exchange is what `Emit` may
rely on: a number nobody else ever has, the first answer taken for it, or an error
that means no answer was taken. It has no table, channel or mutex. Emitter implements it
(`ImplementsExchange`): `used` are the numbers up to `seq`, `number` the caller's while it is
inside `emit`, `taken` the answers `deliver` holds or has put in a slot, `over` is `closed`.
Mailbox is what the host may rely on: every request received is finished, in order,
once, and `serve` returns when the session is over and none is left. Session implements
it (`ImplementsMailbox`): `received` are the requests taken off the wire, `finished` those
the worker has handled, and the session is `over` from the moment the read loop is in
`stop`. Both include their liveness; Mailbox's is owed only where callbacks return and,
if the plugin emits, in sessions that last and stay within the window (the runs that
refute something show why); its safety always.

**`EmitterProofs.tla`, `SchedulerProofs.tla`, `LifecycleProofs.tla`, `SessionProofs.tla`,
`EmitterRefinement.tla`, `DispatchProofs.tla`, `CommandsProofs.tla`, `PayloadProofs.tla`** - the
theorems.

Emitter, Scheduler and Lifecycle abstract each other at one seam each, stated
where it is used: Lifecycle's `TaskEnds` fairness is Scheduler's `CancelledTaskEnds`;
Session's `Deliver` releases whoever is parked because Emitter implements
Exchange, and its `Disabled` waits for the tasks because of Lifecycle's
`Cleaned`.

## The runs

| run | question | bounds |
|---|---|---|
| `emitter` | is a number ever shared, does the read loop ever block, is anybody parked out of reach, does an entry leak, does an answer or a shutdown wake the caller? is it the exchange it promises? | two callers, three numbers: one emits again while its first answer may come a second time |
| `scheduler` | does a task escape or outlive `stop`, start twice, or survive its cancellation? | two tasks, two goroutines calling `Cancel`; every pair of places two tasks can be in when `stop` copies the table |
| `lifecycle` | is what was let go of dead, does `OnDisable` pair with `OnLoad` and run alone, is a LOAD answered, does the worker exit? | three loads: two stale contexts beside the live one; two tasks each |
| `session` | order, loss, and what is left when `serve` returns: is it a mailbox? are PING and emissions answered while handlers and a task park, with callbacks that may never return? | capacity 2 for 8; four requests, so that the channel is full with one more in the read loop's hand. A plugin that does not emit, up to the end of the session, the host leaving capacity + 2 requests outstanding; plugins that emit, returning or not, in a session that goes on, with at most capacity + 1 |
| `dispatch` | does every answer carry exactly its own decisions and effects, and if not, why? | two requests, two handlers each, three calls, and a goroutine beside the worker: a handler of the second uses a handle of the first |
| `commands` | does the declaration say what its author said, does every path get its own function or the load a refusal, and does a line reach it with its values? | two names, three levels, so that paths are prefixes and siblings of one another and may have two values, of one name too; five calls; one invocation |
| `payload` | do the mutations say what was written, does a cancellation count where it may and nowhere else, does the emitter end with what the host has? | every native event and a plugin's own with three fields; two subscribers, three writes: a refused write before an accepted one, a field replaced before its element is set, a write after the verdict; indices on both sides of 2^32, which is 8 |
| `session_full`, `session_end`, `dispatch_panic`, `commands_drift`, `payload_cancel` | five statements of the documentation, [refuted](#what-the-runs-refute) | the smallest that show it |

Capacity 2 stands for the code's 8: the channel's length matters to these
properties only as empty, partly full and full, and all three occur with requests
before and behind. `Lifecycle` needs no more than two stale contexts because they
share nothing. The safety properties of every module are proved for all values of its
constants, so the bounds decide what TLC saw before the proofs, and what the liveness
properties rest on: for those the small numbers above have to be enough. What the
proofs of `Payload` do not vary is the data: two contents of a text or a price, three
fields of the plugin's own event.

Each property of a passing run is paired in `PROJECT.json` with a mutant: a change to
one action under which TLC finds that property violated, in the same run.

Deadlock checking is off in the runs whose system may really stop: a session that
ended, a worker that exited, a scheduler that was stopped, requests used up, an event that is done. In
`emitter` it is on.

## Fairness

* *Goroutines run.* Weak fairness on each goroutine's next step once it is enabled:
  the Go scheduler is preemptive.
* *`select` is fair enough.* `TakeDone` has strong fairness: with the context done and
  the timer ready again and again, Go picks at random among the ready branches and
  does not pick the timer for ever. Without it `stop` may wait for ever on a task of
  `Every` with a tiny interval.
* *Bodies of tasks return* (Scheduler), *callbacks return* (Lifecycle, Dispatch): the
  code waits for them without a timeout, so nothing terminates otherwise. Session
  assumes it only where `session.returns`: strong fairness, since a handler that emits
  again and again must still come back between two emissions, and weak fairness on the
  end of tasks once the scheduler has stopped. In `session` one of the emitting plugins
  may never return from anything.
* *The host answers emissions* while the session lasts (`emit.go:145-146`): in Session
  only. In Emitter the host owes nothing.
* Nothing else has to happen: no request, timer, cancellation, shutdown or unload is fair.

## Proofs

Every safety property that a passing run checks is a theorem, for every value of the
constants, from the assumptions on them: the bounds are natural numbers, `None` is none
of the values it stands beside, no task and no keeper of handles is the worker, an index
on the wire reaches every field that can be written. So is the safety of the
refinements of Exchange and of Mailbox. Each proof has the same shape: an
inductive `IInv`, `Init => IInv`, `IInv /\ [Next]_vars => IInv'` with one step or lemma per
action, and the property from `IInv`. TLC checked each `IInv`, or the parts of it that
are not types, before it was proved.

* **Emitter.** None of the properties is inductive. The invariant follows a number
  through its life: untouched until it is taken, *armed* (channel open, slot empty)
  while it is registered, armed and unregistered while `deliver` holds it. Delivery
  cannot block because only `deliver` fills a slot and it fills a slot only of a number
  it has just removed; nobody is out of reach because a number leaves the table only
  by `deliver`, by `shutdown`, which closes it, or by its own caller.
* **Emitter refines Exchange** (`EmitterImplementsExchange`). Every step of Emitter is one
  step of Exchange or leaves its variables alone: `Number` is `Ask`, `Send` is `Send`, `Deliver`
  is `Take`, `Receive` is `Return`, the error paths are `Fail`, and `Expect`, `HandOver` and
  `Forget` are invisible. The mapping needs more than the properties did (`RInv`): a slot
  holds an answer about its own number, so that what `Receive` returns is what was taken;
  a question has left only under a registered number, and a caller on its way out is
  not waited for under a number that left, so that `Deliver` answers a question that is
  still being asked; and a channel is closed only with the emitter, so that the error
  it gives means the exchange is over. The mapping's liveness is checked, not proved.
* **Scheduler.** That `stop` waits for everybody rests on `wait` being the number of
  goroutines that have not finished (`Counted`, a cardinality argument on the finite
  set of tasks) and on the table being exactly the tasks that have not called
  `remove` (`Owned`). The action property `OneShotStartsOnce` follows from a separate
  invariant: a task that started and is not of `Every` is past its loop.
* **Lifecycle.** A table of the worker's phases: which of the runtime's fields are set
  in each (`Stage`) and how much of the context is closed (`ClosedSoFar`). Stale
  contexts are dead because no action of plugin code can revive a dead one: every
  registration checks `active` inside the critical section that uses it.
* **Session** (`NobodyOutlivesServe`) **refines Mailbox** (`SessionImplementsMailbox`). A request is
  in one place at a time: finished, with the worker, in the channel, in the read loop's
  hand, on the wire. The invariant (`InOrder`, `WireInOrder`) lays the places behind one
  another and says that they hold the numbers in order without a gap, so whatever the
  worker finishes is the next number; and the worker is gone only when the channel is
  closed and empty, and it is closed only with nothing in hand, so that `Return` finds
  every request finished. Tasks are gone because disable waits for them and nothing is
  scheduled once the registries are closed (`QuietWhenInactive`). Emissions and callbacks that
  never return do not matter to any of this: the theorem is for any set of sessions,
  those of the runs that refute something included.

* **Dispatch** (`EffectsTravel`, `CancellationIsOwn`). `add` is three steps with no lock, so the
  invariant speaks of what a goroutine has read and not yet written: calls that were
  accepted for one request and, where no keeper got in, that request's whole queue
  (`WorkerLosesNothing`). A call's number is in one place at a time, in an `add` under way,
  accepted for one request, or among the replies in hand (`CallsAreOwned`), which keeps
  the answers apart; that the worker adds only between a request's taking and its
  sealing keeps them complete, where the answer encodes; and an event's that does not is
  known to be `spoilt`. The control in hand has heard exactly the handlers of
  the request in hand (`ControlIsOwn`). The proof covers any number of keepers.
* **Commands.** The tree hangs together from its root: a node has all those above it, and
  none turns from a name into a value (`Tree`). So what a builder spells stays the path
  of its node, no two nodes are spelled alike, and binding one path touches no other's
  function (`BoundToTheirOwn`). What a line
  carries is a function of its path and types alone, and these stand still when lines
  are typed: `LinesReach` and `HandlersRead` follow for bundles from any version of the set.
* **Payload.** Three lists of mutations lead somewhere, and the invariant says where: what a
  view has recorded leads from what was sent to what the view has (`WritesAreRecorded`),
  what the host has applied leads from what the author emitted to what the host has
  (`AuthorIsBehind`), and what an answer carries leads from what was sent to what the
  handlers left. Each is an induction over a list: `ApplyConcat` and `ApplyAppend` say that
  mutations recorded one after another can be applied one after another, `ApplyStops`
  that a path which does not exist stops the rest, and `HostLeads` that a host which drops
  what it refuses has what it has applied. `DiffReplays` is the heart of it: the paths of a
  difference do not touch (`MixStep`), so doing one finds the next where it was, and the
  order of the list, which `SetToSeq` leaves open, is of no account. For native events
  `NativeReplays` compares the two tables of `events.gen.go`, event by event: what
  `nativeMutations` sends is what is documented as Mutable; `ControlsAgree` does so for
  `nativeCancellable`.

The library's induction theorems take an operator as a parameter, which these provers
cannot instantiate. `PayloadProofs` has one about sets instead (`CountingUp`, from the fact
that finite sets have no endless descent), so that an induction is a set shown to hold 0
and, with a number, the next; this is what the recursive functions of `Values` and
`Payload` (`Applying`, `HostApplying`) are reasoned about with, their existence included
(`RunExists`).

Only model-checked: liveness and the liveness half of the two refinements, for which
there is no prover here. The five runs that refute something are TLC's alone.

## What the runs refute

Five statements of the documentation or comments do not hold of the code. Each has
a run that shows it, and an entry under `findings`.

1. `session_end`: `emit.go:145-147` says the end of the session releases a parked
   caller. `serve` shuts the emitter down in a deferred call, after `stop` has waited for
   the worker; the worker waits, in a handler or in disable, for the goroutine that is
   parked. Nobody moves again. The test of this behaviour (`emit_test.go:224`) calls
   `shutdown` from a loop of its own.
2. `session_full`: `session.go:48-50` says EMITTED is delivered on the read loop
   because the worker may be the one waiting for it. With the work channel full the
   read loop is blocked on it, and the worker that would drain it is waiting for
   EMITTED. PINGs are not answered either.
3. `commands_drift`: `command_registry.go:70-73` says a set that drifted from its bundle
   fails at load rather than leaving a command nothing answers. `RegisterSet` looks up
   the set's paths in the bundle and not the bundle's in the set: a path only the
   bundle has loads silently, and nothing answers it. The other direction is refused
   (`LoadBindsEverything`). Nor are the types of a path's values compared: with a
   bundle of other types the handler reads 0 or nothing
   (`HandlersReadWhatWasTyped` holds only of a bundle with the declared types).
4. `dispatch_panic`: `command_dispatch.go:39` says replies travel even when the handler
   failed; they do not when it failed by panicking.
5. `payload_cancel`: `control.go:26-29` says that cancelling something declared
   uncancellable is logged at the host "rather than refused here". For native events
   `dispatch.go:29` drops such a cancellation, and the host is never told. The test
   `native_mutations_test.go:43` expects the code's behaviour, and so do the properties
   `CancelledByThoseWhoMay` and `CancelledByItsHandlers`; it is the comment that differs.

One more disagreement has no run, because a property about it would restate one
conversion: `receive.go:153-157`, and the test at `receive_test.go:82-88`, have a write
past the layout refused where the plugin can see it, but `Set` narrows its `int` to 32
bits (`receive.go:137`) before `SetAt` looks at the path, so `Set(1<<32, v)` writes field 0 and
returns nil. `Set` in `Payload.tla` narrows the same way.

## What is not modelled

* Encoding (`gocraft-abi`) and logging. A message that does not decode, or an answer that
  does not encode, is one outcome among others (in `Dispatch.tla` and `Payload.tla`). Which
  values the encoder refuses is the contract library's: a Value of no kind in a
  mutation, as the code's own handling suggests; of a command's result either is possible.
* The handshake, the command dump, the zip reader: sequential code, each line of which
  returns or fails. See `components` in `PROJECT.json`.
* Which event types are registered, and `registeredTypes` in LOADED: what the host makes
  of the list is not in `src/`.
* Aliases of slices. `Field` and `Into` hand out, and `Update` takes over, slices that are
  not copied, and builders of one set might share the array of a path; the models' values
  have no identity. `BuildersSpellTheirNodes` says what each builder's path is, but an
  alias through which it changes cannot be expressed.
* What `Cancel` of a task returns, which for one of `After` may be true though its body has
  already run (`scheduler.go:79`); the comment promises no more than that the task was
  still in the table.
* The answer to a LOAD whose `Commands()` panics: there is none, the process is going
  down, and `LoadIsAnswered` exempts it. That cleanup still happens is checked.
* What a handler reads when the bundle gives its path other types than the set declares:
  `HandlersReadWhatWasTyped` presupposes the declared ones.
* A failed send of an answer on the worker is logged and changes nothing
  (`session_handle.go:125-129`). A failed PONG ends the loop like a broken frame.
* `seq` wraps after 2^63 emissions; the model is bounded instead.
* Ranges of arguments (`whole`), the arithmetic of durations, and what a builder does
  after its set was built.
* After Cancel returned true the body of a task may still start once, when its timer is
  due at that moment (`scheduler.go:47`): `Scheduler.tla` has it, `CancelledTaskEnds` allows it.
* Data races beyond `effects`: the maps and flags of the registries are used under
  their locks; `CustomDispatch` and `CommandContext` belong to one handler.

## Plan

Done, in this order: Emitter, Scheduler, Lifecycle with their proofs, Session,
Dispatch, Commands; then Values, NativeEvents and Payload, Exchange with its refinement
and proof, Mailbox with its own, and the invocation of commands; then the proofs about
Dispatch, Commands and Payload.

Next:

1. An abstract specification of what a subscriber may rely on, which Payload implements:
   one object, written by the author and then by each subscriber in turn.
2. The proofs of Payload for any contents and any layout, in place of the sample of
   contents the module enumerates for TLC.
3. The event registry's contents: which types `registeredTypes` reports against what
   is subscribed.
