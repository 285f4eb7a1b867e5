# Verification of photon-valence-identity

TLA+ specifications of this crate: the delivery of events to
`#[photon::subscribe]` handlers, the registry and the wiring of a host process,
and the factories that decide who may act.  TLC checks them on small instances,
TLAPS proves every safety property of theirs for every value of the constants.

## 1. The system

| Component | Source | State | Operations |
|---|---|---|---|
| Event dispatch | `src/executor/dispatch.rs` | one task per spawned call; shares worker pool, dead-letter queue, checkpoint coalescer | `dispatch_handler`: wait for a permit, shape gate, `factory.build`, run the handler, record the outcome |
| Executor | `src/executor/mod.rs` | `ExecutorHandle`, one subscription task per (topic, key filter) | `start_executor`, the stream loop, `abort`, drop |
| Resume position | `src/executor/initial_seq.rs` | `min_cp`, `any_durable`, `all_have_cp` | `initial_subscription_after_seq` |
| Handler descriptors | `src/handler_descriptor.rs` | constants of the binary | `matches_event` |
| Handler registry | `src/handler_registry.rs` | `all`, `by_topic_and_key` | `auto_discover`, `register`, the lookups |
| Runtime construction | `src/runtime.rs` | `PhotonRuntime` | `build_photon_runtime` |
| Process / system factories | `src/system_valence.rs` | two `OnceLock`s | `set_process_*`, `system_valence` |
| `ProcessValenceFactory` | `src/process_factory.rs` | a router configuration | `build` |
| `ValenceIdentityFactory` | `src/identity.rs` | the inner factory | `reconstruct` |
| Ops telemetry | `src/telemetry.rs` | none | `log_ops`, `truncate_error` |

How they interact.  `start_executor` reads the registry, spawns one task per
group and returns.  Each task reads checkpoints from Photon, opens a stream and
spawns a detached `dispatch_handler` call per matching handler and event.  The
calls meet only in the services they share: the worker pool (permits), the
dead-letter queue and the coalescer, whose checkpoints a later start reads.
Photon, its log, the stores and the services are other crates; they are modelled
from how this code uses them and marked external in the map.

What is hard.  Calls of one handler run concurrently and complete in any order,
so checkpoints are written out of order.  Starting, looking up checkpoints,
subscribing and aborting are separate steps between which events are published
and other executors move checkpoints.  A process can die at any point with a
coalesced checkpoint not flushed, an event handed to half of its handlers, and
calls in flight.  Writes to the dead-letter queue may fail unnoticed, handlers
may panic, streams may fail or end.  `build_photon_runtime` can fail after it has
pinned its factory for good; `system_valence` reads two cells that other threads
set in between; unit tests run as threads of one process over the same cells.

What makes each part correct.

* Dispatch: every exit gives its permit back; a checkpoint only names an event
  that was processed; a failed event leaves a dead letter and is not
  acknowledged by the call that failed; every call ends.
* Executor: an event reaches exactly the handlers the registry names, once per
  executor; it is delivered in the end; an aborted executor comes to rest.
* Resume: a resumed stream never jumps over an event that a durable handler's
  subscription was never given, starts at or before every checkpoint of its
  group, and behind an event that was really processed; what was processed is
  found again by the next lookup, as far as the keys agree.
* Registry: the two indexes agree, and the streams of a runtime are those the
  linked handlers ask for.
* Runtime and cells: `system_valence()` honours the system factory first and
  whatever was pinned before the call; the first attempt to pin a process factory
  decides it for good, even one that ends in an error or a panic.
* Identity: `dispatch_handler` and `reconstruct` draw the same line: a handler
  runs for exactly the payloads that `reconstruct` accepts with its factory.
* Telemetry: a cut never splits a character and keeps as much as the limit lets.

## 2. Modules

    HandlerDescriptor   matches_event, durable or not
      |       \
    Dispatch   HandlerRegistry         Identity     Telemetry
      |  |  \      |       \             |   |         |
      |  |   Executor       ------- Host ----|----------
      |  |      |                    |       |
      |  |  ExecutorLedger ~~> DeliveryLedger |    (~~> implements)
      |  |      |                HostPrograms |
      |   ------|---- DispatchIdentity -------
      |         |          |         |
      |    MCExecutor  MCDispatch  MCHost        instances for TLC
    *_proofs                                     theorems

**Dispatch** models one task per call: `status[t]` is its program counter, with
the awaits and early returns of `dispatch_handler` as states (`queued` waits at
`pool.acquire()`, `vetting` is the code between the permit and the handler,
`running` the handler's future, `recording` the `coalescer.record` await), and
its seven ways to end.  `call[t]` holds its arguments.  `permits`, `dlq`,
`pending` (the coalescer's memory) and `stored` (what `get_checkpoint_seq`
reads) are the services.  A dead letter also carries the task that wrote it, a
history field for the properties.  Each way out of the function is an action;
the permit is released in all of them by `Settle`, as the guard `_permit` is.
The payload is a model value: `ValenceActors` are the payloads that deserialize
as an actor, `Accepts[f]` those factory `f` builds for.  `Faults` names what
may go wrong in a run.

**Executor** EXTENDS Dispatch, with one task identity per executor, handler and
sequence number.  `sub[s]` is the local state of a subscription task: `phase`,
the handlers its current loop has still to visit (`todo`), the variables of
`initial_subscription_after_seq`, its position, and two history fields (was
`after_seq` a `Some`, which events a stream error took).  Each checkpoint lookup
is a step, since it is an await; `OpenStream` computes `after_seq` and
subscribes in one step, since nothing between them awaits; the fan-out of one
event is one step per handler, since the spawned calls start to run before it
is over and the process can die in it.  `Cancel` is where an aborted task stops:
at an await, never inside a fan-out.  A task that tokio is polling when it is
aborted goes on as long as its awaits are ready, and events at hand make the
stream's `next` ready; a task that waits is cancelled where it waits.  The model
does not tell the two apart: any aborted task may pass any number of awaits
before its `Cancel` (see `Polled`).  That is more than can happen, so what is
checked and proved of aborted executors holds of the code.  `ProcessCrash` kills
calls, tasks and handles and drops `pending`; log, store and dead letters stay,
as with a durable storage adapter.

**DeliveryLedger** is what delivery promises, with no task, permit, stream or
buffer in it: an entry for each receiver (an executor's use of a handler) and
event, offered at most once and in log order, closed once and for good as
processed, dead-lettered or dropped; and a mark for each checkpoint key, which
only ever names an event processed by a receiver that may set it.
**ExecutorLedger** gives the refinement mapping: entries are read off the calls'
states and the dead letters they left, marks are the flushed checkpoints.  What
a crash takes from the coalescer's memory is invisible there, and a flush must
therefore find the event it names processed.

**HandlerRegistry** has the registry as code builds it, two tables of counts
filled by `register` and read by the lookups, and, as constant operators, the
registry `auto_discover` leaves, which is all that Executor reads.  That the
first yields the second is `DiscoveryComplete`, below.  Order inside a `Vec`
comes from the linker and nothing reads it.

**Identity** has a factory as the router configuration its constructor builds
(`new`, `arc`, `new_internal`, `arc_internal`, and a bare router such as a
test's), `build` and `reconstruct`.  JSON is one of four classes: a User actor, a
System actor, JSON of another shape, no JSON.  The router is external; what it
does with JSON that is no actor when no policy is set is the constant
`OpaqueBuilds`.  **DispatchIdentity** gives Dispatch these factories and
payloads and states that its gates and `reconstruct` agree.

**Telemetry** is `truncate_error`, on the set of byte positions where a
message's characters end.

**Host** is a process around all this: the two `OnceLock`s, threads that run
programs (sequences of calls chosen at the start), and for each thread the
registry it has in hand.  `build_photon_runtime` is four actions: `PinFactory`
(the pin comes first), `BuildParts` (may fail), `DiscoverHandler` (one turn of
`auto_discover`'s loop, in any order), `StartTasks` (`tokio::spawn` panics
outside a runtime, if there is anything to spawn; the host catches the panic and
goes on with its next call, a retry say, or its program ends there).  `system_valence` is two,
one per cell it reads; `began` remembers the cells on entry, for the properties.
Calls that touch no shared state are one action, `Ask`.  Each call of a program
can say what it expects; a call that only reads carries the value its test
compares with, and expects "true" or "false".  **HostPrograms** transcribes 19 of
the crate's 22 unit tests, one program for each, the two examples and the
integration test of `build_photon_runtime`, with what they assert of each call,
exactly: counts, names, lookups, the 255 characters and the ellipsis left of the
message in the test of `truncate_error`, the reason of each error.  Not
transcribed: that a label or message has certain words, or any, in it, and that
the session in `persist_actor_recover` is the user's; the two tests of
`initial_seq.rs`, whose function is Executor's; the test that aborting a handle
without tasks does nothing.  HostPrograms also says when an expectation is fair: `Foreseen`
programs expect what follows from their own calls, and programs are `Isolated`
when one that asks for System sessions is alone in setting the cells.

Each module keeps a few operators marked `Mutant:` next to the definition they
alter; they are plausible mistakes that show each checked property to depend on
the code, and no specification uses them.

## 3. Checks

Passing runs:

| Run | Question | Bounds | Distinct states |
|---|---|---|---|
| `dispatch` | types, `PermitsConserved`, `CheckpointsJustified`, `DeadLettersExact`, `SameGateAsReconstruct` | 2 calls, every argument over a rejecting factory and a bare router, 3 payloads, 2 sequence numbers, named or not, durable or not; 1 permit; every fault but a failing build, both merge policies | 54 thousand |
| `executor_restart` | `DispatchedExactly`, `ResumeSkipsOnlyDispatched`, `ResumeWithinEveryCheckpoint`, `ResumePointWasProcessed`, `PermitsConserved` | 2 durable handlers in one group, 2 starts side by side or across a crash, 2 events, failed lookups, stream errors, 1 permit for both | 853 thousand |
| `executor_streams` | types, `DispatchedExactly`, `ResumeSkipsOnlyDispatched`, `ProcessedIsRemembered`, `DispatchSpec` and `ImplementsLedger` (refinements) | an unfiltered and a keyed durable handler that share a subscription name, 2 events with or without the key, 1 start, failing handlers and dead letters, stream errors and ends, abort, crash | 103 thousand |
| `executor_live` | `DeliveredEventually`, `AbortQuiesces`, `EverySpawnSettles`, `DeadLettersExact` | an unfiltered durable and a keyed ephemeral handler, failing and panicking, builds and streams that fail, a sink that does not, 1 permit, abort at any time | 69 thousand |
| `host` | types, `SystemValenceOrdered`, `ExpectationsMet`, `FirstAttemptPins`, `EachServedOnce`, `DiscoveryComplete`, `TruncationSound` | 2 threads: every pair of unit tests, every pair of programs of at most 2 calls that pin, build or ask, the examples, the integration test; 3 handlers, 2 of them of one key; messages around the limit | 586 thousand |

Why the bounds are enough to meet the interesting cases: one permit makes every
second call wait; two calls are what overtaking, double acknowledgement and a
leaked permit need; two events are what a checkpoint with an earlier event in
flight, and an off-by-one at the resume position, need; two handlers in a group
are what minimum against maximum and a crash inside the fan-out need; two starts
are what one restart, and two executors on the same checkpoints, need.
`executor_restart` is reduced by swapping the two handlers together with their
names, `dispatch` by permuting the calls.  In `host`, two calls on two threads
are what a failed build with a retry, and a set between the two reads of
`system_valence`, need; three handlers are what a second handler under one key
and a handler under another need; the messages have characters of one to four
bytes that end at each position from 507 up, so that every way for a character
to straddle the limit of 512 bytes occurs.  `MaxSeq` bounds `Publish`,
`MaxStarts` bounds `StartExecutor`, the programs bound Host; nothing else is
capped.  Deadlock checking is off: an executor with nothing published, one that
was aborted, and a host whose programs are over have nothing to do.

`ResumeWithinEveryCheckpoint` and `ProcessedIsRemembered` assume a coalescer that
never moves a checkpoint back (`MergeModes = {"max"}`); the other theorems and
`dispatch` also cover one that keeps the last value written.
`ProcessedIsRemembered` is the part of "replays from the checkpoint" that is true:
it speaks of events whose key is the one the stream looks up, which is what
`keyed_checkpoint` (below) breaks.  `ResumeSkipsOnlyDispatched` is about
subscriptions, not handlers: when two handlers share a name on one topic, one's
success acknowledges for both, as the code's checkpoint key has it, and the
handlers of `executor_streams` share one.  A durable handler without a name
never has a checkpoint and keeps its whole group from resuming; no run has one,
only the theorems about resuming (`ResumedWithin`, `NothingSkippedUnseen`) cover
it.  `SameGateAsReconstruct` speaks of the gates and sets builds that fail for
other reasons aside.  The part of `DeadLettersExact` about a sink that works is
`executor_live`'s, since the sink of `dispatch` may fail.  What a stream error
takes, and what an ended stream would have brought, is excused by the delivery
properties: the code does not promise it, and nothing starts the stream again.

Fairness (`executor_live` only): weak fairness for every call (tokio polls what
is ready; the semaphore wakes its waiters; handlers return), for every
subscription task and for dropping an aborted one.  None is assumed of
publishers, hosts, faults, or the coalescer's flush.  `AcquirePermit` needs no
strong fairness, since calls are finite in number and each holds a permit once.

Runs that show the code differs from its documentation (each is a finding in
`PROJECT.json` with the quoted line):

| Run | What happens |
|---|---|
| `overtaken_failure` | event 1 fails and is dead-lettered, event 2 succeeds: the checkpoint is 2, past the event its handler could not process |
| `overtaken_crash` | event 2 is checkpointed while event 1 is queued or running; the process dies; the next start resumes behind 2 and event 1 is never processed and has no dead letter |
| `keyed_checkpoint` | checkpoints are recorded under the event's key, looked up under the group's filter: an unfiltered durable handler of keyed events has a checkpoint and never finds it |
| `fresh_start_gap` | one durable handler of a group has no checkpoint yet, so after a crash the group starts from now: the backlog of the other handler is dropped |
| `abort_detached` | a call of an aborted executor, spawned before or (by a task still being polled) after `abort` was called, starts its handler after all subscription tasks have ended |
| `start_race` | an event published after `start_executor` returned is before the start of the stream (the tests sleep 200 ms for this) |
| `factory_pin` | `build_photon_runtime` fails after it pinned its factory; a second call with another factory succeeds and dispatches with one factory while `system_valence()` uses the other |

## 4. Proofs

Every safety property of the passing runs is proved for every value of the
constants.

`Dispatch_proofs`, for every number of calls, pool size, set of faults and merge
policy:

* `TypeCorrect`, `PermitsAreConserved`: by one induction, since that `permits`
  stays in `0 .. PoolSize` needs the conservation law and the law needs the
  types.  Three lemmas say what a step does to the number of permit holders.
* `CheckpointsAreJustified`: `CheckpointsJustified` is not inductive, because
  `RecordCheckpoint` does not ask again whether the call checkpoints; the
  invariant adds that every recording call does.  Justifications last because
  a call never changes (`CallStable`) and a settled task stays so
  (`SettledStable`).
* `DeadLettersAreExact`: inductive given the types.

`Identity_proofs`: `GatesAgree`.  The lemma `OnlyVettedRun` says that what got
past the gates deserved to; `RejectedRightly` adds that what was turned away did
too; `ReconstructLine` says that the two gates together are what `reconstruct`
accepts.

`Executor_proofs`, for every set of handlers and every number of executors and
events: `ExecutorTypeCorrect` and `ExecutorImplementsDispatch`
(`Spec => DispatchSpec`), and from them that the guarantees of Dispatch hold in
every system of executors (`ExecutorGuarantees`).  The invariant `ExecInv` adds
to the types that positions stay within the log and that a call is for an event
of the log.  It needs Dispatch's checkpoint invariant: that a stream resumed at a
checkpoint starts within the log holds because a checkpoint names an event that
was dispatched.  So both invariants go through one induction, in which each
executor step is first shown to be a step of Dispatch.

`Delivery_proofs`:

* `CallsAreExact` (`DispatchedExactly`): the invariant `DeliveryInv` adds what a
  stream holds on to in each phase (`StreamOK`): before it is open nothing is
  handed over or lost, and in a fan-out `todo` only has handlers of the current
  event.
* `ResumedWithin` (`ResumeWithinEveryCheckpoint`): `WithinInv` says of a lookup
  under way that its minimum is behind the checkpoint of every handler visited
  so far.  `CheckpointsGrow` keeps it true while others flush.
* `NothingSkippedUnseen` (`ResumeSkipsOnlyDispatched`): `CoverInv` says that
  everything up to the minimum found so far has reached each handler's
  subscription.  The heart is `CheckpointCovers`: a checkpoint names an event
  that some call of that subscription processed (`CheckpointsJustified`), that
  call exists exactly because its stream got there (`DispatchedExactly`), and
  that stream in turn started from now, or from a checkpoint that `CoverInv`
  covers.
* `ResumePointsProcessed` (`ResumePointWasProcessed`): `PointInv` says that the
  minimum found so far is a justified checkpoint of one of the group's handlers,
  and that there is one as soon as all lookups so far have found something: so
  0, no checkpoint, is never taken for a position.
* `ProcessedRemembered` (`ProcessedIsRemembered`): `RememberedInv` follows the
  calls, not the handlers: the checkpoint of a call that came through to its end
  is in memory or in the store until its process crashes (`KeptStays`), and
  `CallsAreExact` gives the call the name and key its handler looks up.
* `RestIsFinal`: the safety half of `AbortQuiesces`.  A call of a stopped and
  quiet executor could only come from a stream, and ended streams do not move
  (`EndedStays`); an event published later is behind their position.

`Ledger_proofs`: `ExecutorsKeepLedger` (`Spec => ImplementsLedger`).  Each step
is a step of the ledger or leaves it as it is; offers come in order since a
stream's position only grows (`DeliveryInv`), a flush sets a mark whose event is
processed (`CheckpointsJustified`).

`Host_proofs`, for every number of threads, every programs they run and every
set of handlers: `HostTypes`, `ValenceOrdered`, `FirstAttemptStays`, `ServedOnce`,
`DiscoveryIsComplete`.  `HostInv` adds where a thread is inside a call and what
it has done there (`ThreadOK`): one that fell back found the system cell empty,
one past the pin has a process factory, cells that were set when a call began
are still the same, a registry's tables agree (`Agrees`), and discovery has
registered no handler twice.  `FirstAttemptStays` follows the calls that have
tried to pin (`Attempts`): a step only adds attempts behind those of its thread
(`StepAttempts`), so who was first stays first; and before the first attempt
nothing is pinned, since no step but the two that pin makes one (`NothingTried`).
`DiscoveryIsComplete` discharges what Executor assumes of its streams.

`Telemetry_proofs`: `TruncateSound`, for every message, at the limit of 512 bytes
the code has, and so for every message a host logs (`TruncatedSoundly` in
`Host_proofs`).  That a finite set of positions has a
largest member comes from the library's theorem that a nonempty set has a minimal
element in a well-founded order: it is the member with the fewest others above it.
A character has at most four bytes, so one of them ends in the last four bytes the
limit leaves.

`HostPrograms_proofs`: what programs expect of the host.  `IsolatedProgramsMet`
is about any programs that are `Isolated`, on any number of threads: each gets from
every call what it foresees.  `ProgramsInv` says that at each point of a program
the cells (if it asks for System sessions) and its registry are as the calls
behind it leave them, read off the program alone, between the pin of
`build_photon_runtime` and its end too, the registry exactly, handler by handler
(`RegistrationsStep`, `KnownByCounts`).  `RepositoryProgramsMet` shows the 19
unit tests, on any number of threads, and the examples and the integration test,
each in a process of its own, to be such programs (`TestRun`, `HostRun`), and TLC that the processes the `host` run takes from the repository are
of these kinds (`MCRepositoryRuns`).  It holds because one unit test alone touches
the cells: a second one that sets them would break `Isolated`, and the "not
installed" assertion with it.

The assumptions are the named ASSUMEs of the modules: finitely many calls, at
least one permit, typed constants.

Only model-checked: the liveness properties (`DeliveredEventually`,
`AbortQuiesces`, `EverySpawnSettles`), since fairness is outside what the provers
handle; of `AbortQuiesces` the safety half is proved.  The seven violations are
TLC's: they are counterexamples, not theorems.

## 5. Not modelled

* `src/lib.rs`: re-exports and documentation; no state.
* `HandlerRegistry::iter`: it reads a table and changes nothing, and no test uses
  it.
* Labels of actors, log lines and metrics, the text of errors; memory used by
  queued calls, which nothing bounds.
* The contents of payloads, the handlers themselves (they succeed, fail or
  panic), and the internals of Photon, the router, the worker pool, the coalescer
  and the dead-letter sink, which are other crates.  They are modelled from how
  this code uses them and marked external in the map.
* A handler that never returns: the liveness properties assume that none does.

One divergence from the documentation has no run.  `docs/VERIFICATION.md:43` says
of `ProcessValenceFactory::new`, `arc` and `build` that a "System actor builds
`Valence`" and that "opaque JSON" is "accepted".  The code does neither: `new` and
`arc` set the policy that refuses both, only `new_internal` and `arc_internal`
build for System actors, and the unit test
`external_rejects_invalid_and_system_actor_json` asserts the refusals.  The row
is out of date; the model follows code and test (`NewFactory`, and the programs
that `ExpectationsMet` is about), so a run that checked the row would only repeat
what the unit test already shows in one call.
