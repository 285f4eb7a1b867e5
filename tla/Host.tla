-------------------------------- MODULE Host --------------------------------
(***************************************************************************)
(* A host process around the executor: build_photon_runtime, the two       *)
(* OnceLock cells system_valence() reads, and the calls that share no      *)
(* state.  Each thread runs a program, a sequence of calls chosen when the *)
(* process starts; threads interleave where one function touches the cells *)
(* more than once or can fail half way.                                    *)
(***************************************************************************)
EXTENDS HandlerRegistry, Identity, Telemetry, Sequences

CONSTANTS
  Threads,
  HostCalls,  \* the calls that occur in programs
  Processes   \* the programs a process may run, one for each thread

\* The fields a call has besides `op` and `expect`, the outcome its program
\* expects; "any" is no expectation.  The questions that only read are asked
\* as assertions: `count`, `names`, `found` and `left` are what the answer is
\* compared with, and the outcome is whether it is that.
CallShape(c) ==
  CASE c.op \in {"set_process", "set_system"} -> c.factory \in ValenceFactories
    [] c.op \in {"system_valence", "is_empty"} -> TRUE
    [] c.op = "build_photon_runtime"          ->
         c.factory \in ValenceFactories /\ {c.parts_ok, c.in_tokio} \subseteq BOOLEAN
    [] c.op \in {"build", "reconstruct"}      ->
         c.factory \in ValenceFactories /\ c.text \in Texts
    [] c.op = "register"                      -> c.handler \in Handlers
    [] c.op = "len"                           -> c.count \in Nat
    [] c.op = "topic_names"                   -> c.names \subseteq Topics
    [] c.op \in {"handlers_for_event", "handlers_for_topic_key"} ->
         c.topic_name \in Topics /\ c.topic_key \in OptKeys /\ c.found \subseteq Handlers
    [] c.op = "matches_event"                 ->
         c.handler \in Handlers /\ c.topic_name \in Topics /\ c.topic_key \in OptKeys
    [] c.op = "is_durable_descriptor"         -> c.mode \in SubscriptionModes
    [] c.op = "truncate_error"                ->
         IsMessage(c.message) /\ {c.left.kept, c.left.len} \subseteq Nat
    [] OTHER                                  -> FALSE

ASSUME HostAssumption ==
  /\ \A c \in HostCalls : CallShape(c)
  /\ Processes \subseteq [Threads -> Seq(HostCalls)]
  /\ None \notin ValenceFactories

VARIABLES
  process_cell,  \* PROCESS_VALENCE_FACTORY, None until set
  system_cell,   \* PROCESS_SYSTEM_VALENCE_FACTORY, None until set
  program,       \* what each thread runs
  next,          \* the call each thread is at
  at,            \* where in that call it is
  registry,      \* the HandlerRegistry each thread has in hand
  result,        \* what each thread's last call returned
  began,         \* history: the cells when system_valence was last entered
  runtimes       \* the runtimes built: their factory and their streams

cells == <<process_cell, system_cell>>
vars == <<cells, program, next, at, registry, result, began, runtimes>>

OptFactories == ValenceFactories \cup {None}
Points == {"start", "fallback", "pinned", "discovering"}

----------------------------------------------------------------------------
Init ==
  /\ process_cell = None /\ system_cell = None
  /\ program \in Processes
  /\ next = [th \in Threads |-> 1]
  /\ at = [th \in Threads |-> "start"]
  /\ registry = [th \in Threads |-> EmptyRegistry]
  /\ result = [th \in Threads |-> None]
  /\ began = [th \in Threads |-> <<None, None>>]
  /\ runtimes = {}

Call(th) == program[th][next[th]]

\* Thread th is at `point` of a call of `op`.
In(th, op, point) ==
  /\ next[th] <= Len(program[th])
  /\ Call(th).op = op
  /\ at[th] = point

GoOn(th, point) ==
  /\ at' = [at EXCEPT ![th] = point]
  /\ UNCHANGED <<program, next, result>>

\* `used` is the factory the call asked for a session, None if it asked none.
Return(th, outcome, used) ==
  /\ result' = [result EXCEPT ![th] =
                  [call |-> Call(th), outcome |-> outcome, used |-> used]]
  /\ at' = [at EXCEPT ![th] = "start"]
  /\ next' = [next EXCEPT ![th] = @ + 1]
  /\ UNCHANGED program

\* Unwinding: what the call has set stays set.  A host that catches the panic
\* goes on with its next call; one that does not has no further calls.
Panic(th) ==
  /\ result' = [result EXCEPT ![th] =
                  [call |-> Call(th), outcome |-> "panicked", used |-> None]]
  /\ at' = [at EXCEPT ![th] = "start"]
  /\ \E after \in {next[th] + 1, Len(program[th]) + 1} :
       next' = [next EXCEPT ![th] = after]
  /\ UNCHANGED program

\* `let _ = CELL.set(factory)`: the first set wins, later ones go unnoticed.
OnceSet(cell, factory) == IF cell = None THEN factory ELSE cell

SetProcess(th) ==
  /\ In(th, "set_process", "start")
  /\ process_cell' = OnceSet(process_cell, Call(th).factory)
  /\ Return(th, "ok", None)
  /\ UNCHANGED <<system_cell, registry, began, runtimes>>

SetSystem(th) ==
  /\ In(th, "set_system", "start")
  /\ system_cell' = OnceSet(system_cell, Call(th).factory)
  /\ Return(th, "ok", None)
  /\ UNCHANGED <<process_cell, registry, began, runtimes>>

\* The session of Actor::System a factory gives system_valence.
ReturnSystem(th, factory) == Return(th, Build(factory, "system"), factory)

\* Mutant: the cells read in the other order.
ReadProcessCellFirst(th) ==
  /\ In(th, "system_valence", "start")
  /\ began' = [began EXCEPT ![th] = cells]
  /\ IF process_cell # None THEN ReturnSystem(th, process_cell) ELSE GoOn(th, "fallback")
  /\ UNCHANGED <<cells, registry, runtimes>>

\* system_valence: PROCESS_SYSTEM_VALENCE_FACTORY.get()
ReadSystemCell(th) ==
  /\ In(th, "system_valence", "start")
  /\ began' = [began EXCEPT ![th] = cells]
  /\ IF system_cell # None THEN ReturnSystem(th, system_cell) ELSE GoOn(th, "fallback")
  /\ UNCHANGED <<cells, registry, runtimes>>

\* .or_else(|| PROCESS_VALENCE_FACTORY.get()).ok_or_else("not installed")
ReadProcessCell(th) ==
  /\ In(th, "system_valence", "fallback")
  /\ IF process_cell # None THEN ReturnSystem(th, process_cell)
                            ELSE Return(th, "not_installed", None)
  /\ UNCHANGED <<cells, registry, began, runtimes>>

\* Mutant: build_photon_runtime pins the factory for system_valence only.
PinSystemFactory(th) ==
  /\ In(th, "build_photon_runtime", "start")
  /\ system_cell' = OnceSet(system_cell, Call(th).factory)
  /\ GoOn(th, "pinned")
  /\ UNCHANGED <<process_cell, registry, began, runtimes>>

\* Mutant: the factory is pinned once the parts are built.
PinFactoryIfBuilt(th) ==
  /\ In(th, "build_photon_runtime", "start")
  /\ process_cell' = IF Call(th).parts_ok
                       THEN OnceSet(process_cell, Call(th).factory) ELSE process_cell
  /\ GoOn(th, "pinned")
  /\ UNCHANGED <<system_cell, registry, began, runtimes>>

\* build_photon_runtime: set_process_valence_factory comes first.
PinFactory(th) ==
  /\ In(th, "build_photon_runtime", "start")
  /\ process_cell' = OnceSet(process_cell, Call(th).factory)
  /\ GoOn(th, "pinned")
  /\ UNCHANGED <<system_cell, registry, began, runtimes>>

\* build_photon_parts()?: on an error the factory stays pinned.
BuildParts(th) ==
  /\ In(th, "build_photon_runtime", "pinned")
  /\ IF Call(th).parts_ok
     THEN /\ registry' = [registry EXCEPT ![th] = EmptyRegistry]
          /\ GoOn(th, "discovering")
     ELSE Return(th, "parts_error", None) /\ UNCHANGED registry
  /\ UNCHANGED <<cells, began, runtimes>>

\* One turn of the loop of auto_discover, in start_executor: each linked
\* handler once, in the linker's order.
DiscoverHandler(th, h) ==
  /\ In(th, "build_photon_runtime", "discovering")
  /\ registry[th].all[h] = 0
  /\ registry' = [registry EXCEPT ![th] = Register(@, h)]
  /\ GoOn(th, "discovering")
  /\ UNCHANGED <<cells, began, runtimes>>

\* The tasks start_executor spawns: one per key, with the handlers of the key.
\* The registry it discovers anew for each key is the same one.
Streams(reg) == [k \in topic_subscription_keys(reg) |-> handlers_for_topic_key(reg, k)]

\* The rest of build_photon_runtime; tokio::spawn panics outside a runtime.
StartTasks(th) ==
  LET streams == Streams(registry[th])
  IN  /\ In(th, "build_photon_runtime", "discovering")
      /\ \A h \in Handlers : registry[th].all[h] > 0
      /\ IF Call(th).in_tokio \/ DOMAIN streams = {}
         THEN /\ Return(th, "ok", Call(th).factory)
              /\ runtimes' = runtimes \cup
                   {[factory |-> Call(th).factory, streams |-> streams]}
         ELSE Panic(th) /\ UNCHANGED runtimes
      /\ UNCHANGED <<cells, registry, began>>

\* HandlerRegistry::register, by a host or test with a registry of its own.
RegisterByHand(th) ==
  /\ In(th, "register", "start")
  /\ registry' = [registry EXCEPT ![th] = Register(@, Call(th).handler)]
  /\ Return(th, "ok", None)
  /\ UNCHANGED <<cells, began, runtimes>>

\* A lookup that finds each handler of `found` once, and no other.
Once(found) == [h \in Handlers |-> IF h \in found THEN 1 ELSE 0]

\* The assertions on what only reads.
Holds(reg, c) ==
  CASE c.op = "is_empty"    -> is_empty(reg)
    [] c.op = "len"         -> len(reg) = c.count
    [] c.op = "topic_names" -> topic_names(reg) = c.names
    [] c.op = "handlers_for_event" ->
         handlers_for_event(reg, c.topic_name, c.topic_key) = Once(c.found)
    [] c.op = "handlers_for_topic_key" ->
         handlers_for_topic_key(reg, <<c.topic_name, c.topic_key>>) = Once(c.found)
    [] c.op = "matches_event" ->
         MatchesEvent(Descriptor[c.handler], c.topic_name, c.topic_key)
    [] c.op = "is_durable_descriptor" -> IsDurable([mode |-> c.mode])
    [] c.op = "truncate_error" -> truncate_error(c.message) = c.left

\* What the calls that change nothing return.
RegistryOps == {"is_empty", "len", "topic_names", "handlers_for_event",
                "handlers_for_topic_key"}
PureOps == RegistryOps \cup {"matches_event", "is_durable_descriptor", "truncate_error",
                             "build", "reconstruct"}

Answer(reg, c) ==
  CASE c.op = "build"       -> Build(c.factory, c.text)
    [] c.op = "reconstruct" -> Reconstruct(c.factory, c.text)
    [] OTHER                -> IF Holds(reg, c) THEN "true" ELSE "false"

Ask(th) ==
  /\ \E op \in PureOps : In(th, op, "start")
  /\ Return(th, Answer(registry[th], Call(th)), None)
  /\ UNCHANGED <<cells, registry, began, runtimes>>

----------------------------------------------------------------------------
ThreadStep(th) ==
  \/ SetProcess(th) \/ SetSystem(th)
  \/ ReadSystemCell(th) \/ ReadProcessCell(th)
  \/ PinFactory(th) \/ BuildParts(th)
  \/ \E h \in Handlers : DiscoverHandler(th, h)
  \/ StartTasks(th)
  \/ RegisterByHand(th) \/ Ask(th)

Next == \E th \in Threads : ThreadStep(th)

Spec == Init /\ [][Next]_vars

----------------------------------------------------------------------------
(* Properties.                                                             *)

Outcomes ==
  {"ok", "build_failed", "system_rejected", "not_an_actor", "not_installed",
   "parts_error", "panicked", "invalid_json", "invalid_shape", "true", "false"}
Results == [call : HostCalls, outcome : Outcomes, used : OptFactories]

\* Types of the cells, of each thread's place in its program and its registry;
\* nothing serves events before a process factory is pinned.
HostTypeOK ==
  /\ process_cell \in OptFactories /\ system_cell \in OptFactories
  /\ program \in Processes
  /\ \A th \in Threads : next[th] \in 1 .. Len(program[th]) + 1
  /\ at \in [Threads -> Points]
  /\ registry \in [Threads -> Registries]
  /\ result \in [Threads -> Results \cup {None}]
  /\ began \in [Threads -> OptFactories \X OptFactories]
  /\ \A r \in runtimes : r.factory \in ValenceFactories /\ process_cell # None

\* Has thread th just come back from system_valence?
AfterSystemValence(th) == result[th] # None /\ result[th].call.op = "system_valence"

\* system_valence prefers the system factory and falls back on the process
\* factory although it reads the cells one after the other while other threads
\* set them: a system factory pinned before the call is the one it uses, a
\* process factory pinned before the call keeps it from "not installed", and it
\* uses no factory but the pinned ones.
SystemValenceOrdered ==
  \A th \in Threads :
    AfterSystemValence(th) /\ at[th] = "start" =>
      LET r == result[th]
      IN  /\ began[th][2] # None => r.used = began[th][2]
          /\ r.outcome = "not_installed" => began[th] = <<None, None>>
          /\ r.used # None => r.used \in {process_cell, system_cell}

\* The programs of HostPrograms, the crate's examples and tests, get what they
\* assert from every call, also when two tests of one binary run at the same
\* time over the same two cells.  (docs/VERIFICATION.md:43 says otherwise of
\* ProcessValenceFactory::new: that it builds for System actors and accepts
\* opaque JSON.  Code and unit tests refuse both, and so do these programs.)
ExpectationsMet ==
  \A th \in Threads :
    result[th] # None => result[th].call.expect \in {"any", result[th].outcome}

\* The calls of thread th that have tried to pin a process factory.
Attempts(th) ==
  {i \in 1 .. Len(program[th]) :
     /\ program[th][i].op \in {"set_process", "build_photon_runtime"}
     /\ i < next[th] \/ (i = next[th] /\ at[th] # "start")}

\* Whoever comes first is pinned and stays so: the process factory is the one a
\* thread named in its very first attempt, however that attempt ended, in an
\* error or a panic that was caught too, and whatever its retries and the other
\* threads name later.
FirstAttemptPins ==
  IF \A th \in Threads : Attempts(th) = {} THEN process_cell = None
  ELSE \E th \in Threads : \E i \in Attempts(th) :
         /\ \A j \in Attempts(th) : i <= j
         /\ process_cell = program[th][i].factory

\* How often the streams of an event's topic, the unfiltered one and the one of
\* its key, take it to handler h.
Served(reg, topic, key, h) ==
  handlers_for_topic_key(reg, <<topic, None>>)[h]
  + IF key = None THEN 0 ELSE handlers_for_topic_key(reg, <<topic, key>>)[h]

\* The two tables of a registry agree: however handlers were registered, twice
\* too, the streams take an event to each of them exactly as often as `all`
\* says.
EachServedOnce ==
  \A th \in Threads, topic \in Topics, key \in OptKeys, h \in Handlers :
    Served(registry[th], topic, key, h) = handlers_for_event(registry[th], topic, key)[h]

\* Every runtime has a stream for each key, and for each stream the handlers,
\* that HandlerRegistry gives the executor: whatever the linker's order.
DiscoveryComplete ==
  \A r \in runtimes :
    /\ DOMAIN r.streams = TopicSubscriptionKeys
    /\ \A k \in TopicSubscriptionKeys :
         {h \in Handlers : r.streams[k][h] = 1} = HandlersForTopicKey(k)

\* Every message truncate_error was called with is cut soundly.
TruncationSound ==
  \A th \in Threads :
    result[th] # None /\ result[th].call.op = "truncate_error" =>
      LET m == result[th].call.message IN SoundCut(m, truncate_error(m))

----------------------------------------------------------------------------
(* What the documentation says and the code does not do.                   *)

\* "Pins `valence_factory` for system_valence()" (runtime.rs,
\* build_photon_runtime): the factory of every runtime that was built is the
\* one pinned for the process.
RuntimeIsPinned == \A r \in runtimes : r.factory = process_cell

=============================================================================
