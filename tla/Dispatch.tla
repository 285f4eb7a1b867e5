------------------------------ MODULE Dispatch ------------------------------
(***************************************************************************)
(* dispatch_handler and the three services every call of it shares: the    *)
(* worker pool, the dead-letter queue and the checkpoint coalescer.        *)
(*                                                                         *)
(* A task is one spawned call of dispatch_handler.  It waits for a permit, *)
(* vets the event's actor, runs the handler and records the outcome; tasks *)
(* run concurrently and nothing orders them by sequence number.  The       *)
(* services live outside the repository and are modelled from their use.   *)
(***************************************************************************)
EXTENDS HandlerDescriptor, Integers, FiniteSets

CONSTANTS
  Tasks,         \* identities of the spawned calls
  PoolSize,      \* permits of the worker pool
  Factories,     \* ValenceFactory instances a call can be given
  ActorJson,     \* actor_json payloads events can carry
  ValenceActors, \* those that deserialize as valence::Actor
  Accepts,       \* those the build of each factory succeeds on
  MaxSeq,        \* bound on sequence numbers; a topic's events are 1, 2, ...
  MergeModes,    \* what the coalescer may do with an older checkpoint
  Faults         \* what can go wrong in a run

FaultKinds == {"panic", "handler", "dlq", "checkpoint", "build", "crash",
               "lookup", "stream", "stream_end"}

ASSUME TasksAssumption == IsFiniteSet(Tasks)
ASSUME PoolAssumption == PoolSize \in Nat \ {0}
ASSUME ActorAssumption == /\ ValenceActors \subseteq ActorJson
                          /\ Accepts \in [Factories -> SUBSET ActorJson]
ASSUME SeqAssumption == MaxSeq \in Nat
ASSUME MergeAssumption == MergeModes \in (SUBSET {"max", "latest"}) \ {{}}
ASSUME FaultsAssumption == Faults \subseteq FaultKinds

Seqs == 1 .. MaxSeq

\* The arguments of dispatch_handler, the event's fields among them.
Calls ==
  [ factory           : Factories,
    subscription_name : OptSubNames,
    is_durable        : BOOLEAN,
    topic_name        : Topics,
    topic_key         : OptKeys,
    seq               : Seqs,
    actor_json        : ActorJson ]

\* Checkpoints are kept per subscription name, topic and key; 0 is no
\* checkpoint.
CheckpointKeys == SubNames \X Topics \X OptKeys
NoCheckpoint == 0
Checkpoints == [CheckpointKeys -> {NoCheckpoint} \cup Seqs]

\* The failure reasons written to the dead-letter queue.
FailureReasons == {"IdentityBuild", "HandlerError"}

\* DlqRecordParams, with the task that wrote it (history, for the properties).
DeadLetters ==
  [ task              : Tasks,
    topic_name        : Topics,
    topic_key         : OptKeys,
    seq               : Seqs,
    subscription_name : OptSubNames,
    reason            : FailureReasons ]

VARIABLES
  status,   \* where each task is
  call,     \* what each task was called with
  permits,  \* free permits of the worker pool
  dlq,      \* the dead letters that were stored
  pending,  \* checkpoints the coalescer holds in memory
  stored    \* checkpoints get_checkpoint_seq can read

dispatchVars == <<status, call, permits, dlq, pending, stored>>

----------------------------------------------------------------------------
(* States of a task.                                                       *)

\* Between acquire and the end of the function the permit is held.
Holding == {"vetting", "running", "recording"}
Live    == {"queued"} \cup Holding

\* done: succeeded, nothing to checkpoint; drained: checkpoint handed to the
\* coalescer; cp_error: the coalescer refused it; rejected: no Valence could be
\* built; errored: the handler returned Err; killed: the process died.
Settled == {"done", "drained", "cp_error", "rejected", "errored", "panicked",
            "killed"}
Statuses == {"none"} \cup Live \cup Settled

TasksIn(S) == {t \in Tasks : status[t] \in S}

CheckpointKey(c) == <<c.subscription_name, c.topic_name, c.topic_key>>

\* The `if is_durable { if let Some(name) ..` at the end of dispatch_handler.
Checkpointed(c) == c.is_durable /\ c.subscription_name # None

\* `max` keeps the larger sequence number, `latest` the one that came last.
Merged(mode, old, new) == IF mode = "max" /\ old > new THEN old ELSE new

----------------------------------------------------------------------------
DispatchInit ==
  /\ status = [t \in Tasks |-> "none"]
  /\ call = [t \in Tasks |-> None]
  /\ permits = PoolSize
  /\ dlq = {}
  /\ pending = [k \in CheckpointKeys |-> NoCheckpoint]
  /\ stored = [k \in CheckpointKeys |-> NoCheckpoint]

\* tokio::spawn of a call: no bound on how many wait for a permit.
Spawn(t, c) ==
  /\ status[t] = "none"
  /\ status' = [status EXCEPT ![t] = "queued"]
  /\ call' = [call EXCEPT ![t] = c]
  /\ UNCHANGED <<permits, dlq, pending, stored>>

\* Mutant: calls start without waiting for a permit.
AcquireWithoutWaiting(t) ==
  /\ status[t] = "queued"
  /\ permits' = permits - 1
  /\ status' = [status EXCEPT ![t] = "vetting"]
  /\ UNCHANGED <<call, dlq, pending, stored>>

\* pool.acquire().await returns.
AcquirePermit(t) ==
  /\ status[t] = "queued"
  /\ permits > 0
  /\ permits' = permits - 1
  /\ status' = [status EXCEPT ![t] = "vetting"]
  /\ UNCHANGED <<call, dlq, pending, stored>>

\* Leaving the function drops `_permit`.
Settle(t, outcome) ==
  /\ status' = [status EXCEPT ![t] = outcome]
  /\ permits' = permits + 1

DeadLetter(t, reason) ==
  [ task |-> t, topic_name |-> call[t].topic_name,
    topic_key |-> call[t].topic_key, seq |-> call[t].seq,
    subscription_name |-> call[t].subscription_name, reason |-> reason ]

\* `let _ = dlq.record(..)`: a write that fails is not noticed.
RecordDeadLetter(t, reason) ==
  \/ dlq' = dlq \cup {DeadLetter(t, reason)}
  \/ "dlq" \in Faults /\ dlq' = dlq

\* The payload is no valence::Actor: the factory is never asked.
RejectShape(t) ==
  /\ status[t] = "vetting"
  /\ call[t].actor_json \notin ValenceActors
  /\ RecordDeadLetter(t, "IdentityBuild")
  /\ Settle(t, "rejected")
  /\ UNCHANGED <<call, pending, stored>>

\* Mutant: a permit forgotten on the early return.
RejectBuildKeepingPermit(t) ==
  /\ status[t] = "vetting"
  /\ call[t].actor_json \in ValenceActors
  /\ call[t].actor_json \notin Accepts[call[t].factory]
  /\ RecordDeadLetter(t, "IdentityBuild")
  /\ status' = [status EXCEPT ![t] = "rejected"]
  /\ UNCHANGED <<call, permits, pending, stored>>

\* valence_factory.build returns Err.
RejectBuild(t) ==
  /\ status[t] = "vetting"
  /\ call[t].actor_json \in ValenceActors
  /\ \/ call[t].actor_json \notin Accepts[call[t].factory]
     \/ "build" \in Faults
  /\ RecordDeadLetter(t, "IdentityBuild")
  /\ Settle(t, "rejected")
  /\ UNCHANGED <<call, pending, stored>>

\* Mutant: the event is acknowledged before the handler has run.
StartHandlerAcknowledging(t) ==
  /\ status[t] = "vetting"
  /\ call[t].actor_json \in ValenceActors \cap Accepts[call[t].factory]
  /\ status' = [status EXCEPT ![t] = "running"]
  /\ pending' = IF Checkpointed(call[t])
                  THEN [pending EXCEPT ![CheckpointKey(call[t])] = call[t].seq]
                  ELSE pending
  /\ UNCHANGED <<call, permits, dlq, stored>>

\* Both gates passed: the handler's future is polled with the permit held.
StartHandler(t) ==
  /\ status[t] = "vetting"
  /\ call[t].actor_json \in ValenceActors \cap Accepts[call[t].factory]
  /\ status' = [status EXCEPT ![t] = "running"]
  /\ UNCHANGED <<call, permits, dlq, pending, stored>>

\* Mutant: the return after the dead letter is missing.
HandlerErrFallingThrough(t) ==
  /\ status[t] = "running"
  /\ "handler" \in Faults
  /\ RecordDeadLetter(t, "HandlerError")
  /\ status' = [status EXCEPT ![t] = "recording"]
  /\ UNCHANGED <<call, permits, pending, stored>>

\* Mutant: the failure is logged and not dead-lettered.
HandlerErrLogged(t) ==
  /\ status[t] = "running"
  /\ "handler" \in Faults
  /\ Settle(t, "errored")
  /\ UNCHANGED <<call, dlq, pending, stored>>

\* dispatch(valence, ev).await returns Err.
HandlerErr(t) ==
  /\ status[t] = "running"
  /\ "handler" \in Faults
  /\ RecordDeadLetter(t, "HandlerError")
  /\ Settle(t, "errored")
  /\ UNCHANGED <<call, pending, stored>>

\* Mutant: a permit given back by hand at the returns, so not on unwinding.
HandlerPanicKeepingPermit(t) ==
  /\ status[t] = "running"
  /\ "panic" \in Faults
  /\ status' = [status EXCEPT ![t] = "panicked"]
  /\ UNCHANGED <<call, permits, dlq, pending, stored>>

\* Unwinding drops the permit; neither queue nor coalescer hears of the event.
HandlerPanic(t) ==
  /\ status[t] = "running"
  /\ "panic" \in Faults
  /\ Settle(t, "panicked")
  /\ UNCHANGED <<call, dlq, pending, stored>>

\* The handler returned Ok and the call goes on to coalescer.record.
HandlerOk(t) ==
  /\ status[t] = "running"
  /\ Checkpointed(call[t])
  /\ status' = [status EXCEPT ![t] = "recording"]
  /\ UNCHANGED <<call, permits, dlq, pending, stored>>

\* The handler returned Ok and there is nothing to checkpoint.
HandlerDone(t) ==
  /\ status[t] = "running"
  /\ ~Checkpointed(call[t])
  /\ Settle(t, "done")
  /\ UNCHANGED <<call, dlq, pending, stored>>

\* Mutant: a permit forgotten after the last await.
RecordCheckpointKeepingPermit(t) ==
  LET k == CheckpointKey(call[t])
  IN  /\ status[t] = "recording"
      /\ \E mode \in MergeModes :
           pending' = [pending EXCEPT ![k] = Merged(mode, @, call[t].seq)]
      /\ status' = [status EXCEPT ![t] = "drained"]
      /\ UNCHANGED <<call, permits, dlq, stored>>

\* coalescer.record(name, topic, the EVENT's key, seq) and record_drain.
RecordCheckpoint(t) ==
  LET k == CheckpointKey(call[t])
  IN  /\ status[t] = "recording"
      /\ \E mode \in MergeModes :
           pending' = [pending EXCEPT ![k] = Merged(mode, @, call[t].seq)]
      /\ Settle(t, "drained")
      /\ UNCHANGED <<call, dlq, stored>>

\* coalescer.record returns Err: counted as CheckpointError, not retried.
CheckpointErr(t) ==
  /\ status[t] = "recording"
  /\ "checkpoint" \in Faults
  /\ Settle(t, "cp_error")
  /\ UNCHANGED <<call, dlq, pending, stored>>

\* The coalescer (external) writes a checkpoint it holds to the store.
FlushCheckpoint(k) ==
  /\ pending[k] # NoCheckpoint
  /\ \E mode \in MergeModes :
       stored' = [stored EXCEPT ![k] = Merged(mode, @, pending[k])]
  /\ pending' = [pending EXCEPT ![k] = NoCheckpoint]
  /\ UNCHANGED <<status, call, permits, dlq>>

\* The process dies: its tasks and what the coalescer held are gone, the
\* store and the dead letters stay; a restart finds an empty pool.
Crash ==
  /\ "crash" \in Faults
  /\ status' = [t \in Tasks |->
                  IF status[t] \in Live THEN "killed" ELSE status[t]]
  /\ permits' = PoolSize
  /\ pending' = [k \in CheckpointKeys |-> NoCheckpoint]
  /\ UNCHANGED <<call, dlq, stored>>

----------------------------------------------------------------------------
HandlerReturns(t) ==
  HandlerErr(t) \/ HandlerPanic(t) \/ HandlerOk(t) \/ HandlerDone(t)

TaskStep(t) ==
  \/ AcquirePermit(t)
  \/ RejectShape(t)
  \/ RejectBuild(t)
  \/ StartHandler(t)
  \/ HandlerReturns(t)
  \/ RecordCheckpoint(t)
  \/ CheckpointErr(t)

RunningStep ==
  \/ \E t \in Tasks : TaskStep(t)
  \/ \E k \in CheckpointKeys : FlushCheckpoint(k)

DispatchNext ==
  \/ \E t \in Tasks, c \in Calls : Spawn(t, c)
  \/ RunningStep
  \/ Crash

DispatchSpec == DispatchInit /\ [][DispatchNext]_dispatchVars

----------------------------------------------------------------------------
(* Properties.                                                             *)

\* Types of the variables of dispatch_handler's tasks and of the services.
DispatchTypeOK ==
  /\ status \in [Tasks -> Statuses]
  /\ call \in [Tasks -> Calls \cup {None}]
  /\ \A t \in Tasks : status[t] # "none" => call[t] \in Calls
  /\ permits \in 0 .. PoolSize
  /\ dlq \subseteq DeadLetters
  /\ pending \in Checkpoints
  /\ stored \in Checkpoints

\* Backpressure: every exit of dispatch_handler gives its permit back exactly
\* once, so free permits and calls in progress always add up to the pool.
PermitsConserved == permits + Cardinality(TasksIn(Holding)) = PoolSize

\* A checkpoint, in memory or stored, is the sequence number of an event that
\* a durable call with exactly that name, topic and event key has processed:
\* a failed, rejected, panicked or killed call never moves it.
Justified(k, s) ==
  \E t \in TasksIn({"drained"}) :
    Checkpointed(call[t]) /\ CheckpointKey(call[t]) = k /\ call[t].seq = s

CheckpointsJustified ==
  \A k \in CheckpointKeys :
    \A s \in {pending[k], stored[k]} \ {NoCheckpoint} : Justified(k, s)

\* A dead letter comes from a call that then stopped: no event is both dead
\* lettered and acknowledged by one call, and as long as the sink works every
\* failed call has left one with the failed event's coordinates.
DeadLettersExact ==
  /\ \A r \in dlq :
       /\ status[r.task] \in {"rejected", "errored"}
       /\ r = DeadLetter(r.task, r.reason)
       /\ r.reason = "HandlerError" <=> status[r.task] = "errored"
  /\ "dlq" \notin Faults =>
       \A t \in TasksIn({"rejected", "errored"}) : \E r \in dlq : r.task = t

\* Every spawned call comes to an end, however few permits there are: no exit
\* path keeps a permit that the queued calls wait for.
EverySpawnSettles ==
  \A t \in Tasks : (status[t] \in Live) ~> (status[t] \in Settled)

\* "a durable subscription never advances past an event its handler could not
\* process" (dispatch.rs, dispatch_handler): the checkpoint stays below every
\* event a call of that subscription failed on.
NeverAdvancesPastUnprocessed ==
  \A t \in TasksIn({"rejected", "errored"}) :
    Checkpointed(call[t]) => stored[CheckpointKey(call[t])] < call[t].seq

=============================================================================
