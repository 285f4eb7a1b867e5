------------------------------ MODULE Executor ------------------------------
(***************************************************************************)
(* start_executor: one subscription task per (topic, key filter) group of  *)
(* handlers.  The task looks up where to resume, opens its stream and      *)
(* spawns one dispatch_handler call (Dispatch.tla) per matching handler of *)
(* every event it receives.  Executors share the worker pool, coalescer,   *)
(* dead-letter queue and event log of their Photon; several may be started *)
(* one after the other or side by side, before and after a crash.          *)
(***************************************************************************)
EXTENDS Dispatch, HandlerRegistry, Sequences

CONSTANTS
  MaxStarts,  \* bound on calls of start_executor
  FactoryOf   \* the ValenceFactory each of them is given

Executors == 1 .. MaxStarts

ASSUME StartsAssumption == MaxStarts \in Nat /\ FactoryOf \in [Executors -> Factories]
ASSUME CallsAssumption == Tasks = Executors \X Handlers \X Seqs

\* A subscription task: the executor that spawned it and its group.
Subs == Executors \X TopicSubscriptionKeys

\* An event is filed in the log of its topic at its sequence number.
Events == [topic_key : OptKeys, actor_json : ActorJson]

VARIABLES
  log,     \* the published events of each topic
  handle,  \* the ExecutorHandle of each call of start_executor
  sub      \* the local state of each subscription task

executorVars == <<log, handle, sub>>
vars == <<dispatchVars, executorVars>>

HandleStates == {"unstarted", "running", "aborted", "dead"}
Phases == {"unspawned", "lookup", "streaming", "ended"}

\* No stream yet; the end of the log (after_seq is None); a checkpoint.
Origins == {"none", "now", "checkpoint"}

SubStates ==
  [ phase       : Phases,
    todo        : SUBSET Handlers,  \* handlers the current loop still has to visit
    min_cp      : {NoCheckpoint} \cup Seqs,
    all_have_cp : BOOLEAN,
    origin      : Origins,          \* history: what `start` comes from
    start       : 0 .. MaxSeq,      \* delivery starts after it; in "lookup",
                                    \* history: the log's length at the start
    pos         : 0 .. MaxSeq,      \* the last event taken from the stream
    lost        : SUBSET Seqs ]     \* history: events replaced by a stream error

Unspawned ==
  [ phase |-> "unspawned", todo |-> {}, min_cp |-> NoCheckpoint,
    all_have_cp |-> TRUE, origin |-> "none", start |-> 0, pos |-> 0, lost |-> {} ]

----------------------------------------------------------------------------
Group(s)        == s[2]
Topic(s)        == Group(s)[1]
KeyFilter(s)    == Group(s)[2]
GroupHandlers(s) == HandlersForTopicKey(Group(s))
DurableHandlers(s) == {h \in GroupHandlers(s) : IsDurable(Descriptor[h])}

\* The events photon.subscribe(topic, filter, after) delivers, in order.
Streamed(s) ==
  {n \in 1 .. Len(log[Topic(s)]) :
     /\ n > sub[s].pos
     /\ KeyFilter(s) \in {None, log[Topic(s)][n].topic_key}}

NextEvent(s, n) == n \in Streamed(s) /\ \A m \in Streamed(s) : n <= m

\* Mutant: the event's key compared with the filter as if None were a key.
MatchingExactKey(s, n) ==
  {h \in GroupHandlers(s) :
     Descriptor[h].topic_key_filter = log[Topic(s)][n].topic_key}

\* What the handlers of `n` are: the `matches_event` filter of the loop.
Matching(s, n) ==
  {h \in GroupHandlers(s) :
     MatchesEvent(Descriptor[h], Topic(s), log[Topic(s)][n].topic_key)}

\* Mutant: the call is given the stream's key filter for the event's key.
DispatchCallByFilter(s, h) ==
  LET event == log[Topic(s)][sub[s].pos]
  IN  [ factory           |-> FactoryOf[s[1]],
        subscription_name |-> Descriptor[h].subscription_name,
        is_durable        |-> IsDurable(Descriptor[h]),
        topic_name        |-> Topic(s),
        topic_key         |-> KeyFilter(s),
        seq               |-> sub[s].pos,
        actor_json        |-> event.actor_json ]

\* The arguments of one dispatch_handler call of the loop.
DispatchCall(s, h) ==
  LET event == log[Topic(s)][sub[s].pos]
  IN  [ factory           |-> FactoryOf[s[1]],
        subscription_name |-> Descriptor[h].subscription_name,
        is_durable        |-> IsDurable(Descriptor[h]),
        topic_name        |-> Topic(s),
        topic_key         |-> event.topic_key,
        seq               |-> sub[s].pos,
        actor_json        |-> event.actor_json ]

\* A subscription task runs: a step from one await to the next.  One that is
\* being polled when it is aborted goes on for as long as its awaits are ready,
\* and events at hand make `next` ready.  Here any aborted task may, one that
\* was waiting too: more than can happen, never less.
Polled(s, phase) ==
  /\ handle[s[1]] \in {"running", "aborted"}
  /\ sub[s].phase = phase

----------------------------------------------------------------------------
Init ==
  /\ DispatchInit
  /\ log = [topic \in Topics |-> << >>]
  /\ handle = [e \in Executors |-> "unstarted"]
  /\ sub = [s \in Subs |-> Unspawned]

\* A publisher (external) appends an event; log capped at MaxSeq.
Publish(topic, event) ==
  /\ Len(log[topic]) < MaxSeq
  /\ log' = [log EXCEPT ![topic] = Append(@, event)]
  /\ UNCHANGED <<dispatchVars, handle, sub>>

\* after_seq: Some only if there is a durable handler and all have a checkpoint.
Resumes(s) == DurableHandlers(s) # {} /\ sub[s].all_have_cp

\* A subscription task just spawned, and one whose stream starts after `after`.
Started(s) ==
  [ Unspawned EXCEPT !.phase = "lookup", !.todo = DurableHandlers(s),
                     !.start = Len(log[Topic(s)]), !.pos = Len(log[Topic(s)]) ]

Subscribed(s, after) ==
  [ Unspawned EXCEPT !.phase = "streaming",
                     !.origin = IF Resumes(s) THEN "checkpoint" ELSE "now",
                     !.start = after, !.pos = after ]

\* start_executor returns: every group's task is spawned, none has run yet.
StartExecutor(e) ==
  /\ handle[e] = "unstarted"
  /\ \A d \in Executors : d < e => handle[d] # "unstarted"
  /\ handle' = [handle EXCEPT ![e] = "running"]
  /\ sub' = [s \in Subs |->
               IF s[1] = e THEN Started(s) ELSE sub[s]]
  /\ UNCHANGED <<dispatchVars, log>>

\* Mutant: the newest checkpoint of the subscription, whatever its key.
FoundCheckpointOfAnyKey(s, h) ==
  LET name  == Descriptor[h].subscription_name
      found == {stored[<<name, Topic(s), key>>] : key \in OptKeys}
  IN  IF name = None THEN NoCheckpoint
      ELSE CHOOSE cp \in found : \A other \in found : other <= cp

\* Mutant: checkpoints looked up by topic alone.
FoundCheckpointOfTopic(s, h) ==
  LET name == Descriptor[h].subscription_name
  IN  IF name = None THEN NoCheckpoint ELSE stored[<<name, Topic(s), None>>]

\* get_checkpoint_seq, under the stream's key FILTER; a handler without a name
\* has nothing to look up.
FoundCheckpoint(s, h) ==
  LET name == Descriptor[h].subscription_name
  IN  IF name = None THEN NoCheckpoint ELSE stored[<<name, Topic(s), KeyFilter(s)>>]

\* Mutant: the maximum of the checkpoints is kept.
LookupCheckpointMaximum(s, h) ==
  /\ Polled(s, "lookup")
  /\ h \in sub[s].todo
  /\ LET seq == FoundCheckpoint(s, h)
     IN sub' = [sub EXCEPT
          ![s].todo = @ \ {h},
          ![s].all_have_cp = @ /\ seq # NoCheckpoint,
          ![s].min_cp = IF seq > @ THEN seq ELSE @]
  /\ UNCHANGED <<dispatchVars, log, handle>>

\* One turn of the loop of initial_subscription_after_seq: handlers in any
\* order, as the linker left them.  A failed lookup counts as no checkpoint.
LookupCheckpoint(s, h) ==
  /\ Polled(s, "lookup")
  /\ h \in sub[s].todo
  /\ \E seq \in {FoundCheckpoint(s, h)}
                 \cup (IF "lookup" \in Faults THEN {NoCheckpoint} ELSE {}) :
       sub' = [sub EXCEPT
         ![s].todo = @ \ {h},
         ![s].all_have_cp = @ /\ seq # NoCheckpoint,
         ![s].min_cp = IF seq = NoCheckpoint THEN @
                       ELSE IF @ = NoCheckpoint \/ seq < @ THEN seq ELSE @]
  /\ UNCHANGED <<dispatchVars, log, handle>>

\* Mutant: after_seq taken for the first event to deliver.
OpenStreamInclusive(s) ==
  /\ Polled(s, "lookup")
  /\ sub[s].todo = {}
  /\ LET after == IF Resumes(s) THEN sub[s].min_cp + 1 ELSE Len(log[Topic(s)])
     IN sub' = [sub EXCEPT ![s] = Subscribed(s, after)]
  /\ UNCHANGED <<dispatchVars, log, handle>>

\* The end of initial_subscription_after_seq and photon.subscribe: from
\* after_seq, or from what is the end of the log by now.
OpenStream(s) ==
  /\ Polled(s, "lookup")
  /\ sub[s].todo = {}
  /\ LET after == IF Resumes(s) THEN sub[s].min_cp ELSE Len(log[Topic(s)])
     IN sub' = [sub EXCEPT ![s] = Subscribed(s, after)]
  /\ UNCHANGED <<dispatchVars, log, handle>>

\* stream.next() yields Ok(event).
Receive(s, n) ==
  /\ Polled(s, "streaming")
  /\ sub[s].todo = {}
  /\ NextEvent(s, n)
  /\ sub' = [sub EXCEPT ![s].pos = n, ![s].todo = Matching(s, n)]
  /\ UNCHANGED <<dispatchVars, log, handle>>

\* Mutant: the call does not wait for a permit of its own.
SpawnDispatchUnqueued(s, h) ==
  /\ Polled(s, "streaming")
  /\ h \in sub[s].todo
  /\ status' = [status EXCEPT ![<<s[1], h, sub[s].pos>>] = "vetting"]
  /\ call' = [call EXCEPT ![<<s[1], h, sub[s].pos>>] = DispatchCall(s, h)]
  /\ sub' = [sub EXCEPT ![s].todo = @ \ {h}]
  /\ UNCHANGED <<permits, dlq, pending, stored, log, handle>>

\* The body of `for descriptor in &handlers`: tokio::spawn of one call.
SpawnDispatch(s, h) ==
  /\ Polled(s, "streaming")
  /\ h \in sub[s].todo
  /\ Spawn(<<s[1], h, sub[s].pos>>, DispatchCall(s, h))
  /\ sub' = [sub EXCEPT ![s].todo = @ \ {h}]
  /\ UNCHANGED <<log, handle>>

\* stream.next() yields Err in the place of an event: logged, `continue`.
StreamError(s, n) ==
  /\ "stream" \in Faults
  /\ Polled(s, "streaming")
  /\ sub[s].todo = {}
  /\ NextEvent(s, n)
  /\ sub' = [sub EXCEPT ![s].pos = n, ![s].lost = @ \cup {n}]
  /\ UNCHANGED <<dispatchVars, log, handle>>

\* stream.next() yields None: the task returns and nothing starts it again.
StreamEnd(s) ==
  /\ "stream_end" \in Faults
  /\ Polled(s, "streaming")
  /\ sub[s].todo = {}
  /\ sub' = [sub EXCEPT ![s].phase = "ended"]
  /\ UNCHANGED <<dispatchVars, log, handle>>

\* ExecutorHandle::abort, or dropping the handle: the subscription tasks are
\* told to stop; the calls they spawned are not in `join_handles`.
Abort(e) ==
  /\ handle[e] = "running"
  /\ handle' = [handle EXCEPT ![e] = "aborted"]
  /\ UNCHANGED <<dispatchVars, log, sub>>

\* Mutant: the abort is noticed before the stream is open only.
CancelBeforeStreaming(s) ==
  /\ handle[s[1]] = "aborted"
  /\ sub[s].phase = "lookup"
  /\ sub' = [sub EXCEPT ![s].phase = "ended"]
  /\ UNCHANGED <<dispatchVars, log, handle>>

\* An aborted task stops at an await: never between the spawns of one event.
Cancel(s) ==
  /\ handle[s[1]] = "aborted"
  /\ \/ sub[s].phase = "lookup"
     \/ sub[s].phase = "streaming" /\ sub[s].todo = {}
  /\ sub' = [sub EXCEPT ![s].phase = "ended"]
  /\ UNCHANGED <<dispatchVars, log, handle>>

\* The process dies with its executors, at any point; the log stays.
ProcessCrash ==
  /\ Crash
  /\ \E e \in Executors : handle[e] \in {"running", "aborted"}
  /\ handle' = [e \in Executors |->
                  IF handle[e] \in {"running", "aborted"} THEN "dead" ELSE handle[e]]
  /\ sub' = [s \in Subs |->
               IF sub[s].phase \in {"lookup", "streaming"}
               THEN [sub[s] EXCEPT !.phase = "ended"] ELSE sub[s]]
  /\ UNCHANGED log

----------------------------------------------------------------------------
\* What a subscription task does when it is polled.
SubStep(s) ==
  \/ \E h \in Handlers : LookupCheckpoint(s, h)
  \/ OpenStream(s)
  \/ \E n \in Seqs : Receive(s, n)
  \/ \E h \in Handlers : SpawnDispatch(s, h)

SubFault(s) ==
  \/ \E n \in Seqs : StreamError(s, n)
  \/ StreamEnd(s)

Next ==
  \/ \E topic \in Topics, event \in Events : Publish(topic, event)
  \/ \E e \in Executors : StartExecutor(e) \/ Abort(e)
  \/ \E s \in Subs : SubStep(s) \/ SubFault(s) \/ Cancel(s)
  \/ RunningStep /\ UNCHANGED executorVars
  \/ ProcessCrash

Spec == Init /\ [][Next]_vars

\* The runtime polls every task, an aborted one is dropped, handlers return.
\* Publishers, hosts, faults and the coalescer's flush owe nothing.
Fairness ==
  /\ \A t \in Tasks : WF_vars(TaskStep(t) /\ UNCHANGED executorVars)
  /\ \A s \in Subs : WF_vars(SubStep(s)) /\ WF_vars(Cancel(s))

FairSpec == Spec /\ Fairness

----------------------------------------------------------------------------
(* Properties.                                                             *)

\* Types of the executor's variables; positions stay inside the log.
ExecutorTypeOK ==
  /\ log \in [Topics -> Seq(Events)]
  /\ handle \in [Executors -> HandleStates]
  /\ sub \in [Subs -> SubStates]
  /\ \A s \in Subs :
       /\ sub[s].start <= sub[s].pos /\ sub[s].pos <= Len(log[Topic(s)])
       /\ sub[s].phase = "unspawned" <=> handle[s[1]] = "unstarted"

SubOf(e, h) == <<e, TopicKey(h)>>
EventAt(h, n) == log[Descriptor[h].topic_name][n]
Carries(h, n) ==
  /\ n \in 1 .. Len(log[Descriptor[h].topic_name])
  /\ h \in HandlersForEvent(Descriptor[h].topic_name, EventAt(h, n).topic_key)

\* The stream of h's group has handed event n over, and the loop over the
\* group's handlers has come past h.
HandedOver(e, h, n) ==
  LET s == SubOf(e, h)
  IN  /\ sub[s].start < n /\ n <= sub[s].pos
      /\ n \notin sub[s].lost
      /\ ~(n = sub[s].pos /\ h \in sub[s].todo)

\* Grouping and filtering lose and add nothing: an executor has spawned a call
\* for handler h and event n exactly if the registry says h handles n and its
\* group's stream has got there; the call carries that event, h's own name and
\* durability and this executor's factory.
DispatchedExactly ==
  \A e \in Executors, h \in Handlers, n \in Seqs :
    /\ status[<<e, h, n>>] # "none" <=> Carries(h, n) /\ HandedOver(e, h, n)
    /\ status[<<e, h, n>>] # "none" =>
         call[<<e, h, n>>] =
           [ factory           |-> FactoryOf[e],
             subscription_name |-> Descriptor[h].subscription_name,
             is_durable        |-> IsDurable(Descriptor[h]),
             topic_name        |-> Descriptor[h].topic_name,
             topic_key         |-> EventAt(h, n).topic_key,
             seq               |-> n,
             actor_json        |-> EventAt(h, n).actor_json ]

EverSpawned(h, n) == \E e \in Executors : status[<<e, h, n>>] # "none"

\* A stream error took event n, or a stream of h's group that started from
\* "now" started behind it.
GivenUp(h, n) ==
  \E e \in Executors :
    LET s == SubOf(e, h)
    IN  n \in sub[s].lost \/ (sub[s].origin = "now" /\ n <= sub[s].start)

\* The handlers that keep their checkpoints under the same name and topic as h.
SameSubscription(h) ==
  {g \in Handlers : /\ Descriptor[g].subscription_name = Descriptor[h].subscription_name
                    /\ Descriptor[g].topic_name = Descriptor[h].topic_name}

\* "so no durable handler misses events" (initial_seq.rs): a stream resumed at
\* the group's minimum checkpoint never jumps over an event for a durable
\* handler that no executor has ever dispatched to its subscription, wherever
\* the earlier executors were stopped or crashed, while others still run, and
\* whichever handlers of other groups share that subscription.
ResumeSkipsOnlyDispatched ==
  \A s \in Subs :
    sub[s].origin = "checkpoint" =>
      \A h \in DurableHandlers(s), n \in 1 .. sub[s].start :
        Carries(h, n) =>
          \E g \in SameSubscription(h) : EverSpawned(g, n) \/ GivenUp(g, n)

\* A stream resumes behind the checkpoint of each of its durable handlers, and
\* stays so while they advance during and after the lookups.  It needs a
\* coalescer that never moves a checkpoint back.
ResumeWithinEveryCheckpoint ==
  MergeModes = {"max"} =>
    \A s \in Subs :
      sub[s].origin = "checkpoint" =>
        \A h \in DurableHandlers(s) :
          /\ Descriptor[h].subscription_name # None
          /\ sub[s].start <=
               stored[<<Descriptor[h].subscription_name, Topic(s), KeyFilter(s)>>]

\* A resumed stream starts behind an event that was really processed: a call with
\* the subscription, topic and key of one of its durable handlers has handed
\* that very event to the coalescer.  No flush, merge, crash or failed lookup in
\* between makes the position up, 0 (the whole log again) least of all.
ResumePointWasProcessed ==
  \A s \in Subs :
    sub[s].origin = "checkpoint" =>
      \E h \in DurableHandlers(s) :
        Justified(<<Descriptor[h].subscription_name, Topic(s), KeyFilter(s)>>, sub[s].start)

\* What was processed is found again: of an event with the key its handler
\* filters on (every event of a handler with a filter), the coalescer still holds
\* the checkpoint, or a later one, or a lookup of the handler reads it, until the
\* process crashes.  It needs a coalescer that never moves a checkpoint back.
ProcessedIsRemembered ==
  MergeModes = {"max"} =>
    \A e \in Executors, h \in Handlers, n \in Seqs :
      LET s == SubOf(e, h)
      IN  /\ handle[e] # "dead" /\ status[<<e, h, n>>] = "drained"
          /\ EventAt(h, n).topic_key = KeyFilter(s)
          => \/ n <= FoundCheckpoint(s, h)
             \/ n <= pending[<<Descriptor[h].subscription_name, Topic(s), KeyFilter(s)>>]

\* A running executor delivers: an event behind the start of an open stream is
\* dispatched to each of its handlers, unless the stream fails or is stopped.
DeliveredEventually ==
  \A e \in Executors, h \in Handlers, n \in Seqs :
    LET s == SubOf(e, h)
    IN  (sub[s].phase = "streaming" /\ sub[s].start < n /\ Carries(h, n))
        ~> (status[<<e, h, n>>] # "none" \/ n \in sub[s].lost \/ sub[s].phase = "ended")

SubsEnded(e) == \A s \in Subs : s[1] = e => sub[s].phase = "ended"
Quiet(e) ==
  /\ SubsEnded(e)
  /\ \A h \in Handlers, n \in Seqs : status[<<e, h, n>>] \notin Live

\* An aborted executor comes to rest: its subscription tasks end, the calls
\* they had spawned finish, and nothing of it ever runs again.
AbortQuiesces ==
  \A e \in Executors : (handle[e] = "aborted") ~> [](handle[e] # "running" /\ Quiet(e))

----------------------------------------------------------------------------
(* What the documentation says and the code does not do.                   *)

\* "Dropping `handle` (or calling `handle.abort()`) stops all handler
\* dispatch" (executor/mod.rs): once the subscription tasks of an aborted
\* executor have ended, no handler is started any more.
AbortStopsDispatch ==
  [][\A t \in Tasks :
       (status[t] # "running" /\ status'[t] = "running") =>
         ~(handle[t[1]] = "aborted" /\ SubsEnded(t[1]))]_vars

\* "so no durable handler misses events it hasn't yet processed"
\* (initial_seq.rs): what a resumed stream jumps over is in some executor's
\* hands still, or its handler has returned for it: it was not cut off by a
\* crash or a panic.
ResumeSkipsOnlyProcessed ==
  \A s \in Subs :
    (sub[s].phase = "streaming" /\ sub[s].origin = "checkpoint") =>
      \A h \in DurableHandlers(s), n \in 1 .. sub[s].start :
        Carries(h, n) =>
          GivenUp(h, n) \/ \E e \in Executors :
            status[<<e, h, n>>] \notin {"none", "killed", "panicked"}

\* "Each task replays from the group's minimum durable checkpoint"
\* (executor/mod.rs): looking up a handler that has a checkpoint for an event
\* of the group's stream finds one.
HasCheckpoint(h) ==
  \E key \in OptKeys :
    stored[<<Descriptor[h].subscription_name, Descriptor[h].topic_name, key>>] # NoCheckpoint

LookupFindsCheckpoint ==
  [][\A s \in Subs :
       \A h \in sub[s].todo \ sub'[s].todo :
         (sub[s].phase = "lookup" /\ sub'[s].phase = "lookup" /\ HasCheckpoint(h))
         => sub'[s].all_have_cp = sub[s].all_have_cp]_vars

\* "the stream then starts from "now" rather than risking a gap"
\* (initial_seq.rs): after a crash of everything before, starting without a
\* checkpoint leaves no gap behind the checkpoint a durable handler does have.
FreshStartLeavesNoGap ==
  \A s \in Subs :
    (/\ sub[s].phase = "streaming" /\ sub[s].origin = "now"
     /\ \A e \in Executors \ {s[1]} : handle[e] = "dead") =>
      \A h \in DurableHandlers(s), n \in 1 .. sub[s].start :
        LET cp == stored[<<Descriptor[h].subscription_name, Topic(s), KeyFilter(s)>>]
        IN  cp # NoCheckpoint /\ cp < n /\ Carries(h, n) => EverSpawned(h, n)

\* "handlers begin dispatching immediately" (runtime.rs): an event published
\* after start_executor returned is behind the start of every fresh stream.
StartedMeansListening ==
  [][\A s \in Subs :
       (sub[s].origin = "none" /\ sub'[s].origin = "now")
       => sub'[s].start <= sub[s].start]_vars

=============================================================================
