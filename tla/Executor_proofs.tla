-------------------------- MODULE Executor_proofs --------------------------
(***************************************************************************)
(* The executor keeps its types and uses dispatch_handler and the shared   *)
(* services only as Dispatch.tla allows, for every set of handlers, topics *)
(* and keys and every number of executors and events.                      *)
(***************************************************************************)
EXTENDS Executor, Dispatch_proofs, SequenceTheorems

----------------------------------------------------------------------------
(* The constants.                                                          *)

LEMMA SubFacts ==
  ASSUME NEW s \in Subs
  PROVE  /\ s[1] \in Executors /\ Topic(s) \in Topics /\ KeyFilter(s) \in OptKeys
         /\ GroupHandlers(s) \subseteq Handlers
         /\ DurableHandlers(s) \subseteq GroupHandlers(s)
<1>1. s[1] \in Executors /\ s[2] \in TopicSubscriptionKeys
  BY DEF Subs
<1>2. PICK h \in Handlers : s[2] = TopicKey(h)
  BY <1>1 DEF TopicSubscriptionKeys
<1>3. Descriptor[h].topic_name \in Topics /\ Descriptor[h].topic_key_filter \in OptKeys
  BY DescriptorAssumption DEF HandlerDescriptors
<1> QED
  BY <1>1, <1>2, <1>3
  DEF Topic, KeyFilter, Group, TopicKey, GroupHandlers, DurableHandlers, HandlersForTopicKey

LEMMA HandlerFacts ==
  ASSUME NEW h \in Handlers
  PROVE  /\ Descriptor[h].subscription_name \in OptSubNames
         /\ Descriptor[h].topic_name \in Topics
BY DescriptorAssumption DEF HandlerDescriptors

----------------------------------------------------------------------------
(* The inductive invariant.                                                *)

LogOK ==
  /\ log \in [Topics -> Seq(Events)]
  /\ \A topic \in Topics : Len(log[topic]) <= MaxSeq

\* Positions and checkpoints looked up stay inside the log, and a fan-out in
\* progress is at an event behind the start.
SubOK(s) ==
  /\ sub[s].start <= sub[s].pos
  /\ sub[s].pos <= Len(log[Topic(s)])
  /\ sub[s].min_cp <= Len(log[Topic(s)])
  /\ sub[s].phase = "streaming" /\ sub[s].todo # {} => sub[s].start < sub[s].pos
  /\ sub[s].phase = "unspawned" <=> handle[s[1]] = "unstarted"

\* A call is for an event of the log.
CallsLogged ==
  \A t \in Tasks :
    status[t] # "none" => call[t].seq <= Len(log[call[t].topic_name])

ExecInv ==
  /\ LogOK
  /\ handle \in [Executors -> HandleStates]
  /\ sub \in [Subs -> SubStates]
  /\ \A s \in Subs : SubOK(s)
  /\ CallsLogged

DispatchInv == DispatchTypeOK /\ PermitsConserved /\ CheckpointInv

LEMMA DispatchInvStep ==
  DispatchInv /\ [DispatchNext]_dispatchVars => DispatchInv'
<1> SUFFICES ASSUME DispatchInv, [DispatchNext]_dispatchVars PROVE DispatchInv'
  OBVIOUS
<1>1. PermitsInv'
  BY PermitsInvStep DEF DispatchInv, PermitsInv
<1>2. CASE DispatchNext
  BY <1>1, <1>2, RecordingStep, JustifiedStep DEF DispatchInv, PermitsInv, CheckpointInv
<1>3. CASE UNCHANGED dispatchVars
  BY <1>1, <1>3 DEF DispatchInv, PermitsInv, CheckpointInv, CheckpointsJustified,
     RecordingCheckpointed, Justified, TasksIn, dispatchVars
<1> QED
  BY <1>2, <1>3

LEMMA InitExecInv == Init => ExecInv /\ DispatchInv
<1> SUFFICES ASSUME Init PROVE ExecInv /\ DispatchInv
  OBVIOUS
<1>1. DispatchInv
  BY InitPermits, InitCheckpoints DEF Init, DispatchInv, PermitsInv
<1>2. LogOK
  BY EmptySeq, SeqAssumption DEF Init, LogOK
<1>3. Unspawned \in SubStates
  BY SeqAssumption DEF Unspawned, SubStates, Phases, Origins, NoCheckpoint
<1>4. sub \in [Subs -> SubStates] /\ handle \in [Executors -> HandleStates]
  BY <1>3 DEF Init, HandleStates
<1>5. \A s \in Subs : SubOK(s)
  <2> TAKE s \in Subs
  <2>1. s[1] \in Executors /\ Topic(s) \in Topics
    BY SubFacts
  <2>2. sub[s] = Unspawned /\ handle[s[1]] = "unstarted" /\ Len(log[Topic(s)]) = 0
    BY <2>1 DEF Init
  <2> QED
    BY <2>2 DEF SubOK, Unspawned, NoCheckpoint
<1>6. CallsLogged
  BY DEF Init, DispatchInit, CallsLogged
<1> QED
  BY <1>1, <1>2, <1>4, <1>5, <1>6 DEF ExecInv

\* Every checkpoint in the store is within its topic's log.
LEMMA CheckpointInLog ==
  ASSUME ExecInv, DispatchInv, NEW k \in CheckpointKeys
  PROVE  stored[k] \in {NoCheckpoint} \cup Seqs /\ stored[k] <= Len(log[k[2]])
<1>1. k[2] \in Topics
  BY DEF CheckpointKeys
<1>2. Len(log[k[2]]) \in Nat
  BY <1>1, LenProperties DEF ExecInv, LogOK
<1>3. stored[k] \in {NoCheckpoint} \cup Seqs
  BY DEF DispatchInv, DispatchTypeOK, Checkpoints
<1>4. CASE stored[k] = NoCheckpoint
  BY <1>2, <1>3, <1>4 DEF NoCheckpoint
<1>5. CASE stored[k] # NoCheckpoint
  <2>1. PICK t \in Tasks : /\ status[t] = "drained"
                           /\ CheckpointKey(call[t]) = k /\ call[t].seq = stored[k]
    BY <1>5 DEF DispatchInv, CheckpointInv, CheckpointsJustified, Justified, TasksIn
  <2> QED
    BY <1>3, <2>1 DEF ExecInv, CallsLogged, CheckpointKey
<1> QED
  BY <1>4, <1>5

----------------------------------------------------------------------------
(* Every executor step is a step of Dispatch or leaves it alone.           *)

LEMMA SpawnedCall ==
  ASSUME ExecInv, NEW s \in Subs, NEW h \in Handlers, SpawnDispatch(s, h)
  PROVE  /\ <<s[1], h, sub[s].pos>> \in Tasks
         /\ DispatchCall(s, h) \in Calls
         /\ sub[s].pos <= Len(log[Topic(s)])
<1>1. s[1] \in Executors /\ Topic(s) \in Topics
  BY SubFacts
<1>2. sub[s] \in SubStates /\ SubOK(s) /\ sub[s].phase = "streaming" /\ sub[s].todo # {}
  BY DEF ExecInv, SpawnDispatch, Polled
<1>3. sub[s].pos \in Seqs /\ sub[s].pos <= Len(log[Topic(s)])
  BY <1>2, SeqAssumption DEF SubStates, SubOK, Seqs
<1>4. log[Topic(s)] \in Seq(Events)
  BY <1>1 DEF ExecInv, LogOK
<1>5. log[Topic(s)][sub[s].pos] \in Events
  BY <1>3, <1>4, ElementOfSeq, SeqAssumption DEF Seqs
<1>6. DispatchCall(s, h) \in Calls
  BY <1>1, <1>3, <1>5, HandlerFacts, StartsAssumption
  DEF DispatchCall, Calls, Events, IsDurable
<1> QED
  BY <1>1, <1>3, <1>6, CallsAssumption

LEMMA StepSimulation ==
  ExecInv /\ [Next]_vars => [DispatchNext]_dispatchVars
<1> SUFFICES ASSUME ExecInv, [Next]_vars PROVE [DispatchNext]_dispatchVars
  OBVIOUS
<1>1. CASE \E topic \in Topics, event \in Events : Publish(topic, event)
  BY <1>1 DEF Publish
<1>2. CASE \E e \in Executors : StartExecutor(e) \/ Abort(e)
  BY <1>2 DEF StartExecutor, Abort
<1>3. ASSUME NEW s \in Subs, SubStep(s)
      PROVE  [DispatchNext]_dispatchVars
  <2>1. ASSUME NEW h \in Handlers, SpawnDispatch(s, h)
        PROVE  DispatchNext
    BY <2>1, SpawnedCall DEF SpawnDispatch, DispatchNext
  <2> QED
    BY <1>3, <2>1 DEF SubStep, LookupCheckpoint, OpenStream, Receive
<1>4. ASSUME NEW s \in Subs, SubFault(s) \/ Cancel(s)
      PROVE  [DispatchNext]_dispatchVars
  BY <1>4 DEF SubFault, StreamError, StreamEnd, Cancel
<1>5. CASE RunningStep \/ ProcessCrash
  BY <1>5 DEF ProcessCrash, DispatchNext
<1>6. CASE UNCHANGED vars
  BY <1>6 DEF vars
<1> QED
  BY <1>1, <1>2, <1>3, <1>4, <1>5, <1>6 DEF Next

----------------------------------------------------------------------------
(* The executor's own variables.                                           *)

\* An action on one subscription task that leaves logs and handles alone.
LEMMA SubUpdate ==
  ASSUME ExecInv, NEW s \in Subs, NEW r \in SubStates,
         sub' = [sub EXCEPT ![s] = r], log' = log, handle' = handle,
         r.start <= r.pos, r.pos <= Len(log[Topic(s)]),
         r.min_cp <= Len(log[Topic(s)]),
         r.phase = "streaming" /\ r.todo # {} => r.start < r.pos,
         r.phase # "unspawned", sub[s].phase # "unspawned"
  PROVE  sub' \in [Subs -> SubStates] /\ \A u \in Subs : SubOK(u)'
<1>1. sub' \in [Subs -> SubStates]
  BY DEF ExecInv
<1>2. SubOK(s)'
  <2>1. sub'[s] = r
    BY DEF ExecInv
  <2> QED
    BY <2>1 DEF ExecInv, SubOK, Topic, Group
<1>3. ASSUME NEW u \in Subs, u # s
      PROVE  SubOK(u)'
  <2>1. sub'[u] = sub[u]
    BY <1>3 DEF ExecInv
  <2> QED
    BY <2>1 DEF ExecInv, SubOK, Topic, Group
<1> QED
  BY <1>1, <1>2, <1>3

\* What ExecInv says of one subscription task.
LEMMA SubTypes ==
  ASSUME ExecInv, NEW s \in Subs
  PROVE  /\ sub[s] \in SubStates
         /\ SubOK(s)
         /\ Topic(s) \in Topics
         /\ log[Topic(s)] \in Seq(Events)
         /\ Len(log[Topic(s)]) \in 0 .. MaxSeq
<1>1. Topic(s) \in Topics
  BY SubFacts
<1>2. log[Topic(s)] \in Seq(Events) /\ Len(log[Topic(s)]) <= MaxSeq
  BY <1>1 DEF ExecInv, LogOK
<1>3. Len(log[Topic(s)]) \in Nat
  BY <1>2, LenProperties
<1> QED
  BY <1>1, <1>2, <1>3, SeqAssumption DEF ExecInv

\* The handles and tasks' own part of ExecInv.
SubsOK == sub \in [Subs -> SubStates] /\ \A s \in Subs : SubOK(s)

LEMMA LookupStep ==
  ASSUME ExecInv, DispatchInv, NEW s \in Subs, NEW h \in Handlers, LookupCheckpoint(s, h)
  PROVE  SubsOK'
<1>1. /\ sub[s] \in SubStates /\ SubOK(s) /\ Topic(s) \in Topics
      /\ Len(log[Topic(s)]) \in 0 .. MaxSeq
  BY SubTypes
<1> DEFINE name == Descriptor[h].subscription_name
           found == FoundCheckpoint(s, h)
<1>2. found \in {NoCheckpoint} \cup Seqs /\ found <= Len(log[Topic(s)])
  <2>1. CASE name = None
    BY <2>1, <1>1, SeqAssumption DEF NoCheckpoint, FoundCheckpoint
  <2>2. CASE name # None
    <3> DEFINE k == <<name, Topic(s), KeyFilter(s)>>
    <3>1. name \in SubNames
      BY <2>2, HandlerFacts DEF OptSubNames
    <3>2. k \in CheckpointKeys
      BY <3>1, SubFacts DEF CheckpointKeys
    <3>3. stored[k] \in {NoCheckpoint} \cup Seqs /\ stored[k] <= Len(log[k[2]])
      BY <3>2, CheckpointInLog
    <3> QED
      BY <2>2, <3>3 DEF FoundCheckpoint
  <2> QED
    BY <2>1, <2>2
<1>3. PICK seq \in {found, NoCheckpoint} :
        sub' = [sub EXCEPT
          ![s].todo = @ \ {h},
          ![s].all_have_cp = @ /\ seq # NoCheckpoint,
          ![s].min_cp = IF seq = NoCheckpoint THEN @
                        ELSE IF @ = NoCheckpoint \/ seq < @ THEN seq ELSE @]
  BY DEF LookupCheckpoint
<1>4. seq \in {NoCheckpoint} \cup Seqs /\ seq <= Len(log[Topic(s)])
  BY <1>1, <1>2, <1>3, SeqAssumption DEF NoCheckpoint
<1> DEFINE cp == IF seq = NoCheckpoint THEN sub[s].min_cp
                 ELSE IF sub[s].min_cp = NoCheckpoint \/ seq < sub[s].min_cp
                      THEN seq ELSE sub[s].min_cp
           r == [ sub[s] EXCEPT !.todo = @ \ {h},
                                !.all_have_cp = @ /\ seq # NoCheckpoint,
                                !.min_cp = cp ]
<1>5. cp \in {NoCheckpoint} \cup Seqs /\ cp <= Len(log[Topic(s)])
  BY <1>1, <1>4 DEF SubStates, SubOK
<1>6. sub' = [sub EXCEPT ![s] = r]
  BY <1>3 DEF ExecInv
<1>7. sub[s].phase = "lookup" /\ log' = log /\ handle' = handle
  BY DEF LookupCheckpoint, Polled
<1>8. r \in SubStates
  BY <1>1, <1>5 DEF SubStates
<1>9. /\ r.phase = "lookup" /\ r.start = sub[s].start /\ r.pos = sub[s].pos
      /\ r.min_cp = cp
  BY <1>1, <1>7 DEF SubStates
<1> HIDE DEF r, cp
<1> QED
  BY <1>1, <1>5, <1>6, <1>7, <1>8, <1>9, SubUpdate DEF SubsOK, SubOK

LEMMA OpenStep ==
  ASSUME ExecInv, NEW s \in Subs, OpenStream(s)
  PROVE  SubsOK'
<1>1. /\ sub[s] \in SubStates /\ SubOK(s)
      /\ Len(log[Topic(s)]) \in 0 .. MaxSeq
  BY SubTypes
<1> DEFINE after == IF Resumes(s) THEN sub[s].min_cp ELSE Len(log[Topic(s)])
           r == Subscribed(s, after)
<1>2. sub' = [sub EXCEPT ![s] = r] /\ log' = log /\ handle' = handle
  BY DEF OpenStream
<1>3. sub[s].phase = "lookup"
  BY DEF OpenStream, Polled
<1>4. after \in 0 .. MaxSeq /\ after <= Len(log[Topic(s)])
  BY <1>1, SeqAssumption DEF SubStates, SubOK, Seqs, NoCheckpoint
<1>5. (IF Resumes(s) THEN "checkpoint" ELSE "now") \in Origins
  BY DEF Origins
<1> HIDE DEF after
<1>6. /\ r \in SubStates /\ r.phase = "streaming" /\ r.todo = {}
      /\ r.start = after /\ r.pos = after /\ r.min_cp = 0
  BY <1>4, <1>5 DEF Subscribed, SubStates, Unspawned, Phases, NoCheckpoint
<1> HIDE DEF r
<1>7. /\ r.start <= r.pos /\ r.pos <= Len(log[Topic(s)])
      /\ r.min_cp <= Len(log[Topic(s)])
  BY <1>1, <1>4, <1>6
<1> QED
  BY <1>2, <1>3, <1>6, <1>7, SubUpdate DEF SubsOK

\* The position moves to the next event, whatever becomes of it.
LEMMA AdvanceStep ==
  ASSUME ExecInv, NEW s \in Subs, NEW n \in Seqs,
         Receive(s, n) \/ StreamError(s, n)
  PROVE  SubsOK'
<1>1. sub[s] \in SubStates /\ SubOK(s) /\ Len(log[Topic(s)]) \in 0 .. MaxSeq
  BY SubTypes
<1>2. /\ n > sub[s].pos /\ n <= Len(log[Topic(s)]) /\ sub[s].phase = "streaming"
      /\ log' = log /\ handle' = handle
  BY <1>1 DEF Receive, StreamError, NextEvent, Streamed, Polled
<1>3. PICK todo \in SUBSET Handlers, lost \in SUBSET Seqs :
        sub' = [sub EXCEPT ![s].pos = n, ![s].todo = todo, ![s].lost = lost]
  <2>1. CASE Receive(s, n)
    <3>1. Matching(s, n) \in SUBSET Handlers
      BY SubFacts DEF Matching
    <3>2. sub' = [sub EXCEPT ![s].pos = n, ![s].todo = Matching(s, n),
                             ![s].lost = sub[s].lost]
      BY <2>1, <1>1 DEF Receive, ExecInv, SubStates
    <3> QED
      BY <1>1, <3>1, <3>2 DEF SubStates
  <2>2. CASE StreamError(s, n)
    <3>1. sub' = [sub EXCEPT ![s].pos = n, ![s].todo = sub[s].todo,
                             ![s].lost = sub[s].lost \cup {n}]
      BY <2>2, <1>1 DEF StreamError, ExecInv, SubStates
    <3> QED
      BY <1>1, <3>1 DEF SubStates
  <2> QED
    BY <2>1, <2>2
<1> DEFINE r == [sub[s] EXCEPT !.pos = n, !.todo = todo, !.lost = lost]
<1>4. sub' = [sub EXCEPT ![s] = r]
  BY <1>3 DEF ExecInv
<1>5. n \in 0 .. MaxSeq /\ todo \in SUBSET Handlers /\ lost \in SUBSET Seqs
  BY SeqAssumption DEF Seqs
<1>6. r \in SubStates
  BY <1>1, <1>5 DEF SubStates
<1>7. /\ r.pos = n /\ r.start = sub[s].start
      /\ r.min_cp = sub[s].min_cp /\ r.phase = "streaming"
  BY <1>1, <1>2 DEF SubStates
<1> HIDE DEF r
<1>8. /\ r.start < r.pos /\ r.start <= r.pos /\ r.pos <= Len(log[Topic(s)])
      /\ r.min_cp <= Len(log[Topic(s)])
  BY <1>1, <1>2, <1>7 DEF SubStates, SubOK, Seqs
<1> QED
  BY <1>2, <1>4, <1>6, <1>7, <1>8, SubUpdate DEF SubsOK

\* A step that only empties `todo` or ends the task.
LEMMA ShrinkStep ==
  ASSUME ExecInv, NEW s \in Subs, NEW todo \in SUBSET sub[s].todo,
         NEW phase \in {sub[s].phase, "ended"}, sub[s].phase # "unspawned",
         log' = log, handle' = handle,
         sub' = [sub EXCEPT ![s] = [sub[s] EXCEPT !.todo = todo, !.phase = phase]]
  PROVE  SubsOK'
<1>1. sub[s] \in SubStates /\ SubOK(s)
  BY SubTypes
<1> DEFINE r == [sub[s] EXCEPT !.todo = todo, !.phase = phase]
<1>2. /\ r \in SubStates /\ r.pos = sub[s].pos /\ r.start = sub[s].start
      /\ r.min_cp = sub[s].min_cp /\ r.phase = phase /\ r.todo = todo
  BY <1>1 DEF SubStates, Phases
<1> HIDE DEF r
<1> QED
  BY <1>1, <1>2, SubUpdate DEF SubsOK, SubOK, r

\* Nothing moves in the executor.
LEMMA SubsUnchanged ==
  ExecInv /\ UNCHANGED executorVars => LogOK' /\ SubsOK' /\ handle' \in [Executors -> HandleStates]
BY DEF ExecInv, LogOK, SubsOK, SubOK, Topic, Group, executorVars

LEMMA PublishStep ==
  ASSUME ExecInv, NEW topic \in Topics, NEW event \in Events, Publish(topic, event)
  PROVE  /\ LogOK' /\ SubsOK'
         /\ \A u \in Topics : Len(log[u]) \in Nat /\ Len(log[u]) <= Len(log'[u])
<1>1. \A u \in Topics : log[u] \in Seq(Events) /\ Len(log[u]) \in Nat
  BY LenProperties DEF ExecInv, LogOK
<1>2. /\ Append(log[topic], event) \in Seq(Events)
      /\ Len(Append(log[topic], event)) = Len(log[topic]) + 1
  BY <1>1, AppendProperties
<1>3. log' = [log EXCEPT ![topic] = Append(log[topic], event)]
      /\ Len(log[topic]) < MaxSeq /\ sub' = sub /\ handle' = handle
  BY DEF Publish
<1>4. \A u \in Topics : log'[u] = IF u = topic THEN Append(log[topic], event) ELSE log[u]
  BY <1>3 DEF ExecInv, LogOK
<1>5. \A u \in Topics : /\ Len(log'[u]) \in Nat /\ Len(log[u]) <= Len(log'[u])
                        /\ Len(log'[u]) <= MaxSeq
  BY <1>1, <1>2, <1>3, <1>4, SeqAssumption DEF ExecInv, LogOK
<1>6. LogOK'
  BY <1>2, <1>3, <1>5 DEF ExecInv, LogOK
<1>7. ASSUME NEW s \in Subs
      PROVE  SubOK(s)'
  <2>1. sub[s] \in SubStates /\ SubOK(s) /\ Topic(s) \in Topics
    BY SubTypes
  <2>2. sub[s].pos \in Int /\ sub[s].min_cp \in Int
    BY <2>1, SeqAssumption DEF SubStates, Seqs, NoCheckpoint
  <2>3. Len(log[Topic(s)]) \in Nat /\ Len(log'[Topic(s)]) \in Nat
        /\ Len(log[Topic(s)]) <= Len(log'[Topic(s)])
    BY <1>1, <1>5, <2>1
  <2> QED
    BY <1>3, <2>1, <2>2, <2>3 DEF SubOK, Topic, Group
<1> QED
  BY <1>1, <1>3, <1>5, <1>6, <1>7 DEF SubsOK, ExecInv

LEMMA StartStep ==
  ASSUME ExecInv, NEW e \in Executors, StartExecutor(e)
  PROVE  SubsOK' /\ handle' \in [Executors -> HandleStates]
<1>1. handle' = [handle EXCEPT ![e] = "running"] /\ handle[e] = "unstarted" /\ log' = log
  BY DEF StartExecutor
<1>2. handle' \in [Executors -> HandleStates]
  BY <1>1 DEF ExecInv, HandleStates
<1>3. ASSUME NEW s \in Subs
      PROVE  sub'[s] \in SubStates /\ SubOK(s)'
  <2>1. /\ sub[s] \in SubStates /\ SubOK(s) /\ Len(log[Topic(s)]) \in 0 .. MaxSeq
        /\ s[1] \in Executors
    BY SubTypes, SubFacts
  <2>2. CASE s[1] = e
    <3> DEFINE r == Started(s)
    <3>1. sub'[s] = r
      BY <2>2 DEF StartExecutor
    <3>2. DurableHandlers(s) \in SUBSET Handlers
      BY SubFacts
    <3>3. /\ r \in SubStates /\ r.phase = "lookup" /\ r.min_cp = 0
          /\ r.start = Len(log[Topic(s)]) /\ r.pos = Len(log[Topic(s)])
      BY <2>1, <3>2 DEF Started, Unspawned, SubStates, Phases, Origins, NoCheckpoint
    <3>4. handle'[s[1]] = "running"
      BY <1>1, <2>1, <2>2 DEF ExecInv
    <3> HIDE DEF r
    <3> QED
      BY <1>1, <2>1, <3>1, <3>3, <3>4 DEF SubOK, Topic, Group
  <2>3. CASE s[1] # e
    <3>1. sub'[s] = sub[s] /\ handle'[s[1]] = handle[s[1]]
      BY <1>1, <2>1, <2>3 DEF StartExecutor, ExecInv
    <3> QED
      BY <1>1, <2>1, <3>1 DEF SubOK, Topic, Group
  <2> QED
    BY <2>2, <2>3
<1>4. sub' \in [Subs -> SubStates]
  <2>1. sub' = [s \in Subs |-> sub'[s]]
    BY DEF StartExecutor
  <2> QED
    BY <1>3, <2>1
<1> QED
  BY <1>2, <1>3, <1>4 DEF SubsOK

LEMMA AbortStep ==
  ASSUME ExecInv, NEW e \in Executors, Abort(e)
  PROVE  SubsOK' /\ handle' \in [Executors -> HandleStates]
<1>1. /\ handle' = [handle EXCEPT ![e] = "aborted"] /\ handle[e] = "running"
      /\ log' = log /\ sub' = sub
  BY DEF Abort
<1>2. handle' \in [Executors -> HandleStates]
  BY <1>1 DEF ExecInv, HandleStates
<1>3. \A d \in Executors : handle'[d] = "unstarted" <=> handle[d] = "unstarted"
  BY <1>1 DEF ExecInv
<1>4. \A s \in Subs : SubOK(s)'
  BY <1>1, <1>3, SubFacts DEF ExecInv, SubOK, Topic, Group
<1> QED
  BY <1>1, <1>2, <1>4 DEF SubsOK, ExecInv

LEMMA CrashStep ==
  ASSUME ExecInv, ProcessCrash
  PROVE  SubsOK' /\ handle' \in [Executors -> HandleStates]
<1>1. handle' \in [Executors -> HandleStates]
  BY DEF ExecInv, ProcessCrash, HandleStates
<1>2. \A d \in Executors : handle'[d] = "unstarted" <=> handle[d] = "unstarted"
  BY DEF ExecInv, ProcessCrash
<1>3. ASSUME NEW s \in Subs
      PROVE  sub'[s] \in SubStates /\ SubOK(s)'
  <2>1. sub[s] \in SubStates /\ SubOK(s) /\ s[1] \in Executors
    BY SubTypes, SubFacts
  <2>2. CASE sub[s].phase \in {"lookup", "streaming"}
    <3> DEFINE r == [sub[s] EXCEPT !.phase = "ended"]
    <3>1. sub'[s] = r
      BY <2>2 DEF ProcessCrash
    <3>2. /\ r \in SubStates /\ r.phase = "ended" /\ r.start = sub[s].start
          /\ r.pos = sub[s].pos /\ r.min_cp = sub[s].min_cp
      BY <2>1 DEF SubStates, Phases
    <3> HIDE DEF r
    <3> QED
      BY <1>2, <2>1, <2>2, <3>1, <3>2 DEF ProcessCrash, SubOK, Topic, Group
  <2>3. CASE sub[s].phase \notin {"lookup", "streaming"}
    <3>1. sub'[s] = sub[s]
      BY <2>3 DEF ProcessCrash
    <3> QED
      BY <1>2, <2>1, <3>1 DEF ProcessCrash, SubOK, Topic, Group
  <2> QED
    BY <2>2, <2>3
<1>4. sub' \in [Subs -> SubStates]
  <2>1. sub' = [s \in Subs |-> sub'[s]]
    BY DEF ProcessCrash
  <2> QED
    BY <1>3, <2>1
<1> QED
  BY <1>1, <1>3, <1>4 DEF SubsOK

LEMMA SpawnStep ==
  ASSUME ExecInv, NEW s \in Subs, NEW h \in Handlers, SpawnDispatch(s, h)
  PROVE  SubsOK'
<1>1. sub[s] \in SubStates
  BY SubTypes
<1>2. sub' = [sub EXCEPT ![s] = [sub[s] EXCEPT !.todo = sub[s].todo \ {h},
                                               !.phase = sub[s].phase]]
  BY <1>1 DEF SpawnDispatch, ExecInv, SubStates
<1> QED
  BY <1>2, ShrinkStep DEF SpawnDispatch, Polled

LEMMA EndStep ==
  ASSUME ExecInv, NEW s \in Subs, StreamEnd(s) \/ Cancel(s)
  PROVE  SubsOK'
<1>1. sub[s] \in SubStates
  BY SubTypes
<1>2. sub' = [sub EXCEPT ![s] = [sub[s] EXCEPT !.todo = sub[s].todo, !.phase = "ended"]]
  BY <1>1 DEF StreamEnd, Cancel, ExecInv, SubStates
<1>3. sub[s].phase # "unspawned" /\ log' = log /\ handle' = handle
  BY DEF StreamEnd, Cancel, Polled
<1> QED
  BY <1>2, <1>3, ShrinkStep

\* The executor's actions other than Publish leave the log as it is, and only
\* SpawnDispatch adds a call.
LEMMA CallsLoggedStep ==
  ASSUME ExecInv, DispatchInv, Next
  PROVE  CallsLogged'
<1>t. DispatchTypeOK
  BY DEF DispatchInv
<1>1. ASSUME NEW topic \in Topics, NEW event \in Events, Publish(topic, event)
      PROVE  CallsLogged'
  <2> SUFFICES ASSUME NEW t \in Tasks, status'[t] # "none"
               PROVE  call'[t].seq <= Len(log'[call'[t].topic_name])
    BY DEF CallsLogged
  <2>1. status' = status /\ call' = call
    BY <1>1 DEF Publish, dispatchVars
  <2>2. call[t] \in Calls /\ call[t].seq <= Len(log[call[t].topic_name])
    BY <1>t, <2>1 DEF ExecInv, CallsLogged, DispatchTypeOK
  <2>3. call[t].topic_name \in Topics /\ call[t].seq \in Int
    BY <2>2, SeqAssumption DEF Calls, Seqs
  <2>4. LET c == call[t]
        IN  /\ Len(log[c.topic_name]) \in Nat
            /\ Len(log[c.topic_name]) <= Len(log'[c.topic_name])
    BY <1>1, <2>3, PublishStep
  <2>5. Len(log'[call[t].topic_name]) \in Nat
    <3>1. LogOK'
      BY <1>1, PublishStep
    <3> QED
      BY <2>3, <3>1, LenProperties DEF LogOK
  <2> QED
    BY <2>1, <2>2, <2>3, <2>4, <2>5
<1>2. ASSUME NEW s \in Subs, NEW h \in Handlers, SpawnDispatch(s, h)
      PROVE  CallsLogged'
  <2> DEFINE t == <<s[1], h, sub[s].pos>>
  <2>1. t \in Tasks /\ sub[s].pos <= Len(log[Topic(s)])
    BY <1>2, SpawnedCall
  <2>2. /\ status' = [status EXCEPT ![t] = "queued"] /\ log' = log
        /\ call' = [call EXCEPT ![t] = DispatchCall(s, h)]
    BY <1>2 DEF SpawnDispatch, Spawn
  <2>3. DispatchCall(s, h).seq = sub[s].pos /\ DispatchCall(s, h).topic_name = Topic(s)
    BY DEF DispatchCall
  <2> QED
    BY <1>t, <2>1, <2>2, <2>3 DEF ExecInv, CallsLogged, DispatchTypeOK
<1>3. ASSUME log' = log, DispatchNext, \A t \in Tasks : status'[t] # "none" => status[t] # "none"
      PROVE  CallsLogged'
  BY <1>3, <1>t, CallStable DEF ExecInv, CallsLogged
<1>4. ASSUME log' = log, UNCHANGED dispatchVars
      PROVE  CallsLogged'
  BY <1>4 DEF ExecInv, CallsLogged, dispatchVars
<1>5. CASE \E e \in Executors : StartExecutor(e) \/ Abort(e)
  BY <1>5, <1>4 DEF StartExecutor, Abort
<1>6. ASSUME NEW s \in Subs, SubStep(s) \/ SubFault(s) \/ Cancel(s)
      PROVE  CallsLogged'
  BY <1>6, <1>2, <1>4 DEF SubStep, SubFault, LookupCheckpoint, OpenStream, Receive,
     StreamError, StreamEnd, Cancel
<1>7. CASE RunningStep /\ UNCHANGED executorVars
  <2>1. DispatchNext /\ log' = log
    BY <1>7 DEF DispatchNext, executorVars
  <2>2. ASSUME NEW t \in Tasks, status[t] = "none"
        PROVE  status'[t] = "none"
    <3>1. CASE \E k \in CheckpointKeys : FlushCheckpoint(k)
      BY <2>2, <3>1 DEF FlushCheckpoint
    <3>2. ASSUME NEW u \in Tasks, TaskStep(u)
          PROVE  status'[t] = "none"
      BY <1>t, <2>2, <3>2 DEF TaskStep, HandlerReturns, AcquirePermit, RejectShape,
         RejectBuild, StartHandler, HandlerErr, HandlerPanic, HandlerOk, HandlerDone,
         RecordCheckpoint, CheckpointErr, Settle, DispatchTypeOK
    <3> QED
      BY <1>7, <3>1, <3>2 DEF RunningStep
  <2> QED
    BY <2>1, <2>2, <1>3
<1>8. CASE ProcessCrash
  <2>1. DispatchNext /\ log' = log
    BY <1>8 DEF DispatchNext, ProcessCrash
  <2>2. \A t \in Tasks : status[t] = "none" => status'[t] = "none"
    BY <1>8 DEF ProcessCrash, Crash, Live, Holding
  <2> QED
    BY <2>1, <2>2, <1>3
<1> QED
  BY <1>1, <1>5, <1>6, <1>7, <1>8 DEF Next

LEMMA ExecInvStep ==
  ExecInv /\ DispatchInv /\ [Next]_vars => ExecInv' /\ DispatchInv'
<1> SUFFICES ASSUME ExecInv, DispatchInv, [Next]_vars PROVE ExecInv' /\ DispatchInv'
  OBVIOUS
<1>1. DispatchInv'
  BY StepSimulation, DispatchInvStep
<1>2. CASE UNCHANGED vars
  <2>1. UNCHANGED executorVars /\ UNCHANGED dispatchVars
    BY <1>2 DEF vars
  <2>2. CallsLogged'
    BY <2>1 DEF ExecInv, CallsLogged, executorVars, dispatchVars
  <2> QED
    BY <1>1, <2>1, <2>2, SubsUnchanged DEF ExecInv, SubsOK
<1>3. CASE Next
  <2>c. CallsLogged'
    BY <1>3, CallsLoggedStep
  <2>l. ASSUME log' = log
        PROVE  LogOK'
    BY <2>l DEF ExecInv, LogOK
  <2>h. ASSUME handle' = handle
        PROVE  handle' \in [Executors -> HandleStates]
    BY <2>h DEF ExecInv
  <2>1. ASSUME NEW topic \in Topics, NEW event \in Events, Publish(topic, event)
        PROVE  ExecInv'
    BY <2>1, <2>c, <2>h, PublishStep DEF Publish, ExecInv, SubsOK
  <2>2. ASSUME NEW e \in Executors, StartExecutor(e) \/ Abort(e)
        PROVE  ExecInv'
    <3>1. log' = log
      BY <2>2 DEF StartExecutor, Abort
    <3>2. SubsOK' /\ handle' \in [Executors -> HandleStates]
      BY <2>2, StartStep, AbortStep
    <3> QED
      BY <2>c, <2>l, <3>1, <3>2 DEF ExecInv, SubsOK
  <2>3. ASSUME NEW s \in Subs, SubStep(s) \/ SubFault(s) \/ Cancel(s)
        PROVE  ExecInv'
    <3>1. log' = log /\ handle' = handle
      BY <2>3 DEF SubStep, SubFault, LookupCheckpoint, OpenStream, Receive,
         SpawnDispatch, StreamError, StreamEnd, Cancel
    <3>2. SubsOK'
      BY <2>3, LookupStep, OpenStep, AdvanceStep, SpawnStep, EndStep DEF SubStep, SubFault
    <3> QED
      BY <2>c, <2>l, <2>h, <3>1, <3>2 DEF ExecInv, SubsOK
  <2>4. CASE RunningStep /\ UNCHANGED executorVars
    BY <1>1, <2>4, <2>c, SubsUnchanged DEF ExecInv, SubsOK
  <2>5. CASE ProcessCrash
    <3>1. log' = log
      BY <2>5 DEF ProcessCrash
    <3> QED
      BY <1>1, <2>5, <2>c, <2>l, <3>1, CrashStep DEF ExecInv, SubsOK
  <2> QED
    BY <1>1, <1>3, <2>1, <2>2, <2>3, <2>4, <2>5 DEF Next
<1> QED
  BY <1>2, <1>3

LEMMA ExecInvariant == Spec => [](ExecInv /\ DispatchInv)
<1>1. Init => ExecInv /\ DispatchInv
  BY InitExecInv
<1>2. (ExecInv /\ DispatchInv) /\ [Next]_vars => (ExecInv /\ DispatchInv)'
  BY ExecInvStep
<1> QED
  BY <1>1, <1>2, PTL DEF Spec

----------------------------------------------------------------------------
(* The theorems.                                                           *)

\* The state of every subscription task and handle keeps its type, and no
\* stream ever starts or stands behind the end of its topic's log, resumed
\* streams included.
THEOREM ExecutorTypeCorrect == Spec => []ExecutorTypeOK
<1>1. ExecInv => ExecutorTypeOK
  BY DEF ExecInv, ExecutorTypeOK, LogOK, SubOK
<1> QED
  BY <1>1, ExecInvariant, PTL

\* The executor uses dispatch_handler and the services exactly as Dispatch
\* describes: what Dispatch_proofs shows of dispatch holds of every system of
\* executors, restarts and crashes.
THEOREM ExecutorImplementsDispatch == Spec => DispatchSpec
<1>1. Init => DispatchInit
  BY DEF Init
<1>2. ExecInv /\ [Next]_vars => [DispatchNext]_dispatchVars
  BY StepSimulation
<1> QED
  BY <1>1, <1>2, ExecInvariant, PTL DEF Spec, DispatchSpec

\* With the theorems of Dispatch_proofs: the guarantees of dispatch hold in
\* every system of executors.
COROLLARY ExecutorGuarantees ==
  Spec => [](PermitsConserved /\ CheckpointsJustified /\ DeadLettersExact)
BY ExecutorImplementsDispatch, PermitsAreConserved, CheckpointsAreJustified,
   DeadLettersAreExact, PTL

=============================================================================
