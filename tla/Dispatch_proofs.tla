-------------------------- MODULE Dispatch_proofs --------------------------
(***************************************************************************)
(* Theorems about Dispatch for every number of tasks, every pool size and  *)
(* every set of topics, keys, names, factories, payloads and faults.       *)
(***************************************************************************)
EXTENDS Dispatch, FiniteSetTheorems, TLAPS

Holders == TasksIn(Holding)

----------------------------------------------------------------------------
(* Facts about the helpers.                                                *)

LEMMA MergedType ==
  ASSUME NEW mode, NEW old, NEW new
  PROVE  Merged(mode, old, new) \in {old, new}
BY DEF Merged

LEMMA HoldersFinite ==
  /\ IsFiniteSet(Holders)
  /\ Cardinality(Holders) \in Nat
<1>1. Holders \subseteq Tasks
  BY DEF Holders, TasksIn
<1>2. IsFiniteSet(Holders)
  BY <1>1, TasksAssumption, FS_Subset
<1> QED
  BY <1>2, FS_CardinalityType

\* A step that takes one task into the section that holds a permit, or out of
\* it, or does neither, changes the number of holders accordingly.
LEMMA HoldersGain ==
  ASSUME status \in [Tasks -> Statuses], NEW t \in Tasks, NEW s \in Holding,
         status[t] \notin Holding, status' = [status EXCEPT ![t] = s]
  PROVE  Cardinality(Holders') = Cardinality(Holders) + 1
<1>1. Holders' = Holders \cup {t} /\ t \notin Holders
  BY DEF Holders, TasksIn
<1> QED
  BY <1>1, HoldersFinite, FS_AddElement

LEMMA HoldersLose ==
  ASSUME status \in [Tasks -> Statuses], NEW t \in Tasks, NEW s,
         s \notin Holding, status[t] \in Holding,
         status' = [status EXCEPT ![t] = s]
  PROVE  /\ Cardinality(Holders') = Cardinality(Holders) - 1
         /\ Cardinality(Holders') \in Nat
<1>1. Holders' = Holders \ {t} /\ t \in Holders
  BY DEF Holders, TasksIn
<1>2. IsFiniteSet(Holders') /\ Cardinality(Holders') = Cardinality(Holders) - 1
  BY <1>1, HoldersFinite, FS_RemoveElement
<1> QED
  BY <1>2, FS_CardinalityType

LEMMA HoldersKeep ==
  ASSUME status \in [Tasks -> Statuses], NEW t \in Tasks, NEW s,
         s \in Holding <=> status[t] \in Holding,
         status' = [status EXCEPT ![t] = s]
  PROVE  Cardinality(Holders') = Cardinality(Holders)
<1>1. Holders' = Holders
  BY DEF Holders, TasksIn
<1> QED
  BY <1>1

----------------------------------------------------------------------------
(* The permits.                                                            *)

PermitsInv == DispatchTypeOK /\ PermitsConserved

LEMMA PermitsConservedHolders ==
  PermitsConserved <=> permits + Cardinality(Holders) = PoolSize
BY DEF PermitsConserved, Holders

LEMMA InitPermits == DispatchInit => PermitsInv
<1> SUFFICES ASSUME DispatchInit PROVE PermitsInv
  OBVIOUS
<1>1. DispatchTypeOK
  BY PoolAssumption
  DEF DispatchInit, DispatchTypeOK, Statuses, Checkpoints, NoCheckpoint
<1>2. Holders = {}
  BY DEF DispatchInit, Holders, TasksIn, Holding
<1>3. Cardinality(Holders) = 0
  BY <1>2, FS_EmptySet
<1>4. PermitsConserved
  BY <1>3, PoolAssumption, PermitsConservedHolders DEF DispatchInit
<1> QED
  BY <1>1, <1>4 DEF PermitsInv

\* Every action keeps the conservation law.
LEMMA PermitsStep ==
  ASSUME DispatchTypeOK, PermitsConserved, DispatchNext
  PROVE  permits' \in 0 .. PoolSize /\ PermitsConserved'
<1> USE DEF DispatchTypeOK
<1>h. /\ permits + Cardinality(Holders) = PoolSize
      /\ permits \in 0 .. PoolSize /\ PoolSize \in Nat
      /\ Cardinality(Holders) \in Nat
  BY PermitsConservedHolders, PoolAssumption, HoldersFinite
<1>c. PermitsConserved' <=> permits' + Cardinality(Holders') = PoolSize
  BY DEF PermitsConserved, Holders
<1>k. ASSUME status' = status, permits' = permits
      PROVE  permits' \in 0 .. PoolSize /\ PermitsConserved'
  BY <1>k, <1>h, <1>c DEF Holders, TasksIn
<1>s. ASSUME NEW t \in Tasks, NEW o \in Settled, status[t] \in Holding, Settle(t, o)
      PROVE  permits' \in 0 .. PoolSize /\ PermitsConserved'
  <2>1. /\ Cardinality(Holders') = Cardinality(Holders) - 1
        /\ Cardinality(Holders') \in Nat
    BY <1>s, HoldersLose DEF Settle, Settled, Holding
  <2> QED
    BY <1>s, <1>h, <1>c, <2>1 DEF Settle
<1>m. ASSUME NEW t \in Tasks, NEW s, s \in Holding <=> status[t] \in Holding,
             status' = [status EXCEPT ![t] = s], permits' = permits
      PROVE  permits' \in 0 .. PoolSize /\ PermitsConserved'
  BY <1>m, <1>h, <1>c, HoldersKeep
<1>1. CASE \E t \in Tasks, c \in Calls : Spawn(t, c)
  BY <1>1, <1>m DEF Spawn, Holding
<1>2. ASSUME NEW t \in Tasks, AcquirePermit(t)
      PROVE  permits' \in 0 .. PoolSize /\ PermitsConserved'
  <2>1. Cardinality(Holders') = Cardinality(Holders) + 1
    BY <1>2, HoldersGain DEF AcquirePermit, Holding
  <2> QED
    BY <1>2, <1>h, <1>c, <2>1 DEF AcquirePermit
<1>3. ASSUME NEW t \in Tasks, RejectShape(t) \/ RejectBuild(t)
      PROVE  permits' \in 0 .. PoolSize /\ PermitsConserved'
  BY <1>3, <1>s DEF RejectShape, RejectBuild, Holding, Settled
<1>4. ASSUME NEW t \in Tasks, StartHandler(t) \/ HandlerOk(t)
      PROVE  permits' \in 0 .. PoolSize /\ PermitsConserved'
  BY <1>4, <1>m DEF StartHandler, HandlerOk, Holding
<1>5. ASSUME NEW t \in Tasks, HandlerErr(t) \/ HandlerPanic(t) \/ HandlerDone(t)
      PROVE  permits' \in 0 .. PoolSize /\ PermitsConserved'
  BY <1>5, <1>s DEF HandlerErr, HandlerPanic, HandlerDone, Holding, Settled
<1>6. ASSUME NEW t \in Tasks, RecordCheckpoint(t) \/ CheckpointErr(t)
      PROVE  permits' \in 0 .. PoolSize /\ PermitsConserved'
  BY <1>6, <1>s DEF RecordCheckpoint, CheckpointErr, Holding, Settled
<1>7. CASE \E k \in CheckpointKeys : FlushCheckpoint(k)
  BY <1>7, <1>k DEF FlushCheckpoint
<1>8. CASE Crash
  <2>1. Holders' = {}
    BY <1>8 DEF Crash, Holders, TasksIn, Live, Holding
  <2>2. Cardinality(Holders') = 0
    BY <2>1, FS_EmptySet
  <2> QED
    BY <1>8, <1>h, <1>c, <2>2 DEF Crash
<1> QED
  BY <1>1, <1>2, <1>3, <1>4, <1>5, <1>6, <1>7, <1>8
  DEF DispatchNext, RunningStep, TaskStep, HandlerReturns


LEMMA DeadLetterType ==
  ASSUME DispatchTypeOK, NEW t \in Tasks, status[t] # "none",
         NEW reason \in FailureReasons
  PROVE  DeadLetter(t, reason) \in DeadLetters
<1>1. call[t] \in Calls
  BY DEF DispatchTypeOK
<1> QED
  BY <1>1 DEF DeadLetter, DeadLetters, Calls

LEMMA RecordDeadLetterType ==
  ASSUME DispatchTypeOK, NEW t \in Tasks, status[t] # "none",
         NEW reason \in FailureReasons, RecordDeadLetter(t, reason)
  PROVE  dlq' \subseteq DeadLetters
BY DeadLetterType DEF RecordDeadLetter, DispatchTypeOK

\* The variables other than the permits keep their types.
DataTypeOK ==
  /\ status \in [Tasks -> Statuses]
  /\ call \in [Tasks -> Calls \cup {None}]
  /\ \A t \in Tasks : status[t] # "none" => call[t] \in Calls
  /\ dlq \subseteq DeadLetters
  /\ pending \in Checkpoints
  /\ stored \in Checkpoints

LEMMA DataTypeStep ==
  ASSUME DispatchTypeOK, DispatchNext
  PROVE  DataTypeOK'
<1> USE DEF DispatchTypeOK
<1>s. ASSUME NEW t \in Tasks, NEW s \in Statuses, status[t] # "none",
             status' = [status EXCEPT ![t] = s], call' = call
      PROVE  /\ status' \in [Tasks -> Statuses]
             /\ call' \in [Tasks -> Calls \cup {None}]
             /\ \A u \in Tasks : status'[u] # "none" => call'[u] \in Calls
  BY <1>s
<1>1. ASSUME NEW t \in Tasks, NEW c \in Calls, Spawn(t, c)
      PROVE  DataTypeOK'
  BY <1>1 DEF Spawn, DataTypeOK, Statuses, Live
<1>2. ASSUME NEW t \in Tasks,
             AcquirePermit(t) \/ StartHandler(t) \/ HandlerOk(t)
      PROVE  DataTypeOK'
  <2>1. /\ dlq' = dlq /\ pending' = pending /\ stored' = stored /\ call' = call
        /\ status[t] # "none"
        /\ \E s \in Statuses : status' = [status EXCEPT ![t] = s]
    BY <1>2 DEF AcquirePermit, StartHandler, HandlerOk, Statuses, Live, Holding
  <2> QED
    BY <2>1, <1>s DEF DataTypeOK
<1>3. ASSUME NEW t \in Tasks, RejectShape(t) \/ RejectBuild(t) \/ HandlerErr(t)
      PROVE  DataTypeOK'
  <2>1. /\ pending' = pending /\ stored' = stored /\ call' = call
        /\ status[t] # "none"
        /\ \E s \in Statuses : status' = [status EXCEPT ![t] = s]
    BY <1>3 DEF RejectShape, RejectBuild, HandlerErr, Settle, Statuses, Settled
  <2>2. dlq' \subseteq DeadLetters
    BY <1>3, <2>1, RecordDeadLetterType
    DEF RejectShape, RejectBuild, HandlerErr, FailureReasons
  <2> QED
    BY <2>1, <2>2, <1>s DEF DataTypeOK
<1>4. ASSUME NEW t \in Tasks,
             HandlerPanic(t) \/ HandlerDone(t) \/ CheckpointErr(t)
      PROVE  DataTypeOK'
  <2>1. /\ dlq' = dlq /\ pending' = pending /\ stored' = stored /\ call' = call
        /\ status[t] # "none"
        /\ \E s \in Statuses : status' = [status EXCEPT ![t] = s]
    BY <1>4 DEF HandlerPanic, HandlerDone, CheckpointErr, Settle, Statuses, Settled
  <2> QED
    BY <2>1, <1>s DEF DataTypeOK
<1>5. ASSUME NEW t \in Tasks, RecordCheckpoint(t)
      PROVE  DataTypeOK'
  <2> DEFINE k == CheckpointKey(call[t])
  <2>1. /\ dlq' = dlq /\ stored' = stored /\ call' = call
        /\ status[t] # "none"
        /\ \E s \in Statuses : status' = [status EXCEPT ![t] = s]
    BY <1>5 DEF RecordCheckpoint, Settle, Statuses, Settled
  <2>2. call[t].seq \in Seqs
    BY <2>1 DEF Calls
  <2>3. PICK mode \in MergeModes :
          pending' = [pending EXCEPT ![k] = Merged(mode, @, call[t].seq)]
    BY <1>5 DEF RecordCheckpoint
  <2>4. pending' \in Checkpoints
    BY <2>2, <2>3, MergedType DEF Checkpoints
  <2> QED
    BY <2>1, <2>4, <1>s DEF DataTypeOK
<1>6. ASSUME NEW k \in CheckpointKeys, FlushCheckpoint(k)
      PROVE  DataTypeOK'
  <2>1. PICK mode \in MergeModes :
          stored' = [stored EXCEPT ![k] = Merged(mode, @, pending[k])]
    BY <1>6 DEF FlushCheckpoint
  <2>2. stored' \in Checkpoints
    BY <2>1, MergedType DEF Checkpoints
  <2>3. pending' \in Checkpoints
    BY <1>6 DEF FlushCheckpoint, Checkpoints
  <2> QED
    BY <1>6, <2>2, <2>3 DEF FlushCheckpoint, DataTypeOK
<1>7. CASE Crash
  <2>1. status' \in [Tasks -> Statuses]
    BY <1>7 DEF Crash, Statuses, Settled
  <2>2. pending' \in Checkpoints
    BY <1>7 DEF Crash, Checkpoints
  <2>3. \A u \in Tasks : status'[u] # "none" => call'[u] \in Calls
    BY <1>7 DEF Crash, Live, Holding
  <2> QED
    BY <1>7, <2>1, <2>2, <2>3 DEF Crash, DataTypeOK
<1> QED
  BY <1>1, <1>2, <1>3, <1>4, <1>5, <1>6, <1>7
  DEF DispatchNext, RunningStep, TaskStep, HandlerReturns

LEMMA PermitsInvStep == PermitsInv /\ [DispatchNext]_dispatchVars => PermitsInv'
<1> SUFFICES ASSUME PermitsInv, [DispatchNext]_dispatchVars PROVE PermitsInv'
  OBVIOUS
<1>1. CASE DispatchNext
  BY <1>1, PermitsStep, DataTypeStep DEF PermitsInv, DataTypeOK, DispatchTypeOK
<1>2. CASE UNCHANGED dispatchVars
  BY <1>2 DEF PermitsInv, DispatchTypeOK, PermitsConserved, TasksIn, dispatchVars
<1> QED
  BY <1>1, <1>2

THEOREM PermitsInvariant == DispatchSpec => []PermitsInv
BY InitPermits, PermitsInvStep, PTL DEF DispatchSpec

\* The variables of dispatch_handler's tasks and of the services they share
\* always have their types; in particular the pool never hands out a permit it
\* does not have.
THEOREM TypeCorrect == DispatchSpec => []DispatchTypeOK
BY PermitsInvariant, PTL DEF PermitsInv

\* No exit of dispatch_handler leaks a permit or gives one back twice, for any
\* number of calls and any pool size, panics and crashes included.
THEOREM PermitsAreConserved == DispatchSpec => []PermitsConserved
BY PermitsInvariant, PTL DEF PermitsInv

----------------------------------------------------------------------------
(* What a step leaves alone.                                               *)

\* A call never changes once it is spawned.
LEMMA CallStable ==
  ASSUME DispatchTypeOK, DispatchNext, NEW t \in Tasks, status[t] # "none"
  PROVE  call'[t] = call[t]
<1>1. CASE \E u \in Tasks, c \in Calls : Spawn(u, c)
  BY <1>1 DEF Spawn, DispatchTypeOK
<1>2. CASE RunningStep \/ Crash
  BY <1>2 DEF RunningStep, TaskStep, HandlerReturns, AcquirePermit, RejectShape,
     RejectBuild, StartHandler, HandlerErr, HandlerPanic, HandlerOk, HandlerDone,
     RecordCheckpoint, CheckpointErr, FlushCheckpoint, Crash
<1> QED
  BY <1>1, <1>2 DEF DispatchNext

\* A task that has come to an end stays as it ended.
LEMMA SettledStable ==
  ASSUME DispatchTypeOK, DispatchNext, NEW t \in Tasks, status[t] \in Settled
  PROVE  status'[t] = status[t]
<1> USE DEF DispatchTypeOK, Settled
<1>1. ASSUME NEW u \in Tasks, NEW s, status[u] \notin Settled,
             status' = [status EXCEPT ![u] = s]
      PROVE  status'[t] = status[t]
  BY <1>1
<1>2. CASE \E u \in Tasks, c \in Calls : Spawn(u, c)
  BY <1>2, <1>1 DEF Spawn
<1>3. ASSUME NEW u \in Tasks, TaskStep(u)
      PROVE  status'[t] = status[t]
  <2>1. status[u] \notin Settled /\ \E s : status' = [status EXCEPT ![u] = s]
    BY <1>3 DEF TaskStep, HandlerReturns, AcquirePermit, RejectShape, RejectBuild,
       StartHandler, HandlerErr, HandlerPanic, HandlerOk, HandlerDone,
       RecordCheckpoint, CheckpointErr, Settle
  <2> QED
    BY <2>1, <1>1
<1>4. CASE \E k \in CheckpointKeys : FlushCheckpoint(k)
  BY <1>4 DEF FlushCheckpoint
<1>5. CASE Crash
  BY <1>5 DEF Crash, Live, Holding
<1> QED
  BY <1>2, <1>3, <1>4, <1>5 DEF DispatchNext, RunningStep

LEMMA JustifiedStable ==
  ASSUME DispatchTypeOK, DispatchNext, NEW k, NEW s, Justified(k, s)
  PROVE  Justified(k, s)'
<1>1. PICK t \in Tasks :
        /\ status[t] = "drained"
        /\ Checkpointed(call[t]) /\ CheckpointKey(call[t]) = k /\ call[t].seq = s
  BY DEF Justified, TasksIn
<1>2. status'[t] = "drained" /\ call'[t] = call[t]
  BY <1>1, SettledStable, CallStable DEF Settled
<1> QED
  BY <1>1, <1>2 DEF Justified, TasksIn

----------------------------------------------------------------------------
(* The checkpoints.                                                        *)

\* CheckpointsJustified alone is not inductive: RecordCheckpoint writes under
\* the call's key without asking again whether the call checkpoints at all.
RecordingCheckpointed == \A t \in TasksIn({"recording"}) : Checkpointed(call[t])

CheckpointInv == CheckpointsJustified /\ RecordingCheckpointed

LEMMA InitCheckpoints == DispatchInit => CheckpointInv
BY DEF DispatchInit, CheckpointInv, CheckpointsJustified, RecordingCheckpointed, TasksIn

LEMMA RecordingStep ==
  ASSUME DispatchTypeOK, RecordingCheckpointed, DispatchNext
  PROVE  RecordingCheckpointed'
<1> SUFFICES ASSUME NEW t \in Tasks, status'[t] = "recording"
             PROVE  Checkpointed(call'[t])
  BY DEF RecordingCheckpointed, TasksIn
<1> USE DEF DispatchTypeOK
<1>1. CASE status[t] = "recording"
  BY <1>1, CallStable DEF RecordingCheckpointed, TasksIn
<1>2. CASE status[t] # "recording"
  <2>1. \A u \in Tasks, c \in Calls : ~Spawn(u, c)
    BY <1>2 DEF Spawn
  <2>2. ~Crash /\ \A k \in CheckpointKeys : ~FlushCheckpoint(k)
    BY <1>2 DEF Crash, FlushCheckpoint
  <2>3. PICK u \in Tasks : TaskStep(u)
    BY <2>1, <2>2 DEF DispatchNext, RunningStep
  <2>4. HandlerOk(u)
    BY <1>2, <2>3 DEF TaskStep, HandlerReturns, AcquirePermit, RejectShape,
       RejectBuild, StartHandler, HandlerErr, HandlerPanic, HandlerDone,
       RecordCheckpoint, CheckpointErr, Settle
  <2> QED
    BY <1>2, <2>4 DEF HandlerOk
<1> QED
  BY <1>1, <1>2

LEMMA JustifiedStep ==
  ASSUME DispatchTypeOK, CheckpointInv, DispatchNext
  PROVE  CheckpointsJustified'
<1> SUFFICES ASSUME NEW k \in CheckpointKeys,
                    NEW s \in {pending'[k], stored'[k]} \ {NoCheckpoint}
             PROVE  Justified(k, s)'
  BY DEF CheckpointsJustified
<1> USE DEF DispatchTypeOK
<1>o. ASSUME s \in {pending[k], stored[k]}
      PROVE  Justified(k, s)'
  BY <1>o, JustifiedStable DEF CheckpointInv, CheckpointsJustified
<1>1. ASSUME NEW t \in Tasks, RecordCheckpoint(t)
      PROVE  Justified(k, s)'
  <2> DEFINE kt == CheckpointKey(call[t])
  <2>1. PICK mode \in MergeModes :
          pending' = [pending EXCEPT ![kt] = Merged(mode, @, call[t].seq)]
    BY <1>1 DEF RecordCheckpoint
  <2>2. CASE k = kt /\ s = call[t].seq
    <3>1. Checkpointed(call[t])
      BY <1>1 DEF CheckpointInv, RecordingCheckpointed, RecordCheckpoint, TasksIn
    <3>2. status'[t] = "drained" /\ call'[t] = call[t]
      BY <1>1 DEF RecordCheckpoint, Settle
    <3> QED
      BY <2>2, <3>1, <3>2 DEF Justified, TasksIn
  <2>3. CASE ~(k = kt /\ s = call[t].seq)
    <3>1. pending'[k] \in {pending[k], call[t].seq} /\ (k # kt => pending'[k] = pending[k])
      BY <2>1, MergedType DEF Checkpoints
    <3>2. stored' = stored
      BY <1>1 DEF RecordCheckpoint
    <3> QED
      BY <2>3, <3>1, <3>2, <1>o
  <2> QED
    BY <2>2, <2>3
<1>2. ASSUME NEW j \in CheckpointKeys, FlushCheckpoint(j)
      PROVE  Justified(k, s)'
  <2>1. PICK mode \in MergeModes :
          stored' = [stored EXCEPT ![j] = Merged(mode, @, pending[j])]
    BY <1>2 DEF FlushCheckpoint
  <2>2. stored'[k] \in {stored[k], pending[k]}
    BY <2>1, MergedType DEF Checkpoints
  <2>3. pending'[k] \in {pending[k], NoCheckpoint}
    BY <1>2 DEF FlushCheckpoint, Checkpoints
  <2> QED
    BY <2>2, <2>3, <1>o
<1>3. CASE Crash
  BY <1>3, <1>o DEF Crash
<1>4. CASE UNCHANGED <<pending, stored>>
  BY <1>4, <1>o
<1> QED
  BY <1>1, <1>2, <1>3, <1>4
  DEF DispatchNext, RunningStep, TaskStep, HandlerReturns, Spawn, AcquirePermit,
      RejectShape, RejectBuild, StartHandler, HandlerErr, HandlerPanic, HandlerOk,
      HandlerDone, CheckpointErr

\* A checkpoint, in memory or stored, always names an event that a durable call
\* of that subscription has processed: no failure, panic, crash, merge or flush
\* ever writes another.
THEOREM CheckpointsAreJustified == DispatchSpec => []CheckpointsJustified
<1>1. DispatchInit => CheckpointInv
  BY InitCheckpoints
<1>2. DispatchTypeOK /\ CheckpointInv /\ [DispatchNext]_dispatchVars => CheckpointInv'
  <2>1. DispatchTypeOK /\ CheckpointInv /\ DispatchNext => CheckpointInv'
    BY RecordingStep, JustifiedStep DEF CheckpointInv
  <2>2. CheckpointInv /\ UNCHANGED dispatchVars => CheckpointInv'
    BY DEF CheckpointInv, CheckpointsJustified, RecordingCheckpointed, Justified,
       TasksIn, dispatchVars
  <2> QED
    BY <2>1, <2>2
<1>3. CheckpointInv => CheckpointsJustified
  BY DEF CheckpointInv
<1> QED
  BY <1>1, <1>2, <1>3, TypeCorrect, PTL DEF DispatchSpec

----------------------------------------------------------------------------
(* The gates and the dead letters.                                         *)

\* A call that came to its handler has passed both gates.
OnlyVettedActorsRun ==
  \A t \in TasksIn({"running", "recording", "done", "drained", "cp_error",
                    "errored", "panicked"}) :
    call[t].actor_json \in ValenceActors \cap Accepts[call[t].factory]

LEMMA VettedStep ==
  ASSUME DispatchTypeOK, OnlyVettedActorsRun, DispatchNext
  PROVE  OnlyVettedActorsRun'
<1> DEFINE Vetted == {"running", "recording", "done", "drained", "cp_error",
                      "errored", "panicked"}
<1> SUFFICES ASSUME NEW t \in Tasks, status'[t] \in Vetted
             PROVE  call'[t].actor_json \in
                      ValenceActors \cap Accepts[call'[t].factory]
  BY DEF OnlyVettedActorsRun, TasksIn
<1> USE DEF DispatchTypeOK
<1>1. CASE status[t] \in Vetted
  BY <1>1, CallStable DEF OnlyVettedActorsRun, TasksIn
<1>2. CASE status[t] \notin Vetted
  <2>1. \A u \in Tasks, c \in Calls : ~Spawn(u, c)
    BY <1>2 DEF Spawn
  <2>2. ~Crash /\ \A k \in CheckpointKeys : ~FlushCheckpoint(k)
    BY <1>2 DEF Crash, FlushCheckpoint
  <2>3. PICK u \in Tasks : TaskStep(u)
    BY <2>1, <2>2 DEF DispatchNext, RunningStep
  <2>4. StartHandler(u)
    BY <1>2, <2>3 DEF TaskStep, HandlerReturns, AcquirePermit, RejectShape,
       RejectBuild, HandlerErr, HandlerPanic, HandlerOk, HandlerDone,
       RecordCheckpoint, CheckpointErr, Settle
  <2> QED
    BY <1>2, <2>4 DEF StartHandler
<1> QED
  BY <1>1, <1>2

LEMMA OnlyVettedRun == DispatchSpec => []OnlyVettedActorsRun
<1>1. DispatchInit => OnlyVettedActorsRun
  BY DEF DispatchInit, OnlyVettedActorsRun, TasksIn
<1>2. DispatchTypeOK /\ OnlyVettedActorsRun /\ [DispatchNext]_dispatchVars
      => OnlyVettedActorsRun'
  <2>1. OnlyVettedActorsRun /\ UNCHANGED dispatchVars => OnlyVettedActorsRun'
    BY DEF OnlyVettedActorsRun, TasksIn, dispatchVars
  <2> QED
    BY <2>1, VettedStep
<1> QED
  BY <1>1, <1>2, TypeCorrect, PTL DEF DispatchSpec

LEMMA DeadLetterStable ==
  ASSUME DispatchTypeOK, DispatchNext, NEW t \in Tasks, status[t] # "none", NEW reason
  PROVE  DeadLetter(t, reason)' = DeadLetter(t, reason)
BY CallStable DEF DeadLetter

\* The dead letters that were there stay right.
LEMMA OldLettersStep ==
  ASSUME DispatchTypeOK, DeadLettersExact, DispatchNext, NEW r \in dlq
  PROVE  /\ status'[r.task] \in {"rejected", "errored"}
         /\ r = DeadLetter(r.task, r.reason)'
         /\ r.reason = "HandlerError" <=> status'[r.task] = "errored"
<1>1. r.task \in Tasks
  BY DEF DispatchTypeOK, DeadLetters
<1>2. /\ status[r.task] \in {"rejected", "errored"}
      /\ r = DeadLetter(r.task, r.reason)
      /\ r.reason = "HandlerError" <=> status[r.task] = "errored"
  BY DEF DeadLettersExact
<1>3. status'[r.task] = status[r.task]
  BY <1>1, <1>2, SettledStable DEF Settled
<1>4. DeadLetter(r.task, r.reason)' = DeadLetter(r.task, r.reason)
  BY <1>1, <1>2, DeadLetterStable
<1> QED
  BY <1>2, <1>3, <1>4

\* A step that fails a call, and what it may do to the queue.
Fails(t, reason) ==
  /\ RecordDeadLetter(t, reason)
  /\ status' = [status EXCEPT ![t] = IF reason = "HandlerError" THEN "errored"
                                                                ELSE "rejected"]
  /\ call' = call

LEMMA FailStep ==
  ASSUME DispatchTypeOK, DeadLettersExact, DispatchNext,
         NEW t \in Tasks, status[t] \in Live, NEW reason \in FailureReasons,
         Fails(t, reason)
  PROVE  DeadLettersExact'
<1> USE DEF DispatchTypeOK
<1> DEFINE d == DeadLetter(t, reason)
<1>1. d.task = t /\ d.reason = reason
  BY DEF DeadLetter
<1>2. /\ status'[t] \in {"rejected", "errored"}
      /\ reason = "HandlerError" <=> status'[t] = "errored"
  BY DEF Fails
<1>3. \A r \in dlq' :
        /\ status'[r.task] \in {"rejected", "errored"}
        /\ r = DeadLetter(r.task, r.reason)'
        /\ r.reason = "HandlerError" <=> status'[r.task] = "errored"
  <2> TAKE r \in dlq'
  <2>1. CASE r \in dlq
    BY <2>1, OldLettersStep
  <2>2. CASE r = d
    <3>1. r.task = t /\ r.reason = reason
      BY <2>2, <1>1
    <3>2. r = DeadLetter(r.task, r.reason)'
      BY <2>2, <3>1 DEF DeadLetter, Fails
    <3> QED
      BY <3>1, <3>2, <1>2
  <2> QED
    BY <2>1, <2>2 DEF Fails, RecordDeadLetter
<1>4. ASSUME "dlq" \notin Faults, NEW u \in Tasks, status'[u] \in {"rejected", "errored"}
      PROVE  \E r \in dlq' : r.task = u
  <2>1. dlq' = dlq \cup {d}
    BY <1>4 DEF Fails, RecordDeadLetter
  <2>2. CASE u = t
    BY <2>1, <2>2, <1>1
  <2>3. CASE u # t
    <3>1. status[u] \in {"rejected", "errored"}
      BY <1>4, <2>3 DEF Fails
    <3> QED
      BY <1>4, <2>1, <3>1 DEF DeadLettersExact, TasksIn
  <2> QED
    BY <2>2, <2>3
<1> QED
  BY <1>3, <1>4 DEF DeadLettersExact, TasksIn

LEMMA DeadLettersStep ==
  ASSUME DispatchTypeOK, DeadLettersExact, DispatchNext
  PROVE  DeadLettersExact'
<1> USE DEF DispatchTypeOK
<1>q. ASSUME dlq' = dlq,
             \A u \in Tasks : status'[u] \in {"rejected", "errored"} => status'[u] = status[u]
      PROVE  DeadLettersExact'
  <2>1. \A r \in dlq' :
          /\ status'[r.task] \in {"rejected", "errored"}
          /\ r = DeadLetter(r.task, r.reason)'
          /\ r.reason = "HandlerError" <=> status'[r.task] = "errored"
    BY <1>q, OldLettersStep
  <2>2. "dlq" \notin Faults =>
          \A u \in Tasks : status'[u] \in {"rejected", "errored"} =>
            \E r \in dlq' : r.task = u
    BY <1>q DEF DeadLettersExact, TasksIn
  <2> QED
    BY <2>1, <2>2 DEF DeadLettersExact, TasksIn
<1>1. ASSUME NEW t \in Tasks, RejectShape(t) \/ RejectBuild(t)
      PROVE  DeadLettersExact'
  <2>1. status[t] \in Live /\ Fails(t, "IdentityBuild")
    BY <1>1 DEF RejectShape, RejectBuild, Settle, Fails, Live, Holding
  <2> QED
    BY <2>1, FailStep DEF FailureReasons
<1>2. ASSUME NEW t \in Tasks, HandlerErr(t)
      PROVE  DeadLettersExact'
  <2>1. status[t] \in Live /\ Fails(t, "HandlerError")
    BY <1>2 DEF HandlerErr, Settle, Fails, Live, Holding
  <2> QED
    BY <2>1, FailStep DEF FailureReasons
<1>3. ASSUME NEW t \in Tasks,
             \/ AcquirePermit(t) \/ StartHandler(t) \/ HandlerOk(t) \/ HandlerPanic(t)
             \/ HandlerDone(t) \/ RecordCheckpoint(t) \/ CheckpointErr(t)
      PROVE  DeadLettersExact'
  <2>1. dlq' = dlq
    BY <1>3 DEF AcquirePermit, StartHandler, HandlerOk, HandlerPanic, HandlerDone,
       RecordCheckpoint, CheckpointErr
  <2>2. \E s : s \notin {"rejected", "errored"} /\ status' = [status EXCEPT ![t] = s]
    BY <1>3 DEF AcquirePermit, StartHandler, HandlerOk, HandlerPanic, HandlerDone,
       RecordCheckpoint, CheckpointErr, Settle
  <2> QED
    BY <2>1, <2>2, <1>q
<1>4. CASE \E t \in Tasks, c \in Calls : Spawn(t, c)
  BY <1>4, <1>q DEF Spawn
<1>5. CASE \E k \in CheckpointKeys : FlushCheckpoint(k)
  BY <1>5, <1>q DEF FlushCheckpoint
<1>6. CASE Crash
  BY <1>6, <1>q DEF Crash
<1> QED
  BY <1>1, <1>2, <1>3, <1>4, <1>5, <1>6
  DEF DispatchNext, RunningStep, TaskStep, HandlerReturns

\* A dead letter always describes a call that failed and stopped there, and
\* with a working sink every failed call leaves one.
THEOREM DeadLettersAreExact == DispatchSpec => []DeadLettersExact
<1>1. DispatchInit => DeadLettersExact
  BY DEF DispatchInit, DeadLettersExact, TasksIn
<1>2. DispatchTypeOK /\ DeadLettersExact /\ [DispatchNext]_dispatchVars
      => DeadLettersExact'
  <2>1. DeadLettersExact /\ UNCHANGED dispatchVars => DeadLettersExact'
    BY DEF DeadLettersExact, TasksIn, DeadLetter, dispatchVars
  <2> QED
    BY <2>1, DeadLettersStep
<1> QED
  BY <1>1, <1>2, TypeCorrect, PTL DEF DispatchSpec

=============================================================================
