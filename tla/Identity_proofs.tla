-------------------------- MODULE Identity_proofs --------------------------
(***************************************************************************)
(* dispatch_handler and ValenceIdentityFactory::reconstruct draw the same  *)
(* line, for every set of factories, calls and events.                     *)
(***************************************************************************)
EXTENDS DispatchIdentity, Dispatch_proofs

\* The payloads a call's own gates let through.
Admitted(t) == ValenceActors \cap Accepts[call[t].factory]

\* Beside OnlyVettedActorsRun, which says it of the calls that went on: those
\* that were turned away deserved it.
RejectedRightly ==
  "build" \notin Faults =>
    \A t \in TasksIn({"rejected"}) : call[t].actor_json \notin Admitted(t)

LEMMA RejectedStep ==
  ASSUME DispatchTypeOK, RejectedRightly, DispatchNext
  PROVE  RejectedRightly'
<1> SUFFICES ASSUME "build" \notin Faults, NEW t \in Tasks, status'[t] = "rejected"
             PROVE  call'[t].actor_json \notin ValenceActors \cap Accepts[call'[t].factory]
  BY DEF RejectedRightly, TasksIn, Admitted
<1> USE DEF DispatchTypeOK
<1>1. CASE status[t] = "rejected"
  BY <1>1, CallStable DEF RejectedRightly, TasksIn, Admitted
<1>2. CASE status[t] # "rejected"
  <2>1. \A u \in Tasks, c \in Calls : ~Spawn(u, c)
    BY <1>2 DEF Spawn
  <2>2. ~Crash /\ \A k \in CheckpointKeys : ~FlushCheckpoint(k)
    BY <1>2 DEF Crash, FlushCheckpoint
  <2>3. PICK u \in Tasks : TaskStep(u)
    BY <2>1, <2>2 DEF DispatchNext, RunningStep
  <2>4. RejectShape(u) \/ RejectBuild(u)
    BY <1>2, <2>3 DEF TaskStep, HandlerReturns, AcquirePermit, StartHandler, HandlerErr,
       HandlerPanic, HandlerOk, HandlerDone, RecordCheckpoint, CheckpointErr, Settle
  <2> QED
    BY <1>2, <2>4 DEF RejectShape, RejectBuild, Settle
<1> QED
  BY <1>1, <1>2

\* The line reconstruct draws, in terms of the gates of dispatch_handler.
LEMMA ReconstructLine ==
  ASSUME NEW f \in Factories, NEW json \in ActorJson
  PROVE  Reconstruct(f, json) = "ok" <=> json \in ValenceActors \cap Accepts[f]
BY FactoriesAssumption DEF Reconstruct, Build, Texts, JsonTexts, ActorTexts

\* A payload is taken by dispatch_handler exactly if reconstruct would have
\* taken it with the same factory: no order of calls, no other factory in the
\* process and no failure elsewhere opens one of the two ways alone.
THEOREM GatesAgree == DispatchSpec => []SameGateAsReconstruct
<1>1. DispatchInit => RejectedRightly
  BY DEF DispatchInit, RejectedRightly, TasksIn
<1>2. DispatchTypeOK /\ RejectedRightly /\ [DispatchNext]_dispatchVars => RejectedRightly'
  <2>1. RejectedRightly /\ UNCHANGED dispatchVars => RejectedRightly'
    BY DEF RejectedRightly, TasksIn, Admitted, dispatchVars
  <2> QED
    BY <2>1, RejectedStep
<1>3. DispatchTypeOK /\ OnlyVettedActorsRun /\ RejectedRightly => SameGateAsReconstruct
  <2> SUFFICES ASSUME DispatchTypeOK, OnlyVettedActorsRun, RejectedRightly,
                      "build" \notin Faults, NEW t \in Tasks
               PROVE  /\ status[t] \in Vetted =>
                           Reconstruct(call[t].factory, call[t].actor_json) = "ok"
                      /\ status[t] = "rejected" =>
                           Reconstruct(call[t].factory, call[t].actor_json) # "ok"
    BY DEF SameGateAsReconstruct, TasksIn
  <2>1. status[t] # "none" => call[t].factory \in Factories /\ call[t].actor_json \in ActorJson
    BY DEF DispatchTypeOK, Calls
  <2>2. CASE status[t] \in Vetted
    <3>1. call[t].actor_json \in ValenceActors \cap Accepts[call[t].factory]
      BY <2>2 DEF OnlyVettedActorsRun, TasksIn, Vetted
    <3> QED
      BY <2>1, <2>2, <3>1, ReconstructLine DEF Vetted
  <2>3. CASE status[t] = "rejected"
    <3>1. call[t].actor_json \notin ValenceActors \cap Accepts[call[t].factory]
      BY <2>3 DEF RejectedRightly, TasksIn, Admitted
    <3> QED
      BY <2>1, <2>3, <3>1, ReconstructLine DEF Vetted
  <2>4. CASE status[t] \notin Vetted \cup {"rejected"}
    BY <2>4
  <2> QED
    BY <2>2, <2>3, <2>4
<1> QED
  BY <1>1, <1>2, <1>3, TypeCorrect, OnlyVettedRun, PTL DEF DispatchSpec

=============================================================================
