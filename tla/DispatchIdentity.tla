-------------------------- MODULE DispatchIdentity --------------------------
(***************************************************************************)
(* Dispatch with the factories and payloads of Identity: dispatch_handler  *)
(* and ValenceIdentityFactory::reconstruct are two ways from a captured    *)
(* actor_json to a session and must draw the same line.                    *)
(***************************************************************************)
EXTENDS Dispatch, Identity

ASSUME FactoriesAssumption ==
  /\ Factories \subseteq ValenceFactories
  /\ ActorJson = JsonTexts /\ ValenceActors = ActorTexts
  /\ Accepts = [f \in Factories |-> {json \in JsonTexts : Builds(f, json)}]

Vetted == {"running", "recording", "done", "drained", "cp_error", "errored", "panicked"}

\* "same shape gate as ValenceIdentityFactory::reconstruct before
\* factory.build" (dispatch.rs): an event's handler runs if and only if
\* reconstruct would have produced an identity from its actor_json with the
\* same factory; no factory opens one of the two ways and not the other.
SameGateAsReconstruct ==
  "build" \notin Faults =>
    /\ \A t \in TasksIn(Vetted) : Reconstruct(call[t].factory, call[t].actor_json) = "ok"
    /\ \A t \in TasksIn({"rejected"}) :
         Reconstruct(call[t].factory, call[t].actor_json) # "ok"

=============================================================================
