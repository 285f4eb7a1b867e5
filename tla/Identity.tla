------------------------------ MODULE Identity ------------------------------
(***************************************************************************)
(* Who may act: the configurations a RouterValenceFactory is built with,   *)
(* ProcessValenceFactory, and ValenceIdentityFactory::reconstruct, the     *)
(* other way into a factory besides dispatch_handler.                      *)
(***************************************************************************)

CONSTANT
  OpaqueBuilds  \* does a router without a policy build for any JSON?

ASSUME OpaqueAssumption == OpaqueBuilds \in BOOLEAN

\* actor_json by what becomes of it: a User or System actor, JSON of another
\* shape, no JSON at all.
ActorTexts == {"user", "system"}
JsonTexts  == ActorTexts \cup {"opaque"}
Texts      == JsonTexts \cup {"malformed"}

\* A factory is its router and RouterValenceFactoryConfig; one whose router is
\* down, or a host's own that always fails, builds nothing.
ValenceFactories ==
  [ router            : {"up", "down"},
    actor_json_policy : {"None", "RejectExternalSystemActor"},
    actor_trust       : {"External", "Internal"} ]

\* RouterValenceFactoryConfig::new (external).
RouterFactory(router) ==
  [ router |-> router, actor_json_policy |-> "None", actor_trust |-> "External" ]

\* router_config_reject_external_system
RejectingExternalSystem(f) ==
  [f EXCEPT !.actor_json_policy = "RejectExternalSystemActor"]

\* ProcessValenceFactory::new, arc
NewFactory(router) == RejectingExternalSystem(RouterFactory(router))

\* Mutant: the trust level is left as RouterValenceFactoryConfig::new set it.
NewInternalKeepingTrust(router) == RejectingExternalSystem(RouterFactory(router))

\* ProcessValenceFactory::new_internal, arc_internal
NewInternalFactory(router) ==
  [RejectingExternalSystem(RouterFactory(router)) EXCEPT !.actor_trust = "Internal"]

\* RouterValenceFactory::build (external), to which ProcessValenceFactory::build
\* forwards: the policy refuses System for an external caller.
Builds(f, json) ==
  /\ f.router = "up"
  /\ json = "opaque" => f.actor_json_policy = "None" /\ OpaqueBuilds
  /\ json = "system" => \/ f.actor_json_policy = "None"
                        \/ f.actor_trust = "Internal"

\* With the reason of a refusal, as far as its message tells one from another.
Build(f, json) ==
  IF Builds(f, json) THEN "ok"
  ELSE IF f.router = "down" THEN "build_failed"
  ELSE IF json = "system" THEN "system_rejected" ELSE "not_an_actor"

\* Mutant: reconstruct leaves the shape of the actor to the factory.
ReconstructUngated(f, text) ==
  IF text \notin JsonTexts THEN "invalid_json" ELSE Build(f, text)

\* ValenceIdentityFactory::reconstruct: valid JSON, an actor's shape, and the
\* factory builds; every failure is an IdentityError::InvalidActor.
Reconstruct(f, text) ==
  IF text \notin JsonTexts THEN "invalid_json"
  ELSE IF text \notin ActorTexts THEN "invalid_shape"
  ELSE Build(f, text)

=============================================================================
