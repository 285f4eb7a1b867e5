\* Two calls, every argument, every fault, one permit.
CONSTANTS
  Topics = {topic}
  Keys = {}
  SubNames = {sub}
  None = None
  Tasks = {t1, t2}
  PoolSize = 1
  Factories <- MCFactories
  ActorJson <- MCActorJson
  ValenceActors <- MCValenceActors
  OpaqueBuilds = TRUE
  Accepts <- MCAccepts
  MaxSeq = 2
  MergeModes = {"max", "latest"}
  Faults = {"panic", "handler", "dlq", "checkpoint", "crash"}
SPECIFICATION DispatchSpec
SYMMETRY TaskSymmetry
INVARIANTS
  DispatchTypeOK
  PermitsConserved
  CheckpointsJustified
  DeadLettersExact
  SameGateAsReconstruct
CHECK_DEADLOCK FALSE
