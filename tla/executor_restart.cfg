\* One group of two durable handlers, two executors, a crash in between.
CONSTANTS
  Topics = {orders}
  Keys = {}
  SubNames = {auditSub, billingSub}
  None = None
  audit = audit
  billing = billing
  watch = watch
  regional = regional
  orders = orders
  eu = eu
  auditSub = auditSub
  billingSub = billingSub
  Handlers = {audit, billing}
  Descriptor <- MCDescriptor
  Tasks <- MCTasks
  PoolSize = 1
  Factories = {factory}
  ActorJson = {actor}
  ValenceActors = {actor}
  Accepts <- MCAccepts
  MaxSeq = 2
  MergeModes = {"max"}
  Faults = {"crash", "lookup", "stream"}
  MaxStarts = 2
  FactoryOf <- MCFactoryOf
SPECIFICATION Spec
SYMMETRY Swap
INVARIANTS
  DispatchedExactly
  ResumeSkipsOnlyDispatched
  ResumeWithinEveryCheckpoint
  ResumePointWasProcessed
  PermitsConserved
CHECK_DEADLOCK FALSE
