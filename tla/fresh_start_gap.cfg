\* A handler without a checkpoint drops the backlog of its group.
CONSTANTS
  Topics = {orders}
  Keys = {}
  SubNames = {auditSub, billingSub}
  None = None
  audit = audit
  billing = billing
  watch = watch
  regional = regional
  orders = orders
  eu = eu
  auditSub = auditSub
  billingSub = billingSub
  Handlers = {audit, billing}
  Descriptor <- MCDescriptor
  Tasks <- MCTasks
  PoolSize = 1
  Factories = {factory}
  ActorJson = {actor}
  ValenceActors = {actor}
  Accepts <- MCAccepts
  MaxSeq = 2
  MergeModes = {"max"}
  Faults = {"crash"}
  MaxStarts = 2
  FactoryOf <- MCFactoryOf
SPECIFICATION Spec
INVARIANT FreshStartLeavesNoGap
CHECK_DEADLOCK FALSE
