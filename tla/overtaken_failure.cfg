\* A later event is checkpointed although an earlier one failed.
CONSTANTS
  Topics = {orders}
  Keys = {}
  SubNames = {billingSub}
  None = None
  audit = audit
  billing = billing
  watch = watch
  regional = regional
  orders = orders
  eu = eu
  auditSub = auditSub
  billingSub = billingSub
  Handlers = {billing}
  Descriptor <- MCDescriptor
  Tasks <- MCTasks
  PoolSize = 1
  Factories = {factory}
  ActorJson = {actor}
  ValenceActors = {actor}
  Accepts <- MCAccepts
  MaxSeq = 2
  MergeModes = {"max"}
  Faults = {"handler"}
  MaxStarts = 1
  FactoryOf <- MCFactoryOf
SPECIFICATION Spec
INVARIANT NeverAdvancesPastUnprocessed
CHECK_DEADLOCK FALSE
