\* Events published before the subscription task has run are missed.
CONSTANTS
  Topics = {orders}
  Keys = {}
  SubNames = {billingSub}
  None = None
  audit = audit
  billing = billing
  watch = watch
  regional = regional
  orders = orders
  eu = eu
  auditSub = auditSub
  billingSub = billingSub
  Handlers = {billing}
  Descriptor <- MCDescriptor
  Tasks <- MCTasks
  PoolSize = 1
  Factories = {factory}
  ActorJson = {actor}
  ValenceActors = {actor}
  Accepts <- MCAccepts
  MaxSeq = 2
  MergeModes = {"max"}
  Faults = {"crash"}
  MaxStarts = 1
  FactoryOf <- MCFactoryOf
SPECIFICATION Spec
PROPERTY StartedMeansListening
CHECK_DEADLOCK FALSE
