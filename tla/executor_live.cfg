\* One executor, an unfiltered and a keyed stream, aborted at any time.
CONSTANTS
  Topics = {orders}
  Keys = {eu}
  SubNames = {billingSub}
  None = None
  audit = audit
  billing = billing
  watch = watch
  regional = regional
  orders = orders
  eu = eu
  auditSub = auditSub
  billingSub = billingSub
  Handlers = {billing, watch}
  Descriptor <- MCDescriptor
  Tasks <- MCTasks
  PoolSize = 1
  Factories = {factory}
  ActorJson = {actor}
  ValenceActors = {actor}
  Accepts <- MCAccepts
  MaxSeq = 2
  MergeModes = {"max"}
  Faults = {"handler", "panic", "build", "stream"}
  MaxStarts = 1
  FactoryOf <- MCFactoryOf
SPECIFICATION FairSpec
INVARIANTS
  DeadLettersExact
PROPERTIES
  DeliveredEventually
  AbortQuiesces
  EverySpawnSettles
CHECK_DEADLOCK FALSE
