\* An unfiltered and a keyed stream of one topic whose durable handlers share a
\* subscription name; streams fail, end, are aborted or die with the process.
CONSTANTS
  Topics = {orders}
  Keys = {eu}
  SubNames = {billingSub}
  None = None
  audit = audit
  billing = billing
  watch = watch
  regional = regional
  orders = orders
  eu = eu
  auditSub = auditSub
  billingSub = billingSub
  Handlers = {billing, regional}
  Descriptor <- MCDescriptor
  Tasks <- MCTasks
  PoolSize = 1
  Factories = {factory}
  ActorJson = {actor}
  ValenceActors = {actor}
  Accepts <- MCAccepts
  MaxSeq = 2
  MergeModes = {"max"}
  Faults = {"handler", "dlq", "stream", "stream_end", "crash"}
  MaxStarts = 1
  FactoryOf <- MCFactoryOf
SPECIFICATION Spec
INVARIANTS
  ExecutorTypeOK
  DispatchedExactly
  ResumeSkipsOnlyDispatched
  ProcessedIsRemembered
PROPERTIES
  DispatchSpec
  ImplementsLedger
CHECK_DEADLOCK FALSE
