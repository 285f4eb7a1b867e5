\* Two threads of one process: tests, examples and short programs.
CONSTANTS
  Topics = {topic, otherTopic}
  Keys = {keyA, keyB}
  SubNames = {}
  None = None
  unfiltered = unfiltered
  keyed = keyed
  topic = topic
  otherTopic = otherTopic
  keyA = keyA
  keyB = keyB
  t1 = t1
  t2 = t2
  Handlers = {unfiltered, second, keyed}
  Descriptor <- MCDescriptor
  OpaqueBuilds = TRUE
  Threads = {t1, t2}
  HostCalls <- MCHostCalls
  Processes <- MCProcesses
SPECIFICATION Spec
INVARIANTS
  HostTypeOK
  SystemValenceOrdered
  ExpectationsMet
  FirstAttemptPins
  EachServedOnce
  DiscoveryComplete
  TruncationSound
CHECK_DEADLOCK FALSE
