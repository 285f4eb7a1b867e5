\* A second attempt with another factory dispatches with one and falls back with the other.
CONSTANTS
  Topics = {topic, otherTopic}
  Keys = {keyA, keyB}
  SubNames = {}
  None = None
  unfiltered = unfiltered
  keyed = keyed
  topic = topic
  otherTopic = otherTopic
  keyA = keyA
  keyB = keyB
  t1 = t1
  t2 = t2
  Handlers = {unfiltered, second, keyed}
  Descriptor <- MCDescriptor
  OpaqueBuilds = TRUE
  Threads = {t1, t2}
  HostCalls <- MCHostCalls
  Processes <- MCRetries
SPECIFICATION Spec
INVARIANT RuntimeIsPinned
CHECK_DEADLOCK FALSE
