SPECIFICATION Spec
CONSTANTS
  Procs = {p1, p2, p3}
  Messages = {m1, m2}
  Blank = Blank
  QUEUE_SIZE = 2
  INT_MAX = 2
  SEMVMX = 2
  MAX_PROCESSES_COUNT = 3
  Commands = {"+", "*", "q", "eof"}
SYMMETRY Interchangeable
INVARIANTS
  MutualExclusion
  MessagesWhole
  SemaphoresCountQueue
PROPERTIES
  FifoOrder
CHECK_DEADLOCK FALSE
