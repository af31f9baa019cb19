SPECIFICATION Spec
CONSTANTS
  QUEUE_BASE_SIZE = 2
  MAX_LEN = 3
  Messages = {m1, m2}
  NULL = NULL
  MainThread = MainThread
  NoThread = NoThread
  MAX_PRODUCER_THREADS = 2
  MAX_CONSUMER_THREADS = 2
  Commands = {"+", "*", "-", "_", "l", "e", "r", "^C"}
SYMMETRY Interchangeable
INVARIANTS
  ItemsAgree
  NeverRefused
  TableMatchesThreads
PROPERTIES
  SlackKept
  OrderKept
CHECK_DEADLOCK FALSE
