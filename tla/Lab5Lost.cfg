SPECIFICATION Spec
CONSTANTS
  QUEUE_BASE_SIZE = 2
  MAX_LEN = 2
  Messages = {m1}
  NULL = NULL
  MainThread = MainThread
  NoThread = NoThread
  MAX_PRODUCER_THREADS = 1
  MAX_CONSUMER_THREADS = 1
  Commands = {"+", "*"}
INVARIANTS
  PopFindsMessage
CHECK_DEADLOCK FALSE
