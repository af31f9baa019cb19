SPECIFICATION FairSpec
CONSTANTS
  QUEUE_BASE_SIZE = 1
  MAX_LEN = 2
  Messages = {m1}
  NULL = NULL
  MainThread = MainThread
  NoThread = NoThread
  MAX_PRODUCER_THREADS = 2
  MAX_CONSUMER_THREADS = 1
  Commands = {"+", "*", "-", "_", "r", "e", "q", "^C"}
PROPERTIES
  CloseReturnsWithPartner
  QuitCompletes
CHECK_DEADLOCK FALSE
