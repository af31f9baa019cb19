SPECIFICATION FairSpec
CONSTANTS
  Tids = {t1, t2}
  MainThread = MainThread
  NoThread = NoThread
  Departed = Departed
  QUEUE_BASE_SIZE = 1
  MAX_LEN = 1
  MAX_PRODUCER_THREADS = 2
  MAX_CONSUMER_THREADS = 1
  Commands = {"+", "*", "-", "_", "r", "e", "q", "^C"}
INVARIANTS
  NeverRefused
  NoLostWakeup
  OrphansCancelled
PROPERTIES
  CloseReturns
  ReduceReturns
  QuitCompletes
CHECK_DEADLOCK FALSE
