SPECIFICATION FairSpec
CONSTANTS
  Procs = {p1, p2}
  Messages = {m1}
  Blank = Blank
  QUEUE_SIZE = 1
  INT_MAX = 1
  SEMVMX = 1
  MAX_PROCESSES_COUNT = 2
  Commands = {"+", "*", "k"}
INVARIANTS
  TokensNeverLost
  TableMatchesChildren
PROPERTIES
  KillReturnsWithPartner
  SleeperProceeds
CHECK_DEADLOCK FALSE
