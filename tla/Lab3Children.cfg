SPECIFICATION FairSpec
CONSTANTS
  Pids = {p1, p2}
  CYCLE_ITERATIONS_COUNT = 2
  MAX_EXTRA_TICKS = 1
INVARIANTS
  FlagFollowsParent
  EveryIterationSampled
PROPERTIES
  StatisticsFinal
  ChildEnds
CHECK_DEADLOCK FALSE
