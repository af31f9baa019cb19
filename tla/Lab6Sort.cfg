SPECIFICATION FairSpec
CONSTANTS
  BLOCKS = 8
  THREADS = 2
  RECORDS = 18
  PORTION = 8
  Marks <- TwoMarks
  Files <- ThreeSmall
INVARIANTS
  RecordsApart
PROPERTIES
  SortsFile
  Ends
CHECK_DEADLOCK FALSE
