SPECIFICATION Spec
CONSTANTS
  Files <- MCFiles
  Unreadable <- MCUnreadable
  Programs <- MCPrograms
  Matches <- MCMatches
  MAX_RUNS = 3
INVARIANTS
  ChangedCopyKept
  CompleteRunCleans
  ResultsInOrder
CHECK_DEADLOCK FALSE
