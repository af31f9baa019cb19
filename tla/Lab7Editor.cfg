SPECIFICATION FairSpec
CONSTANTS
  Editors = {e1, e2}
  Records = {r1}
  Values = {v1, v2}
  Zero = v1
  NoEditor = NoEditor
  NoRecord = NoRecord
INVARIANTS
PROPERTIES
  NoLostUpdate
  CompareAndSet
  PutReturns
CHECK_DEADLOCK FALSE
