SPECIFICATION FairSpec
CONSTANTS
  Clients = {c1, c2}
  Typed <- LinesOfAllKinds
  Fragments <- Parts
  Cuts <- CutsOfAllKinds
  Tree <- TreeOfOne
  Beside <- OneBeside
  MAX_COMMANDS = 2
INVARIANTS
  AnswersBalance
  PromptIsCurrent
  ServerSurvives
PROPERTIES
  Answered
  SessionEnds
CHECK_DEADLOCK FALSE
