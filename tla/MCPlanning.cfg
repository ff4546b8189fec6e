SPECIFICATION LiveSpec
CONSTANTS
  Lenses = 1
  MaxRounds = 2
  Questions <- MCQuestions
  MaxTexts = 3
  MaxCommands = 2
  MaxDisruptions = 2
  MaxSpent = 3
INVARIANTS
  TypeOK
  EveryRunHasCommand
  ApprovalIsConsistent
PROPERTIES
  UpdateKeepsEdits
  PlanningSettles
CHECK_DEADLOCK FALSE
