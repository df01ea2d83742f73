SPECIFICATION Spec
CONSTANTS
  Names <- MCNames
  MaxPlans = 2
  Projects <- MCProjects
  AutoPrune = TRUE
  KeepRecent = 1
  MaxCommands = 3
INVARIANT PhasesAgree
INVARIANT NextStepIsKnown
 
PROPERTY ReportsAreTrue
CHECK_DEADLOCK FALSE
