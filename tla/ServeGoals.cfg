SPECIFICATION Spec
CONSTANTS
  Goals = {g1, g2}
  NoGoal = NoGoal
  GroupCount <- TwoGroups
  CancelRequests = {}
  MaxTrajectories = 2
  QuietStart = TRUE
PROPERTY ServiceSpec
PROPERTY AcceptedGoalsEnd
CHECK_DEADLOCK FALSE
