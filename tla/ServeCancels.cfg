SPECIFICATION Spec
CONSTANTS
  Goals = {g1, g2}
  NoGoal = NoGoal
  GroupCount <- OneGroup
  CancelRequests = {k1}
  MaxTrajectories = 2
  QuietStart = TRUE
INVARIANT OneGoalServed
INVARIANT MotionIsAwaited
PROPERTY CancelingSendsNoMore
 
SYMMETRY Symmetry
CHECK_DEADLOCK FALSE
