SPECIFICATION SilentPlannerSpec
CONSTANTS
  Goals = {g1, g2}
  NoGoal = NoGoal
  GroupCount <- TwoGroups
  Cancellers = {k1}
  QuietStart = TRUE
  PatientCaller = FALSE
 
PROPERTY CancelTakesEffect
CHECK_DEADLOCK FALSE
