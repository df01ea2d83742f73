SPECIFICATION Spec
CONSTANTS
  Goals = {g1, g2}
  NoGoal = NoGoal
  GroupCount <- ThreeGroups
  Cancellers = {}
  QuietStart = TRUE
  PatientCaller = TRUE
PROPERTY StreamSpec
CHECK_DEADLOCK FALSE
