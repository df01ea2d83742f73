SPECIFICATION Spec
CONSTANTS
  Goals = {g1, g2}
  NoGoal = NoGoal
  GroupCount <- TwoGroups
  Cancellers = {}
  QuietStart = FALSE
  PatientCaller = TRUE
INVARIANT ExhaustedMeansAll
CHECK_DEADLOCK FALSE
