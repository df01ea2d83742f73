SPECIFICATION Spec
CONSTANTS
  Goals = {g1, g2}
  NoGoal = NoGoal
  GroupCount <- TwoGroups
  Cancellers = {}
  QuietStart = FALSE
  PatientCaller = FALSE
INVARIANT NoGroupTwice
PROPERTY SessionsEnd
CHECK_DEADLOCK FALSE
