SPECIFICATION Spec
CONSTANTS
  Inputs = {din}
  Outputs = {tool}
  CommandOnly = {tool}
  Values = {0, 1}
  Default = 0
  Drivers = {d1}
  NoDriver = NoDriver
  Monitors = {m1}
  MaxChanges = 2
  MaxTimers = 1
  CleanupAfterFailure = FALSE
  PatientOperator = TRUE
INVARIANT MonitorsHearEveryChange
INVARIANT ReportsCurrentValue
INVARIANT NothingLeftBehind
PROPERTY MonitorsEnd
CHECK_DEADLOCK FALSE
