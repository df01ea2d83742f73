SPECIFICATION PartsSpec
CONSTANTS
  Goals <- SmallGoals
  Handles = {h1, h2}
  NoHandle = NoHandle
  Coordinators = {c1, c2}
  NoCoordinator = NoCoordinator
INVARIANT GroupsAreSound
INVARIANT BlendsAsAsked
INVARIANT TransitionsAreClean
SYMMETRY Symmetry
CHECK_DEADLOCK FALSE
