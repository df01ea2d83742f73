----------------------- MODULE MCPlanningCoordinator -----------------------
(* Small instances of PlanningCoordinator for TLC.                         *)
EXTENDS PlanningCoordinator

TwoGroups   == [g \in Goals |-> 2]
ThreeGroups == [g \in Goals |-> 3]
=============================================================================
