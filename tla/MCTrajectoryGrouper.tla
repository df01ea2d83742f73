------------------------ MODULE MCTrajectoryGrouper ------------------------
(* Every goal of at most MaxPaths paths, of every motion type and with a   *)
(* negative, a zero or a positive blend radius.                            *)
EXTENDS TrajectoryGrouper

MaxPaths == 4

SmallPath == [motion : {"PTP", "LIN", "CIRC"}, radius : {-1, 0, 2}]

SmallGoals == UNION {[1..n -> SmallPath] : n \in 0..MaxPaths}
=============================================================================
