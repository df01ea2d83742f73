---------------------------- MODULE MCNodeParts ----------------------------
(***************************************************************************)
(* Two parts of the movement controller: the grouping of a goal's paths,   *)
(* and the transitions of the node. A behaviour is one of either part; the *)
(* other stays in one initial state.                                       *)
(***************************************************************************)
EXTENDS MCTrajectoryGrouper, NodeLifecycle, TLC

VARIABLE part   \* the part that runs

PartsInit ==
  /\ part \in {"grouping", "lifecycle"}
  /\ GrouperInit /\ (part = "lifecycle" => goal = <<>>)
  /\ LifecycleInit

PartsNext ==
  \/ part = "grouping" /\ GrouperNext /\ UNCHANGED <<part, lifecycleVars>>
  \/ part = "lifecycle" /\ LifecycleNext /\ UNCHANGED <<part, grouperVars>>

(* No property is about liveness, and nothing tells two goals apart.       *)
Symmetry == Permutations(Handles) \cup Permutations(Coordinators)

PartsSpec == PartsInit /\ [][PartsNext]_<<part, grouperVars, lifecycleVars>>
=============================================================================
