------------------------- MODULE TrajectoryGrouper -------------------------
(***************************************************************************)
(* utils/trajectory_grouper.py, with what comes before it and after it: a  *)
(* goal's paths are normalised (TrajectoryPathDTO), grouped by the loop of *)
(* TrajectoryGrouper.group, and each group is turned into one request by   *)
(* the planner that the coordinator selects for it. PILZ plans a whole     *)
(* group as a blended sequence; OMPL plans the first path of its group and *)
(* nothing else, so a path that is grouped with a PTP would be lost.       *)
(*                                                                         *)
(* A path is named by its position in the goal (the DTO guarantees that    *)
(* path ids are unique), and keeps its motion type and blend radius.       *)
(***************************************************************************)
EXTENDS Integers, Sequences

CONSTANT Goals      \* the lists of paths that clients may send

TrajectoryPath == [motion : {"PTP", "LIN", "CIRC"}, radius : Int]

ASSUME GrouperAssumption == Goals \subseteq Seq(TrajectoryPath)

VARIABLES
  goal,         \* the paths as they were sent
  verdict,      \* of the goal's validation
  paths,        \* the paths as they are after it
  grouped,      \* how many of them the loop has put into groups
  groups,       \* the groups, each a list of positions
  requests,     \* the requests sent to the planners, one per group
  completed     \* the paths reported as completed

grouperVars == <<goal, verdict, paths, grouped, groups, requests, completed>>

LastOf(s) == s[Len(s)]

-----------------------------------------------------------------------------

(* TrajectoryPathDTO.normalise_blend_radius: no negative radius.           *)
Normalised(path) == [path EXCEPT !.radius = IF @ < 0 THEN 0 ELSE @]

EffectiveBlend(path) == IF path.motion = "PTP" THEN 0 ELSE path.radius

(* Whether the loop's next path is merged into the last group: its         *)
(* predecessor blends and it is not a PTP. Mutant: the latter is dropped.  *)
Merges_PTP(i) ==
  groups # <<>> /\ EffectiveBlend(paths[LastOf(LastOf(groups))]) > 0

Merges(i) ==
  /\ groups # <<>>
  /\ paths[i].motion # "PTP"
  /\ EffectiveBlend(paths[LastOf(LastOf(groups))]) > 0

(* The requests: PILZ needs radius 0 in the last item; OMPL plans only the *)
(* first path. Mutant: the last item keeps its radius.                     *)
PilzRequest_LastBlends(group) ==
  [i \in DOMAIN group |-> [path |-> group[i], blend |-> paths[group[i]].radius]]

PilzRequest(group) ==
  [i \in DOMAIN group |->
     [path  |-> group[i],
      blend |-> IF i < Len(group) THEN paths[group[i]].radius ELSE 0]]

OmplRequest(group) == <<[path |-> group[1], blend |-> 0]>>

(* PlanningCoordinator._select_service                                     *)
Request(group) ==
  IF paths[group[1]].motion = "PTP" THEN OmplRequest(group) ELSE PilzRequest(group)

(* PlanResultDTO.path_ids, which completed_ids is extended with. Mutant:   *)
(* only the leading path of a group is reported.                           *)
PathIds_Leading(request) == <<request[1].path>>

PathIds(request) == [i \in DOMAIN request |-> request[i].path]

-----------------------------------------------------------------------------
GrouperInit ==
  /\ goal \in Goals
  /\ verdict = "none"
  /\ paths = <<>>
  /\ grouped = 0
  /\ groups = <<>>
  /\ requests = <<>>
  /\ completed = <<>>

(* TrajectoryGoalDTO.validate_paths: there must be a path.                 *)
Validate ==
  /\ verdict = "none"
  /\ IF goal = <<>>
     THEN verdict' = "rejected" /\ UNCHANGED paths
     ELSE /\ verdict' = "accepted"
          /\ paths' = [i \in DOMAIN goal |-> Normalised(goal[i])]
  /\ UNCHANGED <<goal, grouped, groups, requests, completed>>

(* One turn of the grouping loop: the path opens a group ...               *)
OpenGroup ==
  /\ grouped < Len(paths)
  /\ ~Merges(grouped + 1)
  /\ groups' = Append(groups, <<grouped + 1>>)
  /\ grouped' = grouped + 1
  /\ UNCHANGED <<goal, verdict, paths, requests, completed>>

(* ... or is merged into the last one.                                     *)
ExtendGroup ==
  /\ grouped < Len(paths)
  /\ Merges(grouped + 1)
  /\ groups' = [groups EXCEPT ![Len(groups)] = Append(@, grouped + 1)]
  /\ grouped' = grouped + 1
  /\ UNCHANGED <<goal, verdict, paths, requests, completed>>

(* The next group is planned and executed.                                 *)
PlanGroup ==
  /\ grouped = Len(paths)
  /\ Len(requests) < Len(groups)
  /\ LET request == Request(groups[Len(requests) + 1])
     IN  /\ requests' = Append(requests, request)
         /\ completed' = completed \o PathIds(request)
  /\ UNCHANGED <<goal, verdict, paths, grouped, groups>>

GrouperNext == Validate \/ OpenGroup \/ ExtendGroup \/ PlanGroup

GrouperSpec == GrouperInit /\ [][GrouperNext]_grouperVars

-----------------------------------------------------------------------------
(* The types; after the validation no radius is negative.                  *)
GrouperTypeOK ==
  /\ goal \in Seq(TrajectoryPath)
  /\ verdict \in {"none", "accepted", "rejected"}
  /\ paths \in Seq([motion : {"PTP", "LIN", "CIRC"}, radius : Nat])
  /\ grouped \in 0..Len(paths)
  /\ groups \in Seq(Seq(1..Len(paths)))
  /\ requests \in Seq(Seq([path : 1..Len(paths), blend : Nat]))
  /\ completed \in Seq(1..Len(paths))

(* A PTP is always alone in its group (group's docstring, D-2), so OMPL    *)
(* never gets a path that it would ignore, nor PILZ one it cannot blend.   *)
PTPIsAlone ==
  \A k \in DOMAIN groups : \A j \in DOMAIN groups[k] :
      paths[groups[k][j]].motion = "PTP" => Len(groups[k]) = 1

(* The paths reported as completed are those of the goal, in its order,    *)
(* none lost and none repeated, whatever the planners made of the groups;  *)
(* at the end they are all of them.                                        *)
AllPathsInOrder ==
  /\ \A i \in DOMAIN completed : completed[i] = i
  /\ grouped = Len(paths) /\ Len(requests) = Len(groups) => Len(completed) = Len(paths)

(* The groups are ones that the planners can plan, and give back the goal. *)
GroupsAreSound == PTPIsAlone /\ AllPathsInOrder

(* The robot blends from one path into the next exactly where the client   *)
(* asked for it and both are LIN or CIRC; it stops everywhere else, and    *)
(* always at the end of a request (the PILZ constraint).                   *)
BlendAsked(i) ==
  IF i < Len(paths) /\ paths[i].motion # "PTP" /\ paths[i + 1].motion # "PTP"
     /\ goal[i].radius > 0
  THEN goal[i].radius
  ELSE 0

BlendsAsAsked ==
  \A k \in DOMAIN requests : \A j \in DOMAIN requests[k] :
      /\ requests[k][j].blend = BlendAsked(requests[k][j].path)
      /\ requests[k][j].blend = 0 => j = Len(requests[k])
=============================================================================
