--------------------------- MODULE NodePartsProofs ---------------------------
(***************************************************************************)
(* Three parts of the nodes, each for its own specification: the grouping  *)
(* of a goal's paths and the transitions of the movement controller, and   *)
(* the GPIO controller.                                                    *)
(***************************************************************************)
EXTENDS TrajectoryGrouper, NodeLifecycle, GpioController, SequenceTheorems, TLAPS

-----------------------------------------------------------------------------
(***************************************************************************)
(* For every list of paths, of any length and with any blend radii: a PTP  *)
(* is alone in its group, and the paths completed are those of the goal,   *)
(* in order. The loop invariant is GroupsFollow: the groups cut the paths  *)
(* handled so far into consecutive intervals. The last theorem is about    *)
(* the blend radii that reach the planner.                                 *)
(***************************************************************************)

(* Nothing is grouped before the goal is accepted, or planned before all   *)
(* paths are grouped.                                                      *)
Phases ==
  /\ verdict # "accepted" => paths = <<>> /\ groups = <<>> /\ requests = <<>>
                             /\ completed = <<>> /\ grouped = 0
  /\ requests # <<>> => grouped = Len(paths)

Interval(group) ==
  /\ group # <<>>
  /\ \A j \in DOMAIN group : group[j] = group[1] + j - 1

GroupsFollow ==
  /\ \A k \in DOMAIN groups : Interval(groups[k])
  /\ groups # <<>> => groups[1][1] = 1 /\ LastOf(LastOf(groups)) = grouped
  /\ groups = <<>> => grouped = 0
  /\ \A k \in 1..(Len(groups) - 1) : groups[k + 1][1] = LastOf(groups[k]) + 1

PlansFollow ==
  /\ Len(requests) <= Len(groups)
  /\ requests = <<>> => completed = <<>>
  /\ requests # <<>> => Len(completed) = LastOf(groups[Len(requests)])
  /\ \A i \in DOMAIN completed : completed[i] = i

GroupsInv == GrouperTypeOK /\ Phases /\ GroupsFollow /\ PTPIsAlone /\ PlansFollow

LEMMA InitInv == GrouperInit => GroupsInv
BY GrouperAssumption
   DEF GrouperInit, GroupsInv, GrouperTypeOK, Phases, GroupsFollow, PTPIsAlone, PlansFollow

(* The validation normalises the paths, before anything else is done.      *)
LEMMA ValidateInv == ASSUME GroupsInv, Validate PROVE GroupsInv'
<1>1. CASE goal = <<>>
  <2>1. UNCHANGED <<goal, paths, grouped, groups, requests, completed>>
        /\ verdict' = "rejected" /\ verdict = "none"
    BY <1>1 DEF Validate
  <2>2. QED
    BY <2>1 DEF GroupsInv, GrouperTypeOK, Phases, GroupsFollow, PTPIsAlone, PlansFollow
<1>2. CASE goal # <<>>
  <2>1. /\ groups = <<>> /\ requests = <<>> /\ completed = <<>> /\ grouped = 0
        /\ groups' = <<>> /\ requests' = <<>> /\ completed' = <<>> /\ grouped' = 0
    BY <1>2 DEF Validate, GroupsInv, Phases
  <2>2. goal' \in Seq(TrajectoryPath) /\ verdict' = "accepted"
    BY <1>2 DEF Validate, GroupsInv, GrouperTypeOK
  <2>3. paths' \in Seq([motion : {"PTP", "LIN", "CIRC"}, radius : Nat])
    <3>1. \A path \in TrajectoryPath :
             Normalised(path) \in [motion : {"PTP", "LIN", "CIRC"}, radius : Nat]
      BY DEF TrajectoryPath, Normalised
    <3>2. \A i \in DOMAIN goal : goal[i] \in TrajectoryPath
      BY DEF GroupsInv, GrouperTypeOK
    <3>3. /\ DOMAIN goal = 1..Len(goal) /\ Len(goal) \in Nat
          /\ paths' = [i \in DOMAIN goal |-> Normalised(goal[i])]
      BY <1>2 DEF Validate, GroupsInv, GrouperTypeOK
    <3>4. QED
      BY <3>1, <3>2, <3>3
  <2>4. Len(paths') \in Nat
    BY <2>3
  <2>5. QED
    BY <2>1, <2>2, <2>3, <2>4
       DEF GroupsInv, GrouperTypeOK, Phases, GroupsFollow, PTPIsAlone, PlansFollow
<1>3. QED
  BY <1>1, <1>2

(* The facts that both kinds of loop turn start from: nothing is planned   *)
(* yet, and the paths stay as they are.                                    *)
LEMMA TurnFacts ==
  ASSUME GroupsInv, OpenGroup \/ ExtendGroup
  PROVE  /\ grouped \in Nat /\ grouped' = grouped + 1
         /\ grouped + 1 \in 1..Len(paths) /\ Len(paths) \in Nat
         /\ requests = <<>> /\ completed = <<>> /\ verdict = "accepted"
         /\ UNCHANGED <<goal, verdict, paths, requests, completed>>
<1>1. /\ grouped < Len(paths) /\ grouped' = grouped + 1
      /\ UNCHANGED <<goal, verdict, paths, requests, completed>>
  BY DEF OpenGroup, ExtendGroup
<1>2. Len(paths) \in Nat /\ grouped \in 0..Len(paths)
  BY DEF GroupsInv, GrouperTypeOK
<1>3. requests = <<>> /\ completed = <<>>
  BY <1>1, <1>2 DEF GroupsInv, Phases, PlansFollow
<1>4. verdict = "accepted"
  BY <1>1, <1>2 DEF GroupsInv, Phases
<1>5. QED
  BY <1>1, <1>2, <1>3, <1>4

(* A path that opens a group starts the next interval.                     *)
LEMMA OpenInv == ASSUME GroupsInv, OpenGroup PROVE GroupsInv'
<1> DEFINE n == Len(groups)
           new == <<grouped + 1>>
<1>1. /\ grouped \in Nat /\ grouped' = grouped + 1
      /\ grouped + 1 \in 1..Len(paths) /\ Len(paths) \in Nat
      /\ requests = <<>> /\ completed = <<>> /\ verdict = "accepted"
      /\ UNCHANGED <<goal, verdict, paths, requests, completed>>
  BY TurnFacts
<1>2. groups' = Append(groups, new) /\ groups \in Seq(Seq(1..Len(paths)))
  BY DEF OpenGroup, GroupsInv, GrouperTypeOK
<1>3. new \in Seq(1..Len(paths)) /\ Len(new) = 1 /\ new[1] = grouped + 1
  BY <1>1
<1>4. /\ groups' \in Seq(Seq(1..Len(paths))) /\ n \in Nat /\ Len(groups') = n + 1
      /\ groups' # <<>> /\ groups'[n + 1] = new
      /\ \A k \in 1..n : groups'[k] = groups[k]
  BY <1>2, <1>3, SMTT(30)
<1>5. GrouperTypeOK'
  BY <1>1, <1>4 DEF GroupsInv, GrouperTypeOK
<1>6. Phases'
  BY <1>1 DEF Phases
<1>7. GroupsFollow'
  <2>1. \A k \in DOMAIN groups' : Interval(groups'[k])
    <3>1. Interval(new)
      BY <1>1, <1>3 DEF Interval
    <3>2. \A k \in 1..n : Interval(groups[k])
      BY <1>2 DEF GroupsInv, GroupsFollow
    <3>3. ASSUME NEW k \in DOMAIN groups' PROVE Interval(groups'[k])
      <4>1. k \in 1..n \/ k = n + 1
        BY <1>4, <3>3
      <4>2. CASE k \in 1..n
        <5>1. groups'[k] = groups[k]
          BY <1>4, <4>2
        <5>2. QED
          BY <3>2, <4>2, <5>1
      <4>3. CASE k = n + 1
        <5>1. groups'[k] = new
          BY <1>4, <4>3
        <5>2. QED
          BY <3>1, <5>1
      <4>4. QED
        BY <4>1, <4>2, <4>3
    <3>4. QED
      BY <3>3
  <2>2. groups'[1][1] = 1 /\ LastOf(LastOf(groups'))= grouped'
    <3>1. LastOf(LastOf(groups')) = grouped + 1
      BY <1>3, <1>4 DEF LastOf
    <3>2. CASE groups = <<>>
      BY <1>3, <1>4, <3>1, <3>2, <1>1 DEF GroupsInv, GroupsFollow
    <3>3. CASE groups # <<>>
      <4>1. groups[1][1] = 1 /\ 1 \in 1..n
        BY <1>2, <3>3 DEF GroupsInv, GroupsFollow
      <4>2. QED
        BY <4>1, <1>4, <3>1, <1>1
    <3>4. QED
      BY <3>2, <3>3
  <2>3. \A k \in 1..n : groups'[k + 1][1] = LastOf(groups'[k]) + 1
    <3>1. ASSUME NEW k \in 1..n, k < n
          PROVE  groups'[k + 1][1] = LastOf(groups'[k]) + 1
      <4>1. k \in 1..(n - 1) /\ k + 1 \in 1..n
        BY <3>1, <1>4
      <4>2. groups[k + 1][1] = LastOf(groups[k]) + 1
        BY <4>1 DEF GroupsInv, GroupsFollow
      <4>3. QED
        BY <1>4, <4>1, <4>2
    <3>2. ASSUME n \in 1..n PROVE groups'[n + 1][1] = LastOf(groups'[n]) + 1
      <4>1. groups # <<>>
        BY <1>2, <3>2
      <4>2. LastOf(groups[n]) = grouped
        BY <4>1 DEF GroupsInv, GroupsFollow, LastOf
      <4>3. QED
        BY <1>3, <1>4, <3>2, <4>2
    <3>3. QED
      BY <1>4, <3>1, <3>2
  <2>4. Len(groups') - 1 = n
    BY <1>4
  <2>5. QED
    BY <1>4, <2>1, <2>2, <2>3, <2>4 DEF GroupsFollow
<1>8. PTPIsAlone'
  <2>1. \A k \in 1..n : \A j \in DOMAIN groups[k] :
           paths[groups[k][j]].motion = "PTP" => Len(groups[k]) = 1
    BY <1>2 DEF GroupsInv, PTPIsAlone
  <2>2. ASSUME NEW k \in DOMAIN groups', NEW j \in DOMAIN groups'[k],
               paths[groups'[k][j]].motion = "PTP"
        PROVE  Len(groups'[k]) = 1
    <3>1. k \in 1..n \/ k = n + 1
      BY <1>4, <2>2
    <3>2. CASE k \in 1..n
      <4>1. groups'[k] = groups[k]
        BY <1>4, <3>2
      <4>2. QED
        BY <2>1, <2>2, <3>2, <4>1
    <3>3. CASE k = n + 1
      <4>1. groups'[k] = new
        BY <1>4, <3>3
      <4>2. QED
        BY <1>3, <4>1
    <3>4. QED
      BY <3>1, <3>2, <3>3
  <2>3. QED
    BY <1>1, <2>2 DEF PTPIsAlone
<1>9. PlansFollow'
  BY <1>1, <1>4 DEF PlansFollow
<1>10. QED
  BY <1>5, <1>6, <1>7, <1>8, <1>9 DEF GroupsInv

(* A path that is merged extends the last interval; its predecessor is not *)
(* a PTP, so no member of the group is.                                    *)
LEMMA ExtendInv == ASSUME GroupsInv, ExtendGroup PROVE GroupsInv'
<1> DEFINE n == Len(groups)
           last == groups[n]
           new == Append(last, grouped + 1)
<1>1. /\ grouped \in Nat /\ grouped' = grouped + 1
      /\ grouped + 1 \in 1..Len(paths) /\ Len(paths) \in Nat
      /\ requests = <<>> /\ completed = <<>> /\ verdict = "accepted"
      /\ UNCHANGED <<goal, verdict, paths, requests, completed>>
  BY TurnFacts
<1>2. /\ groups \in Seq(Seq(1..Len(paths))) /\ groups # <<>>
      /\ groups' = [groups EXCEPT ![n] = new]
      /\ paths[grouped + 1].motion # "PTP"
      /\ EffectiveBlend(paths[LastOf(LastOf(groups))]) > 0
  BY DEF ExtendGroup, Merges, GroupsInv, GrouperTypeOK
<1>3. n \in Nat /\ n \in 1..n /\ last \in Seq(1..Len(paths))
  BY <1>2
<1>4. /\ Interval(last) /\ last[Len(last)] = grouped /\ groups[1][1] = 1
      /\ DOMAIN last = 1..Len(last) /\ last # <<>>
  <2>1. Interval(last)
    BY <1>2, <1>3 DEF GroupsInv, GroupsFollow
  <2>2. last[Len(last)] = grouped /\ groups[1][1] = 1
    BY <1>2 DEF GroupsInv, GroupsFollow, LastOf
  <2>3. DOMAIN last = 1..Len(last)
    BY <1>3
  <2>4. QED
    BY <2>1, <2>2, <2>3 DEF Interval
<1>5. /\ new \in Seq(1..Len(paths)) /\ Len(last) \in Nat \ {0}
      /\ Len(new) = Len(last) + 1 /\ new[1] = last[1]
      /\ new[Len(new)] = grouped + 1 /\ \A j \in 1..Len(last) : new[j] = last[j]
      /\ DOMAIN new = 1..Len(new) /\ new # <<>>
  BY <1>1, <1>3, <1>4, SMTT(30)
<1>6. /\ groups' \in Seq(Seq(1..Len(paths))) /\ Len(groups') = n /\ groups' # <<>>
      /\ groups'[n] = new /\ \A k \in 1..n : k # n => groups'[k] = groups[k]
  BY <1>2, <1>3, <1>5
<1>7. GrouperTypeOK'
  BY <1>1, <1>6 DEF GroupsInv, GrouperTypeOK
<1>8. Phases'
  BY <1>1 DEF Phases
<1>9. GroupsFollow'
  <2>1. ASSUME NEW k \in DOMAIN groups' PROVE Interval(groups'[k])
    <3>1. k \in 1..n
      BY <1>6, <2>1
    <3>2. CASE k # n
      <4>1. groups'[k] = groups[k] /\ Interval(groups[k])
        BY <1>2, <1>6, <3>1, <3>2 DEF GroupsInv, GroupsFollow
      <4>2. QED
        BY <4>1
    <3>3. CASE k = n
      <4>1. grouped = last[1] + Len(last) - 1 /\ last[1] \in Nat
        <5>1. Len(last) \in DOMAIN last /\ 1 \in DOMAIN last
          BY <1>4, <1>5
        <5>2. last[1] \in 1..Len(paths)
          BY <1>3, <5>1
        <5>3. last[Len(last)] = last[1] + Len(last) - 1
          BY <1>4, <5>1 DEF Interval
        <5>4. QED
          BY <1>4, <5>2, <5>3
      <4>2. \A j \in 1..Len(last) : last[j] = last[1] + j - 1
        BY <1>3, <1>4 DEF Interval
      <4>3. \A j \in 1..Len(new) : new[j] = new[1] + j - 1
        BY <1>5, <4>1, <4>2, SMTT(30)
      <4>4. Interval(new)
        <5>1. new # <<>> /\ DOMAIN new = 1..Len(new)
          BY <1>5
        <5>2. QED
          BY <4>3, <5>1 DEF Interval
      <4>5. groups'[k] = new
        BY <1>6, <3>3
      <4>6. QED
        BY <4>4, <4>5
    <3>4. QED
      BY <3>2, <3>3
  <2>2. groups'[1][1] = 1
    <3>1. CASE n = 1
      <4>1. groups'[1] = new
        BY <1>6, <3>1
      <4>2. new[1] = groups[1][1]
        BY <1>5, <3>1
      <4>3. QED
        BY <1>4, <4>1, <4>2
    <3>2. CASE n # 1
      <4>1. groups'[1] = groups[1]
        BY <1>3, <1>6, <3>2
      <4>2. QED
        BY <1>4, <4>1
    <3>3. QED
      BY <3>1, <3>2
  <2>3. LastOf(LastOf(groups')) = grouped'
    BY <1>1, <1>5, <1>6 DEF LastOf
  <2>4. ASSUME NEW k \in 1..(n - 1) PROVE groups'[k + 1][1] = LastOf(groups'[k]) + 1
    <3>1. k \in 1..n /\ k + 1 \in 1..n /\ k # n
      BY <1>3
    <3>2. groups[k + 1][1] = LastOf(groups[k]) + 1
      BY DEF GroupsInv, GroupsFollow
    <3>3. groups'[k + 1][1] = groups[k + 1][1] /\ groups'[k] = groups[k]
      BY <1>5, <1>6, <3>1
    <3>4. QED
      BY <3>2, <3>3
  <2>5. QED
    BY <1>6, <2>1, <2>2, <2>3, <2>4 DEF GroupsFollow
<1>10. PTPIsAlone'
  <2>1. \A j \in 1..Len(last) : paths[last[j]].motion # "PTP"
    <3>1. paths[last[Len(last)]].motion # "PTP"
      BY <1>2, <1>3 DEF EffectiveBlend, LastOf
    <3>2. \A j \in DOMAIN last : paths[last[j]].motion = "PTP" => Len(last) = 1
      BY <1>2, <1>3 DEF GroupsInv, PTPIsAlone
    <3>3. QED
      BY <1>3, <1>5, <3>1, <3>2
  <2>2. \A j \in 1..Len(new) : paths[new[j]].motion # "PTP"
    BY <1>2, <1>5, <2>1, SMTT(30)
  <2>3. ASSUME NEW k \in DOMAIN groups', NEW j \in DOMAIN groups'[k],
               paths[groups'[k][j]].motion = "PTP"
        PROVE  Len(groups'[k]) = 1
    <3>1. k \in 1..n
      BY <1>6, SMTT(30)
    <3>2. CASE k # n
      <4>1. groups'[k] = groups[k]
        BY <1>6, <3>1, <3>2
      <4>2. QED
        BY <1>2, <2>3, <3>1, <4>1 DEF GroupsInv, PTPIsAlone
    <3>3. CASE k = n
      <4>1. groups'[k] = new
        BY <1>6, <3>3
      <4>2. j \in 1..Len(new) /\ paths[new[j]].motion = "PTP"
        BY <1>5, <2>3, <4>1
      <4>3. QED
        BY <2>2, <4>2
    <3>4. QED
      BY <3>2, <3>3
  <2>4. QED
    BY <1>1, <2>3 DEF PTPIsAlone
<1>11. PlansFollow'
  BY <1>1, <1>6, <1>3 DEF PlansFollow
<1>12. QED
  BY <1>7, <1>8, <1>9, <1>10, <1>11 DEF GroupsInv

-----------------------------------------------------------------------------
(* Whichever planner a group is for, its request covers the whole group:   *)
(* OMPL ignores all but the first path, but there is no other.             *)
LEMMA RequestCovers ==
  ASSUME GroupsInv, NEW k \in DOMAIN groups
  PROVE  /\ PathIds(Request(groups[k])) = groups[k]
         /\ Request(groups[k]) \in Seq([path : 1..Len(paths), blend : Nat])
<1> DEFINE group == groups[k]
<1>1. group \in Seq(1..Len(paths)) /\ DOMAIN group = 1..Len(group) /\ Len(group) \in Nat
  BY DEF GroupsInv, GrouperTypeOK
<1>2. group # <<>> /\ 1 \in DOMAIN group
  BY <1>1 DEF GroupsInv, GroupsFollow, Interval
<1>3. \A i \in DOMAIN group : group[i] \in 1..Len(paths) /\ paths[group[i]].radius \in Nat
  <2>1. \A i \in DOMAIN group : group[i] \in 1..Len(paths)
    BY <1>1
  <2>2. \A p \in 1..Len(paths) : paths[p].radius \in Nat
    <3> DEFINE P == [motion : {"PTP", "LIN", "CIRC"}, radius : Nat]
    <3>1. paths \in Seq(P) /\ \A path \in P : path.radius \in Nat
      BY DEF GroupsInv, GrouperTypeOK
    <3> HIDE DEF P
    <3>2. \A p \in 1..Len(paths) : paths[p] \in P
      BY <3>1
    <3>3. QED
      BY <3>1, <3>2
  <2>3. QED
    BY <2>1, <2>2
<1>4. CASE paths[group[1]].motion = "PTP"
  <2>1. Len(group) = 1
    BY <1>2, <1>4 DEF GroupsInv, PTPIsAlone
  <2>2. Request(group) = <<[path |-> group[1], blend |-> 0]>>
    BY <1>4 DEF Request, OmplRequest
  <2>3. PathIds(Request(group)) = [i \in 1..1 |-> group[1]]
    BY <2>2 DEF PathIds
  <2>4. group = [i \in 1..1 |-> group[1]]
    BY <1>1, <2>1
  <2>5. [path |-> group[1], blend |-> 0] \in [path : 1..Len(paths), blend : Nat]
    BY <1>2, <1>3
  <2>6. QED
    BY <2>2, <2>3, <2>4, <2>5
<1>5. CASE paths[group[1]].motion # "PTP"
  <2> DEFINE item(i) == [path  |-> group[i],
                         blend |-> IF i < Len(group) THEN paths[group[i]].radius ELSE 0]
  <2>1. Request(group) = [i \in 1..Len(group) |-> item(i)]
    BY <1>1, <1>5 DEF Request, PilzRequest
  <2>2. \A i \in 1..Len(group) : item(i) \in [path : 1..Len(paths), blend : Nat]
    BY <1>1, <1>3
  <2>3. Request(group) \in Seq([path : 1..Len(paths), blend : Nat])
    <3> HIDE DEF item
    <3>1. QED
      BY <1>1, <2>1, <2>2
  <2>4. PathIds(Request(group)) = [i \in 1..Len(group) |-> group[i]]
    BY <2>1 DEF PathIds
  <2>5. group = [i \in 1..Len(group) |-> group[i]]
    BY <1>1
  <2>6. QED
    BY <2>3, <2>4, <2>5
<1>6. QED
  BY <1>4, <1>5

(* The next group is the next interval, so its paths are the ones that     *)
(* follow those completed so far.                                          *)
LEMMA PlanInv == ASSUME GroupsInv, PlanGroup PROVE GroupsInv'
<1> DEFINE m == Len(requests)
           group == groups[m + 1]
           sent == Request(group)
<1>1. /\ grouped = Len(paths) /\ m < Len(groups)
      /\ requests' = Append(requests, sent)
      /\ completed' = completed \o PathIds(sent)
      /\ UNCHANGED <<goal, verdict, paths, grouped, groups>>
  BY DEF PlanGroup
<1>2. /\ m \in Nat /\ Len(groups) \in Nat /\ DOMAIN groups = 1..Len(groups)
      /\ Len(completed) \in Nat /\ DOMAIN completed = 1..Len(completed)
      /\ Len(paths) \in Nat
  BY DEF GroupsInv, GrouperTypeOK
<1>3. m + 1 \in DOMAIN groups /\ groups # <<>>
  BY <1>1, <1>2
<1>4. /\ group \in Seq(1..Len(paths)) /\ Len(group) \in Nat
      /\ DOMAIN group = 1..Len(group) /\ Interval(group)
  BY <1>3 DEF GroupsInv, GrouperTypeOK, GroupsFollow
<1>5. PathIds(sent) = group /\ sent \in Seq([path : 1..Len(paths), blend : Nat])
  BY <1>3, RequestCovers
<1>6. group[1] = Len(completed) + 1
  <2>1. CASE m = 0
    <3>1. requests = <<>>
      BY <2>1 DEF GroupsInv, GrouperTypeOK
    <3>2. Len(completed) = 0
      BY <3>1 DEF GroupsInv, PlansFollow
    <3>3. groups[1][1] = 1
      BY <1>3 DEF GroupsInv, GroupsFollow
    <3>4. QED
      BY <2>1, <3>2, <3>3
  <2>2. CASE m # 0
    <3>1. requests # <<>> /\ m \in 1..(Len(groups) - 1)
      BY <1>1, <1>2, <2>2
    <3>2. Len(completed) = LastOf(groups[m])
      BY <3>1 DEF GroupsInv, PlansFollow
    <3>3. groups[m + 1][1] = LastOf(groups[m]) + 1
      BY <3>1 DEF GroupsInv, GroupsFollow
    <3>4. QED
      BY <3>2, <3>3
  <2>3. QED
    BY <2>1, <2>2
<1>7. \A j \in 1..Len(group) : group[j] = Len(completed) + j
  <2>1. \A j \in 1..Len(group) : group[j] = group[1] + j - 1
    BY <1>4 DEF Interval
  <2>2. \A j \in 1..Len(group) : j \in Nat
    BY <1>4
  <2>3. QED
    BY <1>2, <1>6, <2>1, <2>2
<1>8. Len(group) > 0 /\ LastOf(group) = Len(completed) + Len(group)
  <2>1. Len(group) > 0
    BY <1>4 DEF Interval
  <2>2. QED
    BY <1>4, <1>7, <2>1, SMTT(30) DEF LastOf
<1>9. /\ completed' \in Seq(1..Len(paths))
      /\ Len(completed') = Len(completed) + Len(group)
      /\ \A i \in 1..Len(completed) : completed'[i] = completed[i]
      /\ \A j \in 1..Len(group) : completed'[Len(completed) + j] = group[j]
  <2> DEFINE S == 1..Len(paths)
  <2>1. completed' = completed \o group
    BY <1>1, <1>5
  <2>2. completed \in Seq(S) /\ group \in Seq(S)
    BY <1>4 DEF GroupsInv, GrouperTypeOK
  <2> HIDE DEF S, group
  <2>3. /\ completed' \in Seq(S)
        /\ Len(completed') = Len(completed) + Len(group)
    BY <2>1, <2>2
  <2>4. \A i \in 1..Len(completed) : completed'[i] = completed[i]
    BY <2>1, <2>2
  <2>5. \A j \in 1..Len(group) : completed'[Len(completed) + j] = group[j]
    BY <2>1, <2>2
  <2>6. QED
    BY <2>3, <2>4, <2>5 DEF S
<1>10. /\ requests' \in Seq(Seq([path : 1..Len(paths), blend : Nat]))
       /\ Len(requests') = m + 1 /\ requests' # <<>>
  <2>1. requests \in Seq(Seq([path : 1..Len(paths), blend : Nat]))
    BY DEF GroupsInv, GrouperTypeOK
  <2> DEFINE R == Seq([path : 1..Len(paths), blend : Nat])
  <2>2. sent \in R /\ requests \in Seq(R) /\ requests' = Append(requests, sent)
    BY <1>1, <1>5, <2>1
  <2> HIDE DEF sent, R
  <2>3. requests' \in Seq(R) /\ Len(requests') = Len(requests) + 1 /\ requests' # <<>>
    BY <2>2
  <2>4. QED
    BY <2>3 DEF R
<1>11. GrouperTypeOK'
  BY <1>1, <1>9, <1>10 DEF GroupsInv, GrouperTypeOK
<1>12. Phases'
  <2>1. verdict = "accepted"
    BY <1>3 DEF GroupsInv, Phases
  <2>2. QED
    BY <1>1, <2>1 DEF Phases
<1>13. GroupsFollow' /\ PTPIsAlone'
  BY <1>1 DEF GroupsInv, GroupsFollow, PTPIsAlone
<1>14. PlansFollow'
  <2>1. Len(requests') <= Len(groups')
    BY <1>1, <1>2, <1>10
  <2>2. Len(completed') = LastOf(groups'[Len(requests')])
    BY <1>1, <1>8, <1>9, <1>10
  <2>3. ASSUME NEW i \in 1..Len(completed') PROVE completed'[i] = i
    <3>1. CASE i <= Len(completed)
      <4>1. \A n \in DOMAIN completed : completed[n] = n
        BY Zenon DEF GroupsInv, PlansFollow
      <4> HIDE DEF GroupsInv, group
      <4>2. i \in 1..Len(completed)
        BY <1>2, <1>9, <2>3, <3>1
      <4>3. completed[i] = i
        BY <1>2, <4>1, <4>2, Zenon
      <4>4. QED
        BY <1>9, <4>2, <4>3, Zenon
    <3>2. CASE i > Len(completed)
      <4>1. i - Len(completed) \in 1..Len(group)
        BY <1>2, <1>4, <1>9, <2>3, <3>2
      <4> DEFINE j == i - Len(completed)
      <4>2. i = Len(completed) + j
        BY <1>2, <1>4, <1>9, <2>3
      <4> HIDE DEF j
      <4>3. j \in 1..Len(group)
        BY <4>1 DEF j
      <4>4. completed'[Len(completed) + j] = group[j] /\ group[j] = Len(completed) + j
        BY <1>7, <1>9, <4>3
      <4>5. QED
        BY <4>2, <4>4
    <3>3. QED
      BY <1>2, <3>1, <3>2
  <2>4. DOMAIN completed' = 1..Len(completed')
    BY <1>9
  <2>5. QED
    BY <1>10, <2>1, <2>2, <2>3, <2>4 DEF PlansFollow
<1>15. QED
  BY <1>11, <1>12, <1>13, <1>14 DEF GroupsInv

-----------------------------------------------------------------------------
LEMMA StepInv == GroupsInv /\ [GrouperNext]_grouperVars => GroupsInv'
<1> SUFFICES ASSUME GroupsInv, [GrouperNext]_grouperVars PROVE GroupsInv'
  OBVIOUS
<1>1. CASE UNCHANGED grouperVars
  BY <1>1 DEF GroupsInv, grouperVars, GrouperTypeOK, Phases, GroupsFollow, PTPIsAlone, PlansFollow
<1>2. QED
  BY <1>1, ValidateInv, OpenInv, ExtendInv, PlanInv DEF GrouperNext

LEMMA Invariant == GrouperSpec => []GroupsInv
BY InitInv, StepInv, PTL DEF GrouperSpec

(* Groups and requests name paths of the goal, and no blend radius is      *)
(* negative after the validation.                                          *)
THEOREM GrouperTyped == GrouperSpec => []GrouperTypeOK
<1>1. GroupsInv => GrouperTypeOK
  BY DEF GroupsInv
<1>2. QED
  BY <1>1, Invariant, PTL

(* TrajectoryGrouper.group isolates every PTP, for goals of any length.    *)
THEOREM PTPIsolation == GrouperSpec => []PTPIsAlone
<1>1. GroupsInv => PTPIsAlone
  BY DEF GroupsInv
<1>2. QED
  BY <1>1, Invariant, PTL

(* No path of a goal is lost between the grouper and the planners, which   *)
(* rests on the isolation of PTP paths: the paths reported as completed    *)
(* are 1, 2, 3, ... and in the end all of them.                            *)
THEOREM NoPathLost == GrouperSpec => []AllPathsInOrder
<1>1. GroupsInv => AllPathsInOrder
  <2> SUFFICES ASSUME GroupsInv PROVE AllPathsInOrder
    OBVIOUS
  <2>1. ASSUME grouped = Len(paths), Len(requests) = Len(groups)
        PROVE  Len(completed) = Len(paths)
    <3>1. CASE groups = <<>>
      <4>1. requests = <<>> /\ Len(paths) = 0
        BY <2>1, <3>1 DEF GroupsInv, GrouperTypeOK, GroupsFollow
      <4>2. QED
        BY <4>1 DEF GroupsInv, PlansFollow
    <3>2. CASE groups # <<>>
      <4>1. requests # <<>>
        BY <2>1, <3>2 DEF GroupsInv, GrouperTypeOK
      <4>2. LastOf(groups[Len(groups)]) = grouped
        BY <3>2 DEF GroupsInv, GroupsFollow, LastOf
      <4>3. QED
        BY <2>1, <4>1, <4>2 DEF GroupsInv, PlansFollow
    <3>3. QED
      BY <3>1, <3>2
  <2>2. QED
    BY <2>1 DEF GroupsInv, PlansFollow, AllPathsInOrder
<1>2. QED
  BY <1>1, Invariant, PTL

(* Both: TrajectoryGrouper.group makes only groups that the planners can   *)
(* plan, of all of the goal.                                               *)
THEOREM GroupsStaySound == GrouperSpec => []GroupsAreSound
<1>1. PTPIsAlone /\ AllPathsInOrder => GroupsAreSound
  BY DEF GroupsAreSound
<1>2. QED
  BY <1>1, PTPIsolation, NoPathLost, PTL

-----------------------------------------------------------------------------
(* Blending. A group goes on over a path exactly where the loop merges,    *)
(* the requests are the planners' for those groups, and the paths are the  *)
(* goal's, normalised.                                                     *)
PathsAreGoals ==
  paths # <<>> => /\ Len(paths) = Len(goal)
                  /\ \A i \in 1..Len(paths) : paths[i] = Normalised(goal[i])

BlendsInto(i) == EffectiveBlend(paths[i]) > 0 /\ paths[i + 1].motion # "PTP"

GroupsBlend ==
  /\ \A k \in DOMAIN groups : \A j \in 1..(Len(groups[k]) - 1) : BlendsInto(groups[k][j])
  /\ \A k \in 1..(Len(groups) - 1) : ~BlendsInto(LastOf(groups[k]))

RequestsFollow == \A k \in DOMAIN requests : requests[k] = Request(groups[k])

BlendInv == PathsAreGoals /\ GroupsBlend /\ RequestsFollow

LEMMA BlendInit == GrouperInit => BlendInv
BY DEF GrouperInit, BlendInv, PathsAreGoals, GroupsBlend, RequestsFollow

LEMMA BlendValidate == ASSUME GroupsInv, BlendInv, Validate PROVE BlendInv'
<1>1. groups = <<>> /\ requests = <<>> /\ groups' = <<>> /\ requests' = <<>>
  BY DEF Validate, GroupsInv, Phases
<1>2. GroupsBlend' /\ RequestsFollow'
  BY <1>1 DEF GroupsBlend, RequestsFollow
<1>3. PathsAreGoals'
  <2>1. CASE goal = <<>>
    BY <2>1 DEF Validate, BlendInv, PathsAreGoals
  <2>2. CASE goal # <<>>
    <3>1. paths' = [i \in 1..Len(goal) |-> Normalised(goal[i])] /\ goal' = goal
          /\ Len(goal) \in Nat
      BY <2>2 DEF Validate, GroupsInv, GrouperTypeOK
    <3>2. Len(paths') = Len(goal)
      BY <3>1
    <3>3. QED
      BY <3>1, <3>2 DEF PathsAreGoals
  <2>3. QED
    BY <2>1, <2>2
<1>4. QED
  BY <1>2, <1>3 DEF BlendInv

LEMMA BlendOpen == ASSUME GroupsInv, BlendInv, OpenGroup PROVE BlendInv'
<1> DEFINE n == Len(groups)
           new == <<grouped + 1>>
<1>1. /\ grouped \in Nat /\ grouped + 1 \in 1..Len(paths)
      /\ requests = <<>> /\ requests' = <<>> /\ UNCHANGED <<goal, paths>>
  BY TurnFacts
<1>2. groups' = Append(groups, new) /\ groups \in Seq(Seq(1..Len(paths)))
  BY DEF OpenGroup, GroupsInv, GrouperTypeOK
<1>3. new \in Seq(1..Len(paths)) /\ Len(new) = 1
  BY <1>1
<1>4. /\ n \in Nat /\ Len(groups') = n + 1 /\ DOMAIN groups' = 1..(n + 1)
      /\ DOMAIN groups = 1..n /\ groups'[n + 1] = new
      /\ \A k \in 1..n : groups'[k] = groups[k]
  BY <1>2, <1>3
<1> HIDE DEF new, n
<1>5. ASSUME NEW k \in DOMAIN groups', NEW j \in 1..(Len(groups'[k]) - 1)
      PROVE  BlendsInto(groups'[k][j])
  <2>1. k \in 1..n \/ k = n + 1
    BY <1>4, <1>5
  <2>2. CASE k \in 1..n
    <3>1. groups'[k] = groups[k]
      BY <1>4, <2>2
    <3>2. k \in DOMAIN groups /\ j \in 1..(Len(groups[k]) - 1)
      BY <1>4, <1>5, <2>2, <3>1
    <3>3. QED
      BY <3>1, <3>2 DEF BlendInv, GroupsBlend
  <2>3. CASE k = n + 1
    <3>1. groups'[k] = new
      BY <1>4, <2>3
    <3>2. Len(groups'[k]) = 1
      BY <1>3, <3>1
    <3>3. QED
      BY <1>5, <3>2
  <2>4. QED
    BY <2>1, <2>2, <2>3
<1>6. ASSUME NEW k \in 1..n PROVE ~BlendsInto(LastOf(groups'[k]))
  <2>1. groups'[k] = groups[k]
    BY <1>4
  <2>2. CASE k # n
    <3>1. k \in 1..(n - 1)
      BY <1>4, <2>2
    <3>2. QED
      BY <2>1, <3>1 DEF BlendInv, GroupsBlend, n
  <2>3. CASE k = n
    <3>1. groups # <<>>
      BY <1>2, <1>4, <2>3 DEF n
    <3>2. LastOf(LastOf(groups)) = grouped /\ ~Merges(grouped + 1)
      BY <3>1 DEF GroupsInv, GroupsFollow, OpenGroup
    <3>3. LastOf(groups[k]) = grouped
      BY <2>3, <3>2 DEF LastOf, n
    <3>4. QED
      BY <2>1, <3>1, <3>2, <3>3 DEF Merges, BlendsInto
  <2>4. QED
    BY <2>2, <2>3
<1>7. GroupsBlend'
  <2>1. Len(groups') - 1 = n
    BY <1>4
  <2>2. \A k \in 1..(Len(groups') - 1) : ~BlendsInto(LastOf(groups'[k]))
    BY <1>6, <2>1
  <2>3. QED
    BY <1>1, <1>5, <2>2 DEF GroupsBlend, BlendsInto, LastOf
<1>8. QED
  BY <1>1, <1>7 DEF BlendInv, PathsAreGoals, RequestsFollow

LEMMA BlendExtend == ASSUME GroupsInv, BlendInv, ExtendGroup PROVE BlendInv'
<1> DEFINE n == Len(groups)
           last == groups[n]
           new == Append(last, grouped + 1)
<1>1. /\ grouped \in Nat /\ grouped + 1 \in 1..Len(paths)
      /\ requests = <<>> /\ requests' = <<>> /\ UNCHANGED <<goal, paths>>
  BY TurnFacts
<1>2. /\ groups' = [groups EXCEPT ![n] = new] /\ groups \in Seq(Seq(1..Len(paths)))
      /\ groups # <<>> /\ Merges(grouped + 1)
  BY DEF ExtendGroup, GroupsInv, GrouperTypeOK, Merges
<1>3. /\ n \in Nat /\ n \in 1..n /\ Len(groups') = n /\ DOMAIN groups' = 1..n
      /\ DOMAIN groups = 1..n /\ groups'[n] = new
      /\ \A k \in 1..n : k # n => groups'[k] = groups[k]
  BY <1>2
<1>4. last \in Seq(1..Len(paths)) /\ last[Len(last)] = grouped /\ Len(last) \in Nat
  <2>1. last \in Seq(1..Len(paths))
    <3>1. n \in DOMAIN groups
      BY <1>3
    <3>2. QED
      BY <3>1 DEF GroupsInv, GrouperTypeOK
  <2>2. LastOf(LastOf(groups)) = grouped
    BY <1>2 DEF GroupsInv, GroupsFollow
  <2>3. QED
    BY <2>1, <2>2 DEF LastOf
<1>5. /\ Len(new) = Len(last) + 1 /\ \A j \in 1..Len(last) : new[j] = last[j]
  <2> HIDE DEF last
  <2>1. QED
    BY <1>1, <1>4
<1> HIDE DEF new, n, last
<1>6. ASSUME NEW k \in DOMAIN groups', NEW j \in 1..(Len(groups'[k]) - 1)
      PROVE  BlendsInto(groups'[k][j])
  <2>1. k \in 1..n
    BY <1>3, <1>6
  <2>2. CASE k # n
    <3>1. groups'[k] = groups[k] /\ k \in DOMAIN groups
      BY <1>3, <2>1, <2>2
    <3>2. QED
      BY <1>6, <3>1 DEF BlendInv, GroupsBlend
  <2>3. CASE k = n
    <3>1. groups'[k] = new
      BY <1>3, <2>3
    <3>2. j \in 1..Len(last) /\ new[j] = last[j]
      BY <1>4, <1>5, <1>6, <3>1
    <3>3. CASE j # Len(last)
      <4>1. j \in 1..(Len(last) - 1)
        BY <1>4, <3>2, <3>3
      <4>2. BlendsInto(last[j])
        BY <1>3, <4>1 DEF BlendInv, GroupsBlend, last
      <4>3. QED
        BY <3>1, <3>2, <4>2
    <3>4. CASE j = Len(last)
      <4>1. groups'[k][j] = grouped
        BY <1>4, <3>1, <3>2, <3>4
      <4>2. LastOf(LastOf(groups)) = grouped
        BY <1>2 DEF GroupsInv, GroupsFollow
      <4>3. QED
        BY <1>2, <4>1, <4>2 DEF Merges, BlendsInto
    <3>5. QED
      BY <3>3, <3>4
  <2>4. QED
    BY <2>2, <2>3
<1>7. ASSUME NEW k \in 1..(Len(groups') - 1) PROVE ~BlendsInto(LastOf(groups'[k]))
  <2>1. k \in 1..(n - 1)
    BY <1>3, <1>7
  <2>2. groups'[k] = groups[k]
    BY <1>3, <2>1
  <2>3. QED
    BY <2>1, <2>2 DEF BlendInv, GroupsBlend, n
<1>8. GroupsBlend'
  BY <1>1, <1>6, <1>7 DEF GroupsBlend, BlendsInto, LastOf
<1>9. QED
  BY <1>1, <1>8 DEF BlendInv, PathsAreGoals, RequestsFollow

LEMMA BlendPlan == ASSUME GroupsInv, BlendInv, PlanGroup PROVE BlendInv'
<1>1. /\ requests' = Append(requests, Request(groups[Len(requests) + 1]))
      /\ UNCHANGED <<goal, paths, groups>>
  BY DEF PlanGroup
<1>2. requests \in Seq(Seq([path : 1..Len(paths), blend : Nat]))
  BY DEF GroupsInv, GrouperTypeOK
<1>3. ASSUME NEW k \in DOMAIN requests' PROVE requests'[k] = Request(groups[k])
  <2> DEFINE sent == Request(groups[Len(requests) + 1])
             R == Seq([path : 1..Len(paths), blend : Nat])
  <2>1. requests \in Seq(R) /\ requests' = Append(requests, sent)
    BY <1>1, <1>2
  <2> HIDE DEF sent, R
  <2>2. \/ k \in DOMAIN requests /\ requests'[k] = requests[k]
        \/ k = Len(requests) + 1 /\ requests'[k] = sent
    BY <2>1, <1>3
  <2>3. QED
    BY <2>2 DEF sent, BlendInv, RequestsFollow
<1>4. RequestsFollow'
  BY <1>1, <1>3 DEF RequestsFollow, Request, OmplRequest, PilzRequest
<1>5. GroupsBlend' /\ PathsAreGoals'
  BY <1>1 DEF BlendInv, GroupsBlend, PathsAreGoals, BlendsInto
<1>6. QED
  BY <1>4, <1>5 DEF BlendInv

LEMMA BlendStep == GroupsInv /\ BlendInv /\ [GrouperNext]_grouperVars => BlendInv'
<1> SUFFICES ASSUME GroupsInv, BlendInv, [GrouperNext]_grouperVars PROVE BlendInv'
  OBVIOUS
<1>1. CASE UNCHANGED grouperVars
  BY <1>1 DEF grouperVars, BlendInv, GroupsBlend, PathsAreGoals, BlendsInto, RequestsFollow,
              Request, OmplRequest, PilzRequest
<1>2. QED
  BY <1>1, BlendValidate, BlendOpen, BlendExtend, BlendPlan DEF GrouperNext

(* The radius that the client asked for at a path is the one it has.       *)
LEMMA RadiusAsked ==
  ASSUME GroupsInv, BlendInv, NEW i \in 1..Len(paths)
  PROVE  /\ i < Len(paths) /\ BlendsInto(i) =>
              BlendAsked(i) = paths[i].radius /\ paths[i].radius > 0
         /\ ~(i < Len(paths) /\ BlendsInto(i)) => BlendAsked(i) = 0
<1>1. Len(paths) = Len(goal) /\ paths[i] = Normalised(goal[i])
  BY DEF GroupsInv, GrouperTypeOK, BlendInv, PathsAreGoals
<1>2. goal[i] \in TrajectoryPath
  <2>1. i \in 1..Len(goal) /\ goal \in Seq(TrajectoryPath)
    BY <1>1 DEF GroupsInv, GrouperTypeOK
  <2> HIDE DEF TrajectoryPath
  <2>2. QED
    BY <2>1
<1>3. /\ goal[i].radius \in Int
      /\ paths[i].radius = IF goal[i].radius < 0 THEN 0 ELSE goal[i].radius
  BY <1>1, <1>2 DEF TrajectoryPath, Normalised
<1>4. QED
  BY <1>3 DEF BlendAsked, BlendsInto, EffectiveBlend

LEMMA BlendsRight == ASSUME GroupsInv, BlendInv PROVE BlendsAsAsked
<1> SUFFICES ASSUME NEW k \in DOMAIN requests, NEW j \in DOMAIN requests[k]
             PROVE  /\ requests[k][j].blend = BlendAsked(requests[k][j].path)
                    /\ requests[k][j].blend = 0 => j = Len(requests[k])
  BY DEF BlendsAsAsked
<1> DEFINE group == groups[k]
<1>1. /\ k \in DOMAIN groups /\ k \in 1..Len(groups) /\ Len(groups) \in Nat
      /\ grouped = Len(paths)
  <2>1. /\ requests \in Seq(Seq([path : 1..Len(paths), blend : Nat]))
        /\ groups \in Seq(Seq(1..Len(paths))) /\ Len(requests) <= Len(groups)
    BY DEF GroupsInv, GrouperTypeOK, PlansFollow
  <2>2. k \in 1..Len(requests) /\ requests # <<>> /\ Len(requests) \in Nat
    <3> DEFINE R == Seq([path : 1..Len(paths), blend : Nat])
    <3>1. requests \in Seq(R)
      BY <2>1
    <3> HIDE DEF R
    <3>2. QED
      BY <3>1
  <2>3. grouped = Len(paths)
    BY <2>2 DEF GroupsInv, Phases
  <2>4. DOMAIN groups = 1..Len(groups) /\ Len(groups) \in Nat
    BY <2>1
  <2>5. k \in 1..Len(groups)
    BY <2>1, <2>2, <2>4
  <2>6. QED
    BY <2>3, <2>4, <2>5
<1>2. /\ group \in Seq(1..Len(paths)) /\ Len(group) \in Nat /\ DOMAIN group = 1..Len(group)
      /\ group # <<>> /\ \A i \in DOMAIN group : group[i] = group[1] + i - 1
  <2>1. group \in Seq(1..Len(paths))
    BY <1>1 DEF GroupsInv, GrouperTypeOK
  <2>2. Interval(group)
    BY <1>1 DEF GroupsInv, GroupsFollow
  <2>3. QED
    BY <2>1, <2>2 DEF Interval
<1>3. requests[k] = Request(group)
  BY DEF BlendInv, RequestsFollow
<1>4. \A i \in 1..(Len(group) - 1) : BlendsInto(group[i])
  BY <1>1 DEF BlendInv, GroupsBlend
<1>5. ~(LastOf(group) < Len(paths) /\ BlendsInto(LastOf(group)))
  <2>1. CASE k = Len(groups)
    <3>1. groups # <<>>
      BY <1>1
    <3>2. LastOf(group) = grouped
      BY <2>1, <3>1 DEF GroupsInv, GroupsFollow, LastOf
    <3>3. QED
      BY <1>1, <3>2 DEF GroupsInv, GrouperTypeOK
  <2>2. CASE k # Len(groups)
    <3>1. k \in 1..(Len(groups) - 1)
      BY <1>1, <2>2
    <3>2. QED
      BY <3>1 DEF BlendInv, GroupsBlend
  <2>3. QED
    BY <2>1, <2>2
<1>6. CASE paths[group[1]].motion = "PTP"
  <2>1. 1 \in DOMAIN group
    BY <1>2
  <2>2. Len(group) = 1
    BY <1>1, <1>6, <2>1 DEF GroupsInv, PTPIsAlone
  <2>3. requests[k] = <<[path |-> group[1], blend |-> 0]>>
    BY <1>3, <1>6 DEF Request, OmplRequest
  <2>4. BlendAsked(group[1]) = 0
    BY <1>6 DEF BlendAsked
  <2> HIDE DEF group
  <2>5. j = 1 /\ Len(requests[k]) = 1 /\ requests[k][1] = [path |-> group[1], blend |-> 0]
    BY <2>3
  <2>6. QED
    BY <2>4, <2>5
<1>7. CASE paths[group[1]].motion # "PTP"
  <2>1. requests[k] = [i \in 1..Len(group) |->
                         [path  |-> group[i],
                          blend |-> IF i < Len(group) THEN paths[group[i]].radius ELSE 0]]
    BY <1>2, <1>3, <1>7 DEF Request, PilzRequest
  <2>2. /\ j \in 1..Len(group) /\ Len(requests[k]) = Len(group)
        /\ requests[k][j].path = group[j]
        /\ requests[k][j].blend = IF j < Len(group) THEN paths[group[j]].radius ELSE 0
    BY <1>2, <2>1
  <2>3. group[j] \in 1..Len(paths)
    BY <1>2, <2>2
  <2>4. CASE j < Len(group)
    <3>1. BlendsInto(group[j])
      BY <1>2, <1>4, <2>2, <2>4
    <3>2. group[j] < Len(paths)
      <4>1. j + 1 \in 1..Len(group)
        BY <1>2, <2>2, <2>4
      <4>2. group[j + 1] \in 1..Len(paths) /\ group[j + 1] = group[1] + j
            /\ group[j] = group[1] + j - 1 /\ group[1] \in Nat
        <5>1. 1 \in 1..Len(group) /\ group \in Seq(1..Len(paths))
          BY <1>2
        <5>2. group[j + 1] = group[1] + (j + 1) - 1 /\ group[j] = group[1] + j - 1
          BY <1>2, <2>2, <4>1
        <5> HIDE DEF group
        <5>3. group[j + 1] \in 1..Len(paths) /\ group[1] \in 1..Len(paths)
          BY <4>1, <5>1
        <5>4. j \in Nat
          BY <2>2
        <5>5. QED
          BY <5>2, <5>3, <5>4
      <4>3. QED
        BY <2>2, <4>2
    <3>3. BlendAsked(group[j]) = paths[group[j]].radius /\ paths[group[j]].radius > 0
      BY <2>3, <3>1, <3>2, RadiusAsked
    <3>4. QED
      BY <2>2, <2>4, <3>3
  <2>5. CASE ~(j < Len(group))
    <3>1. j = Len(group)
      BY <1>2, <2>2, <2>5
    <3>2. BlendAsked(group[j]) = 0
      BY <1>5, <2>3, <3>1, RadiusAsked DEF LastOf
    <3>3. QED
      BY <2>2, <2>5, <3>1, <3>2
  <2>6. QED
    BY <2>4, <2>5
<1>8. QED
  BY <1>6, <1>7

(* The grouper and the request to PILZ together: the robot blends from     *)
(* one path into the next exactly where the client asked for it and both   *)
(* are LIN or CIRC, with the radius asked for; it stops everywhere else.   *)
THEOREM BlendsRespected == GrouperSpec => []BlendsAsAsked
<1>1. GrouperInit => GroupsInv /\ BlendInv
  BY InitInv, BlendInit
<1>2. GroupsInv /\ BlendInv /\ [GrouperNext]_grouperVars => (GroupsInv /\ BlendInv)'
  BY StepInv, BlendStep
<1>3. GroupsInv /\ BlendInv => BlendsAsAsked
  BY BlendsRight
<1>4. QED
  BY <1>1, <1>2, <1>3, PTL DEF GrouperSpec

-----------------------------------------------------------------------------
(***************************************************************************)
(* What the transitions of the movement controller leave in order, for any *)
(* goals and coordinators: proofs about NodeLifecycle.                     *)
(*                                                                         *)
(* TransitionsAreClean looks at the node between transitions and at what   *)
(* deactivations left behind. The inductive invariant says what holds at   *)
(* every step of a transition instead, and of the threads: whom the node   *)
(* is busy for, and when the robot may move.                               *)
(***************************************************************************)

Activating == {"publisher", "server", "client"}
Deactivating == {"close planner", "stop robot", "close client", "close server",
                 "free node", "drop goal"}
Planned == {"iterating", "getting", "executing", "moving", "succeeding"}
Working == {"accepted", "begun", "waiting", "asking", "failing", "releasing"} \cup Planned

NodeTypes ==
  /\ controllerState \in {"unconfigured", "inactive", "active"}
  /\ step \in {"none"} \cup Activating \cup Deactivating
  /\ planner \in Coordinators \cup {NoCoordinator}
  /\ linked \subseteq Coordinators
  /\ publisher \in BOOLEAN /\ server \in BOOLEAN /\ client \in BOOLEAN
  /\ activationFailed \in BOOLEAN

ThreadTypes ==
  /\ isExecuting \in BOOLEAN
  /\ trajectoryGoal \in Handles \cup {NoHandle}
  /\ left \subseteq Handles
  /\ handlePc \in [Handles -> Ended \cup Working]
  /\ dtoOf \in [Handles -> Handles \cup {NoHandle}]
  /\ uses \in [Handles -> Coordinators \cup {NoCoordinator}]
  /\ waitsOn \in [Handles -> Handles \cup {NoHandle}]
  /\ \A h \in Handles :
       /\ handlePc[h] \in Planned => uses[h] \in Coordinators
       /\ handlePc[h] = "getting" => waitsOn[h] \in Handles

OutsideTypes ==
  /\ planQueue \in [Coordinators -> Handles \cup {NoHandle}]
  /\ answers \in [Handles -> {"none", "open", "silent", "failed"}]
  /\ motion \subseteq Handles /\ onClient \subseteq Handles
  /\ reply \in [Handles -> {"none", "succeeded", "failed", "aborted"}]
  /\ stopPending \in BOOLEAN

LifecycleTypeOK == NodeTypes /\ ThreadTypes /\ OutsideTypes

(* What the node has at each step of a transition.                         *)
AtRest ==
  step = "none" =>
    /\ controllerState = "unconfigured" <=> planner = NoCoordinator
    /\ controllerState = "active" => publisher /\ server /\ client /\ planner \in linked
    /\ controllerState # "active" =>
         /\ ~server /\ ~client
         /\ publisher \/ planner \in linked => activationFailed

GoingUp ==
  step \in Activating =>
    /\ controllerState = "inactive" /\ planner \in linked /\ ~client
    /\ server <=> step = "client"
    /\ step # "publisher" => publisher

GoingDown ==
  step \in Deactivating =>
    /\ controllerState = "active" /\ planner # NoCoordinator
    /\ planner \in linked <=> step = "close planner"
    /\ publisher <=> step \in {"close planner", "stop robot"}
    /\ client <=> step \in {"close planner", "stop robot", "close client"}
    /\ server <=> step \notin {"free node", "drop goal"}

Leftovers == \A p \in linked : p # planner => activationFailed

(* Whom the node is busy for. A goal that waits on a client that is gone   *)
(* ends without a word.                                                    *)
GoalsLeft == \A h \in left : handlePc[h] \notin {"unsent", "rejected"}

Waiters ==
  \A h \in Handles \ left :
    handlePc[h] = "waiting" => h \in onClient \/ step \in {"close server", "free node"}

Busy ==
  isExecuting /\ step \notin {"close server", "free node"}
    => \E h \in Handles \ left : Serving(h)

BusyForOne ==
  left = {} =>
    \A h \in Handles :
      /\ Serving(h) => isExecuting /\ \A i \in Handles : Serving(i) => i = h
      /\ handlePc[h] = "accepted" => trajectoryGoal \in {h, NoHandle}
      /\ dtoOf[h] \in {h, NoHandle}

(* When the robot moves.                                                   *)
Movers ==
  \A h \in Handles :
    /\ h \in motion => handlePc[h] = "moving" /\ reply[h] = "none"
    /\ reply[h] # "none" => handlePc[h] = "moving"

Still == controllerState # "active" \/ step = "drop goal" => motion \subseteq left

NodeInv == AtRest /\ GoingUp /\ GoingDown /\ Leftovers
ThreadInv == GoalsLeft /\ Waiters /\ Busy /\ BusyForOne /\ Movers /\ Still

LifecycleInv == LifecycleTypeOK /\ NodeInv /\ ThreadInv

-----------------------------------------------------------------------------
(* ------------------------------- the node ------------------------------- *)

LEMMA TypesInit == LifecycleInit => LifecycleTypeOK
BY ZenonT(60) DEF LifecycleInit, LifecycleTypeOK, NodeTypes, ThreadTypes, OutsideTypes,
       Ended, Working, Planned

(* The threads leave the node's own state alone.                           *)
LEMMA ThreadsKeepNode ==
  ASSUME NEW h \in Handles, ExecuteGoal(h) \/ MotionEnds(h)
  PROVE  UNCHANGED transitionVars
BY DEF ExecuteGoal, OfferGoal, Begin, WaitForServer, ServerAnswers, WaitRaises,
   PlanAll, Iterate, TakePlan, TakeFailure, TakeSentinel, Send, MotionDone,
   MotionFailed, Succeed, DropGoal, Release, MotionEnds

LEMMA NodeTypesStep ==
  ASSUME NodeTypes, AtRest, LifecycleNext
  PROVE  NodeTypes'
<1> USE DEF NodeTypes, Activating, Deactivating, transitionVars
<1>1. ASSUME NEW p \in Coordinators, OnConfigure(p)
      PROVE  NodeTypes'
  BY <1>1 DEF OnConfigure
<1>2. CASE OnActivate
  BY <1>2 DEF OnActivate, ActivatePlanner, ActivateTimesOut, ActivatePublisher,
     ActivateServer, ActivateClient, ActivateRaises, CloseClients, AtRest
<1>3. CASE OnDeactivate
  BY <1>3 DEF OnDeactivate, DeactivateCancel, DeactivatePlanner, DeactivateStop,
     DeactivateClient, DeactivateServer, DeactivateFree, DeactivateDrop, CloseClients
<1>4. CASE OnCleanup
  BY <1>4 DEF OnCleanup
<1>5. ASSUME NEW h \in Handles, ExecuteGoal(h) \/ MotionEnds(h)
      PROVE  NodeTypes'
  <2>1. UNCHANGED transitionVars
    BY <1>5, ThreadsKeepNode
  <2>2. QED
    BY <2>1
<1>6. CASE StopDelivered
  BY <1>6 DEF StopDelivered
<1>7. QED
  BY <1>1, <1>2, <1>3, <1>4, <1>5, <1>6 DEF LifecycleNext

LEMMA NodeInvInit == LifecycleInit => NodeInv
BY LifecycleAssumption DEF LifecycleInit, NodeInv, AtRest, GoingUp, GoingDown, Leftovers,
   Activating, Deactivating

LEMMA NodeInvStep ==
  ASSUME NodeTypes, NodeInv, LifecycleNext
  PROVE  NodeInv'
<1> USE LifecycleAssumption
    DEF NodeTypes, NodeInv, AtRest, GoingUp, GoingDown, Leftovers, Activating, Deactivating
<1>1. ASSUME NEW p \in Coordinators, OnConfigure(p)
      PROVE  NodeInv'
  BY <1>1 DEF OnConfigure
<1>2. CASE OnActivate
  <2>1. CASE ActivatePlanner
    BY <2>1 DEF ActivatePlanner
  <2>2. CASE ActivateTimesOut
    BY <2>2 DEF ActivateTimesOut
  <2>3. CASE ActivatePublisher
    BY <2>3 DEF ActivatePublisher
  <2>4. CASE ActivateServer
    BY <2>4 DEF ActivateServer
  <2>5. CASE ActivateClient
    BY <2>5 DEF ActivateClient
  <2>6. CASE ActivateRaises
    BY <2>6 DEF ActivateRaises, CloseClients
  <2>7. QED
    BY <1>2, <2>1, <2>2, <2>3, <2>4, <2>5, <2>6 DEF OnActivate
<1>3. CASE OnDeactivate
  <2>1. CASE DeactivateCancel
    BY <2>1 DEF DeactivateCancel
  <2>2. CASE DeactivatePlanner
    BY <2>2 DEF DeactivatePlanner, CloseClients
  <2>3. CASE DeactivateStop
    BY <2>3 DEF DeactivateStop
  <2>4. CASE DeactivateClient
    BY <2>4 DEF DeactivateClient
  <2>5. CASE DeactivateServer
    BY <2>5 DEF DeactivateServer
  <2>6. CASE DeactivateFree
    BY <2>6 DEF DeactivateFree
  <2>7. CASE DeactivateDrop
    BY <2>7 DEF DeactivateDrop
  <2>8. QED
    BY <1>3, <2>1, <2>2, <2>3, <2>4, <2>5, <2>6, <2>7 DEF OnDeactivate
<1>4. CASE OnCleanup
  BY <1>4 DEF OnCleanup
<1>5. ASSUME NEW h \in Handles, ExecuteGoal(h) \/ MotionEnds(h)
      PROVE  NodeInv'
  <2>1. UNCHANGED transitionVars
    BY <1>5, ThreadsKeepNode
  <2>2. QED
    BY <2>1 DEF transitionVars
<1>6. CASE StopDelivered
  BY <1>6 DEF StopDelivered, transitionVars
<1>7. QED
  BY <1>1, <1>2, <1>3, <1>4, <1>5, <1>6 DEF LifecycleNext

-----------------------------------------------------------------------------
(* ------------------------------ the threads ----------------------------- *)

(* Everything that no thread reads or writes while a transition runs.      *)
LEMMA TransitionsKeepThreads ==
  ASSUME \/ \E p \in Coordinators : OnConfigure(p)
         \/ OnActivate \/ OnDeactivate \/ OnCleanup \/ StopDelivered
  PROVE  /\ UNCHANGED threadVars
         /\ ~DeactivateFree => UNCHANGED <<isExecuting, left>>
         /\ trajectoryGoal' \in {trajectoryGoal, NoHandle}
         /\ ~StopDelivered => UNCHANGED <<motion, reply>>
         /\ ~DeactivateClient => UNCHANGED onClient
BY DEF flagVars, moveItVars, OnConfigure, OnCleanup, StopDelivered,
   OnActivate, ActivatePlanner, ActivateTimesOut, ActivatePublisher,
   ActivateServer, ActivateClient, ActivateRaises,
   OnDeactivate, DeactivateCancel, DeactivatePlanner, DeactivateStop,
   DeactivateClient, DeactivateServer, DeactivateFree, DeactivateDrop

LEMMA ThreadTypesStep ==
  ASSUME LifecycleTypeOK, LifecycleNext
  PROVE  ThreadTypes'
<1> USE DEF ThreadTypes
<1>1. ASSUME \/ \E p \in Coordinators : OnConfigure(p)
             \/ OnActivate \/ OnDeactivate \/ OnCleanup \/ StopDelivered
      PROVE  ThreadTypes'
  <2>1. UNCHANGED threadVars /\ trajectoryGoal' \in {trajectoryGoal, NoHandle}
    BY <1>1, TransitionsKeepThreads
  <2>2. isExecuting' \in BOOLEAN /\ left' \subseteq Handles
    BY <1>1, TransitionsKeepThreads DEF LifecycleTypeOK, DeactivateFree
  <2>3. QED
    BY <2>1, <2>2 DEF LifecycleTypeOK, threadVars
<1>2. ASSUME NEW h \in Handles, ExecuteGoal(h) \/ MotionEnds(h)
      PROVE  ThreadTypes'
  <2> USE DEF LifecycleTypeOK, NodeTypes, OutsideTypes, ThreadMoves, threadVars, flagVars,
              Ended, Working, Planned
  <2>1. CASE OfferGoal(h)
    BY <2>1, ZenonT(60) DEF OfferGoal
  <2>2. CASE Begin(h)
    BY <2>2 DEF Begin
  <2>3. CASE WaitForServer(h)
    BY <2>3 DEF WaitForServer
  <2>4. CASE ServerAnswers(h)
    BY <2>4 DEF ServerAnswers
  <2>5. CASE WaitRaises(h)
    BY <2>5 DEF WaitRaises, ThreadEnds
  <2>6. CASE PlanAll(h)
    BY <2>6 DEF PlanAll
  <2>7. CASE Iterate(h)
    BY <2>7 DEF Iterate
  <2>8. CASE TakePlan(h)
    BY <2>8 DEF TakePlan
  <2>9. CASE TakeFailure(h)
    BY <2>9 DEF TakeFailure
  <2>10. CASE TakeSentinel(h)
    BY <2>10 DEF TakeSentinel
  <2>11. CASE Send(h)
    BY <2>11 DEF Send
  <2>12. CASE MotionDone(h)
    BY <2>12 DEF MotionDone
  <2>13. CASE MotionFailed(h)
    BY <2>13 DEF MotionFailed
  <2>14. CASE Succeed(h)
    BY <2>14 DEF Succeed
  <2>15. CASE DropGoal(h)
    BY <2>15 DEF DropGoal
  <2>16. CASE Release(h)
    BY <2>16 DEF Release, ThreadEnds
  <2>17. CASE MotionEnds(h)
    BY <2>17 DEF MotionEnds
  <2>18. QED
    BY <1>2, <2>1, <2>2, <2>3, <2>4, <2>5, <2>6, <2>7, <2>8, <2>9,
       <2>10, <2>11, <2>12, <2>13, <2>14, <2>15, <2>16, <2>17
       DEF ExecuteGoal
<1>3. QED
  BY <1>1, <1>2 DEF LifecycleNext

LEMMA OutsideTypesStep ==
  ASSUME LifecycleTypeOK, AtRest, LifecycleNext
  PROVE  OutsideTypes'
<1> USE DEF LifecycleTypeOK, NodeTypes, ThreadTypes, OutsideTypes, moveItVars, queueVars
<1>1. ASSUME NEW p \in Coordinators, OnConfigure(p)
      PROVE  OutsideTypes'
  BY <1>1 DEF OnConfigure
<1>2. CASE OnActivate
  BY <1>2 DEF OnActivate, ActivatePlanner, ActivateTimesOut, ActivatePublisher,
     ActivateServer, ActivateClient, ActivateRaises, CloseClients, AtRest
<1>3. CASE OnDeactivate
  BY <1>3 DEF OnDeactivate, DeactivateCancel, DeactivatePlanner, DeactivateStop,
     DeactivateClient, DeactivateServer, DeactivateFree, DeactivateDrop, CloseClients,
     CancelPlans
<1>4. CASE OnCleanup
  BY <1>4 DEF OnCleanup
<1>5. ASSUME NEW h \in Handles, ExecuteGoal(h) \/ MotionEnds(h)
      PROVE  OutsideTypes'
  <2>1. CASE OfferGoal(h)
    BY <2>1 DEF OfferGoal
  <2>2. CASE Begin(h)
    BY <2>2 DEF Begin
  <2>3. CASE WaitForServer(h)
    BY <2>3 DEF WaitForServer
  <2>4. CASE ServerAnswers(h)
    BY <2>4 DEF ServerAnswers
  <2>5. CASE WaitRaises(h)
    BY <2>5 DEF WaitRaises
  <2>6. CASE PlanAll(h)
    BY <2>6 DEF PlanAll
  <2>7. CASE Iterate(h)
    BY <2>7 DEF Iterate
  <2>8. CASE TakePlan(h)
    BY <2>8 DEF TakePlan
  <2>9. CASE TakeFailure(h)
    BY <2>9 DEF TakeFailure
  <2>10. CASE TakeSentinel(h)
    BY <2>10 DEF TakeSentinel
  <2>11. CASE Send(h)
    BY <2>11 DEF Send
  <2>12. CASE MotionDone(h)
    BY <2>12 DEF MotionDone
  <2>13. CASE MotionFailed(h)
    BY <2>13 DEF MotionFailed, CancelPlans
  <2>14. CASE Succeed(h)
    BY <2>14 DEF Succeed
  <2>15. CASE DropGoal(h)
    BY <2>15 DEF DropGoal
  <2>16. CASE Release(h)
    BY <2>16 DEF Release
  <2>17. CASE MotionEnds(h)
    BY <2>17 DEF MotionEnds
  <2>18. QED
    BY <1>5, <2>1, <2>2, <2>3, <2>4, <2>5, <2>6, <2>7, <2>8, <2>9,
       <2>10, <2>11, <2>12, <2>13, <2>14, <2>15, <2>16, <2>17
       DEF ExecuteGoal
<1>6. CASE StopDelivered
  BY <1>6 DEF StopDelivered
<1>7. QED
  BY <1>1, <1>2, <1>3, <1>4, <1>5, <1>6 DEF LifecycleNext

LEMMA ThreadInvInit == LifecycleInit => ThreadInv
BY DEF LifecycleInit, ThreadInv, GoalsLeft, Waiters, Busy, BusyForOne, Movers, Still,
   Serving, Ended

LEMMA TransitionsKeepThreadInv ==
  ASSUME LifecycleInv,
         \/ \E p \in Coordinators : OnConfigure(p)
         \/ OnActivate \/ OnDeactivate \/ OnCleanup \/ StopDelivered
  PROVE  ThreadInv'
<1> USE DEF LifecycleInv, LifecycleTypeOK, NodeTypes, ThreadTypes, OutsideTypes,
            NodeInv, ThreadInv
<1>1. UNCHANGED <<handlePc, dtoOf>> /\ trajectoryGoal' \in {trajectoryGoal, NoHandle}
  BY TransitionsKeepThreads DEF threadVars
<1>2. CASE DeactivateFree
  <2>1. /\ step = "free node" /\ step' = "drop goal" /\ ~isExecuting'
        /\ left' = left \cup {h \in Handles : Serving(h)}
        /\ UNCHANGED <<motion, reply>>
    BY <1>2 DEF DeactivateFree, moveItVars
  <2>2. GoalsLeft' /\ Waiters' /\ Busy'
    BY <1>1, <2>1 DEF GoalsLeft, Waiters, Busy, Serving, Ended
  <2>3. BusyForOne'
    BY <1>1, <2>1 DEF BusyForOne, Serving, Ended
  <2>4. Movers' /\ Still'
    BY <1>1, <2>1 DEF Movers, Still, Serving, Ended
  <2>5. QED
    BY <2>2, <2>3, <2>4
<1>3. CASE ~DeactivateFree
  <2>1. UNCHANGED <<isExecuting, left>>
    BY <1>3, TransitionsKeepThreads
  <2>2. GoalsLeft' /\ BusyForOne'
    BY <1>1, <2>1 DEF GoalsLeft, BusyForOne, Serving
  <2>3. Waiters' /\ Busy'
    <3>1. CASE DeactivateClient
      BY <1>1, <2>1, <3>1 DEF DeactivateClient, Waiters, Busy, Serving
    <3>2. CASE ~DeactivateClient
      <4>1. UNCHANGED onClient
        BY <3>2, TransitionsKeepThreads
      <4>2. step \in {"close server", "free node"} <=> step' \in {"close server", "free node"}
        BY <1>3, <3>2
           DEF moveItVars, OnConfigure, OnCleanup, StopDelivered, transitionVars,
               OnActivate, ActivatePlanner, ActivateTimesOut, ActivatePublisher,
               ActivateServer, ActivateClient, ActivateRaises,
               OnDeactivate, DeactivateCancel, DeactivatePlanner, DeactivateStop,
               DeactivateServer, DeactivateDrop
      <4>3. QED
        BY <1>1, <2>1, <4>1, <4>2 DEF Waiters, Busy, Serving
    <3>3. QED
      BY <3>1, <3>2
  <2>4. Movers' /\ Still'
    <3>1. CASE StopDelivered
      BY <1>1, <2>1, <3>1 DEF StopDelivered, Movers, Still
    <3>2. CASE ~StopDelivered
      <4>1. UNCHANGED <<motion, reply>>
        BY <3>2, TransitionsKeepThreads
      <4>2. controllerState' # "active" \/ step' = "drop goal"
              => controllerState # "active" \/ step = "drop goal"
        BY <1>3, <3>2
           DEF OnConfigure, OnCleanup, AtRest, GoingUp, GoingDown, Activating, Deactivating,
               OnActivate, ActivatePlanner, ActivateTimesOut, ActivatePublisher,
               ActivateServer, ActivateClient, ActivateRaises,
               OnDeactivate, DeactivateCancel, DeactivatePlanner, DeactivateStop,
               DeactivateClient, DeactivateServer, DeactivateDrop
      <4>3. QED
        BY <1>1, <2>1, <4>1, <4>2 DEF Movers, Still
    <3>3. QED
      BY <3>1, <3>2
  <2>5. QED
    BY <2>2, <2>3, <2>4
<1>4. QED
  BY <1>2, <1>3

(* A thread that goes on, and neither takes, frees nor loses the node.     *)
LEMMA GoingOnKeepsThreadInv ==
  ASSUME LifecycleInv, NEW h \in Handles, Serving(h), UNCHANGED transitionVars,
         UNCHANGED <<isExecuting, left>>,
         NEW to \in Working \ {"accepted"}, handlePc' = [handlePc EXCEPT ![h] = to],
         to = "waiting" => h \in onClient',
         \A i \in Handles \ {h} :
           /\ dtoOf'[i] = dtoOf[i]
           /\ i \in onClient' <=> i \in onClient
           /\ i \in motion' <=> i \in motion
           /\ reply'[i] = reply[i],
         handlePc[h] = "accepted" => dtoOf'[h] \in {trajectoryGoal, h},
         handlePc[h] # "accepted" => dtoOf'[h] = dtoOf[h],
         trajectoryGoal' \in {trajectoryGoal, NoHandle},
         to # "moving" => h \notin motion' /\ reply'[h] = "none",
         to = "moving" => h \in motion' /\ reply'[h] = "none" /\ client,
         motion' \subseteq Handles
  PROVE  ThreadInv'
<1> USE DEF LifecycleInv, LifecycleTypeOK, NodeTypes, ThreadTypes, OutsideTypes,
            NodeInv, ThreadInv, transitionVars
<1>1. handlePc'[h] = to /\ \A i \in Handles : i # h => handlePc'[i] = handlePc[i]
  OBVIOUS
<1>2. to \notin Ended
  BY DEF Working, Planned, Ended
<1>3. \A i \in Handles : Serving(i)' <=> Serving(i)
  BY <1>1, <1>2 DEF Serving
<1>4. GoalsLeft'
  BY <1>1, <1>2 DEF GoalsLeft, Ended
<1>5. Waiters'
  BY <1>1 DEF Waiters
<1>6. Busy'
  BY <1>3 DEF Busy
<1>7. BusyForOne'
  <2>1. SUFFICES ASSUME left = {}, NEW i \in Handles
        PROVE  /\ Serving(i)' => isExecuting' /\ \A j \in Handles : Serving(j)' => j = i
               /\ handlePc'[i] = "accepted" => trajectoryGoal' \in {i, NoHandle}
               /\ dtoOf'[i] \in {i, NoHandle}
    BY DEF BusyForOne
  <2>2. Serving(i)' => isExecuting' /\ \A j \in Handles : Serving(j)' => j = i
    BY <1>3, <2>1 DEF BusyForOne
  <2>3. handlePc'[i] = "accepted" => trajectoryGoal' \in {i, NoHandle}
    BY <1>1, <2>1 DEF BusyForOne
  <2>4. dtoOf'[i] \in {i, NoHandle}
    <3>1. dtoOf[i] \in {i, NoHandle}
          /\ (handlePc[i] = "accepted" => trajectoryGoal \in {i, NoHandle})
      BY <2>1 DEF BusyForOne
    <3>2. CASE i = h
      BY <3>1, <3>2
    <3>3. CASE i # h
      BY <3>1, <3>3
    <3>4. QED
      BY <3>2, <3>3
  <2>5. QED
    BY <2>2, <2>3, <2>4
<1>8. Movers'
  BY <1>1 DEF Movers
<1>9. Still'
  <2>1. h \in motion' => client
    OBVIOUS
  <2>2. client => controllerState = "active" /\ step # "drop goal"
    BY DEF AtRest, GoingUp, GoingDown, Activating, Deactivating
  <2>3. QED
    BY <2>1, <2>2 DEF Still
<1>10. QED
  BY <1>4, <1>5, <1>6, <1>7, <1>8, <1>9

LEMMA ThreadsKeepThreadInv ==
  ASSUME LifecycleInv, NEW h \in Handles, ExecuteGoal(h)
  PROVE  ThreadInv'
<1> USE DEF LifecycleInv, LifecycleTypeOK, NodeTypes, ThreadTypes, OutsideTypes,
            NodeInv, ThreadInv
<1>1. CASE OfferGoal(h)
  <2>1. UNCHANGED transitionVars /\ UNCHANGED <<left, dtoOf, motion, onClient, reply>>
    BY <1>1 DEF OfferGoal, threadVars, flagVars, moveItVars
  <2>2. PICK to \in {"rejected", "accepted"} :
          /\ handlePc[h] = "unsent" /\ handlePc' = [handlePc EXCEPT ![h] = to]
          /\ to = "rejected" => isExecuting /\ UNCHANGED <<isExecuting, trajectoryGoal>>
          /\ to = "accepted" => ~isExecuting /\ isExecuting' /\ trajectoryGoal' = h
    BY <1>1 DEF OfferGoal, ThreadMoves, flagVars
  <2>3. handlePc'[h] = to /\ \A i \in Handles : i # h => handlePc'[i] = handlePc[i]
    BY <2>2
  <2>4. h \notin left /\ ~Serving(h)
    BY <2>2 DEF GoalsLeft, Serving, Ended
  <2>5. GoalsLeft' /\ Waiters'
    BY <2>1, <2>2, <2>3, <2>4 DEF GoalsLeft, Waiters, transitionVars
  <2>6. Busy'
    <3>1. CASE to = "accepted"
      BY <2>1, <2>3, <2>4, <3>1 DEF Busy, Serving, Ended
    <3>2. CASE to = "rejected"
      BY <2>1, <2>2, <2>3, <2>4, <3>2 DEF Busy, Serving, transitionVars
    <3>3. QED
      BY <2>2, <3>1, <3>2
  <2>7. BusyForOne'
    <3>1. CASE to = "accepted"
      BY <2>1, <2>2, <2>3, <3>1 DEF BusyForOne, Serving, Ended
    <3>2. CASE to = "rejected"
      BY <2>1, <2>2, <2>3, <3>2 DEF BusyForOne, Serving, Ended
    <3>3. QED
      BY <2>2, <3>1, <3>2
  <2>8. Movers' /\ Still'
    BY <2>1, <2>2, <2>3 DEF Movers, Still, transitionVars
  <2>9. QED
    BY <2>5, <2>6, <2>7, <2>8
<1>2. CASE WaitRaises(h)
  <2>1. /\ UNCHANGED transitionVars
        /\ UNCHANGED <<left, isExecuting, trajectoryGoal, motion, onClient, reply>>
    BY <1>2 DEF WaitRaises, flagVars, moveItVars
  <2>2. /\ handlePc[h] = "waiting" /\ h \notin onClient
        /\ handlePc' = [handlePc EXCEPT ![h] = "returned"]
        /\ dtoOf' = [dtoOf EXCEPT ![h] = NoHandle]
    BY <1>2 DEF WaitRaises, ThreadEnds, ThreadMoves
  <2>3. handlePc'[h] = "returned" /\ \A i \in Handles : i # h => handlePc'[i] = handlePc[i]
    BY <2>2
  <2>4. GoalsLeft' /\ Waiters'
    BY <2>1, <2>2, <2>3 DEF GoalsLeft, Waiters, transitionVars
  <2>5. Busy'
    <3>1. h \in left \/ step \in {"close server", "free node"}
      BY <2>2 DEF Waiters
    <3>2. QED
      BY <2>1, <2>3, <3>1 DEF Busy, Serving, transitionVars
  <2>6. BusyForOne'
    BY <2>1, <2>2, <2>3 DEF BusyForOne, Serving, Ended
  <2>7. Movers' /\ Still'
    BY <2>1, <2>2, <2>3 DEF Movers, Still, transitionVars
  <2>8. QED
    BY <2>4, <2>5, <2>6, <2>7
<1>3. CASE Release(h)
  <2>1. /\ UNCHANGED transitionVars
        /\ UNCHANGED <<left, trajectoryGoal, motion, onClient, reply>>
    BY <1>3 DEF Release, moveItVars
  <2>2. /\ handlePc[h] = "releasing" /\ ~isExecuting'
        /\ handlePc' = [handlePc EXCEPT ![h] = "returned"]
        /\ dtoOf' = [dtoOf EXCEPT ![h] = NoHandle]
    BY <1>3 DEF Release, ThreadEnds, ThreadMoves
  <2>3. handlePc'[h] = "returned" /\ \A i \in Handles : i # h => handlePc'[i] = handlePc[i]
    BY <2>2
  <2>4. GoalsLeft' /\ Waiters' /\ Busy'
    BY <2>1, <2>2, <2>3 DEF GoalsLeft, Waiters, Busy, transitionVars
  <2>5. BusyForOne'
    BY <2>1, <2>2, <2>3 DEF BusyForOne, Serving, Ended
  <2>6. Movers' /\ Still'
    BY <2>1, <2>2, <2>3 DEF Movers, Still, transitionVars
  <2>7. QED
    BY <2>4, <2>5, <2>6
<1>4. CASE Begin(h)
  <2>1. UNCHANGED transitionVars /\ UNCHANGED <<isExecuting, left>>
    BY <1>4 DEF Begin, flagVars
  <2>2. PICK to \in {"begun"} :
          /\ handlePc[h] = "accepted" /\ handlePc' = [handlePc EXCEPT ![h] = to]
          /\ UNCHANGED trajectoryGoal /\ dtoOf' = [dtoOf EXCEPT ![h] = dtoOf'[h]]
          /\ dtoOf'[h] \in {trajectoryGoal, h}
          /\ UNCHANGED <<motion, onClient, reply>>
    BY <1>4 DEF Begin, ThreadMoves, threadVars, flagVars, moveItVars
  <2>3. Serving(h) /\ to \in Working \ {"accepted"}
    BY <2>2 DEF Serving, Ended, Working, Planned
  <2>4. QED
    BY <2>1, <2>2, <2>3, GoingOnKeepsThreadInv DEF Movers
<1>5. CASE WaitForServer(h)
  <2>1. UNCHANGED transitionVars /\ UNCHANGED <<isExecuting, left>>
    BY <1>5 DEF WaitForServer, flagVars
  <2>2. PICK to \in {"waiting", "failing"} :
          /\ handlePc[h] = "begun" /\ handlePc' = [handlePc EXCEPT ![h] = to]
          /\ UNCHANGED trajectoryGoal /\ UNCHANGED dtoOf
          /\ onClient' = onClient \cup {h} \/ UNCHANGED onClient
          /\ to = "waiting" => h \in onClient'
          /\ UNCHANGED <<motion, reply>>
    BY <1>5 DEF WaitForServer, ThreadMoves, threadVars, flagVars, moveItVars
  <2>3. Serving(h) /\ to \in Working \ {"accepted"}
    BY <2>2 DEF Serving, Ended, Working, Planned
  <2>4. QED
    BY <2>1, <2>2, <2>3, GoingOnKeepsThreadInv DEF Movers
<1>6. CASE ServerAnswers(h)
  <2>1. UNCHANGED transitionVars /\ UNCHANGED <<isExecuting, left>>
    BY <1>6 DEF ServerAnswers, flagVars
  <2>2. PICK to \in {"asking", "failing"} :
          /\ handlePc[h] = "waiting" /\ handlePc' = [handlePc EXCEPT ![h] = to]
          /\ UNCHANGED trajectoryGoal /\ UNCHANGED dtoOf
          /\ onClient' = onClient \ {h} /\ UNCHANGED <<motion, reply>>
    BY <1>6 DEF ServerAnswers, ThreadMoves, threadVars, flagVars, moveItVars
  <2>3. Serving(h) /\ to \in Working \ {"accepted"}
    BY <2>2 DEF Serving, Ended, Working, Planned
  <2>4. QED
    BY <2>1, <2>2, <2>3, GoingOnKeepsThreadInv DEF Movers
<1>7. CASE PlanAll(h)
  <2>1. UNCHANGED transitionVars /\ UNCHANGED <<isExecuting, left>>
    BY <1>7 DEF PlanAll, flagVars
  <2>2. PICK to \in {"iterating", "failing"} :
          /\ handlePc[h] = "asking" /\ handlePc' = [handlePc EXCEPT ![h] = to]
          /\ UNCHANGED trajectoryGoal /\ UNCHANGED dtoOf
          /\ UNCHANGED <<motion, onClient, reply>>
    BY <1>7 DEF PlanAll, ThreadMoves, threadVars, flagVars, moveItVars
  <2>3. Serving(h) /\ to \in Working \ {"accepted"}
    BY <2>2 DEF Serving, Ended, Working, Planned
  <2>4. QED
    BY <2>1, <2>2, <2>3, GoingOnKeepsThreadInv DEF Movers
<1>8. CASE Iterate(h)
  <2>1. UNCHANGED transitionVars /\ UNCHANGED <<isExecuting, left>>
    BY <1>8 DEF Iterate, flagVars
  <2>2. PICK to \in {"failing", "getting"} :
          /\ handlePc[h] = "iterating" /\ handlePc' = [handlePc EXCEPT ![h] = to]
          /\ UNCHANGED trajectoryGoal /\ UNCHANGED dtoOf
          /\ UNCHANGED <<motion, onClient, reply>>
    BY <1>8 DEF Iterate, ThreadMoves, threadVars, flagVars, moveItVars
  <2>3. Serving(h) /\ to \in Working \ {"accepted"}
    BY <2>2 DEF Serving, Ended, Working, Planned
  <2>4. QED
    BY <2>1, <2>2, <2>3, GoingOnKeepsThreadInv DEF Movers
<1>9. CASE TakePlan(h)
  <2>1. UNCHANGED transitionVars /\ UNCHANGED <<isExecuting, left>>
    BY <1>9 DEF TakePlan, flagVars
  <2>2. PICK to \in {"executing", "failing"} :
          /\ handlePc[h] = "getting" /\ handlePc' = [handlePc EXCEPT ![h] = to]
          /\ UNCHANGED trajectoryGoal /\ UNCHANGED dtoOf
          /\ UNCHANGED <<motion, onClient, reply>>
    BY <1>9 DEF TakePlan, ThreadMoves, threadVars, flagVars, moveItVars
  <2>3. Serving(h) /\ to \in Working \ {"accepted"}
    BY <2>2 DEF Serving, Ended, Working, Planned
  <2>4. QED
    BY <2>1, <2>2, <2>3, GoingOnKeepsThreadInv DEF Movers
<1>10. CASE TakeFailure(h)
  <2>1. UNCHANGED transitionVars /\ UNCHANGED <<isExecuting, left>>
    BY <1>10 DEF TakeFailure, flagVars
  <2>2. PICK to \in {"failing"} :
          /\ handlePc[h] = "getting" /\ handlePc' = [handlePc EXCEPT ![h] = to]
          /\ UNCHANGED trajectoryGoal /\ UNCHANGED dtoOf
          /\ UNCHANGED <<motion, onClient, reply>>
    BY <1>10 DEF TakeFailure, ThreadMoves, threadVars, flagVars, moveItVars
  <2>3. Serving(h) /\ to \in Working \ {"accepted"}
    BY <2>2 DEF Serving, Ended, Working, Planned
  <2>4. QED
    BY <2>1, <2>2, <2>3, GoingOnKeepsThreadInv DEF Movers
<1>11. CASE TakeSentinel(h)
  <2>1. UNCHANGED transitionVars /\ UNCHANGED <<isExecuting, left>>
    BY <1>11 DEF TakeSentinel, flagVars
  <2>2. PICK to \in {"succeeding"} :
          /\ handlePc[h] = "getting" /\ handlePc' = [handlePc EXCEPT ![h] = to]
          /\ UNCHANGED trajectoryGoal /\ UNCHANGED dtoOf
          /\ UNCHANGED <<motion, onClient, reply>>
    BY <1>11 DEF TakeSentinel, ThreadMoves, threadVars, flagVars, moveItVars
  <2>3. Serving(h) /\ to \in Working \ {"accepted"}
    BY <2>2 DEF Serving, Ended, Working, Planned
  <2>4. QED
    BY <2>1, <2>2, <2>3, GoingOnKeepsThreadInv DEF Movers
<1>12. CASE Send(h)
  <2>1. UNCHANGED transitionVars /\ UNCHANGED <<isExecuting, left>>
    BY <1>12 DEF Send, flagVars
  <2>2. PICK to \in {"moving", "failing"} :
          /\ handlePc[h] = "executing" /\ handlePc' = [handlePc EXCEPT ![h] = to]
          /\ UNCHANGED trajectoryGoal /\ UNCHANGED dtoOf
          /\ onClient' = onClient \cup {h} \/ UNCHANGED onClient
          /\ to = "moving" => motion' = motion \cup {h} /\ client
          /\ to # "moving" => UNCHANGED motion
          /\ UNCHANGED reply
    BY <1>12 DEF Send, ThreadMoves, threadVars, flagVars, moveItVars
  <2>3. Serving(h) /\ to \in Working \ {"accepted"}
    BY <2>2 DEF Serving, Ended, Working, Planned
  <2>4. QED
    BY <2>1, <2>2, <2>3, GoingOnKeepsThreadInv DEF Movers
<1>13. CASE MotionDone(h)
  <2>1. UNCHANGED transitionVars /\ UNCHANGED <<isExecuting, left>>
    BY <1>13 DEF MotionDone, flagVars
  <2>2. PICK to \in {"executing", "iterating"} :
          /\ handlePc[h] = "moving" /\ handlePc' = [handlePc EXCEPT ![h] = to]
          /\ UNCHANGED trajectoryGoal /\ UNCHANGED dtoOf
          /\ onClient' = onClient \ {h} /\ UNCHANGED motion
          /\ reply[h] # "none" /\ reply' = [reply EXCEPT ![h] = "none"]
    BY <1>13 DEF MotionDone, ThreadMoves, threadVars, flagVars, moveItVars
  <2>3. Serving(h) /\ to \in Working \ {"accepted"}
    BY <2>2 DEF Serving, Ended, Working, Planned
  <2>4. QED
    BY <2>1, <2>2, <2>3, GoingOnKeepsThreadInv DEF Movers
<1>14. CASE MotionFailed(h)
  <2>1. UNCHANGED transitionVars /\ UNCHANGED <<isExecuting, left>>
    BY <1>14 DEF MotionFailed, flagVars
  <2>2. PICK to \in {"failing"} :
          /\ handlePc[h] = "moving" /\ handlePc' = [handlePc EXCEPT ![h] = to]
          /\ UNCHANGED trajectoryGoal /\ UNCHANGED dtoOf
          /\ onClient' = onClient \ {h} /\ UNCHANGED motion
          /\ reply[h] # "none" /\ reply' = [reply EXCEPT ![h] = "none"]
    BY <1>14 DEF MotionFailed, ThreadMoves, threadVars, flagVars, moveItVars
  <2>3. Serving(h) /\ to \in Working \ {"accepted"}
    BY <2>2 DEF Serving, Ended, Working, Planned
  <2>4. QED
    BY <2>1, <2>2, <2>3, GoingOnKeepsThreadInv DEF Movers
<1>15. CASE Succeed(h)
  <2>1. UNCHANGED transitionVars /\ UNCHANGED <<isExecuting, left>>
    BY <1>15 DEF Succeed, flagVars
  <2>2. PICK to \in {"releasing", "failing"} :
          /\ handlePc[h] = "succeeding" /\ handlePc' = [handlePc EXCEPT ![h] = to]
          /\ UNCHANGED trajectoryGoal /\ UNCHANGED dtoOf
          /\ UNCHANGED <<motion, onClient, reply>>
    BY <1>15 DEF Succeed, ThreadMoves, threadVars, flagVars, moveItVars
  <2>3. Serving(h) /\ to \in Working \ {"accepted"}
    BY <2>2 DEF Serving, Ended, Working, Planned
  <2>4. QED
    BY <2>1, <2>2, <2>3, GoingOnKeepsThreadInv DEF Movers
<1>16. CASE DropGoal(h)
  <2>1. UNCHANGED transitionVars /\ UNCHANGED <<isExecuting, left>>
    BY <1>16 DEF DropGoal, flagVars
  <2>2. PICK to \in {"releasing"} :
          /\ handlePc[h] = "failing" /\ handlePc' = [handlePc EXCEPT ![h] = to]
          /\ trajectoryGoal' = NoHandle /\ UNCHANGED dtoOf
          /\ UNCHANGED <<motion, onClient, reply>>
    BY <1>16 DEF DropGoal, ThreadMoves, threadVars, flagVars, moveItVars
  <2>3. Serving(h) /\ to \in Working \ {"accepted"}
    BY <2>2 DEF Serving, Ended, Working, Planned
  <2>4. QED
    BY <2>1, <2>2, <2>3, GoingOnKeepsThreadInv DEF Movers
<1>17. QED
  BY <1>1, <1>2, <1>3, <1>4, <1>5, <1>6, <1>7, <1>8, <1>9, <1>10, <1>11, <1>12,
     <1>13, <1>14, <1>15, <1>16 DEF ExecuteGoal

LEMMA MotionKeepsThreadInv ==
  ASSUME LifecycleInv, NEW h \in Handles, MotionEnds(h)
  PROVE  ThreadInv'
<1> USE DEF LifecycleInv, LifecycleTypeOK, NodeTypes, ThreadTypes, OutsideTypes,
            NodeInv, ThreadInv
<1>1. /\ UNCHANGED <<transitionVars, isExecuting, trajectoryGoal, left, handlePc, dtoOf, onClient>>
      /\ h \in motion /\ motion' = motion \ {h}
      /\ \A i \in Handles : i # h => reply'[i] = reply[i]
  BY DEF MotionEnds, flagVars, threadVars
<1>2. GoalsLeft' /\ Waiters' /\ Busy' /\ BusyForOne'
  BY <1>1 DEF GoalsLeft, Waiters, Busy, BusyForOne, Serving, transitionVars
<1>3. Movers' /\ Still'
  BY <1>1 DEF Movers, Still, transitionVars
<1>4. QED
  BY <1>2, <1>3

(* ------------------------------ the theorems ---------------------------- *)

LEMMA LifecycleInvHolds == LifecycleSpec => []LifecycleInv
<1>1. LifecycleInit => LifecycleInv
  BY TypesInit, NodeInvInit, ThreadInvInit DEF LifecycleInv
<1>2. LifecycleInv /\ [LifecycleNext]_lifecycleVars => LifecycleInv'
  <2>1. ASSUME LifecycleInv, LifecycleNext
        PROVE  LifecycleInv'
    <3>1. LifecycleTypeOK'
      BY <2>1, NodeTypesStep, ThreadTypesStep, OutsideTypesStep
         DEF LifecycleInv, LifecycleTypeOK, NodeInv
    <3>2. NodeInv'
      BY <2>1, NodeInvStep DEF LifecycleInv, LifecycleTypeOK
    <3>3. ThreadInv'
      BY <2>1, TransitionsKeepThreadInv, ThreadsKeepThreadInv, MotionKeepsThreadInv
         DEF LifecycleNext
    <3>4. QED
      BY <3>1, <3>2, <3>3 DEF LifecycleInv
  <2>2. ASSUME LifecycleInv, UNCHANGED lifecycleVars
        PROVE  LifecycleInv'
    <3>1. LifecycleTypeOK'
      BY <2>2 DEF LifecycleInv, lifecycleVars, transitionVars, flagVars, threadVars, queueVars,
         moveItVars, LifecycleTypeOK, NodeTypes, ThreadTypes, OutsideTypes
    <3>2. NodeInv'
      BY <2>2 DEF LifecycleInv, lifecycleVars, transitionVars, NodeInv, AtRest, GoingUp,
         GoingDown, Leftovers
    <3>3. ThreadInv'
      BY <2>2 DEF LifecycleInv, lifecycleVars, transitionVars, flagVars, threadVars, moveItVars,
         ThreadInv, GoalsLeft, Waiters, Busy, BusyForOne, Movers, Still, Serving
    <3>4. QED
      BY <3>1, <3>2, <3>3 DEF LifecycleInv
  <2>3. QED
    BY <2>1, <2>2
<1>3. QED
  BY <1>1, <1>2, PTL DEF LifecycleSpec

(* The variables keep their types: a thread that is in an iterator is in   *)
(* that of a coordinator, and one that waits for a plan waits for a goal's *)
(* queue.                                                                  *)
THEOREM LifecycleTyped == LifecycleSpec => []LifecycleTypeOK
<1>1. LifecycleInv => LifecycleTypeOK
  BY DEF LifecycleInv
<1>2. QED
  BY <1>1, LifecycleInvHolds, PTL

(* However on_configure, on_activate, on_deactivate and on_cleanup fall    *)
(* among the execute callbacks, and however they fail: between transitions *)
(* the resources are those of the node's state, the node is busy only for  *)
(* a goal that it still serves, one goal at a time has it unless a         *)
(* deactivation left a callback behind, and the robot of an inactive node  *)
(* moves for nobody but such a callback.                                   *)
THEOREM LifecycleIsClean == LifecycleSpec => []TransitionsAreClean
<1>1. ASSUME LifecycleInv
      PROVE  TransitionsAreClean
  <2> USE <1>1 DEF LifecycleInv, NodeInv, ThreadInv
  <2>1. ResourcesFollowState
    BY DEF ResourcesFollowState, AtRest, Leftovers
  <2>2. BusyForSomeone
    BY DEF BusyForSomeone, Busy
  <2>3. OneGoalUnlessLeft
    BY DEF OneGoalUnlessLeft, BusyForOne
  <2>4. StillUnlessLeft
    BY DEF StillUnlessLeft, Still
  <2>5. QED
    BY <2>1, <2>2, <2>3, <2>4 DEF TransitionsAreClean
<1>2. QED
  BY <1>1, LifecycleInvHolds, PTL

-----------------------------------------------------------------------------
(***************************************************************************)
(* For any number of signals, values, drivers and monitors: types, mock    *)
(* timers only of an active node, no registration of a goal that ended,    *)
(* and one feedback per change as long as the node is not cleaned up with  *)
(* a subscription still in place.                                          *)
(***************************************************************************)

(* What _apply and _update_cache do to cache, history and callback.        *)
LEMMA ApplyTypes ==
  ASSUME TypeOK, NEW d \in Drivers, NEW s \in Signals, NEW v \in Values,
         moved = Nothing, Apply(d, s, v)
  PROVE  /\ cache' \in [Drivers -> [Signals -> Values]]
         /\ changes' \in [Drivers -> [Signals -> Seq(Values)]]
         /\ moved' \in (Drivers \X Signals \X Values) \cup {Nothing}
         /\ JustMoved'
<1>1. CASE cache[d][s] = v
  BY <1>1 DEF TypeOK, Apply, JustMoved, signals
<1>2. CASE cache[d][s] # v
  <2>1. /\ cache' = [cache EXCEPT ![d][s] = v]
        /\ changes' = [changes EXCEPT ![d][s] = Append(@, v)]
        /\ moved' = <<d, s, v>>
    BY <1>2 DEF Apply
  <2>2. changes[d][s] \in Seq(Values) /\ changes'[d][s] = Append(changes[d][s], v)
    BY <2>1 DEF TypeOK
  <2>3. Append(changes[d][s], v) \in Seq(Values)
    BY <2>2
  <2>4. /\ changes'[d][s] # <<>>
        /\ changes'[d][s][Len(changes'[d][s])] = v
    BY <2>2, AppendProperties
  <2>5. JustMoved'
    BY <2>1, <2>4 DEF JustMoved
  <2>6. /\ cache' \in [Drivers -> [Signals -> Values]]
        /\ changes' \in [Drivers -> [Signals -> Seq(Values)]]
    BY <2>1, <2>3 DEF TypeOK
  <2>7. moved' \in (Drivers \X Signals \X Values) \cup {Nothing}
    BY <2>1
  <2>8. QED
    BY <2>5, <2>6, <2>7
<1>3. QED
  BY <1>1, <1>2

(* What is coming to a monitor is at most one value.                       *)
LEMMA ComingType ==
  ASSUME TypeOK, NEW m \in Monitors
  PROVE  Coming(m) \in Seq(Values)
<1>1. CASE moved = Nothing
  BY <1>1 DEF Coming
<1>2. CASE moved # Nothing
  <2>1. moved[3] \in Values
    BY <1>2 DEF TypeOK
  <2>2. QED
    BY <2>1 DEF Coming
<1>3. QED
  BY <1>1, <1>2

(* The routed changes are a prefix of the driver's changes.                *)
LEMMA RoutedType ==
  ASSUME TypeOK, NEW s \in Signals
  PROVE  /\ RoutedChanges(s) \in Nat
         /\ driver # NoDriver => RoutedChanges(s) <= Len(changes[driver][s])
<1>1. CASE driver = NoDriver
  BY <1>1 DEF RoutedChanges
<1>2. CASE driver # NoDriver
  <2>1. changes[driver][s] \in Seq(Values)
    BY <1>2 DEF TypeOK
  <2>2. Len(changes[driver][s]) \in Nat
    BY <2>1
  <2>3. CASE moved # Nothing /\ moved[1] = driver /\ moved[2] = s
    <3>1. changes[driver][s] # <<>>
      BY <2>3 DEF TypeOK, JustMoved
    <3>2. Len(changes[driver][s]) > 0
      BY <2>1, <3>1, EmptySeq
    <3>3. QED
      BY <1>2, <2>2, <2>3, <3>2 DEF RoutedChanges
  <2>4. CASE ~(moved # Nothing /\ moved[1] = driver /\ moved[2] = s)
    <3>1. RoutedChanges(s) = Len(changes[driver][s]) - 0
      BY <1>2, <2>4, Zenon DEF RoutedChanges
    <3>2. QED
      BY <2>2, <3>1
  <2>5. QED
    BY <2>3, <2>4
<1>3. QED
  BY <1>1, <1>2

LEMMA TypeInit == Init => TypeOK
<1> SUFFICES ASSUME Init PROVE TypeOK
  OBVIOUS
<1>1. JustMoved
  BY DEF Init, JustMoved
<1>2. /\ cache \in [Drivers -> [Signals -> Values]]
      /\ changes \in [Drivers -> [Signals -> Seq(Values)]]
      /\ pending \in [Monitors -> Seq(Values)]
      /\ initial \in [Monitors -> Seq(Values)]
      /\ streamed \in [Monitors -> Seq(Values)]
  BY SignalsAssumption DEF Init
<1>3. timers \in [Inputs \X Values -> 0 .. MaxTimers]
  BY SignalsAssumption DEF Init, NoTimers
<1>4. /\ monitor \in [Monitors -> {"none", "ended"} \cup Running]
      /\ status \in [Monitors -> {"none", "executing", "canceling", "ended", "gone"}]
      /\ since \in [Monitors -> Nat]
  BY DEF Init
<1>5. QED
  BY <1>1, <1>2, <1>3, <1>4, Zenon DEF Init, TypeOK, Connected

(* What most steps leave alone.                                            *)
LEMMA UnmovedSignals ==
  ASSUME TypeOK, UNCHANGED signals
  PROVE  /\ cache' \in [Drivers -> [Signals -> Values]]
         /\ changes' \in [Drivers -> [Signals -> Seq(Values)]]
         /\ moved' \in (Drivers \X Signals \X Values) \cup {Nothing}
         /\ JustMoved'
<1>1. cache' = cache /\ changes' = changes /\ moved' = moved
  BY DEF signals
<1>2. JustMoved'
  BY <1>1 DEF TypeOK, JustMoved
<1>3. QED
  BY <1>1, <1>2 DEF TypeOK

LEMMA NoTimersType == NoTimers \in [Inputs \X Values -> 0 .. MaxTimers]
BY SignalsAssumption DEF NoTimers

LEMMA AttachTypes ==
  ASSUME TypeOK, driver \in Drivers, Attach, UNCHANGED <<driver, simulated>>
  PROVE  /\ subscribed' \subseteq Drivers /\ leaked' \subseteq Drivers
         /\ simulated' => driver' \notin Connected'
BY DEF Attach, TypeOK, Connected

LEMMA TransitionTypes == TypeOK /\ Transition => TypeOK'
<1> SUFFICES ASSUME TypeOK, Transition PROVE TypeOK'
  OBVIOUS
<1> USE SignalsAssumption
<1>1. CASE Configure
  <2>1. PICK d \in Drivers \ Connected :
          /\ driver' = d
          /\ cache' = [cache EXCEPT ![d] = [s \in Signals |-> Default]]
          /\ changes' = [changes EXCEPT ![d] = [s \in Signals |-> <<>>]]
    BY <1>1 DEF Configure
  <2>2. /\ cache' \in [Drivers -> [Signals -> Values]]
        /\ changes' \in [Drivers -> [Signals -> Seq(Values)]]
    BY <2>1 DEF TypeOK
  <2>3. JustMoved' /\ moved' = moved
    BY <1>1 DEF Configure, Idle, JustMoved
  <2>4. /\ moved' \in (Drivers \X Signals \X Values) \cup {Nothing}
        /\ UNCHANGED <<active, subscribed, leaked, request, feedback, timers, busy,
                       watchers, monitor, status, pending, since>>
        /\ nodeState' = "inactive" /\ simulated' \in BOOLEAN /\ busy = "no"
    BY <1>1 DEF Configure, Idle, TypeOK
  <2>5. /\ driver' \in Drivers /\ driver' # NoDriver
        /\ Connected' = Connected /\ driver' \notin Connected
    BY <2>1, <2>4 DEF Connected
  <2>6. QED
    BY <2>2, <2>3, <2>4, <2>5 DEF TypeOK, request, feedback
<1>2. CASE Activate
  <2>1. driver \in Drivers
    BY <1>2 DEF Activate, TypeOK
  <2>2. UNCHANGED signals /\ UNCHANGED <<driver, simulated>> /\ Attach
    BY <1>2 DEF Activate
  <2>3. QED
    BY <1>2, <2>1, <2>2, AttachTypes, UnmovedSignals
       DEF Activate, TypeOK, request, feedback
<1>3. CASE ActivateFails
  <2>1. driver \in Drivers
    BY <1>3 DEF ActivateFails, TypeOK
  <2>2. UNCHANGED signals /\ UNCHANGED <<driver, simulated>> /\ Attach
    BY <1>3 DEF ActivateFails
  <2>3. QED
    BY <1>3, <2>1, <2>2, AttachTypes, UnmovedSignals
       DEF ActivateFails, TypeOK, request, feedback
<1>4. CASE Deactivate
  BY <1>4, NoTimersType, UnmovedSignals
     DEF Deactivate, TypeOK, Connected, request, feedback
<1>5. ASSUME NEW target \in {"unconfigured", "finalized"}, Teardown(target)
      PROVE  TypeOK'
  BY <1>5, NoTimersType, UnmovedSignals DEF Teardown, TypeOK, Connected, request, feedback
<1>6. QED
  BY <1>1, <1>2, <1>3, <1>4, <1>5 DEF Transition, Cleanup, Shutdown

LEMMA SignalTypes == TypeOK /\ Signal => TypeOK'
<1> SUFFICES ASSUME TypeOK, Signal PROVE TypeOK'
  OBVIOUS
<1> USE SignalsAssumption
<1>1. ASSUME NEW d \in Drivers, NEW s \in Signals, NEW v \in Values,
             DeviceReports(d, s, v)
      PROVE  TypeOK'
  BY <1>1, ApplyTypes DEF DeviceReports, Idle, TypeOK, Connected, node, request, feedback
<1>2. ASSUME NEW s \in Outputs, NEW v \in Values, SetOutput(s, v)
      PROVE  TypeOK'
  <2>1. driver \in Drivers /\ s \in Signals
    BY <1>2 DEF SetOutput, TypeOK, Signals
  <2>2. QED
    BY <1>2, <2>1, ApplyTypes DEF SetOutput, Idle, TypeOK, Connected, node, request, feedback
<1>3. ASSUME NEW s \in Inputs, NEW v \in Values, ScheduleMock(s, v)
      PROVE  TypeOK'
  BY <1>3 DEF ScheduleMock, TypeOK, JustMoved, Connected, node, signals, request, feedback
<1>4. ASSUME NEW s \in Inputs, NEW v \in Values, FireTimer(s, v)
      PROVE  TypeOK'
  <2>1. timers' \in [Inputs \X Values -> 0 .. MaxTimers]
    BY <1>4 DEF FireTimer, TypeOK
  <2>2. CASE driver = NoDriver
    BY <1>4, <2>1, <2>2 DEF FireTimer, TypeOK, JustMoved, Connected, node, signals, request, feedback
  <2>3. CASE driver # NoDriver
    <3>1. driver \in Drivers /\ s \in Signals
      BY <2>3 DEF TypeOK, Signals
    <3>2. QED
      BY <1>4, <2>1, <2>3, <3>1, ApplyTypes
         DEF FireTimer, Idle, TypeOK, Connected, node, request, feedback
  <2>4. QED
    BY <2>2, <2>3
<1>5. QED
  BY <1>1, <1>2, <1>3, <1>4 DEF Signal

LEMMA CallbackTypes == TypeOK /\ Callback => TypeOK'
<1> SUFFICES ASSUME TypeOK, Callback PROVE TypeOK'
  OBVIOUS
<1> USE SignalsAssumption
<1>1. CASE TeardownWatchers
  BY <1>1 DEF TeardownWatchers, TypeOK, JustMoved, Connected, node, signals, request, feedback
<1>2. CASE TeardownDriver
  BY <1>2 DEF TeardownDriver, TypeOK, JustMoved, Connected, signals, request, feedback
<1>3. CASE Route
  <2>1. \A m \in Monitors : pending[m] \o Coming(m) \in Seq(Values)
    BY ComingType DEF TypeOK
  <2>2. pending' \in [Monitors -> Seq(Values)]
    BY <1>3, <2>1 DEF Route, TypeOK
  <2>3. QED
    BY <1>3, <2>2 DEF Route, TypeOK, JustMoved, Connected, node, request, feedback
<1>4. QED
  BY <1>1, <1>2, <1>3 DEF Callback

LEMMA MonitorTypes ==
  ASSUME TypeOK, NEW m \in Monitors, Accept(m) \/ RequestCancel(m) \/ Watch(m)
  PROVE  TypeOK'
<1> USE SignalsAssumption
    DEF TypeOK, JustMoved, Connected, MonitorMoves, node, signals, request, feedback,
        Running, Registered
<1>1. CASE Accept(m)
  BY <1>1 DEF Accept
<1>2. CASE RequestCancel(m)
  BY <1>2 DEF RequestCancel
<1>3. CASE LookUp(m)
  BY <1>3 DEF LookUp
<1>4. CASE Register(m)
  <2>1. RoutedChanges(watched[m]) \in Nat
    BY RoutedType
  <2>2. QED
    BY <1>4, <2>1 DEF Register
<1>5. CASE EmitInitial(m)
  <2>1. driver # NoDriver => <<Current(m)>> \in Seq(Values)
    BY DEF Current
  <2>2. QED
    BY <1>5, <2>1 DEF EmitInitial
<1>6. CASE CheckActive(m)
  BY <1>6 DEF CheckActive
<1>7. CASE CheckCancel(m)
  BY <1>7 DEF CheckCancel
<1>8. CASE Report(m)
  <2>1. Head(pending[m]) \in Values /\ Tail(pending[m]) \in Seq(Values)
    BY <1>8, HeadTailProperties DEF Report
  <2>2. Append(streamed[m], Head(pending[m])) \in Seq(Values)
    BY <2>1
  <2>3. QED
    BY <1>8, <2>1, <2>2 DEF Report
<1>9. CASE Timeout(m)
  BY <1>9 DEF Timeout
<1>10. CASE Unregister(m)
  BY <1>10 DEF Unregister
<1>11. QED
  BY <1>1, <1>2, <1>3, <1>4, <1>5, <1>6, <1>7, <1>8, <1>9, <1>10 DEF Watch

LEMMA TypeStep == TypeOK /\ [Next]_vars => TypeOK'
<1>1. TypeOK /\ UNCHANGED vars => TypeOK'
  BY DEF TypeOK, JustMoved, Connected, vars, node, signals, request, feedback
<1>2. QED
  BY <1>1, TransitionTypes, SignalTypes, CallbackTypes, MonitorTypes DEF Next

(* The node's and the monitors' variables keep their types, and what is    *)
(* routed is the last change there was, however goals and transitions      *)
(* interleave.                                                             *)
THEOREM TypeCorrect == Spec => []TypeOK
BY TypeInit, TypeStep, PTL DEF Spec
---------------------------------------------------------------------------
(* Mock timers.                                                            *)

TimerInv ==
  /\ TypeOK
  /\ TimersOnlyWhileActive
  /\ active => nodeState = "active"

LEMMA TimerInit == Init => TimerInv
BY TypeInit DEF Init, TimerInv, TimersOnlyWhileActive

LEMMA TimerStep == TimerInv /\ [Next]_vars => TimerInv'
<1> SUFFICES ASSUME TimerInv, [Next]_vars PROVE TimerInv'
  OBVIOUS
<1> USE DEF TimerInv, TimersOnlyWhileActive
<1>1. TypeOK'
  BY TypeStep
<1>2. CASE Transition
  BY <1>1, <1>2 DEF Transition, Configure, Activate, ActivateFails, Deactivate, Cleanup,
                    Shutdown, Teardown, NoTimers
<1>3. ASSUME NEW s \in Inputs, NEW v \in Values, ScheduleMock(s, v) \/ FireTimer(s, v)
      PROVE  TimerInv'
  <2>1. UNCHANGED <<active, simulated, nodeState>>
    BY <1>3 DEF ScheduleMock, FireTimer, node
  <2>2. CASE ScheduleMock(s, v)
    BY <1>1, <2>1, <2>2 DEF ScheduleMock
  <2>3. CASE FireTimer(s, v)
    <3>1. timers # NoTimers
      BY <2>3 DEF FireTimer, NoTimers
    <3>2. QED
      BY <1>1, <2>1, <3>1
  <2>4. QED
    BY <1>3, <2>2, <2>3
<1>4. CASE \/ Callback
           \/ \E d \in Drivers, s \in Signals, v \in Values : DeviceReports(d, s, v)
           \/ \E s \in Outputs, v \in Values : SetOutput(s, v)
           \/ \E m \in Monitors : Accept(m) \/ RequestCancel(m) \/ Watch(m)
           \/ UNCHANGED vars
  <2>1. UNCHANGED <<active, simulated, nodeState, timers, NoTimers>>
    BY <1>4 DEF Callback, TeardownWatchers, TeardownDriver, Route, DeviceReports, SetOutput,
                Accept, RequestCancel, Watch, LookUp, Register, EmitInitial, CheckActive,
                CheckCancel, Report, Timeout, Unregister, MonitorMoves, vars, node, NoTimers
  <2>2. QED
    BY <1>1, <2>1
<1>5. QED
  BY <1>2, <1>3, <1>4 DEF Next, Signal

(* _schedule_mock_change and _cancel_mock_timers: no interleaving of       *)
(* requests, timers and transitions leaves a timer on a node that is not   *)
(* active.                                                                 *)
THEOREM NoStrayTimer == Spec => []TimersOnlyWhileActive
<1>1. TimerInv => TimersOnlyWhileActive
  BY DEF TimerInv
<1>2. QED
  BY <1>1, TimerInit, TimerStep, PTL DEF Spec
---------------------------------------------------------------------------
(* Registrations.                                                          *)

Fresh(m) == monitor[m] \in {"none", "accepted", "found"}

MonitorInv ==
  /\ TypeOK
  /\ OnlyRunningWatch
  /\ \A m \in Monitors : Fresh(m) => streamed[m] = <<>> /\ pending[m] = <<>>

LEMMA MonitorInit == Init => MonitorInv
BY TypeInit DEF Init, MonitorInv, OnlyRunningWatch, Fresh

(* A step of a goal's thread concerns that goal alone.                     *)
LEMMA WatchStep ==
  ASSUME MonitorInv, NEW m \in Monitors, Accept(m) \/ RequestCancel(m) \/ Watch(m)
  PROVE  MonitorInv'
<1> USE DEF MonitorInv, Fresh, Registered
<1>1. TypeOK'
  BY MonitorTypes
<1>2. /\ \A n \in Monitors \ {m} :
             /\ monitor'[n] = monitor[n] /\ streamed'[n] = streamed[n]
             /\ pending'[n] = pending[n] /\ (n \in watchers' <=> n \in watchers)
      /\ m \in watchers' => monitor'[m] \in Registered
      /\ Fresh(m)' => streamed'[m] = <<>> /\ pending'[m] = <<>>
  BY SMTT(30) DEF TypeOK, OnlyRunningWatch, Accept, RequestCancel, Watch, LookUp, Register,
         EmitInitial, CheckActive, CheckCancel, Report, Timeout, Unregister, MonitorMoves,
         feedback
<1>3. OnlyRunningWatch'
  BY <1>1, <1>2 DEF OnlyRunningWatch, TypeOK
<1>4. QED
  BY <1>1, <1>2, <1>3

LEMMA MonitorStep == MonitorInv /\ [Next]_vars => MonitorInv'
<1> SUFFICES ASSUME MonitorInv, [Next]_vars PROVE MonitorInv'
  OBVIOUS
<1> USE DEF MonitorInv, OnlyRunningWatch, Fresh
<1>1. TypeOK'
  BY TypeStep
<1>2. CASE \E m \in Monitors : Accept(m) \/ RequestCancel(m) \/ Watch(m)
  BY <1>2, WatchStep
<1>3. CASE Route
  <2>1. /\ UNCHANGED <<watchers, monitor, streamed>>
        /\ \A m \in Monitors : m \notin watchers => pending'[m] = pending[m]
    BY <1>3 DEF Route, feedback
  <2>2. \A m \in Monitors : Fresh(m) => m \notin watchers
    BY DEF Registered
  <2>3. QED
    BY <1>1, <2>1, <2>2
<1>4. CASE Transition \/ Signal \/ TeardownWatchers \/ TeardownDriver \/ UNCHANGED vars
  <2>1. UNCHANGED <<monitor, streamed, pending>> /\ watchers' \subseteq watchers
    BY <1>4 DEF Transition, Configure, Activate, ActivateFails, Deactivate, Cleanup,
                Shutdown, Teardown, Signal, DeviceReports, SetOutput, ScheduleMock,
                FireTimer, TeardownWatchers, TeardownDriver, vars, feedback
  <2>2. QED
    BY <1>1, <2>1
<1>5. QED
  BY <1>2, <1>3, <1>4 DEF Next, Callback

(* The finally clause of _execute_monitor: no goal that ended stays in     *)
(* _watchers, however teardown, cancel and registration interleave.        *)
THEOREM NoStaleWatcher == Spec => []OnlyRunningWatch
<1>1. MonitorInv => OnlyRunningWatch
  BY DEF MonitorInv
<1>2. QED
  BY <1>1, MonitorInit, MonitorStep, PTL DEF Spec
---------------------------------------------------------------------------
(* Feedback.                                                               *)

(* Only the node's own driver calls _on_driver_change.                     *)
LinkInv ==
  /\ busy # "no" => moved = Nothing
  /\ driver # NoDriver => Connected \subseteq {driver}
  /\ nodeState = "unconfigured" => Connected = {}
  /\ moved # Nothing /\ driver # NoDriver => moved[1] = driver

HeardInv ==
  /\ \A m \in watchers : driver # NoDriver =>
       since[m] <= Len(changes[driver][watched[m]])
  /\ MonitorsHearEveryChange

IInv == MonitorInv /\ LinkInv /\ HeardInv

LEMMA LinkInit == Init => LinkInv /\ HeardInv
BY DEF Init, LinkInv, HeardInv, MonitorsHearEveryChange, Connected

LEMMA LinkStep ==
  ASSUME ~CleanupAfterFailure, TypeOK, LinkInv, [Next]_vars
  PROVE  LinkInv'
<1> USE DEF LinkInv, Connected
<1>1. CASE Transition
  <2>1. moved = Nothing /\ moved' = Nothing
    BY <1>1 DEF Transition, Configure, Activate, ActivateFails, Deactivate, Cleanup,
                Shutdown, Teardown, Idle, signals
  <2>2. CASE Configure \/ Activate \/ ActivateFails \/ Deactivate
    BY <2>1, <2>2 DEF TypeOK, Configure, Activate, ActivateFails, Attach, Deactivate
  <2>3. CASE Cleanup \/ Shutdown
    BY <2>1, <2>3 DEF TypeOK, Cleanup, Shutdown, Teardown
  <2>4. QED
    BY <1>1, <2>2, <2>3 DEF Transition
<1>2. CASE Signal
  <2>1. UNCHANGED <<busy, driver, subscribed, leaked, nodeState>> /\ busy = "no"
    BY <1>2 DEF Signal, DeviceReports, SetOutput, ScheduleMock, FireTimer, Idle, node
  <2>2. moved' # Nothing /\ driver # NoDriver => moved'[1] = driver
    <3>1. ASSUME NEW d, NEW s, NEW v, moved = Nothing, Apply(d, s, v),
                 driver # NoDriver => d = driver
          PROVE  moved' # Nothing /\ driver # NoDriver => moved'[1] = driver
      BY <3>1 DEF Apply, signals
    <3>2. moved = Nothing
      BY <1>2 DEF Signal, DeviceReports, SetOutput, ScheduleMock, FireTimer, Idle
    <3>3. ASSUME NEW d \in Drivers, NEW s, NEW v, DeviceReports(d, s, v)
          PROVE  moved' # Nothing /\ driver # NoDriver => moved'[1] = driver
      BY <3>1, <3>2, <3>3 DEF DeviceReports
    <3>4. ASSUME NEW s, NEW v, SetOutput(s, v) \/ ScheduleMock(s, v) \/ FireTimer(s, v)
          PROVE  moved' # Nothing /\ driver # NoDriver => moved'[1] = driver
      BY <3>1, <3>2, <3>4 DEF SetOutput, ScheduleMock, FireTimer, signals
    <3>5. QED
      BY <1>2, <3>3, <3>4 DEF Signal
  <2>3. QED
    BY <2>1, <2>2
<1>3. CASE Callback
  BY <1>3 DEF Callback, TeardownWatchers, TeardownDriver, Route, node, signals
<1>4. CASE \/ \E m \in Monitors : Accept(m) \/ RequestCancel(m) \/ Watch(m)
           \/ UNCHANGED vars
  BY <1>4 DEF Accept, RequestCancel, Watch, LookUp, Register, EmitInitial, CheckActive,
              CheckCancel, Report, Timeout, Unregister, MonitorMoves, vars, node, signals
<1>5. QED
  BY <1>1, <1>2, <1>3, <1>4 DEF Next

(* Concatenation of sequences of values is associative.                    *)
LEMMA ConcatAssoc ==
  \A a, b, c \in Seq(Values) : (a \o b) \o c = a \o (b \o c)
<1>1. ASSUME NEW a \in Seq(Values), NEW b \in Seq(Values), NEW c \in Seq(Values)
      PROVE  (a \o b) \o c = a \o (b \o c)
  BY ConcatAssociative
<1>2. QED
  BY <1>1, Zenon

(* The last element, cut out.                                              *)
LEMMA SubSeqLast ==
  ASSUME NEW S, NEW past \in Seq(S), past # <<>>
  PROVE  SubSeq(past, Len(past), Len(past)) = <<past[Len(past)]>>
<1>1. Len(past) \in Nat /\ Len(past) >= 1
  BY EmptySeq
<1>2. past[Len(past)] \in S
  BY <1>1, ElementOfSeq
<1>3. /\ Len(past) \in 1 .. Len(past) /\ Len(past) \in Len(past) .. Len(past)
      /\ Len(past) - 1 < Len(past) /\ Len(past) \in Int /\ Len(past) - 1 \in Int
  BY <1>1
<1>4. SubSeq(past, Len(past), Len(past))
        = SubSeq(past, Len(past), Len(past) - 1) \o <<past[Len(past)]>>
  BY <1>3, SubSeqRecursiveSecond
<1>5. SubSeq(past, Len(past), Len(past) - 1) = <<>>
  BY <1>3, SubSeqEmpty
<1>6. <<>> \o <<past[Len(past)]>> = <<past[Len(past)]>>
  BY <1>2, ConcatEmptySeq
<1>7. QED
  BY <1>4, <1>5, <1>6

(* Cutting an appended sequence.                                           *)
LEMMA SubSeqAppended ==
  ASSUME NEW S, NEW past \in Seq(S), NEW v \in S, NEW k \in Nat, k <= Len(past)
  PROVE  SubSeq(Append(past, v), k + 1, Len(past) + 1)
           = SubSeq(past, k + 1, Len(past)) \o <<v>>
<1> DEFINE longer == Append(past, v)
<1>1. /\ longer \in Seq(S) /\ Len(longer) = Len(past) + 1 /\ Len(past) \in Nat
      /\ longer[Len(past) + 1] = v
      /\ \A i \in 1 .. Len(past) : longer[i] = past[i]
  BY AppendProperties
<1>2. SubSeq(longer, k + 1, Len(past) + 1)
        = SubSeq(longer, k + 1, Len(past)) \o <<longer[Len(past) + 1]>>
  <2>1. /\ k + 1 \in 1 .. Len(longer)
        /\ Len(past) + 1 \in (k + 1) .. Len(longer)
    BY <1>1
  <2>2. SubSeq(longer, k + 1, Len(past) + 1)
          = SubSeq(longer, k + 1, (Len(past) + 1) - 1) \o <<longer[Len(past) + 1]>>
    BY <1>1, <2>1, SubSeqRecursiveSecond
  <2>3. (Len(past) + 1) - 1 = Len(past)
    BY <1>1
  <2>4. QED
    BY <2>2, <2>3
<1>3. SubSeq(longer, k + 1, Len(past)) = SubSeq(past, k + 1, Len(past))
  <2> DEFINE a == SubSeq(longer, k + 1, Len(past))
             b == SubSeq(past, k + 1, Len(past))
  <2>1. \A i \in (k + 1) .. Len(past) : longer[i] \in S /\ past[i] \in S
    BY <1>1, ElementOfSeq
  <2>2. /\ a \in Seq(S) /\ b \in Seq(S) /\ Len(a) = Len(b)
        /\ Len(a) = IF k + 1 <= Len(past) THEN Len(past) - (k + 1) + 1 ELSE 0
        /\ \A i \in 1 .. Len(past) - (k + 1) + 1 :
             a[i] = longer[(k + 1) + i - 1] /\ b[i] = past[(k + 1) + i - 1]
    BY <1>1, <2>1, SubSeqProperties
  <2>3. \A i \in 1 .. Len(a) : a[i] = b[i]
    BY <1>1, <2>2
  <2> HIDE DEF a, b
  <2>4. a = b
    BY <2>2, <2>3, SeqEqual
  <2>5. QED
    BY <2>4 DEF a, b
<1>4. QED
  BY <1>1, <1>2, <1>3

(* The terms of MonitorsHearEveryChange.                                   *)
LEMMA HeardTypes ==
  ASSUME TypeOK, NEW m \in watchers, driver # NoDriver
  PROVE  /\ m \in Monitors /\ watched[m] \in Signals /\ driver \in Drivers
         /\ changes[driver][watched[m]] \in Seq(Values)
         /\ Len(changes[driver][watched[m]]) \in Nat /\ since[m] \in Nat
         /\ streamed[m] \in Seq(Values) /\ pending[m] \in Seq(Values)
         /\ Coming(m) \in Seq(Values)
<1>1. m \in Monitors
  BY DEF TypeOK
<1>2. watched[m] \in Signals /\ driver \in Drivers
  BY <1>1 DEF TypeOK
<1>3. changes[driver][watched[m]] \in Seq(Values)
  BY <1>2 DEF TypeOK
<1>4. QED
  BY <1>1, <1>2, <1>3, ComingType DEF TypeOK

(* A step that touches none of the terms.                                  *)
LEMMA HeardUnchanged ==
  ASSUME HeardInv, watchers' \subseteq watchers,
         UNCHANGED <<driver, changes, moved, watched, since, pending, streamed>>
  PROVE  HeardInv'
BY DEF HeardInv, MonitorsHearEveryChange, ChangesSince, Coming

(* A change appended to the history is what comes to the watchers.         *)
LEMMA HeardApply ==
  ASSUME TypeOK, HeardInv, LinkInv, NEW d \in Drivers, NEW s \in Signals,
         NEW v \in Values, driver # NoDriver => d = driver, moved = Nothing,
         Apply(d, s, v),
         UNCHANGED <<driver, watchers, watched, since, pending, streamed>>
  PROVE  HeardInv'
<1>1. CASE cache[d][s] = v
  BY <1>1, HeardUnchanged DEF Apply, signals
<1>2. CASE cache[d][s] # v /\ driver # NoDriver
  <2>1. /\ changes' = [changes EXCEPT ![d][s] = Append(@, v)]
        /\ moved' = <<d, s, v>> /\ d = driver
    BY <1>2 DEF Apply
  <2> SUFFICES ASSUME NEW m \in watchers
               PROVE  /\ since[m] <= Len(changes'[driver][watched[m]])
                      /\ streamed[m] \o pending[m] \o Coming(m)' = ChangesSince(m)'
    BY DEF HeardInv, MonitorsHearEveryChange
  <2> DEFINE past == changes[driver][watched[m]]
  <2>2. /\ m \in Monitors /\ watched[m] \in Signals /\ driver \in Drivers
        /\ past \in Seq(Values) /\ Len(past) \in Nat /\ since[m] \in Nat
        /\ streamed[m] \in Seq(Values) /\ pending[m] \in Seq(Values)
    BY <1>2, HeardTypes
  <2>3. /\ since[m] <= Len(past)
        /\ streamed[m] \o pending[m] \o <<>> = SubSeq(past, since[m] + 1, Len(past))
    BY <1>2 DEF HeardInv, MonitorsHearEveryChange, ChangesSince, Coming
  <2>4. streamed[m] \o pending[m] = SubSeq(past, since[m] + 1, Len(past))
    <3>1. streamed[m] \o pending[m] \in Seq(Values)
      BY <2>2, ConcatProperties
    <3>2. (streamed[m] \o pending[m]) \o <<>> = streamed[m] \o pending[m]
      BY <3>1, ConcatEmptySeq
    <3>3. QED
      BY <2>3, <3>2
  <2>5. CASE watched[m] = s
    <3>1. changes'[driver][watched[m]] = Append(past, v)
      <4>1. changes' = [changes EXCEPT ![driver][s] = Append(@, v)]
        BY <2>1
      <4>2. changes[driver] \in [Signals -> Seq(Values)]
        BY <2>2 DEF TypeOK
      <4>3. changes'[driver][s] = Append(changes[driver][s], v)
        BY <2>2, <4>1, <4>2 DEF TypeOK
      <4>4. QED
        BY <2>5, <4>3
    <3>4. Coming(m)' = <<v>>
      BY <2>1, <2>5 DEF Coming, Nothing
    <3>2. SubSeq(Append(past, v), since[m] + 1, Len(past) + 1)
            = SubSeq(past, since[m] + 1, Len(past)) \o <<v>>
      BY <2>2, <2>3, SubSeqAppended
    <3>3. Len(Append(past, v)) = Len(past) + 1
      BY <2>2, AppendProperties
    <3>5. QED
      <4>1. since[m] <= Len(changes'[driver][watched[m]])
        BY <2>2, <2>3, <3>1, <3>3
      <4>2. ChangesSince(m)' = SubSeq(Append(past, v), since[m] + 1, Len(past) + 1)
        BY <3>1, <3>3 DEF ChangesSince
      <4>3. streamed[m] \o pending[m] \o Coming(m)'
              = SubSeq(past, since[m] + 1, Len(past)) \o <<v>>
        BY <2>4, <3>4
      <4>4. QED
        BY <3>2, <4>1, <4>2, <4>3
  <2>6. CASE watched[m] # s
    <3>1. changes'[driver][watched[m]] = past /\ Coming(m)' = <<>>
      BY <2>1, <2>2, <2>6 DEF TypeOK, Coming
    <3>2. QED
      BY <2>3, <3>1 DEF ChangesSince
  <2>7. QED
    BY <2>5, <2>6
<1>3. CASE driver = NoDriver
  BY <1>3 DEF HeardInv, MonitorsHearEveryChange
<1>4. QED
  BY <1>1, <1>2, <1>3
(* Routing moves what comes into the queues.                               *)
LEMMA HeardRoute ==
  ASSUME TypeOK, HeardInv, Route
  PROVE  HeardInv'
<1>1. /\ moved' = Nothing
      /\ UNCHANGED <<driver, changes, watchers, watched, since, streamed>>
      /\ pending' = [m \in Monitors |->
                      IF m \in watchers THEN pending[m] \o Coming(m) ELSE pending[m]]
  BY DEF Route, node, feedback, request
<1> SUFFICES ASSUME NEW m \in watchers, driver # NoDriver
             PROVE  /\ since[m] <= Len(changes[driver][watched[m]])
                    /\ streamed[m] \o pending'[m] \o Coming(m)' = ChangesSince(m)
  BY <1>1 DEF HeardInv, MonitorsHearEveryChange, ChangesSince
<1>2. /\ m \in Monitors /\ streamed[m] \in Seq(Values)
      /\ pending[m] \in Seq(Values) /\ Coming(m) \in Seq(Values)
  BY HeardTypes
<1>3. pending'[m] = pending[m] \o Coming(m) /\ Coming(m)' = <<>>
  BY <1>1, <1>2 DEF Coming
<1>4. (streamed[m] \o pending[m]) \o Coming(m) = streamed[m] \o (pending[m] \o Coming(m))
  BY <1>2, ConcatAssoc, Zenon
<1>5. streamed[m] \o (pending[m] \o Coming(m)) \in Seq(Values)
  BY <1>2, ConcatProperties
<1>6. (streamed[m] \o (pending[m] \o Coming(m))) \o <<>>
        = streamed[m] \o (pending[m] \o Coming(m))
  BY <1>5, ConcatEmptySeq
<1>7. /\ since[m] <= Len(changes[driver][watched[m]])
      /\ (streamed[m] \o pending[m]) \o Coming(m) = ChangesSince(m)
  BY DEF HeardInv, MonitorsHearEveryChange
<1>8. QED
  BY <1>3, <1>4, <1>6, <1>7

(* Reporting moves the head of the queue to the end of what was streamed.  *)
LEMMA HeardReport ==
  ASSUME TypeOK, HeardInv, NEW n \in Monitors, Report(n)
  PROVE  HeardInv'
<1>1. /\ UNCHANGED <<driver, changes, moved, watchers, watched, since>>
      /\ pending[n] # <<>>
      /\ streamed' = [streamed EXCEPT ![n] = Append(@, Head(pending[n]))]
      /\ pending' = [pending EXCEPT ![n] = Tail(@)]
  BY DEF Report, MonitorMoves, node, signals, request
<1> SUFFICES ASSUME NEW m \in watchers, driver # NoDriver
             PROVE  streamed'[m] \o pending'[m] = streamed[m] \o pending[m]
  BY <1>1 DEF HeardInv, MonitorsHearEveryChange, ChangesSince, Coming
<1>2. m \in Monitors /\ streamed[m] \in Seq(Values) /\ pending[m] \in Seq(Values)
  BY HeardTypes
<1>3. CASE m # n
  BY <1>1, <1>2, <1>3 DEF TypeOK
<1>4. CASE m = n
  <2> DEFINE head == Head(pending[m])
             tail == Tail(pending[m])
  <2>1. streamed'[m] = Append(streamed[m], head) /\ pending'[m] = tail
    BY <1>1, <1>2, <1>4 DEF TypeOK
  <2>2. /\ head \in Values /\ tail \in Seq(Values) /\ Len(tail) = Len(pending[m]) - 1
        /\ \A i \in 1 .. Len(tail) : tail[i] = pending[m][i + 1]
    BY <1>1, <1>2, <1>4, HeadTailProperties
  <2>3. head = pending[m][1]
    BY <1>1, <1>2, <1>4
  <2>4. Append(streamed[m], head) = streamed[m] \o <<head>>
    BY <1>2, <2>2, AppendIsConcat
  <2>5. (streamed[m] \o <<head>>) \o tail = streamed[m] \o (<<head>> \o tail)
    <3>1. <<head>> \in Seq(Values)
      BY <2>2
    <3> HIDE DEF head, tail
    <3>2. QED
      BY <1>2, <2>2, <3>1, ConcatAssoc, Zenon
  <2>6. <<head>> \o tail = pending[m]
    BY <1>1, <1>2, <1>4, <2>2, <2>3
  <2>7. QED
    BY <2>1, <2>4, <2>5, <2>6
<1>5. QED
  BY <1>3, <1>4

(* A goal that registers hears what is routed from now on.                 *)
LEMMA HeardRegister ==
  ASSUME MonitorInv, LinkInv, HeardInv, NEW n \in Monitors, Register(n)
  PROVE  HeardInv'
<1>1. /\ UNCHANGED <<driver, changes, moved, watched, pending, streamed>>
      /\ watchers' = watchers \cup {n}
      /\ since' = [since EXCEPT ![n] = RoutedChanges(watched[n])]
  BY DEF Register, MonitorMoves, node, signals, request, feedback
<1> DEFINE s == watched[n]
           past == changes[driver][s]
<1>2. TypeOK /\ s \in Signals
  BY DEF MonitorInv, TypeOK
<1>3. streamed[n] = <<>> /\ pending[n] = <<>> /\ n \notin watchers
  BY DEF MonitorInv, OnlyRunningWatch, Fresh, Register, MonitorMoves, Registered
<1>4. since'[n] = RoutedChanges(s) /\ \A m \in watchers : since'[m] = since[m]
  BY <1>1, <1>2, <1>3 DEF TypeOK
<1>5. ASSUME driver # NoDriver
      PROVE  /\ RoutedChanges(s) <= Len(past)
             /\ Coming(n) = SubSeq(past, RoutedChanges(s) + 1, Len(past))
  <2>1. past \in Seq(Values) /\ Len(past) \in Nat
    BY <1>2, <1>5 DEF TypeOK
  <2>2. CASE moved # Nothing /\ moved[2] = s
    <3>1. moved[1] = driver
      BY <1>5, <2>2 DEF LinkInv
    <3>2. past # <<>> /\ past[Len(past)] = moved[3]
      BY <1>2, <2>2, <3>1 DEF TypeOK, JustMoved
    <3>3. RoutedChanges(s) = Len(past) - 1
      BY <1>5, <2>2, <3>1 DEF RoutedChanges
    <3>4. SubSeq(past, Len(past), Len(past)) = <<past[Len(past)]>>
      BY <2>1, <3>2, SubSeqLast
    <3>5. RoutedChanges(s) + 1 = Len(past) /\ RoutedChanges(s) <= Len(past)
      BY <2>1, <3>3
    <3>6. Coming(n) = <<past[Len(past)]>>
      BY <2>2, <3>2 DEF Coming
    <3>7. QED
      BY <3>4, <3>5, <3>6
  <2>3. CASE ~(moved # Nothing /\ moved[2] = s)
    <3>1. RoutedChanges(s) = Len(past) - 0
      BY <1>5, <2>3, Zenon DEF RoutedChanges
    <3>2. SubSeq(past, Len(past) + 1, Len(past)) = <<>>
      BY <2>1, SubSeqEmpty
    <3>3. Coming(n) = <<>>
      BY <2>3 DEF Coming
    <3>4. RoutedChanges(s) = Len(past)
      BY <2>1, <3>1
    <3>5. Len(past) <= Len(past)
      BY <2>1
    <3>6. QED
      BY <3>2, <3>3, <3>4, <3>5
  <2>4. QED
    BY <2>2, <2>3
<1>6. Coming(n) \in Seq(Values)
  BY <1>2, ComingType
<1>7. <<>> \o <<>> \o Coming(n) = Coming(n)
  BY <1>6, ConcatEmptySeq
<1>8. ASSUME NEW m \in watchers', driver # NoDriver
      PROVE  /\ since'[m] <= Len(changes[driver][watched[m]])
             /\ streamed[m] \o pending[m] \o Coming(m)
                  = SubSeq(changes[driver][watched[m]], since'[m] + 1,
                           Len(changes[driver][watched[m]]))
  <2>1. CASE m = n
    BY <1>3, <1>4, <1>5, <1>7, <1>8, <2>1
  <2>2. CASE m # n
    BY <1>1, <1>4, <1>8, <2>2 DEF HeardInv, MonitorsHearEveryChange, ChangesSince
  <2>3. QED
    BY <2>1, <2>2
<1>9. QED
  BY <1>1, <1>8 DEF HeardInv, MonitorsHearEveryChange, ChangesSince, Coming

LEMMA HeardStep ==
  ASSUME PatientOperator, ~CleanupAfterFailure, IInv, [Next]_vars
  PROVE  HeardInv'
<1> USE DEF IInv, MonitorInv
<1>1. CASE Configure
  <2>1. watchers' = {}
    BY <1>1 DEF Configure, OperatorReady, Winding, OnlyRunningWatch, Running, TypeOK
  <2>2. QED
    BY <2>1 DEF HeardInv, MonitorsHearEveryChange
<1>2. CASE Activate \/ ActivateFails \/ Deactivate \/ Cleanup \/ Shutdown
           \/ TeardownWatchers \/ UNCHANGED vars
  <2>1. /\ UNCHANGED <<driver, changes, moved, watched, since, pending, streamed>>
        /\ watchers' \subseteq watchers
    BY <1>2 DEF Activate, ActivateFails, Deactivate, Cleanup, Shutdown, Teardown,
                TeardownWatchers, vars, node, signals, request, feedback
  <2>2. QED
    BY <2>1, HeardUnchanged
<1>3. CASE TeardownDriver
  BY <1>3 DEF TeardownDriver, HeardInv, MonitorsHearEveryChange
<1>4. CASE Signal
  <2>1. /\ moved = Nothing
        /\ UNCHANGED <<driver, watchers, watched, since, pending, streamed>>
    BY <1>4 DEF Signal, DeviceReports, SetOutput, ScheduleMock, FireTimer, Idle, node,
                request, feedback
  <2>2. CASE UNCHANGED signals
    BY <2>1, <2>2, HeardUnchanged DEF signals
  <2>3. CASE \E d \in Drivers, s \in Signals, v \in Values :
               Apply(d, s, v) /\ (driver # NoDriver => d = driver)
    BY <2>1, <2>3, HeardApply
  <2>4. ASSUME NEW d \in Drivers, NEW s \in Signals, NEW v \in Values,
               DeviceReports(d, s, v)
        PROVE  HeardInv'
    BY <2>3, <2>4 DEF DeviceReports, LinkInv
  <2>5. ASSUME NEW s \in Outputs, NEW v \in Values, SetOutput(s, v)
        PROVE  HeardInv'
    BY <2>3, <2>5 DEF SetOutput, TypeOK, Signals
  <2>6. ASSUME NEW s \in Inputs, NEW v \in Values, ScheduleMock(s, v) \/ FireTimer(s, v)
        PROVE  HeardInv'
    BY <2>2, <2>3, <2>6 DEF ScheduleMock, FireTimer, TypeOK, Signals
  <2>7. QED
    BY <1>4, <2>4, <2>5, <2>6 DEF Signal
<1>5. CASE Route
  BY <1>5, HeardRoute
<1>6. ASSUME NEW m \in Monitors, Accept(m) \/ RequestCancel(m) \/ Watch(m)
      PROVE  HeardInv'
  <2>1. CASE Register(m)
    BY <2>1, HeardRegister
  <2>2. CASE Report(m)
    BY <2>2, HeardReport
  <2>3. CASE ~Register(m) /\ ~Report(m)
    <3>1. /\ UNCHANGED <<driver, changes, moved, watched, since, pending, streamed>>
          /\ watchers' \subseteq watchers
      BY <1>6, <2>3 DEF Accept, RequestCancel, Watch, LookUp, EmitInitial, CheckActive,
                        CheckCancel, Timeout, Unregister, MonitorMoves, node, signals,
                        request, feedback
    <3>2. QED
      BY <3>1, HeardUnchanged
  <2>4. QED
    BY <2>1, <2>2, <2>3
<1>7. QED
  BY <1>1, <1>2, <1>3, <1>4, <1>5, <1>6 DEF Next, Transition, Callback

(* "Emits one feedback message on every value change": with an operator who *)
(* waits for the monitors to end and never cleans up a node whose driver is *)
(* still subscribed, every change of the watched signal reaches every       *)
(* registered goal once and in order.                                       *)
THEOREM OneFeedbackPerChange ==
  ASSUME PatientOperator, ~CleanupAfterFailure
  PROVE  Spec => []MonitorsHearEveryChange
<1>1. Init => IInv
  BY MonitorInit, LinkInit DEF IInv
<1>2. IInv /\ [Next]_vars => IInv'
  BY MonitorStep, LinkStep, HeardStep DEF IInv, MonitorInv
<1>3. IInv => MonitorsHearEveryChange
  BY DEF IInv, HeardInv
<1>4. QED
  BY <1>1, <1>2, <1>3, PTL DEF Spec

(* A teardown cancels every mock timer, and every goal that ends gives up  *)
(* its queue, in whichever order transitions and goals overlap.            *)
THEOREM NothingStays == Spec => []NothingLeftBehind
<1>1. QED
  BY NoStrayTimer, NoStaleWatcher, PTL DEF NothingLeftBehind

-----------------------------------------------------------------------------
(* The value a goal ends up with. The cache has what the driver reported   *)
(* last; and until the first change after its registration, a goal that    *)
(* asked for the initial value has been given the value in the cache.      *)
CacheIsLatest ==
  \A d \in Drivers, s \in Signals :
    changes[d][s] # <<>> => changes[d][s][Len(changes[d][s])] = cache[d][s]

InitialIsCurrent ==
  \A m \in watchers :
    /\ driver # NoDriver
    /\ emit[m] /\ monitor[m] \in {"checkActive", "checkCancel", "get"}
    /\ Len(changes[driver][watched[m]]) <= since[m]
    => initial[m] = <<Current(m)>>

ValueInv == CacheIsLatest /\ InitialIsCurrent

LEMMA ValueInit == Init => ValueInv
BY DEF Init, ValueInv, CacheIsLatest, InitialIsCurrent

LEMMA CacheStep == TypeOK /\ CacheIsLatest /\ [Next]_vars => CacheIsLatest'
<1> SUFFICES ASSUME TypeOK, CacheIsLatest, [Next]_vars PROVE CacheIsLatest'
  OBVIOUS
<1>1. ASSUME UNCHANGED <<cache, changes>> PROVE CacheIsLatest'
  BY <1>1 DEF CacheIsLatest
<1>2. ASSUME NEW d \in Drivers, NEW s \in Signals, NEW v \in Values, Apply(d, s, v)
      PROVE  CacheIsLatest'
  <2>1. CASE UNCHANGED signals
    BY <1>1, <2>1 DEF signals
  <2>2. CASE /\ cache' = [cache EXCEPT ![d][s] = v]
             /\ changes' = [changes EXCEPT ![d][s] = Append(@, v)]
    <3> SUFFICES ASSUME NEW e \in Drivers, NEW t \in Signals, changes'[e][t] # <<>>
                 PROVE  changes'[e][t][Len(changes'[e][t])] = cache'[e][t]
      BY DEF CacheIsLatest
    <3>1. CASE e = d /\ t = s
      <4>1. changes[d][s] \in Seq(Values)
        BY DEF TypeOK
      <4>2. changes'[e][t] = Append(changes[d][s], v) /\ cache'[e][t] = v
        BY <2>2, <3>1 DEF TypeOK
      <4>3. QED
        BY <4>1, <4>2
    <3>2. CASE ~(e = d /\ t = s)
      <4>1. changes'[e][t] = changes[e][t] /\ cache'[e][t] = cache[e][t]
        BY <2>2, <3>2 DEF TypeOK
      <4>2. QED
        BY <4>1 DEF CacheIsLatest
    <3>3. QED
      BY <3>1, <3>2
  <2>3. QED
    BY <1>2, <2>1, <2>2 DEF Apply
<1>3. CASE Configure
  <2>1. PICK d \in Drivers :
          /\ cache' = [cache EXCEPT ![d] = [s \in Signals |-> Default]]
          /\ changes' = [changes EXCEPT ![d] = [s \in Signals |-> <<>>]]
    BY <1>3 DEF Configure
  <2>2. QED
    BY <2>1 DEF TypeOK, CacheIsLatest
<1>4. CASE Signal
  <2>1. ASSUME NEW d \in Drivers, NEW s \in Signals, NEW v \in Values, DeviceReports(d, s, v)
        PROVE  CacheIsLatest'
    BY <1>2, <2>1 DEF DeviceReports
  <2>2. ASSUME NEW s \in Outputs, NEW v \in Values, SetOutput(s, v)
        PROVE  CacheIsLatest'
    BY <1>2, <2>2 DEF SetOutput, TypeOK, Signals
  <2>3. ASSUME NEW s \in Inputs, NEW v \in Values, ScheduleMock(s, v) \/ FireTimer(s, v)
        PROVE  CacheIsLatest'
    BY <1>1, <1>2, <2>3 DEF ScheduleMock, FireTimer, TypeOK, Signals, signals
  <2>4. QED
    BY <1>4, <2>1, <2>2, <2>3 DEF Signal
<1>5. CASE \/ Activate \/ ActivateFails \/ Deactivate \/ Cleanup \/ Shutdown \/ Callback
           \/ UNCHANGED vars
  BY <1>1, <1>5 DEF Activate, ActivateFails, Deactivate, Cleanup, Shutdown, Teardown,
                    Callback, TeardownWatchers, TeardownDriver, Route, vars, node, signals
<1>6. CASE \E m \in Monitors : Accept(m) \/ RequestCancel(m) \/ Watch(m)
  BY <1>1, <1>6 DEF Accept, RequestCancel, Watch, LookUp, Register, EmitInitial,
                    CheckActive, CheckCancel, Report, Timeout, Unregister, MonitorMoves, signals
<1>7. QED
  BY <1>3, <1>4, <1>5, <1>6 DEF Next, Transition

(* A step that changes no signal, driver or goal's own data.               *)
LEMMA InitialKept ==
  ASSUME InitialIsCurrent, UNCHANGED <<driver, cache, changes, watched, emit>>,
         watchers' \subseteq watchers,
         \A m \in watchers' :
           /\ initial'[m] = initial[m] /\ since'[m] = since[m]
           /\ monitor'[m] \in {"checkActive", "checkCancel", "get"} =>
                monitor[m] \in {"checkActive", "checkCancel", "get"}
  PROVE  InitialIsCurrent'
BY DEF InitialIsCurrent, Current

LEMMA InitialStep ==
  ASSUME PatientOperator, IInv, InitialIsCurrent, [Next]_vars
  PROVE  InitialIsCurrent'
<1> USE DEF IInv, MonitorInv
<1>1. CASE Configure
  <2>1. watchers' = {}
    BY <1>1 DEF Configure, OperatorReady, Winding, OnlyRunningWatch, Running, TypeOK
  <2>2. QED
    BY <2>1 DEF InitialIsCurrent
<1>2. CASE Activate \/ ActivateFails \/ Deactivate \/ Cleanup \/ Shutdown
           \/ TeardownWatchers \/ Route \/ UNCHANGED vars
  <2>1. /\ UNCHANGED <<driver, cache, changes, watched, emit, since, initial, monitor>>
        /\ watchers' \subseteq watchers
    BY <1>2 DEF Activate, ActivateFails, Deactivate, Cleanup, Shutdown, Teardown,
                TeardownWatchers, Route, vars, node, signals, request, feedback
  <2>2. QED
    BY <2>1, InitialKept
<1>3. CASE TeardownDriver
  BY <1>3 DEF TeardownDriver, InitialIsCurrent
<1>4. CASE Signal
  <2>1. UNCHANGED <<driver, watchers, watched, emit, since, initial, monitor>>
    BY <1>4 DEF Signal, DeviceReports, SetOutput, ScheduleMock, FireTimer, node,
                request, feedback
  <2>2. CASE UNCHANGED signals
    BY <2>1, <2>2, InitialKept DEF signals
  <2>3. ASSUME NEW d \in Drivers, NEW s \in Signals, NEW v \in Values, Apply(d, s, v)
        PROVE  InitialIsCurrent'
    <3>1. CASE cache[d][s] = v
      BY <2>2, <2>3, <3>1 DEF Apply
    <3>2. CASE cache[d][s] # v
      <4> SUFFICES ASSUME NEW m \in watchers, driver # NoDriver,
                          emit[m], monitor[m] \in {"checkActive", "checkCancel", "get"},
                          Len(changes'[driver][watched[m]]) <= since[m]
                   PROVE  initial[m] = <<cache'[driver][watched[m]]>>
        BY <2>1 DEF InitialIsCurrent, Current
      <4>1. /\ cache' = [cache EXCEPT ![d][s] = v]
            /\ changes' = [changes EXCEPT ![d][s] = Append(@, v)]
        BY <2>3, <3>2 DEF Apply
      <4>2. driver \in Drivers /\ watched[m] \in Signals
        BY DEF TypeOK
      <4>3. CASE driver = d /\ watched[m] = s
        <5>1. changes[d][s] \in Seq(Values) /\ since[m] \in Nat
          BY DEF TypeOK
        <5>2. changes'[driver][watched[m]] = Append(changes[d][s], v)
          BY <4>1, <4>3 DEF TypeOK
        <5>3. since[m] <= Len(changes[d][s])
          BY <4>3 DEF HeardInv
        <5>4. QED
          BY <5>1, <5>2, <5>3
      <4>4. CASE ~(driver = d /\ watched[m] = s)
        <5>1. /\ changes'[driver][watched[m]] = changes[driver][watched[m]]
              /\ cache'[driver][watched[m]] = cache[driver][watched[m]]
          BY <4>1, <4>2, <4>4 DEF TypeOK
        <5>2. QED
          BY <5>1 DEF InitialIsCurrent, Current
      <4>5. QED
        BY <4>3, <4>4
    <3>3. QED
      BY <3>1, <3>2
  <2>4. ASSUME NEW d \in Drivers, NEW s \in Signals, NEW v \in Values, DeviceReports(d, s, v)
        PROVE  InitialIsCurrent'
    BY <2>3, <2>4 DEF DeviceReports
  <2>5. ASSUME NEW s \in Outputs, NEW v \in Values, SetOutput(s, v)
        PROVE  InitialIsCurrent'
    BY <2>3, <2>5 DEF SetOutput, TypeOK, Signals
  <2>6. ASSUME NEW s \in Inputs, NEW v \in Values, ScheduleMock(s, v) \/ FireTimer(s, v)
        PROVE  InitialIsCurrent'
    BY <2>2, <2>3, <2>6 DEF ScheduleMock, FireTimer, TypeOK, Signals
  <2>7. QED
    BY <1>4, <2>4, <2>5, <2>6 DEF Signal
<1>5. ASSUME NEW m \in Monitors, Accept(m) \/ RequestCancel(m) \/ Watch(m)
      PROVE  InitialIsCurrent'
  <2>0. UNCHANGED <<driver, cache, changes, watched, emit>>
    BY <1>5 DEF Accept, RequestCancel, Watch, LookUp, Register, EmitInitial, CheckActive,
                CheckCancel, Report, Timeout, Unregister, MonitorMoves, node, signals, request
  <2>1. CASE Register(m)
    <3>1. /\ watchers' = watchers \cup {m} /\ initial' = initial
          /\ \A n \in Monitors : n # m => since'[n] = since[n] /\ monitor'[n] = monitor[n]
          /\ emit[m] => monitor'[m] = "initial"
      BY <2>1 DEF Register, MonitorMoves, feedback, TypeOK
    <3>2. QED
      BY <2>0, <3>1 DEF InitialIsCurrent, Current, TypeOK
  <2>2. CASE EmitInitial(m)
    <3>1. /\ watchers' = watchers /\ since' = since
          /\ \A n \in Monitors : n # m => initial'[n] = initial[n] /\ monitor'[n] = monitor[n]
          /\ driver # NoDriver => initial'[m] = <<Current(m)>>
      BY <2>2 DEF EmitInitial, MonitorMoves, TypeOK
    <3>2. QED
      BY <2>0, <3>1 DEF InitialIsCurrent, Current, TypeOK
  <2>3. CASE ~Register(m) /\ ~EmitInitial(m)
    <3>1. /\ UNCHANGED <<since, initial>> /\ watchers' \subseteq watchers
          /\ \A n \in watchers' :
               monitor'[n] \in {"checkActive", "checkCancel", "get"} =>
                 monitor[n] \in {"checkActive", "checkCancel", "get"}
      BY <1>5, <2>3 DEF Accept, RequestCancel, Watch, LookUp, CheckActive, CheckCancel,
                        Report, Timeout, Unregister, MonitorMoves, feedback, TypeOK
    <3>2. QED
      BY <2>0, <3>1, InitialKept
  <2>4. QED
    BY <2>1, <2>2, <2>3
<1>6. QED
  BY <1>1, <1>2, <1>3, <1>4, <1>5 DEF Next, Transition, Callback

(* The last elements of an end of a sequence and of a concatenation.       *)
LEMMA LastOfRest ==
  ASSUME NEW past \in Seq(Values), NEW n \in Nat, n < Len(past)
  PROVE  LET rest == SubSeq(past, n + 1, Len(past))
         IN  Len(rest) = Len(past) - n /\ rest[Len(rest)] = past[Len(past)]
<1> DEFINE rest == SubSeq(past, n + 1, Len(past))
           k == Len(past) - n
<1>1. Len(past) \in Nat /\ k \in Nat /\ k \in 1..k /\ (n + 1) + k - 1 = Len(past)
  OBVIOUS
<1>2. rest = [i \in 1 .. k |-> past[(n + 1) + i - 1]]
  BY <1>1 DEF SubSeq
<1>3. Len(rest) = k /\ rest[k] = past[(n + 1) + k - 1]
  <2> HIDE DEF rest, k
  <2>1. QED
    BY <1>1, <1>2
<1>4. QED
  BY <1>1, <1>3

LEMMA LastOfConcat ==
  ASSUME NEW a \in Seq(Values), NEW b \in Seq(Values), Len(b) > 0
  PROVE  (a \o b)[Len(a \o b)] = b[Len(b)]
<1>1. Len(a) \in Nat /\ Len(b) \in Nat /\ Len(a \o b) = Len(a) + Len(b)
  OBVIOUS
<1>2. (a \o b)[Len(a) + Len(b)] = b[Len(b)]
  BY <1>1
<1>3. QED
  BY <1>1, <1>2

(* The last element of what a goal was given and of the changes it heard.  *)
LEMMA ValueReported ==
  ASSUME IInv, ValueInv PROVE ReportsCurrentValue
<1> SUFFICES ASSUME NEW m \in watchers, driver # NoDriver, emit[m],
                    monitor[m] \in {"checkActive", "checkCancel", "get"},
                    pending[m] = <<>>, Coming(m) = <<>>
             PROVE  Last(initial[m] \o streamed[m]) = Current(m)
  BY DEF ReportsCurrentValue
<1> DEFINE past == changes[driver][watched[m]]
           given == streamed[m]
           first == initial[m]
<1>1. /\ past \in Seq(Values) /\ given \in Seq(Values) /\ first \in Seq(Values)
      /\ since[m] \in Nat /\ m \in Monitors
      /\ driver \in Drivers /\ watched[m] \in Signals
  BY DEF IInv, MonitorInv, TypeOK
<1>2. given = SubSeq(past, since[m] + 1, Len(past)) /\ since[m] <= Len(past)
  <2>1. given \o <<>> \o <<>> = given
    BY <1>1
  <2>2. QED
    BY <2>1 DEF IInv, HeardInv, MonitorsHearEveryChange, ChangesSince
<1>3. Len(past) <= since[m] => first = <<Current(m)>>
  BY DEF ValueInv, InitialIsCurrent
<1>4. past # <<>> => past[Len(past)] = Current(m)
  BY <1>1 DEF ValueInv, CacheIsLatest, Current
<1> HIDE DEF past, given, first
<1>5. CASE Len(past) <= since[m]
  <2>1. given = <<>>
    BY <1>1, <1>2, <1>5
  <2>2. first \o given = <<Current(m)>>
    BY <1>1, <1>3, <1>5, <2>1
  <2>3. QED
    BY <2>2 DEF Last, first, given
<1>6. CASE ~(Len(past) <= since[m])
  <2>1. Len(given) = Len(past) - since[m] /\ given[Len(given)] = past[Len(past)]
    <3>1. since[m] < Len(past)
      BY <1>1, <1>6
    <3>2. LET rest == SubSeq(past, since[m] + 1, Len(past))
          IN  Len(rest) = Len(past) - since[m] /\ rest[Len(rest)] = past[Len(past)]
      BY <1>1, <3>1, LastOfRest
    <3>3. QED
      BY <1>2, <3>2, Zenon
  <2>2. Len(given) > 0 /\ past # <<>>
    BY <1>1, <1>6, <2>1
  <2>3. (first \o given)[Len(first \o given)] = given[Len(given)]
    BY <1>1, <2>2, LastOfConcat
  <2>4. QED
    BY <1>4, <2>1, <2>2, <2>3 DEF Last, first, given
<1>7. QED
  BY <1>5, <1>6

(* _execute_monitor registers the goal before it reads the snapshot for    *)
(* emit_initial: so under the same operator, a goal that asked for the     *)
(* initial value and has nothing left to report has reported the value the *)
(* signal has.                                                             *)
THEOREM CurrentValueReported ==
  ASSUME PatientOperator, ~CleanupAfterFailure
  PROVE  Spec => []ReportsCurrentValue
<1>1. Init => IInv /\ ValueInv
  BY MonitorInit, LinkInit, ValueInit DEF IInv
<1>2. IInv /\ ValueInv /\ [Next]_vars => (IInv /\ ValueInv)'
  <2>1. IInv /\ [Next]_vars => IInv'
    BY MonitorStep, LinkStep, HeardStep DEF IInv, MonitorInv
  <2>2. IInv /\ ValueInv /\ [Next]_vars => ValueInv'
    BY CacheStep, InitialStep DEF IInv, MonitorInv, ValueInv
  <2>3. QED
    BY <2>1, <2>2
<1>3. IInv /\ ValueInv => ReportsCurrentValue
  BY ValueReported
<1>4. QED
  BY <1>1, <1>2, <1>3, PTL DEF Spec
=============================================================================
