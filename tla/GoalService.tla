----------------------------- MODULE GoalService -----------------------------
(***************************************************************************)
(* What a client of movement_controller/execute_trajectory is promised:    *)
(* one goal is served at a time, its groups of paths are executed in       *)
(* order, the goal succeeds only when all have been, and every accepted    *)
(* goal ends.                                                              *)
(***************************************************************************)
EXTENDS Naturals

CONSTANTS Goals, GroupCount

VARIABLES standing,   \* where each goal stands with the server
          progress    \* how many of its groups have been executed

serviceVars == <<standing, progress>>

Init ==
  /\ standing = [g \in Goals |-> "unsent"]
  /\ progress = [g \in Goals |-> 0]

Become(g, to) == standing' = [standing EXCEPT ![g] = to]

Reject(g) == standing[g] = "unsent" /\ Become(g, "rejected") /\ UNCHANGED progress

Accept(g) ==
  /\ standing[g] = "unsent"
  /\ \A h \in Goals : standing[h] # "active"
  /\ Become(g, "active")
  /\ UNCHANGED progress

Advance(g) ==
  /\ standing[g] = "active"
  /\ progress[g] < GroupCount[g]
  /\ progress' = [progress EXCEPT ![g] = @ + 1]
  /\ UNCHANGED standing

Succeed(g) ==
  /\ standing[g] = "active"
  /\ progress[g] = GroupCount[g]
  /\ Become(g, "succeeded")
  /\ UNCHANGED progress

Abort(g) == standing[g] = "active" /\ Become(g, "aborted") /\ UNCHANGED progress

Next ==
  \E g \in Goals : Reject(g) \/ Accept(g) \/ Advance(g) \/ Succeed(g) \/ Abort(g)

Fairness ==
  \A g \in Goals : WF_serviceVars(Advance(g) \/ Succeed(g) \/ Abort(g))

Spec == Init /\ [][Next]_serviceVars /\ Fairness
=============================================================================
