----------------------------- MODULE PlanStream -----------------------------
(***************************************************************************)
(* What the planning coordinator promises to the thread that executes a    *)
(* goal, without its threads, queue and sentinels: the groups of a goal    *)
(* are delivered one by one, in the order they were submitted, the first   *)
(* planned from the live robot state and each later one from the state     *)
(* the one before it ends in, until they all have been or planning fails.  *)
(* At most one goal is being served.                                       *)
(***************************************************************************)
EXTENDS Naturals, Sequences

CONSTANTS Goals,        \* the goals that may be planned
          GroupCount    \* how many groups each goal's paths were split into

VARIABLES phase,        \* where each goal's stream stands
          delivered     \* the plans each goal has been given, in order

streamVars == <<phase, delivered>>

(* The robot state <<g, n>> is the end of group n of goal g; <<g, 0>> is   *)
(* the live state read when g began.                                       *)
PlanOf(g, n) == [goal |-> g, group |-> n, from |-> <<g, n - 1>>]

Init ==
  /\ phase = [g \in Goals |-> "unopened"]
  /\ delivered = [g \in Goals |-> <<>>]

Open(g) ==
  /\ phase[g] = "unopened"
  /\ \A h \in Goals : phase[h] # "open"
  /\ phase' = [phase EXCEPT ![g] = "open"]
  /\ UNCHANGED delivered

Deliver(g) ==
  /\ phase[g] = "open"
  /\ Len(delivered[g]) < GroupCount[g]
  /\ delivered' = [delivered EXCEPT ![g] = Append(@, PlanOf(g, Len(@) + 1))]
  /\ UNCHANGED phase

Complete(g) ==
  /\ phase[g] = "open"
  /\ Len(delivered[g]) = GroupCount[g]
  /\ phase' = [phase EXCEPT ![g] = "complete"]
  /\ UNCHANGED delivered

Fail(g) ==
  /\ phase[g] = "open"
  /\ phase' = [phase EXCEPT ![g] = "failed"]
  /\ UNCHANGED delivered

Next == \E g \in Goals : Open(g) \/ Deliver(g) \/ Complete(g) \/ Fail(g)

(* A stream that was opened keeps delivering until it ends.                *)
Fairness == \A g \in Goals : WF_streamVars(Deliver(g) \/ Complete(g) \/ Fail(g))

Spec == Init /\ [][Next]_streamVars /\ Fairness
=============================================================================
