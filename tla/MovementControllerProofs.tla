---------------------- MODULE MovementControllerProofs ----------------------
(***************************************************************************)
(* Mutual exclusion of the goals of MovementController, for any number of  *)
(* goals, groups, trajectories and cancel requests: the flag _is_executing *)
(* gives the server to one goal at a time, hence the shared DTO is that    *)
(* goal's own, the robot moves only for a goal that awaits it, and a goal  *)
(* that is being cancelled sends no further trajectory. None of this       *)
(* depends on what the planning coordinator does, so its actions are never *)
(* expanded; the last theorem is that the node takes no others.            *)
(***************************************************************************)
EXTENDS MovementController, TLAPS

ServingPc == {"validating", "refusing", "accepted", "planning", "judging",
              "executing", "sending", "moving", "cancelling", "succeeding",
              "aborting", "dropping", "releasing"}
IdlePc == {"unsent", "rejected", "returned"}

(* The inductive invariant. OwnGoalExecuted and MotionIsAwaited are        *)
(* disturbed by the steps of other goals, and it takes OneGoal to know     *)
(* that there are none; OneGoal needs the values that goalPc can have.     *)
AdmissionInv ==
  /\ isExecuting \in BOOLEAN
  /\ goalPc \in [Goals -> ServingPc \cup IdlePc]
  /\ OneGoal
  /\ OwnGoalExecuted

MotionInv ==
  /\ motion \in Goals \cup {NoGoal}
  /\ MotionIsAwaited

IInv == AdmissionInv /\ MotionInv

admissionState == <<admissionVars, goalPc>>
motionState    == <<motion, motionResult>>

LEMMA InitInv == Init => IInv
BY DEF Init, IInv, AdmissionInv, MotionInv, OneGoal, OwnGoalExecuted, MotionIsAwaited,
       Serving, ServingPc, IdlePc

-----------------------------------------------------------------------------
(* A goal that has the server and keeps it: no other goal is disturbed,    *)
(* whatever it does to the DTO.                                            *)
LEMMA KeepsServer ==
  ASSUME AdmissionInv, NEW g \in Goals, NEW from \in ServingPc, NEW to \in ServingPc,
         GoalMoves(g, from, to), UNCHANGED isExecuting,
         to = "accepted" => trajectoryGoal' = g
  PROVE  AdmissionInv'
<1>1. Serving(g) /\ \A h \in Goals : Serving(h) => h = g
  BY DEF AdmissionInv, OneGoal, Serving, GoalMoves, ServingPc
<1>2. goalPc' \in [Goals -> ServingPc \cup IdlePc]
  BY DEF AdmissionInv, GoalMoves
<1>3. goalPc'[g] = to /\ \A h \in Goals : h # g => goalPc'[h] = goalPc[h]
  BY DEF AdmissionInv, GoalMoves
<1>4. Serving(g)' /\ \A h \in Goals : Serving(h)' => h = g
  BY <1>1, <1>3 DEF Serving, ServingPc
<1>5. OneGoal'
  BY <1>1, <1>4 DEF AdmissionInv, OneGoal
<1>6. OwnGoalExecuted'
  BY <1>3, <1>4 DEF OwnGoalExecuted, Serving
<1>7. QED
  BY <1>2, <1>5, <1>6 DEF AdmissionInv

(* A goal that gives the server back.                                      *)
LEMMA GivesServerBack ==
  ASSUME AdmissionInv, NEW g \in Goals, NEW from \in ServingPc, NEW to \in IdlePc,
         GoalMoves(g, from, to), isExecuting' = FALSE
  PROVE  AdmissionInv'
<1>1. \A h \in Goals : Serving(h) => h = g
  BY DEF AdmissionInv, OneGoal, Serving, GoalMoves, ServingPc
<1>2. goalPc' \in [Goals -> ServingPc \cup IdlePc]
  BY DEF AdmissionInv, GoalMoves
<1>3. goalPc'[g] = to /\ \A h \in Goals : h # g => goalPc'[h] = goalPc[h]
  BY DEF AdmissionInv, GoalMoves
<1>4. \A h \in Goals : ~Serving(h)'
  BY <1>1, <1>3 DEF Serving, IdlePc
<1>5. OneGoal' /\ OwnGoalExecuted'
  BY <1>4 DEF OneGoal, OwnGoalExecuted, Serving
<1>6. QED
  BY <1>2, <1>5 DEF AdmissionInv

(* The goal that finds the flag clear: nobody else had the server.         *)
LEMMA TakesServer ==
  ASSUME AdmissionInv, NEW g \in Goals, Admit(g)
  PROVE  AdmissionInv'
<1>1. \A h \in Goals : ~Serving(h)
  BY DEF AdmissionInv, OneGoal, Admit
<1>2. goalPc' \in [Goals -> ServingPc \cup IdlePc]
  BY DEF AdmissionInv, Admit, GoalMoves, ServingPc
<1>3. goalPc'[g] = "validating" /\ \A h \in Goals : h # g => goalPc'[h] = goalPc[h]
  BY DEF AdmissionInv, Admit, GoalMoves
<1>4. Serving(g)' /\ \A h \in Goals : Serving(h)' => h = g
  BY <1>1, <1>3 DEF Serving
<1>5. OneGoal'
  BY <1>4 DEF OneGoal, Admit
<1>6. OwnGoalExecuted'
  BY <1>3, <1>4 DEF OwnGoalExecuted, Serving
<1>7. QED
  BY <1>2, <1>5, <1>6 DEF AdmissionInv, Admit

(* The goal that finds it set changes nothing for those that have it.      *)
LEMMA FindsBusy ==
  ASSUME AdmissionInv, NEW g \in Goals, RejectBusy(g)
  PROVE  AdmissionInv'
<1>1. goalPc[g] = "unsent" /\ goalPc' = [goalPc EXCEPT ![g] = "rejected"]
  BY DEF RejectBusy, GoalMoves
<1>2. goalPc' \in [Goals -> ServingPc \cup IdlePc]
  BY <1>1 DEF AdmissionInv, IdlePc
<1>3. \A h \in Goals : Serving(h)' <=> Serving(h)
  BY <1>1 DEF AdmissionInv, Serving
<1>4. \A h \in Goals : goalPc'[h] = "accepted" => goalPc[h] = "accepted"
  BY <1>1 DEF AdmissionInv
<1>5. UNCHANGED admissionVars
  BY DEF RejectBusy
<1>6. OneGoal'
  BY <1>3, <1>5 DEF AdmissionInv, OneGoal, admissionVars
<1>7. OwnGoalExecuted'
  BY <1>4, <1>5 DEF AdmissionInv, OwnGoalExecuted, admissionVars
<1>8. QED
  BY <1>2, <1>5, <1>6, <1>7 DEF AdmissionInv, admissionVars

(* A step of a goal that is not waiting for a motion disturbs no motion.   *)
LEMMA KeepsMotion ==
  ASSUME AdmissionInv, MotionInv, NEW g \in Goals, NEW from, NEW to,
         from # "moving", GoalMoves(g, from, to), UNCHANGED motionState
  PROVE  MotionInv'
BY DEF AdmissionInv, MotionInv, MotionIsAwaited, GoalMoves, motionState

-----------------------------------------------------------------------------
(* The goal and execute callbacks.                                         *)
LEMMA GoalStep ==
  ASSUME IInv, NEW g \in Goals,
         Admit(g) \/ RejectBusy(g) \/ GoalCallback(g) \/ ExecuteCallback(g)
  PROVE  IInv'
<1> USE DEF IInv
<1>1. CASE Admit(g)
  <2>1. GoalMoves(g, "unsent", "validating") /\ UNCHANGED motionState
    BY <1>1 DEF Admit, moveitVars, motionState
  <2>2. QED
    BY <1>1, <2>1, TakesServer, KeepsMotion
<1>2. CASE RejectBusy(g)
  <2>1. GoalMoves(g, "unsent", "rejected") /\ UNCHANGED motionState
    BY <1>2 DEF RejectBusy, moveitVars, motionState
  <2>2. QED
    BY <1>2, <2>1, FindsBusy, KeepsMotion
<1>3. CASE Accept(g)
  <2>1. /\ GoalMoves(g, "validating", "accepted")
        /\ UNCHANGED <<isExecuting, motionState>>
        /\ trajectoryGoal' = g
    BY <1>3 DEF Accept, moveitVars, motionState
  <2>2. AdmissionInv'
    BY <2>1, KeepsServer DEF ServingPc
  <2>3. MotionInv'
    BY <2>1, KeepsMotion
  <2>4. QED
    BY <2>2, <2>3
<1>4. CASE Refuse(g) \/ Release(g)
  <2>1. PICK from \in {"refusing", "releasing"}, to \in {"rejected", "returned"} :
           GoalMoves(g, from, to)
    BY <1>4 DEF Refuse, Release
  <2>2. isExecuting' = FALSE /\ UNCHANGED motionState
    BY <1>4 DEF Refuse, Release, moveitVars, motionState
  <2>3. AdmissionInv'
    BY <2>1, <2>2, GivesServerBack DEF ServingPc, IdlePc
  <2>4. MotionInv'
    BY <2>1, <2>2, KeepsMotion
  <2>5. QED
    BY <2>3, <2>4
<1>5. CASE \/ RejectInvalid(g) \/ StartPlanning(g) \/ ServerMissing(g)
           \/ PlanningRefused(g) \/ IteratorExhausted(g) \/ Succeed(g)
           \/ Abort(g) \/ DropGoal(g)
  <2>1. PICK from \in {"validating", "accepted", "planning", "succeeding", "aborting",
                       "dropping"},
             to \in {"refusing", "planning", "aborting", "succeeding", "releasing",
                     "dropping"} : GoalMoves(g, from, to)
    BY <1>5 DEF RejectInvalid, StartPlanning, ServerMissing, PlanningRefused,
                IteratorExhausted, Succeed, Abort, DropGoal
  <2>2. UNCHANGED <<isExecuting, motionState>>
    BY <1>5 DEF RejectInvalid, StartPlanning, ServerMissing, PlanningRefused,
                IteratorExhausted, Succeed, Abort, DropGoal, admissionVars, moveitVars,
                motionState
  <2>3. AdmissionInv'
    BY <2>1, <2>2, KeepsServer DEF ServingPc
  <2>4. MotionInv'
    BY <2>1, <2>2, KeepsMotion
  <2>5. QED
    BY <2>3, <2>4
<1>6. CASE \/ TakeResult(g) \/ GiveUp(g) \/ BeginPlan(g) \/ CheckCancel(g)
           \/ LeaveFailed(g) \/ CompletePlan(g)
  <2>1. PICK from \in {"planning", "judging", "executing", "cancelling"},
             to \in {"judging", "aborting", "executing", "sending", "planning"} :
           GoalMoves(g, from, to)
    BY <1>6 DEF TakeResult, GiveUp, BeginPlan, CheckCancel, LeaveFailed, CompletePlan
  <2>2. UNCHANGED <<isExecuting, motionState>>
    BY <1>6 DEF TakeResult, GiveUp, BeginPlan, CheckCancel, LeaveFailed, CompletePlan,
                admissionVars, moveitVars, motionState
  <2>3. AdmissionInv'
    BY <2>1, <2>2, KeepsServer DEF ServingPc
  <2>4. MotionInv'
    BY <2>1, <2>2, KeepsMotion
  <2>5. QED
    BY <2>3, <2>4
<1>7. CASE Send(g)
  <2>1. GoalMoves(g, "sending", "moving") /\ UNCHANGED isExecuting
    BY <1>7 DEF Send, admissionVars
  <2>2. AdmissionInv'
    BY <2>1, KeepsServer DEF ServingPc
  <2>3. \A h \in Goals : goalPc[h] # "moving"
    BY <2>1 DEF AdmissionInv, OneGoal, Serving, GoalMoves
  <2>4. motion' = g /\ motionResult' = "none"
    BY <1>7, <2>3 DEF MotionInv, MotionIsAwaited, Send
  <2>5. goalPc'[g] = "moving"
    BY <2>1 DEF AdmissionInv, GoalMoves
  <2>6. QED
    BY <2>2, <2>4, <2>5 DEF MotionInv, MotionIsAwaited
<1>8. CASE MotionDone(g) \/ MotionAborted(g) \/ MotionFailed(g)
  <2>1. PICK to \in {"executing", "aborting", "cancelling"} : GoalMoves(g, "moving", to)
    BY <1>8 DEF MotionDone, MotionAborted, MotionFailed
  <2>2. /\ UNCHANGED <<isExecuting, motion>>
        /\ motionResult # "none" /\ motionResult' = "none"
    BY <1>8 DEF MotionDone, MotionAborted, MotionFailed, admissionVars
  <2>3. AdmissionInv'
    BY <2>1, <2>2, KeepsServer DEF ServingPc
  <2>4. MotionInv'
    BY <2>2 DEF MotionInv, MotionIsAwaited
  <2>5. QED
    BY <2>3, <2>4
<1>9. CASE ContinuePlanAll(g) \/ CancelPlanning(g)
  BY <1>9 DEF ContinuePlanAll, CancelPlanning, nodeVars, admissionVars, moveitVars,
              AdmissionInv, MotionInv, OneGoal, OwnGoalExecuted, MotionIsAwaited, Serving
<1>10. QED
  BY <1>1, <1>2, <1>3, <1>4, <1>5, <1>6, <1>7, <1>8, <1>9
     DEF GoalCallback, ExecuteCallback, Executing

(* The motion that ends, or that a "stop" finds, is one that is awaited.   *)
LEMMA MotionStep ==
  ASSUME IInv, MoveIt
  PROVE  IInv'
<1> USE DEF IInv
<1>1. UNCHANGED admissionState
  BY DEF MoveIt, MotionEnds, StopDelivered, admissionState
<1>2. AdmissionInv'
  BY <1>1 DEF AdmissionInv, OneGoal, OwnGoalExecuted, Serving, admissionState, admissionVars
<1>3. CASE motion = NoGoal
  BY <1>1, <1>2, <1>3 DEF MoveIt, MotionEnds, StopDelivered, MotionInv, MotionIsAwaited,
                          admissionState
<1>4. CASE motion # NoGoal
  <2>1. motion \in Goals /\ goalPc'[motion] = "moving"
    BY <1>1, <1>4 DEF MotionInv, MotionIsAwaited, admissionState
  <2>2. motion' = NoGoal
    BY DEF MoveIt, MotionEnds, StopDelivered
  <2>3. QED
    BY <1>2, <2>1, <2>2 DEF MotionInv, MotionIsAwaited
<1>5. QED
  BY <1>3, <1>4

LEMMA StepInv == IInv /\ [Next]_vars => IInv'
<1> SUFFICES ASSUME IInv, [Next]_vars PROVE IInv'
  OBVIOUS
<1>1. CASE \E g \in Goals :
             Admit(g) \/ RejectBusy(g) \/ GoalCallback(g) \/ ExecuteCallback(g)
  BY <1>1, GoalStep
<1>2. CASE MoveIt
  BY <1>2, MotionStep
<1>3. CASE \/ \E k \in CancelRequests :
                CancelCallback(k) \/ \E g \in Goals : RequestCancel(k, g)
           \/ \E c \in Goals : PlannerCallback(c)
           \/ UNCHANGED vars
  <2>1. UNCHANGED <<admissionState, motionState>>
    BY <1>3 DEF CancelCallback, CancelPlanner, PublishStop, AcceptCancel, RequestCancel,
                PlannerCallback, vars, nodeVars, moveitVars, admissionState, motionState
  <2>2. QED
    BY <2>1 DEF IInv, AdmissionInv, MotionInv, OneGoal, OwnGoalExecuted, MotionIsAwaited,
                Serving, admissionState, admissionVars, motionState
<1>4. QED
  BY <1>1, <1>2, <1>3 DEF Next

LEMMA Invariant == Spec => []IInv
BY InitInv, StepInv, PTL DEF Spec

(* "Only one goal at a time" (_goal_callback): no interleaving of goal and *)
(* execute callbacks lets two goals have the server, or leaves the flag    *)
(* set when none has it.                                                   *)
THEOREM MutualExclusion == Spec => []OneGoal
<1>1. IInv => OneGoal
  BY DEF IInv, AdmissionInv
<1>2. QED
  BY <1>1, Invariant, PTL

(* The DTO that _execute_callback reads is the one its own goal callback   *)
(* left in _trajectory_goal, though that attribute has no lock.            *)
THEOREM OwnGoal == Spec => []OwnGoalExecuted
<1>1. IInv => OwnGoalExecuted
  BY DEF IInv, AdmissionInv
<1>2. QED
  BY <1>1, Invariant, PTL

(* No motion outlives the goal it belongs to: _call_with_cancellation does *)
(* not return before MoveIt's result, cancelled or not.                    *)
THEOREM NoStrayMotion == Spec => []MotionIsAwaited
<1>1. IInv => MotionIsAwaited
  BY DEF IInv, MotionInv
<1>2. QED
  BY <1>1, Invariant, PTL

(* What the lock and the flag promise to a client whose goal was accepted: *)
(* the server is that goal's alone, and what it executes is what it asked. *)
THEOREM ServedAlone == Spec => []OneGoalServed
<1>1. IInv => OneGoalServed
  BY DEF IInv, AdmissionInv, OneGoalServed
<1>2. QED
  BY <1>1, Invariant, PTL

-----------------------------------------------------------------------------
(* Cancelling. A goal's place changes only by a step of that goal, and     *)
(* "sending" is reached only through the look at the cancel request.       *)
LEMMA PlaceMoves ==
  ASSUME IInv, [Next]_vars, NEW g \in Goals, goalPc'[g] # goalPc[g]
  PROVE  Admit(g) \/ RejectBusy(g) \/ GoalCallback(g) \/ ExecuteCallback(g)
<1>1. goalPc \in [Goals -> ServingPc \cup IdlePc]
  BY DEF IInv, AdmissionInv
<1>2. ASSUME NEW h \in Goals, NEW from, NEW to, GoalMoves(h, from, to)
      PROVE  h = g
  BY <1>1, <1>2 DEF GoalMoves
<1>3. CASE \E h \in Goals :
             Admit(h) \/ RejectBusy(h) \/ GoalCallback(h) \/ ExecuteCallback(h)
  <2>1. PICK h \in Goals :
             Admit(h) \/ RejectBusy(h) \/ GoalCallback(h) \/ ExecuteCallback(h)
    BY <1>3
  <2>2. \E from, to : GoalMoves(h, from, to)
    BY <2>1 DEF Admit, RejectBusy, GoalCallback, Accept, RejectInvalid, Refuse,
                ExecuteCallback, StartPlanning, ServerMissing, ContinuePlanAll,
                PlanningRefused, Executing, TakeResult, GiveUp, BeginPlan, CheckCancel,
                Send, MotionDone, MotionAborted, MotionFailed, CancelPlanning, LeaveFailed,
                CompletePlan, IteratorExhausted, Succeed, Abort, DropGoal, Release, nodeVars
  <2>3. QED
    BY <1>2, <2>1, <2>2
<1>4. CASE \/ \E k \in CancelRequests :
                CancelCallback(k) \/ \E h \in Goals : RequestCancel(k, h)
           \/ \E c \in Goals : PlannerCallback(c)
           \/ MoveIt
           \/ UNCHANGED vars
  BY <1>4 DEF CancelCallback, CancelPlanner, PublishStop, AcceptCancel, RequestCancel,
              PlannerCallback, MoveIt, MotionEnds, StopDelivered, vars, nodeVars
<1>5. QED
  BY <1>3, <1>4 DEF Next

(* Once a goal is CANCELING, its execute callback sends at most the one    *)
(* trajectory it had already decided to send: a plan in hand, an answer    *)
(* that arrives later or the rest of a plan is not executed.               *)
THEOREM CanceledSendsNoMore == Spec => CancelingSendsNoMore
<1>1. IInv /\ [Next]_vars =>
        [\A g \in Goals : IsCancelRequested(g) /\ goalPc[g] # "sending" =>
           goalPc'[g] # "sending" /\ (goalPc'[g] = "moving" => goalPc[g] = "moving")]_vars
  <2> SUFFICES ASSUME IInv, [Next]_vars, NEW g \in Goals, IsCancelRequested(g),
                      goalPc[g] # "sending", goalPc'[g] # goalPc[g]
               PROVE  goalPc'[g] # "sending" /\ goalPc'[g] # "moving"
    OBVIOUS
  <2>1. \A from, to : GoalMoves(g, from, to) => goalPc[g] = from /\ goalPc'[g] = to
    BY DEF IInv, AdmissionInv, GoalMoves
  <2>2. CASE Admit(g) \/ RejectBusy(g) \/ GoalCallback(g)
    BY <2>1, <2>2 DEF Admit, RejectBusy, GoalCallback, Accept, RejectInvalid, Refuse
  <2>3. CASE Executing(g)
    <3>1. CASE CheckCancel(g)
      BY <2>1, <3>1 DEF CheckCancel
    <3>2. CASE Send(g) \/ BeginPlan(g)
      BY <2>1, <3>2 DEF Send, BeginPlan
    <3>3. CASE TakeResult(g) \/ GiveUp(g) \/ MotionDone(g) \/ MotionAborted(g)
               \/ MotionFailed(g) \/ CancelPlanning(g) \/ LeaveFailed(g) \/ CompletePlan(g)
      BY <2>1, <3>3 DEF TakeResult, GiveUp, MotionDone, MotionAborted, MotionFailed,
                        CancelPlanning, LeaveFailed, CompletePlan, nodeVars
    <3>4. QED
      BY <2>3, <3>1, <3>2, <3>3 DEF Executing
  <2>4. CASE ExecuteCallback(g) /\ ~Executing(g)
    BY <2>1, <2>4 DEF ExecuteCallback, StartPlanning, ServerMissing, ContinuePlanAll,
                      PlanningRefused, IteratorExhausted, Succeed, Abort, DropGoal,
                      Release, nodeVars
  <2>5. QED
    BY <2>2, <2>3, <2>4, PlaceMoves
<1>2. QED
  BY <1>1, Invariant, PTL DEF CancelingSendsNoMore, Spec

-----------------------------------------------------------------------------
(* The node uses the coordinator as PlanningCoordinator assumes. Of the    *)
(* node it takes that the DTO a goal is planned from is its own.           *)
LEMMA UseStep ==
  ASSUME IInv, [Next]_vars
  PROVE  Coordinator!Next \/ UNCHANGED coordinatorVars
<1> USE DEF Coordinator!Next, Coordinator!PlanAll, Coordinator!Iterate, Coordinator!Cancel
<1>1. ASSUME NEW g \in Goals,
             Admit(g) \/ RejectBusy(g) \/ GoalCallback(g) \/ ExecuteCallback(g)
      PROVE  Coordinator!Next \/ UNCHANGED coordinatorVars
  <2>1. CASE StartPlanning(g)
    <3>1. trajectoryGoal \in Goals /\ Coordinator!PlanAllEvent(trajectoryGoal)
      BY <2>1 DEF StartPlanning, GoalMoves, IInv, AdmissionInv, OwnGoalExecuted
    <3>2. QED
      BY <3>1
  <2>2. CASE ContinuePlanAll(g) \/ PlanningRefused(g) \/ TakeResult(g) \/ GiveUp(g)
             \/ MotionAborted(g) \/ LeaveFailed(g) \/ CompletePlan(g) \/ IteratorExhausted(g)
    BY <2>2 DEF ContinuePlanAll, PlanningRefused, TakeResult, GiveUp, MotionAborted,
                LeaveFailed, CompletePlan, IteratorExhausted
  <2>3. CASE CheckCancel(g)
    BY <2>3 DEF CheckCancel
  <2>4. CASE MotionFailed(g)
    <3>1. g \in CancelRequests \cup Goals /\ Coordinator!CancelBegin(g)
      BY <2>4 DEF MotionFailed
    <3>2. QED
      BY <3>1
  <2>5. CASE CancelPlanning(g)
    <3>1. g \in CancelRequests \cup Goals /\ Coordinator!Cancel(g)
      BY <2>5 DEF CancelPlanning
    <3>2. QED
      BY <3>1
  <2>6. CASE \/ Admit(g) \/ RejectBusy(g) \/ GoalCallback(g) \/ ServerMissing(g)
             \/ BeginPlan(g) \/ Send(g) \/ MotionDone(g)
             \/ Succeed(g) \/ Abort(g) \/ DropGoal(g) \/ Release(g)
    BY <2>6 DEF Admit, RejectBusy, GoalCallback, Accept, RejectInvalid, Refuse,
                ServerMissing, BeginPlan, Send, MotionDone, Succeed, Abort, DropGoal, Release
  <2>7. QED
    BY <1>1, <2>1, <2>2, <2>3, <2>4, <2>5, <2>6 DEF ExecuteCallback, Executing
<1>2. ASSUME NEW k \in CancelRequests,
             CancelCallback(k) \/ \E g \in Goals : RequestCancel(k, g)
      PROVE  Coordinator!Next \/ UNCHANGED coordinatorVars
  <2>1. \/ Coordinator!Cancel(k) \/ Coordinator!CancelBegin(k)
        \/ UNCHANGED coordinatorVars
    BY <1>2 DEF CancelCallback, CancelPlanner, PublishStop, AcceptCancel, RequestCancel
  <2>2. k \in CancelRequests \cup Goals
    OBVIOUS
  <2>3. QED
    BY <2>1, <2>2
<1>3. ASSUME NEW c \in Goals, PlannerCallback(c) PROVE Coordinator!Next
  BY <1>3 DEF PlannerCallback
<1>4. CASE MoveIt \/ UNCHANGED vars
  BY <1>4 DEF MoveIt, MotionEnds, StopDelivered, vars
<1>5. QED
  BY <1>1, <1>2, <1>3, <1>4 DEF Next

(* One caller that plans, consumes and abandons, and cancel() calls: the   *)
(* goal, execute and cancel callbacks together do nothing else to the      *)
(* coordinator, so what is proved of PlanningCoordinator holds in the node.*)
THEOREM CoordinatorUsed == Spec => CoordinatorUse
<1>1. Init => Coordinator!Init
  BY DEF Init
<1>2. IInv /\ [Next]_vars => [Coordinator!Next]_coordinatorVars
  BY UseStep
<1>3. QED
  BY <1>1, <1>2, Invariant, PTL DEF CoordinatorUse, Spec
=============================================================================
