------------------------- MODULE MovementController -------------------------
(***************************************************************************)
(* movement_controller.py: the execute_trajectory action server of an      *)
(* active node, on top of the planning coordinator.                        *)
(*                                                                         *)
(* Per goal, _goal_callback and then _execute_callback run, each in a      *)
(* thread of its own (the server's callback group is reentrant), so one    *)
(* program counter per goal follows both. The execute callback is the      *)
(* coordinator's caller, and also one of its cancel()ers. Cancel requests  *)
(* run _cancel_callback. MoveIt executes one trajectory at a time and      *)
(* listens to "stop" messages. rclpy and MoveIt are modelled from how      *)
(* they are used here.                                                     *)
(***************************************************************************)
EXTENDS Naturals, Sequences

CONSTANTS
  Goals,             \* the goals clients may send, each once
  NoGoal,            \* no goal
  GroupCount,        \* how many groups TrajectoryGrouper makes of each goal
  CancelRequests,    \* the cancel requests clients may send
  MaxTrajectories,   \* the most trajectories in one plan
  QuietStart         \* see PlanningCoordinator

ASSUME ControllerAssumption ==
  /\ NoGoal \notin Goals
  /\ GroupCount \in [Goals -> Nat \ {0}]
  /\ MaxTrajectories \in Nat \ {0}
  /\ QuietStart \in BOOLEAN

VARIABLES
  \* of the coordinator
  cancelEvent, planQueue, session, eventSet, queue, popped, chainPc, job,
  reply, callerPc, current, yielded, outcome, cancelPc,
  \* of the node
  isExecuting,       \* _is_executing
  trajectoryGoal,    \* _trajectory_goal
  goalPc,            \* where the callbacks of each goal stand
  status,            \* the status of each goal in its server goal handle
  left,              \* the trajectories of the current plan still to execute
  completed,         \* completed_ids: the groups whose paths were executed
  requestFor,        \* the goal each cancel request is for
  requestPc,         \* where the handling of each cancel request stands
  \* of MoveIt
  motion,            \* the goal whose trajectory is being executed
  motionResult,      \* the result on its way to the execute callback
  stopPending        \* a "stop" message is on its way to MoveIt

Coordinator ==
  INSTANCE PlanningCoordinator
    WITH Cancellers <- CancelRequests \cup Goals, PatientCaller <- FALSE

coordinatorVars ==
  <<cancelEvent, planQueue, session, eventSet, queue, popped, chainPc, job,
    reply, callerPc, current, yielded, outcome, cancelPc>>
admissionVars == <<isExecuting, trajectoryGoal>>
planVars      == <<left, completed>>
requestVars   == <<requestFor, requestPc>>
moveitVars    == <<motion, motionResult, stopPending>>
nodeVars == <<admissionVars, goalPc, status, planVars, requestVars, moveitVars>>
vars == <<coordinatorVars, nodeVars>>

-----------------------------------------------------------------------------
GoalMoves(g, from, to) ==
  /\ goalPc[g] = from
  /\ goalPc' = [goalPc EXCEPT ![g] = to]

SetStatus(g, to) == status' = [status EXCEPT ![g] = to]

IsCancelRequested(g) == status[g] = "canceling"

Init ==
  /\ Coordinator!Init
  /\ isExecuting = FALSE
  /\ trajectoryGoal = NoGoal
  /\ goalPc = [g \in Goals |-> "unsent"]
  /\ status = [g \in Goals |-> "unknown"]
  /\ left = 0
  /\ completed = [g \in Goals |-> <<>>]
  /\ requestFor = [k \in CancelRequests |-> NoGoal]
  /\ requestPc = [k \in CancelRequests |-> "unsent"]
  /\ motion = NoGoal
  /\ motionResult = "none"
  /\ stopPending = FALSE

-----------------------------------------------------------------------------

(* _goal_callback: test and set _is_executing under its lock ...           *)
Admit(g) ==
  /\ ~isExecuting
  /\ GoalMoves(g, "unsent", "validating")
  /\ isExecuting' = TRUE
  /\ UNCHANGED <<coordinatorVars, trajectoryGoal, status, planVars,
                 requestVars, moveitVars>>

RejectBusy(g) ==
  /\ isExecuting
  /\ GoalMoves(g, "unsent", "rejected")
  /\ UNCHANGED <<coordinatorVars, admissionVars, status, planVars,
                 requestVars, moveitVars>>

(* ... convert and validate the goal outside the lock: on ACCEPT, rclpy    *)
(* creates its handle and schedules the execute callback ...               *)
Accept(g) ==
  /\ GoalMoves(g, "validating", "accepted")
  /\ trajectoryGoal' = g
  /\ SetStatus(g, "executing")
  /\ UNCHANGED <<coordinatorVars, isExecuting, planVars, requestVars, moveitVars>>

(* ... while an invalid goal first drops the DTO, then the flag.           *)
RejectInvalid(g) ==
  /\ GoalMoves(g, "validating", "refusing")
  /\ trajectoryGoal' = NoGoal
  /\ UNCHANGED <<coordinatorVars, isExecuting, status, planVars, requestVars,
                 moveitVars>>

Refuse(g) ==
  /\ GoalMoves(g, "refusing", "rejected")
  /\ isExecuting' = FALSE
  /\ UNCHANGED <<coordinatorVars, trajectoryGoal, status, planVars,
                 requestVars, moveitVars>>

-----------------------------------------------------------------------------
(* _execute_callback: MoveIt's action server is there and plan_all begins, *)
(* on the groups of the DTO that the goal callback left, or the server     *)
(* does not appear within 5 s. (Without a DTO the goal is converted again: *)
(* that happens only after a deactivation.)                                *)
StartPlanning(g) ==
  /\ GoalMoves(g, "accepted", "planning")
  /\ Coordinator!PlanAllEvent(trajectoryGoal)
  /\ UNCHANGED <<admissionVars, status, planVars, requestVars, moveitVars>>

ServerMissing(g) ==
  /\ GoalMoves(g, "accepted", "aborting")
  /\ UNCHANGED <<coordinatorVars, admissionVars, status, planVars,
                 requestVars, moveitVars>>

ContinuePlanAll(g) ==
  /\ goalPc[g] = "planning"
  /\ Coordinator!PlanAllQueue \/ Coordinator!PlanAllSession \/ Coordinator!PlanAllRequest
  /\ UNCHANGED nodeVars

PlanningRefused(g) ==
  /\ GoalMoves(g, "planning", "aborting")
  /\ Coordinator!PlanAllRefuse
  /\ UNCHANGED <<admissionVars, status, planVars, requestVars, moveitVars>>

(* The for loop over the iterator: a result arrives ...                    *)
TakeResult(g) ==
  /\ GoalMoves(g, "planning", "judging")
  /\ Coordinator!Take
  /\ UNCHANGED <<admissionVars, status, planVars, requestVars, moveitVars>>

(* ... the goal was cancelled or the planning failed ...                   *)
(* Mutant: a failed plan ends the loop like an exhausted iterator.         *)
GiveUp_AsSuccess(g) ==
  /\ GoalMoves(g, "judging", "succeeding")
  /\ IsCancelRequested(g) \/ Coordinator!LastYield = Coordinator!Failure
  /\ Coordinator!Abandon
  /\ UNCHANGED <<admissionVars, status, planVars, requestVars, moveitVars>>

GiveUp(g) ==
  /\ GoalMoves(g, "judging", "aborting")
  /\ IsCancelRequested(g) \/ Coordinator!LastYield = Coordinator!Failure
  /\ Coordinator!Abandon
  /\ UNCHANGED <<admissionVars, status, planVars, requestVars, moveitVars>>

(* ... or it is a plan, to be executed trajectory by trajectory.           *)
BeginPlan(g) ==
  /\ GoalMoves(g, "judging", "executing")
  /\ ~IsCancelRequested(g)
  /\ Coordinator!LastYield # Coordinator!Failure
  /\ left' \in IF Coordinator!LastYield.empty THEN {0} ELSE 1..MaxTrajectories
  /\ UNCHANGED <<coordinatorVars, admissionVars, status, completed,
                 requestVars, moveitVars>>

(* _call_with_cancellation: looks at the cancel request once ...           *)
(* Mutant: the cancel request is not looked at.                            *)
CheckCancel_Skipped(g) ==
  /\ left > 0
  /\ GoalMoves(g, "executing", "sending")
  /\ UNCHANGED <<coordinatorVars, admissionVars, status, planVars, requestVars,
                 moveitVars>>

CheckCancel(g) ==
  /\ left > 0
  /\ IF IsCancelRequested(g)
     THEN GoalMoves(g, "executing", "aborting") /\ Coordinator!Abandon
     ELSE GoalMoves(g, "executing", "sending") /\ UNCHANGED coordinatorVars
  /\ UNCHANGED <<admissionVars, status, planVars, requestVars, moveitVars>>

(* ... sends the trajectory ...                                            *)
Send(g) ==
  /\ GoalMoves(g, "sending", "moving")
  /\ motion' = g
  /\ UNCHANGED <<coordinatorVars, admissionVars, status, planVars,
                 requestVars, motionResult, stopPending>>

(* ... and waits for its result: success, ...                              *)
MotionDone(g) ==
  /\ motionResult = "succeeded"
  /\ GoalMoves(g, "moving", "executing")
  /\ left' = left - 1
  /\ motionResult' = "none"
  /\ UNCHANGED <<coordinatorVars, admissionVars, status, completed,
                 requestVars, motion, stopPending>>

(* ... status 5 or 6, which leaves the loop at once, ...                   *)
(* Mutant: a cancelled goal does not wait for its motion to end.           *)
MotionAborted_NoWait(g) ==
  /\ IsCancelRequested(g) \/ motionResult = "aborted"
  /\ GoalMoves(g, "moving", "aborting")
  /\ motionResult' = "none"
  /\ Coordinator!Abandon
  /\ UNCHANGED <<admissionVars, status, planVars, requestVars, motion, stopPending>>

MotionAborted(g) ==
  /\ motionResult = "aborted"
  /\ GoalMoves(g, "moving", "aborting")
  /\ motionResult' = "none"
  /\ Coordinator!Abandon
  /\ UNCHANGED <<admissionVars, status, planVars, requestVars, motion, stopPending>>

(* ... or any other failure, on which the planner is cancelled first.      *)
MotionFailed(g) ==
  /\ motionResult = "failed"
  /\ GoalMoves(g, "moving", "cancelling")
  /\ motionResult' = "none"
  /\ Coordinator!CancelBegin(g)
  /\ UNCHANGED <<admissionVars, status, planVars, requestVars, motion, stopPending>>

CancelPlanning(g) ==
  /\ goalPc[g] = "cancelling"
  /\ Coordinator!Cancel(g)
  /\ UNCHANGED nodeVars

LeaveFailed(g) ==
  /\ Coordinator!CancelAtRest(g)
  /\ GoalMoves(g, "cancelling", "aborting")
  /\ Coordinator!Abandon
  /\ UNCHANGED <<admissionVars, status, planVars, requestVars, moveitVars>>

(* All trajectories of the plan are executed: its path_ids are completed.  *)
ExecutedGroup == <<Coordinator!LastYield.goal, Coordinator!LastYield.group>>

CompletePlan(g) ==
  /\ left = 0
  /\ GoalMoves(g, "executing", "planning")
  /\ completed' = [completed EXCEPT ![g] = Append(@, ExecutedGroup)]
  /\ Coordinator!Resume
  /\ UNCHANGED <<admissionVars, status, left, requestVars, moveitVars>>

(* The iterator is exhausted: succeed() the goal, then free the server.    *)
IteratorExhausted(g) ==
  /\ GoalMoves(g, "planning", "succeeding")
  /\ Coordinator!Finish
  /\ UNCHANGED <<admissionVars, status, planVars, requestVars, moveitVars>>

Succeed(g) ==
  /\ GoalMoves(g, "succeeding", "releasing")
  /\ SetStatus(g, "succeeded")
  /\ UNCHANGED <<coordinatorVars, admissionVars, planVars, requestVars, moveitVars>>

(* _generate_failure_result: abort() the goal, drop the DTO, then free the *)
(* server.                                                                 *)
(* Mutants: the server is freed first; the planner's queue is dropped too. *)
Abort_FreesFirst(g) ==
  /\ GoalMoves(g, "aborting", "dropping")
  /\ SetStatus(g, "aborted")
  /\ isExecuting' = FALSE
  /\ UNCHANGED <<coordinatorVars, trajectoryGoal, planVars, requestVars, moveitVars>>

Abort_DropsQueue(g) ==
  /\ GoalMoves(g, "aborting", "dropping")
  /\ SetStatus(g, "aborted")
  /\ planQueue' = NoGoal
  /\ UNCHANGED <<cancelEvent, session, eventSet, queue, popped, chainPc, job,
                 reply, callerPc, current, yielded, outcome, cancelPc,
                 admissionVars, planVars, requestVars, moveitVars>>

Abort(g) ==
  /\ GoalMoves(g, "aborting", "dropping")
  /\ SetStatus(g, "aborted")
  /\ UNCHANGED <<coordinatorVars, admissionVars, planVars, requestVars, moveitVars>>

DropGoal(g) ==
  /\ GoalMoves(g, "dropping", "releasing")
  /\ trajectoryGoal' = NoGoal
  /\ UNCHANGED <<coordinatorVars, isExecuting, status, planVars, requestVars,
                 moveitVars>>

(* Mutant: the server is never freed.                                      *)
Release_Forgotten(g) ==
  /\ GoalMoves(g, "releasing", "returned")
  /\ UNCHANGED <<coordinatorVars, admissionVars, status, planVars, requestVars,
                 moveitVars>>

Release(g) ==
  /\ GoalMoves(g, "releasing", "returned")
  /\ isExecuting' = FALSE
  /\ UNCHANGED <<coordinatorVars, trajectoryGoal, status, planVars,
                 requestVars, moveitVars>>

-----------------------------------------------------------------------------
(* A cancel request for a goal that rclpy holds as executing (neither ended *)
(* nor canceling already): _cancel_callback cancels the planner, ...        *)
RequestCancel(k, g) ==
  /\ requestPc[k] = "unsent"
  /\ status[g] = "executing"
  /\ requestFor' = [requestFor EXCEPT ![k] = g]
  /\ requestPc' = [requestPc EXCEPT ![k] = "planner"]
  /\ Coordinator!CancelBegin(k)
  /\ UNCHANGED <<admissionVars, goalPc, status, planVars, moveitVars>>

CancelPlanner(k) ==
  /\ requestPc[k] = "planner"
  /\ Coordinator!Cancel(k)
  /\ UNCHANGED nodeVars

(* ... publishes "stop" (the publisher keeps the last message only) ...     *)
PublishStop(k) ==
  /\ requestPc[k] = "planner"
  /\ cancelPc[k] = "returned"
  /\ requestPc' = [requestPc EXCEPT ![k] = "accepting"]
  /\ stopPending' = TRUE
  /\ UNCHANGED <<coordinatorVars, admissionVars, goalPc, status, planVars,
                 requestFor, motion, motionResult>>

(* ... and returns ACCEPT. Only then does rclpy move the goal to CANCELING, *)
(* if it has not ended meanwhile.                                           *)
AcceptCancel(k) ==
  /\ requestPc[k] = "accepting"
  /\ requestPc' = [requestPc EXCEPT ![k] = "answered"]
  /\ IF status[requestFor[k]] = "executing"
     THEN SetStatus(requestFor[k], "canceling")
     ELSE UNCHANGED status
  /\ UNCHANGED <<coordinatorVars, admissionVars, goalPc, planVars, requestFor,
                 moveitVars>>

(* MoveIt: a motion ends in its own time, or by a "stop" that finds it      *)
(* under way; a "stop" that finds none has no effect.                       *)
MotionEnds ==
  /\ motion # NoGoal
  /\ motion' = NoGoal
  /\ motionResult' \in {"succeeded", "aborted", "failed"}
  /\ UNCHANGED <<coordinatorVars, admissionVars, goalPc, status, planVars,
                 requestVars, stopPending>>

StopDelivered ==
  /\ stopPending
  /\ stopPending' = FALSE
  /\ motion' = NoGoal
  /\ motionResult' = IF motion = NoGoal THEN motionResult ELSE "aborted"
  /\ UNCHANGED <<coordinatorVars, admissionVars, goalPc, status, planVars,
                 requestVars>>

(* The planning callbacks run on their own.                                 *)
PlannerCallback(c) == Coordinator!Chain(c) /\ UNCHANGED nodeVars

-----------------------------------------------------------------------------
GoalCallback(g) == Accept(g) \/ RejectInvalid(g) \/ Refuse(g)

Executing(g) ==
  \/ TakeResult(g) \/ GiveUp(g) \/ BeginPlan(g) \/ CheckCancel(g) \/ Send(g)
  \/ MotionDone(g) \/ MotionAborted(g) \/ MotionFailed(g)
  \/ CancelPlanning(g) \/ LeaveFailed(g) \/ CompletePlan(g)

ExecuteCallback(g) ==
  \/ StartPlanning(g) \/ ServerMissing(g) \/ ContinuePlanAll(g) \/ PlanningRefused(g)
  \/ Executing(g)
  \/ IteratorExhausted(g) \/ Succeed(g) \/ Abort(g) \/ DropGoal(g) \/ Release(g)

CancelCallback(k) == CancelPlanner(k) \/ PublishStop(k) \/ AcceptCancel(k)

MoveIt == MotionEnds \/ StopDelivered

(* An exception that leaves a cancel callback ends executor.spin(), and the *)
(* process with it.                                                         *)
NodeRuns == \A k \in CancelRequests : cancelPc[k] # "raised"

Next ==
  /\ NodeRuns
  /\ \/ \E g \in Goals : Admit(g) \/ RejectBusy(g) \/ GoalCallback(g) \/ ExecuteCallback(g)
     \/ \E k \in CancelRequests :
           CancelCallback(k) \/ \E g \in Goals : RequestCancel(k, g)
     \/ \E c \in Goals : PlannerCallback(c)
     \/ MoveIt

(* The executor's threads run, MoveIt answers planning requests, ends the   *)
(* motions it begins and receives the messages. Clients may do nothing.     *)
Fairness ==
  /\ \A g \in Goals : WF_vars(NodeRuns /\ (GoalCallback(g) \/ ExecuteCallback(g)))
  /\ \A c \in Goals : WF_vars(NodeRuns /\ PlannerCallback(c))
  /\ \A k \in CancelRequests : WF_vars(NodeRuns /\ CancelCallback(k))
  /\ WF_vars(NodeRuns /\ MotionEnds)
  /\ WF_vars(NodeRuns /\ StopDelivered)

Spec == Init /\ [][Next]_vars /\ Fairness

-----------------------------------------------------------------------------
(* The types of the node's own variables.                                   *)
TypeOK ==
  /\ isExecuting \in BOOLEAN
  /\ trajectoryGoal \in Goals \cup {NoGoal}
  /\ goalPc \in [Goals -> {"unsent", "validating", "refusing", "rejected",
                           "accepted", "planning", "judging", "executing",
                           "sending", "moving", "cancelling", "succeeding",
                           "aborting", "dropping", "releasing", "returned"}]
  /\ status \in [Goals -> {"unknown", "executing", "canceling", "succeeded", "aborted"}]
  /\ left \in 0..MaxTrajectories
  /\ completed \in [Goals -> Seq(Goals \X Nat)]
  /\ requestFor \in [CancelRequests -> Goals \cup {NoGoal}]
  /\ requestPc \in [CancelRequests -> {"unsent", "planner", "accepting", "answered"}]
  /\ motion \in Goals \cup {NoGoal}
  /\ motionResult \in {"none", "succeeded", "aborted", "failed"}
  /\ stopPending \in BOOLEAN

(* The goals that have the server: from the test-and-set of _is_executing   *)
(* to its release.                                                          *)
Serving(g) == goalPc[g] \notin {"unsent", "rejected", "returned"}

(* "Only one goal at a time": _is_executing is set exactly while some goal  *)
(* has the server, and no two goals ever have it together.                  *)
OneGoal ==
  /\ isExecuting <=> \E g \in Goals : Serving(g)
  /\ \A g, h \in Goals : Serving(g) /\ Serving(h) => g = h

(* The goal that the execute callback finds in _trajectory_goal is the one  *)
(* its own goal callback validated, whatever other goals were offered.      *)
OwnGoalExecuted == \A g \in Goals : goalPc[g] = "accepted" => trajectoryGoal = g

(* The goal that has the node to itself is the one that was validated.      *)
OneGoalServed == OneGoal /\ OwnGoalExecuted

(* The robot moves only for the goal whose execute callback is waiting for  *)
(* that motion: none outlives its goal's result.                            *)
MotionIsAwaited ==
  /\ motion # NoGoal => goalPc[motion] = "moving" /\ motionResult = "none"
  /\ motionResult # "none" => \E g \in Goals : goalPc[g] = "moving"

(* Once a goal is CANCELING, its execute callback sends at most the one     *)
(* trajectory it had already decided to send.                               *)
CancelingSendsNoMore ==
  [][\A g \in Goals : IsCancelRequested(g) /\ goalPc[g] # "sending" =>
        goalPc'[g] # "sending" /\ (goalPc'[g] = "moving" => goalPc[g] = "moving")]_vars

(* The node uses the coordinator as PlanningCoordinator assumes: one caller *)
(* that consumes and abandons, and cancel() calls from other threads.       *)
CoordinatorUse == Coordinator!Init /\ [][Coordinator!Next]_coordinatorVars

(* The node is a GoalService for its clients.                               *)
Standing(g) ==
  CASE goalPc[g] \in {"unsent", "validating", "refusing"}      -> "unsent"
    [] goalPc[g] = "rejected"                                  -> "rejected"
    [] status[g] \in {"executing", "canceling"}                -> "active"
    [] OTHER                                                   -> status[g]

Service == INSTANCE GoalService
             WITH standing <- [g \in Goals |-> Standing(g)],
                  progress <- [g \in Goals |-> Len(completed[g])]

ServiceSpec == Service!Spec

(* Every accepted goal ends and frees the server for the next one.          *)
AcceptedGoalsEnd ==
  \A g \in Goals : goalPc[g] = "accepted" ~> goalPc[g] = "returned" /\ ~isExecuting
=============================================================================
