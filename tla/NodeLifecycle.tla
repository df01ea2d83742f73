---------------------------- MODULE NodeLifecycle ----------------------------
(***************************************************************************)
(* The transitions of the movement controller (movement_controller.py)     *)
(* against the execute callbacks that are under way: on_deactivate cancels *)
(* the planner, stops the robot and takes away the clients and the action  *)
(* server, but does not wait for the threads that use them.                *)
(*                                                                         *)
(* Transitions run one at a time, in the node's default callback group.    *)
(* Of planning only what a thread can meet is kept: an iteration gives     *)
(* plans, fails, ends, or waits for an answer that cannot come any more.   *)
(* Cancel requests and the planning chain are in MovementController and    *)
(* PlanningCoordinator.  A coordinator is the object that on_configure     *)
(* makes; a name is free again when nothing refers to it.                  *)
(***************************************************************************)
EXTENDS FiniteSets, Naturals

CONSTANTS
  Handles,           \* the goals that clients may send, each once
  NoHandle,
  Coordinators,      \* names for PlanningCoordinator objects
  NoCoordinator

ASSUME LifecycleAssumption ==
  NoHandle \notin Handles /\ NoCoordinator \notin Coordinators

VARIABLES
  controllerState,   \* the lifecycle state
  step,              \* what the transition under way does next, or "none"
  planner,           \* _planner_service
  linked,            \* the coordinators whose service clients exist
  publisher,         \* _cancellation_pub, _action_server and
  server,            \*   _execute_trajectory_client are there
  client,
  activationFailed,  \* on_activate has returned FAILURE before (history)
  isExecuting,       \* _is_executing
  trajectoryGoal,    \* the goal whose DTO is in _trajectory_goal
  left,              \* the goals that on_deactivate freed the node of (history)
  handlePc,          \* where the execute callback of each goal stands
  dtoOf,             \* the goal whose DTO it executes
  uses,              \* the coordinator whose iterator it is in
  waitsOn,           \* the goal in whose queue it waits
  planQueue,         \* _plan_queue of each coordinator, by the goal it is for
  answers,           \* what can still come into the queue of each goal
  motion,            \* the goals whose trajectories MoveIt executes
  onClient,          \* the goals that wait on the present action client
  reply,             \* the result on its way to each goal
  stopPending        \* a "stop" message is on its way

transitionVars == <<controllerState, step, planner, linked, publisher, server, client,
                    activationFailed>>
flagVars == <<isExecuting, trajectoryGoal, left>>
threadVars == <<handlePc, dtoOf, uses, waitsOn>>
queueVars == <<planQueue, answers>>
moveItVars == <<motion, onClient, reply, stopPending>>
lifecycleVars == <<transitionVars, flagVars, threadVars, queueVars, moveItVars>>

Ended == {"unsent", "rejected", "returned"}

Serving(h) == handlePc[h] \notin Ended

ThreadMoves(h, from, to) ==
  /\ handlePc[h] = from
  /\ handlePc' = [handlePc EXCEPT ![h] = to]

ThreadEnds(h, from) ==
  /\ ThreadMoves(h, from, "returned")
  /\ dtoOf' = [dtoOf EXCEPT ![h] = NoHandle]
  /\ uses' = [uses EXCEPT ![h] = NoCoordinator]
  /\ waitsOn' = [waitsOn EXCEPT ![h] = NoHandle]

LifecycleInit ==
  /\ controllerState = "unconfigured" /\ step = "none"
  /\ planner = NoCoordinator /\ linked = {}
  /\ publisher = FALSE /\ server = FALSE /\ client = FALSE
  /\ activationFailed = FALSE
  /\ isExecuting = FALSE /\ trajectoryGoal = NoHandle /\ left = {}
  /\ handlePc = [h \in Handles |-> "unsent"]
  /\ dtoOf = [h \in Handles |-> NoHandle]
  /\ uses = [h \in Handles |-> NoCoordinator]
  /\ waitsOn = [h \in Handles |-> NoHandle]
  /\ planQueue = [p \in Coordinators |-> NoHandle]
  /\ answers = [h \in Handles |-> "none"]
  /\ motion = {} /\ onClient = {}
  /\ reply = [h \in Handles |-> "none"]
  /\ stopPending = FALSE

(* ------------------------------ the planner ----------------------------- *)

(* PlanningCoordinator.cancel: a failure and a sentinel are all that comes. *)
CancelPlans(p) ==
  answers' = IF p # NoCoordinator /\ planQueue[p] # NoHandle
             THEN [answers EXCEPT ![planQueue[p]] = "failed"]
             ELSE answers

(* PlanningCoordinator.on_deactivate: what was asked is never answered, or  *)
(* a callback that is under way finds no client and fails.                  *)
CloseClients ==
  /\ linked' = linked \ {planner}
  /\ \E outcome \in {"silent", "failed"} :
       answers' = [h \in Handles |->
                     IF uses[h] = planner /\ answers[h] = "open" THEN outcome
                     ELSE answers[h]]

(* ----------------------------- transitions ------------------------------ *)

(* on_configure; one that fails leaves the node as it was, unconfigured.    *)
OnConfigure(p) ==
  /\ controllerState = "unconfigured" /\ step = "none"
  /\ p \notin linked /\ \A h \in Handles : Serving(h) => uses[h] # p
  /\ planner' = p
  /\ planQueue' = [planQueue EXCEPT ![p] = NoHandle]
  /\ controllerState' = "inactive"
  /\ UNCHANGED <<step, linked, publisher, server, client, activationFailed,
                 flagVars, threadVars, answers, moveItVars>>

(* on_activate makes the clients of the planner and waits for the services, *)
ActivatePlanner ==
  /\ controllerState = "inactive" /\ step = "none"
  /\ linked' = linked \cup {planner}
  /\ planQueue' = [planQueue EXCEPT ![planner] = NoHandle]
  /\ step' = "publisher"
  /\ UNCHANGED <<controllerState, planner, publisher, server, client,
                 activationFailed, flagVars, threadVars, answers, moveItVars>>

(* returns FAILURE if they do not come, and leaves the clients in place,    *)
ActivateTimesOut ==
  /\ step = "publisher"
  /\ step' = "none" /\ activationFailed' = TRUE
  /\ UNCHANGED <<controllerState, planner, linked, publisher, server, client,
                 flagVars, threadVars, queueVars, moveItVars>>

(* then makes the publisher, the action server and the action client        *)
ActivatePublisher ==
  /\ step = "publisher"
  /\ publisher' = TRUE /\ step' = "server"
  /\ UNCHANGED <<controllerState, planner, linked, server, client, activationFailed,
                 flagVars, threadVars, queueVars, moveItVars>>

ActivateServer ==
  /\ step = "server"
  /\ server' = TRUE /\ step' = "client"
  /\ UNCHANGED <<controllerState, planner, linked, publisher, client,
                 activationFailed, flagVars, threadVars, queueVars, moveItVars>>

ActivateClient ==
  /\ step = "client"
  /\ client' = TRUE /\ step' = "none" /\ controllerState' = "active"
  /\ UNCHANGED <<planner, linked, publisher, server, activationFailed,
                 flagVars, threadVars, queueVars, moveItVars>>

(* and takes all but the publisher back when one of them raises.            *)
ActivateRaises ==
  /\ step \in {"publisher", "server", "client"}
  /\ CloseClients
  /\ server' = FALSE
  /\ step' = "none" /\ activationFailed' = TRUE
  /\ UNCHANGED <<controllerState, planner, publisher, client, flagVars, threadVars,
                 planQueue, moveItVars>>

(* on_deactivate cancels the planning and closes the planner's clients,     *)
DeactivateCancel ==
  /\ controllerState = "active" /\ step = "none"
  /\ CancelPlans(planner)
  /\ step' = "close planner"
  /\ UNCHANGED <<controllerState, planner, linked, publisher, server, client,
                 activationFailed, flagVars, threadVars, planQueue, moveItVars>>

DeactivatePlanner ==
  /\ step = "close planner"
  /\ CloseClients
  /\ step' = "stop robot"
  /\ UNCHANGED <<controllerState, planner, publisher, server, client,
                 activationFailed, flagVars, threadVars, planQueue, moveItVars>>

(* publishes "stop" and gives it half a second, in which anything happens,  *)
DeactivateStop ==
  /\ step = "stop robot"
  /\ stopPending' = TRUE /\ publisher' = FALSE /\ step' = "close client"
  /\ UNCHANGED <<controllerState, planner, linked, server, client, activationFailed,
                 flagVars, threadVars, queueVars, motion, onClient, reply>>

(* destroys the action client, whose futures then never complete, and the   *)
(* action server,                                                           *)
DeactivateClient ==
  /\ step = "close client"
  /\ client' = FALSE /\ onClient' = {} /\ step' = "close server"
  /\ UNCHANGED <<controllerState, planner, linked, publisher, server,
                 activationFailed, flagVars, threadVars, queueVars, motion,
                 reply, stopPending>>

DeactivateServer ==
  /\ step = "close server"
  /\ server' = FALSE /\ step' = "free node"
  /\ UNCHANGED <<controllerState, planner, linked, publisher, client,
                 activationFailed, flagVars, threadVars, queueVars, moveItVars>>

(* and frees the node, whoever is still in its callback. Mutant: it leaves  *)
(* the flag to the callback.                                                *)
DeactivateFree_KeepsFlag ==
  /\ step = "free node"
  /\ left' = left \cup {h \in Handles : Serving(h)}
  /\ step' = "drop goal"
  /\ UNCHANGED <<controllerState, planner, linked, publisher, server, client,
                 activationFailed, isExecuting, trajectoryGoal, threadVars,
                 queueVars, moveItVars>>

DeactivateFree ==
  /\ step = "free node"
  /\ isExecuting' = FALSE
  /\ left' = left \cup {h \in Handles : Serving(h)}
  /\ step' = "drop goal"
  /\ UNCHANGED <<controllerState, planner, linked, publisher, server, client,
                 activationFailed, trajectoryGoal, threadVars, queueVars,
                 moveItVars>>

DeactivateDrop ==
  /\ step = "drop goal"
  /\ trajectoryGoal' = NoHandle
  /\ step' = "none" /\ controllerState' = "inactive"
  /\ UNCHANGED <<planner, linked, publisher, server, client, activationFailed,
                 isExecuting, left, threadVars, queueVars, moveItVars>>

(* on_cleanup drops the planner, with the clients it may still have.        *)
OnCleanup ==
  /\ controllerState = "inactive" /\ step = "none"
  /\ planner' = NoCoordinator
  /\ trajectoryGoal' = NoHandle
  /\ controllerState' = "unconfigured"
  /\ UNCHANGED <<step, linked, publisher, server, client, activationFailed,
                 isExecuting, left, threadVars, queueVars, moveItVars>>

(* -------------------------------- goals --------------------------------- *)

(* _goal_callback on a valid goal.                                          *)
OfferGoal(h) ==
  /\ server
  /\ IF isExecuting
     THEN ThreadMoves(h, "unsent", "rejected") /\ UNCHANGED flagVars
     ELSE /\ ThreadMoves(h, "unsent", "accepted")
          /\ isExecuting' = TRUE /\ trajectoryGoal' = h
          /\ UNCHANGED left
  /\ UNCHANGED <<transitionVars, dtoOf, uses, waitsOn, queueVars, moveItVars>>

(* _execute_callback takes the DTO, or converts its own request again,      *)
Begin(h) ==
  /\ ThreadMoves(h, "accepted", "begun")
  /\ dtoOf' = [dtoOf EXCEPT ![h] = IF trajectoryGoal = NoHandle THEN h
                                   ELSE trajectoryGoal]
  /\ UNCHANGED <<transitionVars, flagVars, uses, waitsOn, queueVars, moveItVars>>

(* and waits for MoveIt on the client, if there is one,                     *)
WaitForServer(h) ==
  /\ IF planner # NoCoordinator /\ client
     THEN ThreadMoves(h, "begun", "waiting") /\ onClient' = onClient \cup {h}
     ELSE ThreadMoves(h, "begun", "failing") /\ UNCHANGED onClient
  /\ UNCHANGED <<transitionVars, flagVars, dtoOf, uses, waitsOn, queueVars,
                 motion, reply, stopPending>>

ServerAnswers(h) ==
  /\ h \in onClient
  /\ \E next \in {"asking", "failing"} : ThreadMoves(h, "waiting", next)
  /\ onClient' = onClient \ {h}
  /\ UNCHANGED <<transitionVars, flagVars, dtoOf, uses, waitsOn, queueVars,
                 motion, reply, stopPending>>

(* outside the try block: an exception of a destroyed client ends it all.   *)
WaitRaises(h) ==
  /\ h \notin onClient
  /\ ThreadEnds(h, "waiting")
  /\ UNCHANGED <<transitionVars, flagVars, queueVars, moveItVars>>

(* plan_all: without clients, or without a planner, the goal fails.         *)
PlanAll(h) ==
  /\ \/ /\ planner \in linked
        /\ ThreadMoves(h, "asking", "iterating")
        /\ uses' = [uses EXCEPT ![h] = planner]
        /\ planQueue' = [planQueue EXCEPT ![planner] = h]
        /\ answers' = [answers EXCEPT ![h] = "open"]
     \/ /\ ThreadMoves(h, "asking", "failing")
        /\ planQueue' = IF planner = NoCoordinator THEN planQueue
                        ELSE [planQueue EXCEPT ![planner] = NoHandle]
        /\ UNCHANGED <<uses, answers>>
  /\ UNCHANGED <<transitionVars, flagVars, dtoOf, waitsOn, moveItVars>>

(* iterate_planned_trajectories reads the attribute and blocks on the queue *)
(* that it found there,                                                     *)
Iterate(h) ==
  /\ handlePc[h] = "iterating"
  /\ LET queue == planQueue[uses[h]] IN
       IF queue = NoHandle
       THEN ThreadMoves(h, "iterating", "failing") /\ UNCHANGED waitsOn
       ELSE /\ ThreadMoves(h, "iterating", "getting")
            /\ waitsOn' = [waitsOn EXCEPT ![h] = queue]
  /\ UNCHANGED <<transitionVars, flagVars, dtoOf, uses, queueVars, moveItVars>>

(* which gives a plan, a failure or the sentinel.                           *)
TakePlan(h) ==
  /\ handlePc[h] = "getting" /\ answers[waitsOn[h]] = "open"
  /\ \E next \in {"executing", "failing"} : ThreadMoves(h, "getting", next)
  /\ UNCHANGED <<transitionVars, flagVars, dtoOf, uses, waitsOn, queueVars,
                 moveItVars>>

TakeFailure(h) ==
  /\ handlePc[h] = "getting" /\ answers[waitsOn[h]] = "failed"
  /\ ThreadMoves(h, "getting", "failing")
  /\ UNCHANGED <<transitionVars, flagVars, dtoOf, uses, waitsOn, queueVars,
                 moveItVars>>

TakeSentinel(h) ==
  /\ handlePc[h] = "getting" /\ answers[waitsOn[h]] \in {"open", "failed"}
  /\ ThreadMoves(h, "getting", "succeeding")
  /\ planQueue' = [planQueue EXCEPT ![uses[h]] = NoHandle]
  /\ UNCHANGED <<transitionVars, flagVars, dtoOf, uses, waitsOn, answers,
                 moveItVars>>

(* _call_with_cancellation: send a trajectory and wait for its result.      *)
Send(h) ==
  /\ IF client
     THEN /\ ThreadMoves(h, "executing", "moving")
          /\ motion' = motion \cup {h} /\ onClient' = onClient \cup {h}
     ELSE ThreadMoves(h, "executing", "failing") /\ UNCHANGED <<motion, onClient>>
  /\ UNCHANGED <<transitionVars, flagVars, dtoOf, uses, waitsOn, queueVars,
                 reply, stopPending>>

MotionDone(h) ==
  /\ reply[h] = "succeeded"
  /\ \E next \in {"executing", "iterating"} : ThreadMoves(h, "moving", next)
  /\ reply' = [reply EXCEPT ![h] = "none"] /\ onClient' = onClient \ {h}
  /\ UNCHANGED <<transitionVars, flagVars, dtoOf, uses, waitsOn, queueVars,
                 motion, stopPending>>

(* A motion that failed, rather than being stopped, cancels the planning.   *)
MotionFailed(h) ==
  /\ reply[h] \in {"failed", "aborted"}
  /\ ThreadMoves(h, "moving", "failing")
  /\ IF reply[h] = "failed" THEN CancelPlans(planner) ELSE UNCHANGED answers
  /\ reply' = [reply EXCEPT ![h] = "none"] /\ onClient' = onClient \ {h}
  /\ UNCHANGED <<transitionVars, flagVars, dtoOf, uses, waitsOn, planQueue,
                 motion, stopPending>>

(* succeed() raises if the action server of the handle was destroyed.       *)
Succeed(h) ==
  /\ \E next \in {"releasing", "failing"} : ThreadMoves(h, "succeeding", next)
  /\ UNCHANGED <<transitionVars, flagVars, dtoOf, uses, waitsOn, queueVars,
                 moveItVars>>

(* _generate_failure_result                                                 *)
DropGoal(h) ==
  /\ ThreadMoves(h, "failing", "releasing")
  /\ trajectoryGoal' = NoHandle
  /\ UNCHANGED <<transitionVars, isExecuting, left, dtoOf, uses, waitsOn,
                 queueVars, moveItVars>>

Release(h) ==
  /\ ThreadEnds(h, "releasing")
  /\ isExecuting' = FALSE
  /\ UNCHANGED <<transitionVars, trajectoryGoal, left, queueVars, moveItVars>>

(* MoveIt: motions end, and a result reaches whoever still has the client   *)
(* it was asked through.                                                    *)
MotionEnds(h) ==
  /\ h \in motion
  /\ motion' = motion \ {h}
  /\ \E result \in {"succeeded", "aborted", "failed"} :
       reply' = IF h \in onClient THEN [reply EXCEPT ![h] = result] ELSE reply
  /\ UNCHANGED <<transitionVars, flagVars, threadVars, queueVars, onClient,
                 stopPending>>

StopDelivered ==
  /\ stopPending /\ stopPending' = FALSE
  /\ motion' = {}
  /\ reply' = [h \in Handles |-> IF h \in motion \cap onClient THEN "aborted"
                                 ELSE reply[h]]
  /\ UNCHANGED <<transitionVars, flagVars, threadVars, queueVars, onClient>>

OnActivate ==
  \/ ActivatePlanner \/ ActivateTimesOut \/ ActivatePublisher
  \/ ActivateServer \/ ActivateClient \/ ActivateRaises

OnDeactivate ==
  \/ DeactivateCancel \/ DeactivatePlanner \/ DeactivateStop
  \/ DeactivateClient \/ DeactivateServer \/ DeactivateFree \/ DeactivateDrop

ExecuteGoal(h) ==
  \/ OfferGoal(h) \/ Begin(h) \/ WaitForServer(h) \/ ServerAnswers(h)
  \/ WaitRaises(h) \/ PlanAll(h) \/ Iterate(h)
  \/ TakePlan(h) \/ TakeFailure(h) \/ TakeSentinel(h)
  \/ Send(h) \/ MotionDone(h) \/ MotionFailed(h)
  \/ Succeed(h) \/ DropGoal(h) \/ Release(h)

LifecycleNext ==
  \/ \E p \in Coordinators : OnConfigure(p)
  \/ OnActivate \/ OnDeactivate \/ OnCleanup
  \/ \E h \in Handles : ExecuteGoal(h) \/ MotionEnds(h)
  \/ StopDelivered

LifecycleSpec == LifecycleInit /\ [][LifecycleNext]_lifecycleVars

(* ------------------------------ properties ------------------------------ *)

(* Between transitions an active node has all it works with, and no other   *)
(* has an action server or client; a publisher or clients of a planner that *)
(* outlive the active node are those of an activation that failed.          *)
ResourcesFollowState ==
  step = "none" =>
    /\ controllerState = "active" =>
         publisher /\ server /\ client /\ planner \in linked
    /\ controllerState # "active" =>
         /\ ~server /\ ~client
         /\ publisher \/ linked # {} => activationFailed

(* The node refuses goals only while it serves one: however a goal ended,   *)
(* and wherever a deactivation found it, it blocks no later one.            *)
BusyForSomeone ==
  step = "none" /\ isExecuting => \E h \in Handles \ left : Serving(h)

(* As long as every deactivation found the callbacks done, one goal has the *)
(* node, with the paths that were validated for it.                         *)
OneGoalUnlessLeft ==
  left = {} =>
    /\ \A h, i \in Handles : Serving(h) /\ Serving(i) => h = i
    /\ \A h \in Handles : dtoOf[h] \in {NoHandle, h}

(* In a node that is not active the robot moves only for a goal whose       *)
(* callback the deactivation did not wait for.                              *)
StillUnlessLeft == controllerState # "active" /\ step = "none" => motion \subseteq left

(* What the transitions leave in order, whatever is under way.              *)
TransitionsAreClean ==
  /\ ResourcesFollowState
  /\ BusyForSomeone
  /\ OneGoalUnlessLeft
  /\ StillUnlessLeft
=============================================================================
