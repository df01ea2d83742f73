------------------------ MODULE PlanningCoordinator ------------------------
(***************************************************************************)
(* services/planning_coordinator.py: look-ahead planning.                  *)
(*                                                                         *)
(* Three kinds of thread share the coordinator's three attributes          *)
(* _cancel_event, _plan_queue and _session:                                *)
(*   - the caller, which starts a session (plan_all) and consumes its      *)
(*     plans (iterate_planned_trajectories), one session after the other;  *)
(*   - the callback chain that each session's get_planning_scene request   *)
(*     starts: it plans the groups one after the other in the callbacks    *)
(*     of MoveIt's planning services, and enqueues the results;            *)
(*   - cancel() calls, from any other thread.                              *)
(* Every plan_all puts NEW Event, Queue and session objects behind the     *)
(* attributes, and a thread reads the attribute again at every use: so an  *)
(* attribute is modelled as the goal whose object it refers to, and the    *)
(* objects as functions of the goal. An action is the code between two     *)
(* uses of shared state by one thread.                                     *)
(***************************************************************************)
EXTENDS Naturals, Sequences

CONSTANTS
  Goals,          \* the goals planned, each by one plan_all call
  NoGoal,         \* an attribute that is None
  GroupCount,     \* how many groups TrajectoryGrouper made of each goal
  Cancellers,     \* the cancel() calls that may be made
  QuietStart,     \* TRUE: plan_all is called only when no callback and no
                  \* cancel() of an earlier session is still under way
  PatientCaller   \* TRUE: the caller drops the iterator only on a failure

ASSUME CoordinatorAssumption ==
  /\ NoGoal \notin Goals
  /\ GroupCount \in [Goals -> Nat \ {0}]
  /\ QuietStart \in BOOLEAN
  /\ PatientCaller \in BOOLEAN

VARIABLES
  cancelEvent,    \* _cancel_event: the goal whose Event it is, or NoGoal
  planQueue,      \* _plan_queue: the goal whose Queue it is, or NoGoal
  session,        \* _session: the goal whose session it is, or NoGoal
  eventSet,       \* the Events that have been set
  queue,          \* the content of each Queue
  popped,         \* how many groups have been taken out of each session
  chainPc,        \* where each callback chain stands
  job,            \* the group a chain is planning and its start state
  reply,          \* what the planner answered to a chain
  callerPc,       \* where the caller stands
  current,        \* the goal the caller is serving
  yielded,        \* the results the iterator gave for each goal
  outcome,        \* how each goal's iteration ended
  cancelPc        \* where each cancel() call stands

attributes == <<cancelEvent, planQueue, session>>
chainVars  == <<chainPc, job, reply>>
callerVars == <<callerPc, current, yielded, outcome>>
vars == <<attributes, eventSet, queue, popped, chainVars, callerVars, cancelPc>>

-----------------------------------------------------------------------------
(* Data. The robot state <<g, n>> is the end of group n of goal g, and     *)
(* <<g, 0>> the live state in the scene response to g's plan_all.          *)
GoalOrNone == Goals \cup {NoGoal}
RobotState == Goals \X Nat
Job        == [goal : GoalOrNone, group : Nat, from : RobotState]

(* PlanResultDTO, success and failure, and the StopIteration sentinel.     *)
Plan(j, answer) == [kind |-> "plan", goal |-> j.goal, group |-> j.group,
                    from |-> j.from, empty |-> (answer = "empty")]
Failure == [kind |-> "failure"]
Stop    == [kind |-> "stop"]

PlanItem  == [kind : {"plan"}, goal : Goals, group : Nat, from : RobotState,
              empty : BOOLEAN]
QueueItem == PlanItem \cup {Failure, Stop}

(* Mutant: the start state is passed on instead of the end state.          *)
EndState_Unthreaded(j) == j.from

EndState(j) == <<j.goal, j.group>>

(* PlanningSessionDTO.get_next_group: the first group left is taken out.   *)
HasGroup(s) == s # NoGoal /\ popped[s] < GroupCount[s]
NextGroup(s) == popped[s] + 1
(* Mutant: the group is read without being removed.                        *)
GroupTaken_Kept(s) == popped
GroupTaken(s) == [popped EXCEPT ![s] = NextGroup(s)]

(* put() on the Queue that _plan_queue refers to now, if there is one.     *)
PutIfAny(item) ==
  queue' = [q \in Goals |->
              IF q = planQueue THEN Append(queue[q], item) ELSE queue[q]]

(* "self._cancel_event is not None and self._cancel_event.is_set()"        *)
Cancelled == cancelEvent \in eventSet

MoveChain(c, to) == chainPc' = [chainPc EXCEPT ![c] = to]
MoveCancel(k, to) == cancelPc' = [cancelPc EXCEPT ![k] = to]

ChainAtRest(c)  == chainPc[c] \in {"unborn", "done"}
CancelAtRest(k) == cancelPc[k] \in {"unborn", "returned", "raised"}

Init ==
  /\ cancelEvent = NoGoal
  /\ planQueue = NoGoal
  /\ session = NoGoal
  /\ eventSet = {}
  /\ queue = [g \in Goals |-> <<>>]
  /\ popped = [g \in Goals |-> 0]
  /\ chainPc = [g \in Goals |-> "unborn"]
  /\ job = [g \in Goals |-> [goal |-> NoGoal, group |-> 0, from |-> <<g, 0>>]]
  /\ reply = [g \in Goals |-> "none"]
  /\ callerPc = "idle"
  /\ current = NoGoal
  /\ yielded = [g \in Goals |-> <<>>]
  /\ outcome = [g \in Goals |-> "pending"]
  /\ cancelPc = [k \in Cancellers |-> "unborn"]

-----------------------------------------------------------------------------
(* plan_all: the three attributes are replaced one after the other.        *)
PlanAllEvent(g) ==
  /\ callerPc = "idle"
  /\ outcome[g] = "pending"
  /\ QuietStart => /\ \A c \in Goals : ChainAtRest(c)
                   /\ \A k \in Cancellers : CancelAtRest(k)
  /\ cancelEvent' = g
  /\ callerPc' = "makeQueue"
  /\ current' = g
  /\ UNCHANGED <<planQueue, session, eventSet, queue, popped, chainVars,
                 yielded, outcome, cancelPc>>

PlanAllQueue ==
  /\ callerPc = "makeQueue"
  /\ planQueue' = current
  /\ callerPc' = "makeSession"
  /\ UNCHANGED <<cancelEvent, session, eventSet, queue, popped, chainVars,
                 current, yielded, outcome, cancelPc>>

PlanAllSession ==
  /\ callerPc = "makeSession"
  /\ session' = current
  /\ callerPc' = "request"
  /\ UNCHANGED <<cancelEvent, planQueue, eventSet, queue, popped, chainVars,
                 current, yielded, outcome, cancelPc>>

(* The scene service is there: call it, and let _on_scene start the chain. *)
PlanAllRequest ==
  /\ callerPc = "request"
  /\ MoveChain(current, "scene")
  /\ callerPc' = "iterating"
  /\ UNCHANGED <<attributes, eventSet, queue, popped, job, reply, current,
                 yielded, outcome, cancelPc>>

(* The scene service does not appear within 5 s: plan_all returns False.   *)
PlanAllRefuse ==
  /\ callerPc = "request"
  /\ cancelEvent' = NoGoal
  /\ planQueue' = NoGoal
  /\ session' = NoGoal
  /\ callerPc' = "idle"
  /\ current' = NoGoal
  /\ outcome' = [outcome EXCEPT ![current] = "refused"]
  /\ UNCHANGED <<eventSet, queue, popped, chainVars, yielded, cancelPc>>

-----------------------------------------------------------------------------
(* iterate_planned_trajectories, resumed by the caller: _plan_queue.get()  *)
(* blocks until there is an item. (Its branch for a missing queue needs a  *)
(* caller that did not call plan_all, or ignored that it returned False.)  *)
Take ==
  /\ callerPc = "iterating"
  /\ queue[planQueue] # <<>>
  /\ LET item == Head(queue[planQueue])
     IN  /\ item # Stop
         /\ yielded' = [yielded EXCEPT ![current] = Append(@, item)]
  /\ queue' = [queue EXCEPT ![planQueue] = Tail(@)]
  /\ callerPc' = "consuming"
  /\ UNCHANGED <<attributes, eventSet, popped, chainVars, current, outcome,
                 cancelPc>>

(* The sentinel: the iterator clears the attributes and ends.              *)
Finish ==
  /\ callerPc = "iterating"
  /\ queue[planQueue] # <<>>
  /\ Head(queue[planQueue]) = Stop
  /\ queue' = [queue EXCEPT ![planQueue] = Tail(@)]
  /\ planQueue' = NoGoal
  /\ cancelEvent' = NoGoal
  /\ session' = NoGoal
  /\ callerPc' = "idle"
  /\ current' = NoGoal
  /\ outcome' = [outcome EXCEPT ![current] = "exhausted"]
  /\ UNCHANGED <<eventSet, popped, chainVars, yielded, cancelPc>>

LastYield == yielded[current][Len(yielded[current])]

(* The caller has executed the plan and asks for the next one.             *)
Resume ==
  /\ callerPc = "consuming"
  /\ LastYield # Failure
  /\ callerPc' = "iterating"
  /\ UNCHANGED <<attributes, eventSet, queue, popped, chainVars, current,
                 yielded, outcome, cancelPc>>

(* The caller drops the iterator: on a failure, and an impatient one also  *)
(* after a plan (it saw the cancel request, or the execution failed). The  *)
(* generator is suspended in its yield, so nothing is cleared.             *)
Abandon ==
  /\ callerPc = "consuming"
  /\ PatientCaller => LastYield = Failure
  /\ callerPc' = "idle"
  /\ current' = NoGoal
  /\ outcome' = [outcome EXCEPT ![current] = "abandoned"]
  /\ UNCHANGED <<attributes, eventSet, queue, popped, chainVars, yielded,
                 cancelPc>>

-----------------------------------------------------------------------------
(* _on_scene: skipped when cancelled; without a robot state it aborts;     *)
(* otherwise the live state is the start state of the first group.         *)
SceneResponse(c) ==
  /\ chainPc[c] = "scene"
  /\ \/ /\ Cancelled
        /\ MoveChain(c, "done")
     \/ /\ ~Cancelled
        /\ \/ MoveChain(c, "schedule")
           \/ MoveChain(c, "putFailure")
  /\ UNCHANGED <<attributes, eventSet, queue, popped, job, reply, callerVars,
                 cancelPc>>

(* _schedule_next, first its check of the cancel event.                    *)
Schedule(c) ==
  /\ chainPc[c] = "schedule"
  /\ MoveChain(c, IF Cancelled THEN "done" ELSE "pop")
  /\ UNCHANGED <<attributes, eventSet, queue, popped, job, reply, callerVars,
                 cancelPc>>

(* Then the next group leaves the session, whichever that is now, and is   *)
(* sent to its planner ...                                                 *)
PopGroup(c) ==
  /\ chainPc[c] = "pop"
  /\ HasGroup(session)
  /\ popped' = GroupTaken(session)
  /\ job' = [job EXCEPT ![c] = [goal |-> session, group |-> NextGroup(session),
                                from |-> @.from]]
  /\ MoveChain(c, "planning")
  /\ UNCHANGED <<attributes, eventSet, queue, reply, callerVars, cancelPc>>

(* Mutant: the chain ends without the sentinel.                            *)
PopNothing_NoSentinel(c) ==
  /\ chainPc[c] = "pop"
  /\ ~HasGroup(session)
  /\ MoveChain(c, "done")
  /\ UNCHANGED <<attributes, eventSet, queue, popped, job, reply, callerVars,
                 cancelPc>>

(* ... or the sequence is finished.                                        *)
PopNothing(c) ==
  /\ chainPc[c] = "pop"
  /\ ~HasGroup(session)
  /\ MoveChain(c, "putStop")
  /\ UNCHANGED <<attributes, eventSet, queue, popped, job, reply, callerVars,
                 cancelPc>>

(* _on_plan_response and _on_group_planned up to its check: the planner    *)
(* answered with a plan, with one that has no trajectory, or with an error *)
(* (as does plan_group_async itself when it cannot send the request).      *)
PlanResponse(c) ==
  /\ chainPc[c] = "planning"
  /\ \E answer \in {"good", "empty", "failed"} :
        reply' = [reply EXCEPT ![c] = answer]
  /\ MoveChain(c, IF Cancelled THEN "done" ELSE "enqueue")
  /\ UNCHANGED <<attributes, eventSet, queue, popped, job, callerVars, cancelPc>>

(* The result is enqueued. A failure ends the chain, a plan without a      *)
(* trajectory has no end state and aborts it, any other seeds the next     *)
(* group.                                                                  *)
EnqueueResult(c) ==
  /\ chainPc[c] = "enqueue"
  /\ PutIfAny(IF reply[c] = "failed" THEN Failure ELSE Plan(job[c], reply[c]))
  /\ \/ /\ reply[c] = "good"
        /\ job' = [job EXCEPT ![c].from = EndState(job[c])]
        /\ MoveChain(c, "schedule")
     \/ /\ reply[c] = "empty"
        /\ MoveChain(c, "putFailure")
        /\ UNCHANGED job
     \/ /\ reply[c] = "failed"
        /\ MoveChain(c, "putStop")
        /\ UNCHANGED job
  /\ UNCHANGED <<attributes, eventSet, popped, reply, callerVars, cancelPc>>

(* _abort: a failure, then the sentinel.                                   *)
PutFailure(c) ==
  /\ chainPc[c] = "putFailure"
  /\ PutIfAny(Failure)
  /\ MoveChain(c, "putStop")
  /\ UNCHANGED <<attributes, eventSet, popped, job, reply, callerVars, cancelPc>>

PutStop(c) ==
  /\ chainPc[c] = "putStop"
  /\ PutIfAny(Stop)
  /\ MoveChain(c, "done")
  /\ UNCHANGED <<attributes, eventSet, popped, job, reply, callerVars, cancelPc>>

-----------------------------------------------------------------------------
(* cancel(): is there an event that is not set yet? ...                    *)
CancelBegin(k) ==
  /\ cancelPc[k] = "unborn"
  /\ MoveCancel(k, IF cancelEvent \in Goals \ eventSet THEN "set" ELSE "check")
  /\ UNCHANGED <<attributes, eventSet, queue, popped, chainVars, callerVars>>

(* ... then set it. Where the attribute has become None since it was       *)
(* tested, as in every later use, that raises AttributeError. ...          *)
CancelSet(k) ==
  /\ cancelPc[k] = "set"
  /\ MoveCancel(k, IF cancelEvent = NoGoal THEN "raised" ELSE "check")
  /\ eventSet' = eventSet \cup ({cancelEvent} \ {NoGoal})
  /\ UNCHANGED <<attributes, queue, popped, chainVars, callerVars>>

(* ... is there a queue? ...                                               *)
CancelCheck(k) ==
  /\ cancelPc[k] = "check"
  /\ MoveCancel(k, IF planQueue = NoGoal THEN "returned" ELSE "drain")
  /\ UNCHANGED <<attributes, eventSet, queue, popped, chainVars, callerVars>>

(* ... and then the attribute is used three more times.                    *)
CancelUse(k, at, next) ==
  /\ cancelPc[k] = at
  /\ MoveCancel(k, IF planQueue = NoGoal THEN "raised" ELSE next)
  /\ UNCHANGED <<attributes, eventSet, popped, chainVars, callerVars>>

CancelDrain(k) ==
  /\ CancelUse(k, "drain", "putFailure")
  /\ queue' = [q \in Goals |-> IF q = planQueue THEN <<>> ELSE queue[q]]

CancelPutFailure(k) ==
  /\ CancelUse(k, "putFailure", "putStop")
  /\ PutIfAny(Failure)

(* Mutant: the queue is drained after the failure was put in it.           *)
CancelPutStop_DrainsLast(k) ==
  /\ CancelUse(k, "putStop", "returned")
  /\ queue' = [q \in Goals |-> IF q = planQueue THEN <<>> ELSE queue[q]]

CancelPutStop(k) ==
  /\ CancelUse(k, "putStop", "returned")
  /\ PutIfAny(Stop)

-----------------------------------------------------------------------------
Chain(c) ==
  \/ SceneResponse(c) \/ Schedule(c)   \/ PopGroup(c)      \/ PopNothing(c)
  \/ PlanResponse(c)  \/ EnqueueResult(c) \/ PutFailure(c) \/ PutStop(c)

PlanAll == PlanAllQueue \/ PlanAllSession \/ PlanAllRequest \/ PlanAllRefuse

Iterate == Take \/ Finish \/ Resume \/ Abandon

Cancel(k) ==
  \/ CancelSet(k)   \/ CancelCheck(k) \/ CancelDrain(k) \/ CancelPutFailure(k)
  \/ CancelPutStop(k)

Next ==
  \/ \E g \in Goals : PlanAllEvent(g)
  \/ PlanAll
  \/ Iterate
  \/ \E c \in Goals : Chain(c)
  \/ \E k \in Cancellers : CancelBegin(k) \/ Cancel(k)

(* A thread that is not blocked runs; MoveIt answers every request; the    *)
(* caller comes back for the next plan. Nobody has to plan or to cancel.   *)
Fairness ==
  /\ WF_vars(PlanAll)
  /\ WF_vars(Iterate)
  /\ \A c \in Goals : WF_vars(Chain(c))
  /\ \A k \in Cancellers : WF_vars(Cancel(k))

Spec == Init /\ [][Next]_vars /\ Fairness

-----------------------------------------------------------------------------
(* The types of the attributes, of the objects behind them and of the      *)
(* threads' own state; a chain plans a group of some goal, and the caller  *)
(* that iterates has its own queue in place.                               *)
TypeOK ==
  /\ cancelEvent \in GoalOrNone
  /\ planQueue \in GoalOrNone
  /\ session \in GoalOrNone
  /\ eventSet \subseteq Goals
  /\ queue \in [Goals -> Seq(QueueItem)]
  /\ popped \in [Goals -> Nat]
  /\ chainPc \in [Goals -> {"unborn", "scene", "schedule", "pop", "planning",
                            "enqueue", "putFailure", "putStop", "done"}]
  /\ job \in [Goals -> Job]
  /\ \A c \in Goals : chainPc[c] \in {"planning", "enqueue"} => job[c].goal \in Goals
  /\ reply \in [Goals -> {"none", "good", "empty", "failed"}]
  /\ callerPc \in {"idle", "makeQueue", "makeSession", "request", "iterating",
                   "consuming"}
  /\ current \in GoalOrNone
  /\ (current = NoGoal) <=> (callerPc = "idle")
  /\ callerPc \in {"makeSession", "request", "iterating", "consuming"} =>
        planQueue = current
  /\ yielded \in [Goals -> Seq(QueueItem)]
  /\ outcome \in [Goals -> {"pending", "refused", "exhausted", "abandoned"}]
  /\ cancelPc \in [Cancellers -> {"unborn", "set", "check", "drain", "putFailure",
                                  "putStop", "returned", "raised"}]

(* The plans a goal's iterator gave: all it gave, up to a failure, on which *)
(* the caller drops it.                                                    *)
IsPlan(item) == item.kind = "plan"
PlansOf(g) ==
  LET given == yielded[g]
      last  == Len(given)
      plans == IF last > 0 /\ given[last] = Failure THEN last - 1 ELSE last
  IN  [i \in 1..plans |-> [goal |-> given[i].goal, group |-> given[i].group,
                           from |-> given[i].from]]

(* The coordinator's promise: seen as a stream of plans per goal it is a   *)
(* PlanStream (plan_all and iterate_planned_trajectories, docstrings).     *)
Phase(g) ==
  CASE outcome[g] = "exhausted"              -> "complete"
    [] outcome[g] \in {"refused", "abandoned"} -> "failed"
    [] outcome[g] = "pending" /\ current = g -> "open"
    [] outcome[g] = "pending" /\ current # g -> "unopened"

Stream == INSTANCE PlanStream
            WITH phase <- [g \in Goals |-> Phase(g)],
                 delivered <- [g \in Goals |-> PlansOf(g)]

StreamSpec == Stream!Spec

(* An iterator that ran to its end, on which the executor reports success, *)
(* has given every group of the goal in the order submitted.               *)
ExhaustedMeansAll ==
  \A g \in Goals : outcome[g] = "exhausted" =>
      PlansOf(g) = [n \in 1..GroupCount[g] |-> Stream!PlanOf(g, n)]

(* A goal's iterator gives only plans of that goal, each planned from the  *)
(* end of the group before it, and never goes back to an earlier group.    *)
OwnPlansForward ==
  \A g \in Goals : LET plans == PlansOf(g) IN
    /\ \A i \in DOMAIN plans : plans[i] = Stream!PlanOf(g, plans[i].group)
    /\ \A i, j \in DOMAIN plans : i < j => plans[i].group < plans[j].group

(* Whatever callbacks of an earlier session are still running when a goal  *)
(* is planned, no planned group is ever given to the executor twice.       *)
NoGroupTwice ==
  \A g, h \in Goals : \A i \in DOMAIN PlansOf(g), j \in DOMAIN PlansOf(h) :
      PlansOf(g)[i].goal = PlansOf(h)[j].goal /\ PlansOf(g)[i].group = PlansOf(h)[j].group
         => g = h /\ i = j

(* Once its Event is set, a chain ends within three more steps: it sends   *)
(* at most the request it had already decided to send, and drops the       *)
(* answer (cancel's "pending future callbacks are skipped").               *)
StepsLeft(pc) ==
  CASE pc = "enqueue"                                       -> 3
    [] pc \in {"pop", "putFailure"}                         -> 2
    [] pc \in {"scene", "schedule", "planning", "putStop"}  -> 1
    [] pc = "done"                                          -> 0

CancelledChainWindsDown ==
  [][\A c \in eventSet : planQueue = c /\ chainPc[c] # "unborn" =>
        \/ chainPc'[c] = chainPc[c]
        \/ StepsLeft(chainPc'[c]) < StepsLeft(chainPc[c])]_vars

(* Every session that is started ends, however the callbacks interleave.   *)
SessionsEnd == \A g \in Goals : current = g ~> current # g

(* A cancel() that is past its check of the queue ends the iteration on    *)
(* that queue, even when the planner never answers again.                  *)
DrainEndsIteration ==
  \A g \in Goals, k \in Cancellers :
      cancelPc[k] = "drain" /\ planQueue = g /\ current = g ~> current # g

(* A cancel() takes effect: it stops the chain of callbacks, and the       *)
(* iteration with it (cancel(), "sets the cancel event, drains the queue").*)
CancelTakesEffect == CancelledChainWindsDown /\ DrainEndsIteration

(* Fairness without MoveIt: the planner may never answer.                  *)
SilentPlannerSpec ==
  /\ Init /\ [][Next]_vars
  /\ WF_vars(PlanAll) /\ WF_vars(Iterate)
  /\ \A k \in Cancellers : WF_vars(Cancel(k))
=============================================================================
