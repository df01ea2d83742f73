---------------------- MODULE PlanningCoordinatorProofs ----------------------
(***************************************************************************)
(* What PlanningCoordinator promises, for every set of goals, of groups    *)
(* and of cancel() calls. Without any assumption on the caller: the types, *)
(* and that no planned group is given twice. When plan_all waits for the   *)
(* threads of the session before (QuietStart): a goal is given only its    *)
(* own plans, ascending; a cancelled chain winds down; and a goal that is  *)
(* not cancelled gets the PlanStream, step by step.                        *)
(*                                                                         *)
(* The step theorems are about Init /\ [][Next]_vars, which both Spec and  *)
(* SilentPlannerSpec imply: none of them needs fairness.                   *)
(* The second part is about the node that the coordinator is a part of.    *)
(***************************************************************************)
EXTENDS PlanningCoordinator, SequenceTheorems, TLAPS

(* Every item that a thread can put on a queue is a queue item.            *)
LEMMA ItemTypes ==
  /\ Failure \in QueueItem
  /\ Stop \in QueueItem
  /\ \A answer : \A j \in Job : j.goal \in Goals => Plan(j, answer) \in QueueItem
BY DEF Failure, Stop, QueueItem, PlanItem, Plan, Job

(* Putting an item, where there is a queue to put it in, keeps the queues  *)
(* sequences of items.                                                     *)
LEMMA PutKeepsQueues ==
  ASSUME queue \in [Goals -> Seq(QueueItem)], NEW item \in QueueItem,
         PutIfAny(item)
  PROVE  queue' \in [Goals -> Seq(QueueItem)]
BY DEF PutIfAny

(* The type invariant holds initially and every step keeps it: no          *)
(* interleaving of the caller, the callback chains and cancel() leaves the *)
(* iterating caller without its own queue.                                 *)
LEMMA TypeInit == Init => TypeOK
BY CoordinatorAssumption DEF Init, TypeOK, GoalOrNone, Job, RobotState

LEMMA TypeStep == TypeOK /\ [Next]_vars => TypeOK'
<1> SUFFICES ASSUME TypeOK, [Next]_vars PROVE TypeOK'
  OBVIOUS
<1> USE CoordinatorAssumption DEF GoalOrNone
<1>1. ASSUME NEW g \in Goals, PlanAllEvent(g) PROVE TypeOK'
  BY <1>1 DEF TypeOK, PlanAllEvent, chainVars
<1>2. CASE PlanAllQueue
  BY <1>2 DEF TypeOK, PlanAllQueue, chainVars
<1>3. CASE PlanAllSession
  BY <1>3 DEF TypeOK, PlanAllSession, chainVars
<1>4. CASE PlanAllRequest
  BY <1>4 DEF TypeOK, PlanAllRequest, MoveChain, attributes
<1>5. CASE PlanAllRefuse
  BY <1>5 DEF TypeOK, PlanAllRefuse, chainVars
<1>6. CASE Take
  BY <1>6, SMTT(30) DEF TypeOK, Take, attributes, chainVars
<1>7. CASE Finish
  BY <1>7 DEF TypeOK, Finish, chainVars
<1>8. CASE Resume
  BY <1>8 DEF TypeOK, Resume, attributes, chainVars
<1>9. CASE Abandon
  BY <1>9 DEF TypeOK, Abandon, attributes, chainVars
<1>10. ASSUME NEW c \in Goals, SceneResponse(c) PROVE TypeOK'
  BY <1>10, ZenonT(60) DEF TypeOK, SceneResponse, MoveChain, attributes, callerVars
<1>11. ASSUME NEW c \in Goals, Schedule(c) PROVE TypeOK'
  BY <1>11 DEF TypeOK, Schedule, MoveChain, attributes, callerVars
<1>12. ASSUME NEW c \in Goals, PopGroup(c) PROVE TypeOK'
  <2>1. session \in Goals /\ popped[session] \in Nat
    BY <1>12 DEF TypeOK, PopGroup, HasGroup
  <2>2. popped' \in [Goals -> Nat]
    BY <1>12, <2>1, SMTT(30) DEF TypeOK, PopGroup, GroupTaken, NextGroup
  <2>3. job' \in [Goals -> Job]
    <3>1. job[c].from \in RobotState
      BY DEF TypeOK, Job
    <3>2. [goal |-> session, group |-> NextGroup(session), from |-> job[c].from] \in Job
      BY <2>1, <3>1 DEF Job, NextGroup
    <3>3. QED
      BY <1>12, <3>2 DEF TypeOK, PopGroup
  <2>4. \A d \in Goals : chainPc'[d] \in {"planning", "enqueue"} => job'[d].goal \in Goals
    <3>1. job'[c].goal = session
      BY <1>12 DEF TypeOK, PopGroup
    <3>2. \A d \in Goals : d # c => job'[d] = job[d] /\ chainPc'[d] = chainPc[d]
      BY <1>12 DEF TypeOK, PopGroup, MoveChain
    <3>3. QED
      BY <2>1, <3>1, <3>2 DEF TypeOK
  <2>5. QED
    BY <1>12, <2>2, <2>3, <2>4 DEF TypeOK, PopGroup, MoveChain, attributes, callerVars
<1>13. ASSUME NEW c \in Goals, PopNothing(c) PROVE TypeOK'
  BY <1>13 DEF TypeOK, PopNothing, MoveChain, attributes, callerVars
<1>14. ASSUME NEW c \in Goals, PlanResponse(c) PROVE TypeOK'
  <2>1. reply' \in [Goals -> {"none", "good", "empty", "failed"}]
    BY <1>14 DEF TypeOK, PlanResponse
  <2>2. PICK to \in {"done", "enqueue"} : MoveChain(c, to) /\ chainPc[c] = "planning"
    BY <1>14 DEF PlanResponse
  <2>3. /\ chainPc' \in [Goals -> {"unborn", "scene", "schedule", "pop", "planning",
                                  "enqueue", "putFailure", "putStop", "done"}]
        /\ \A d \in Goals : chainPc'[d] \in {"planning", "enqueue"} =>
                             chainPc[d] \in {"planning", "enqueue"}
    BY <2>2 DEF TypeOK, MoveChain
  <2>4. QED
    BY <1>14, <2>1, <2>3 DEF TypeOK, PlanResponse, attributes, callerVars
<1>15. ASSUME NEW c \in Goals, EnqueueResult(c) PROVE TypeOK'
  <2>1. job[c] \in Job /\ job[c].goal \in Goals
    BY <1>15 DEF TypeOK, EnqueueResult
  <2>2. queue' \in [Goals -> Seq(QueueItem)]
    <3>1. (IF reply[c] = "failed" THEN Failure ELSE Plan(job[c], reply[c])) \in QueueItem
      BY <2>1, ItemTypes
    <3>2. QED
      BY <1>15, <3>1, PutKeepsQueues DEF TypeOK, EnqueueResult
  <2>3. EndState(job[c]) \in RobotState
    BY <2>1 DEF EndState, Job, RobotState
  <2>4. [job[c] EXCEPT !.from = EndState(job[c])] \in Job
    BY <2>1, <2>3 DEF Job
  <2>5. job' \in [Goals -> Job] /\ \A d \in Goals : job'[d].goal = job[d].goal
    <3>1. CASE job' = [job EXCEPT ![c].from = EndState(job[c])]
      <4>1. job' = [job EXCEPT ![c] = [job[c] EXCEPT !.from = EndState(job[c])]]
        BY <3>1 DEF TypeOK
      <4>2. [job[c] EXCEPT !.from = EndState(job[c])].goal = job[c].goal
        BY <2>1 DEF Job
      <4>3. QED
        BY <2>4, <4>1, <4>2 DEF TypeOK
    <3>2. CASE UNCHANGED job
      BY <3>2 DEF TypeOK
    <3>3. QED
      BY <1>15, <3>1, <3>2 DEF EnqueueResult
  <2>6. /\ chainPc' \in [Goals -> {"unborn", "scene", "schedule", "pop", "planning",
                                  "enqueue", "putFailure", "putStop", "done"}]
        /\ \A d \in Goals : chainPc'[d] \in {"planning", "enqueue"} => chainPc'[d] = chainPc[d]
    <3>1. PICK to \in {"schedule", "putFailure", "putStop"} : MoveChain(c, to)
      BY <1>15 DEF EnqueueResult
    <3>2. QED
      BY <3>1 DEF TypeOK, MoveChain
  <2>7. QED
    BY <1>15, <2>2, <2>5, <2>6 DEF TypeOK, EnqueueResult, attributes, callerVars
<1>16. ASSUME NEW c \in Goals, PutFailure(c) \/ PutStop(c) PROVE TypeOK'
  <2>1. queue' \in [Goals -> Seq(QueueItem)]
    BY <1>16, ItemTypes, PutKeepsQueues DEF TypeOK, PutFailure, PutStop
  <2>2. PICK to \in {"putStop", "done"} : MoveChain(c, to)
    BY <1>16 DEF PutFailure, PutStop
  <2>3. /\ chainPc' \in [Goals -> {"unborn", "scene", "schedule", "pop", "planning",
                                  "enqueue", "putFailure", "putStop", "done"}]
        /\ \A d \in Goals : chainPc'[d] \in {"planning", "enqueue"} => chainPc'[d] = chainPc[d]
    BY <2>2 DEF TypeOK, MoveChain
  <2>4. QED
    BY <1>16, <2>1, <2>3 DEF TypeOK, PutFailure, PutStop, attributes, callerVars
<1>17. ASSUME NEW k \in Cancellers, CancelBegin(k) \/ CancelSet(k) \/ CancelCheck(k)
       PROVE  TypeOK'
  <2>1. PICK to \in {"set", "check", "drain", "returned", "raised"} : MoveCancel(k, to)
    BY <1>17 DEF CancelBegin, CancelSet, CancelCheck
  <2>2. cancelPc' \in [Cancellers -> {"unborn", "set", "check", "drain", "putFailure",
                                     "putStop", "returned", "raised"}]
    BY <2>1 DEF TypeOK, MoveCancel
  <2>3. eventSet' \subseteq Goals
    BY <1>17 DEF TypeOK, CancelBegin, CancelSet, CancelCheck
  <2>4. QED
    BY <1>17, <2>2, <2>3 DEF TypeOK, CancelBegin, CancelSet, CancelCheck, attributes,
                             chainVars, callerVars
<1>18. ASSUME NEW k \in Cancellers,
              CancelDrain(k) \/ CancelPutFailure(k) \/ CancelPutStop(k)
       PROVE  TypeOK'
  <2>1. queue' \in [Goals -> Seq(QueueItem)]
    <3>1. CASE CancelDrain(k)
      BY <3>1 DEF TypeOK, CancelDrain
    <3>2. CASE CancelPutFailure(k)
      BY <3>2, ItemTypes, PutKeepsQueues DEF TypeOK, CancelPutFailure
    <3>3. CASE CancelPutStop(k)
      BY <3>3, ItemTypes, PutKeepsQueues DEF TypeOK, CancelPutStop
    <3>4. QED
      BY <1>18, <3>1, <3>2, <3>3
  <2>2. PICK at, next \in {"drain", "putFailure", "putStop", "returned"} :
           CancelUse(k, at, next)
    BY <1>18 DEF CancelDrain, CancelPutFailure, CancelPutStop
  <2>3. cancelPc' \in [Cancellers -> {"unborn", "set", "check", "drain", "putFailure",
                                     "putStop", "returned", "raised"}]
    BY <2>2 DEF TypeOK, CancelUse, MoveCancel
  <2>4. QED
    BY <2>1, <2>2, <2>3 DEF TypeOK, CancelUse, attributes, chainVars, callerVars
<1>19. CASE UNCHANGED vars
  BY <1>19 DEF TypeOK, vars, attributes, chainVars, callerVars
<1>20. QED
  BY <1>1, <1>2, <1>3, <1>4, <1>5, <1>6, <1>7, <1>8, <1>9, <1>10, <1>11, <1>12,
     <1>13, <1>14, <1>15, <1>16, <1>17, <1>18, <1>19
     DEF Next, PlanAll, Iterate, Chain, Cancel

(* No interleaving of the caller, the callback chains and cancel() leaves  *)
(* the iterating caller without its own queue or a chain without a group.  *)
THEOREM TypeCorrect == Spec => []TypeOK
BY TypeInit, TypeStep, PTL DEF Spec

-----------------------------------------------------------------------------
(* What g's iterator has given, followed by what waits in its queue: taking*)
(* a result moves it from the one to the other and leaves this as it is.   *)
Given(g) == yielded[g] \o queue[g]

PlansIn(s) == {i \in 1..Len(s) : IsPlan(s[i])}
PlansAt(g) == PlansIn(Given(g))

(* The plans in s are plans of t, in their order.                          *)
Thinned(s, t) ==
  \E f \in [PlansIn(s) -> PlansIn(t)] :
     /\ \A i \in PlansIn(s) : s[i] = t[f[i]]
     /\ \A i, j \in PlansIn(s) : i < j => f[i] < f[j]

LEMMA ConcatItems ==
  ASSUME NEW S, NEW y \in Seq(S), NEW q \in Seq(S)
  PROVE  /\ y \o q \in Seq(S)
         /\ Len(y \o q) = Len(y) + Len(q)
         /\ Len(y \o q) \in Nat /\ Len(y) \in Nat /\ Len(q) \in Nat
         /\ \A i \in 1..Len(y) : (y \o q)[i] = y[i]
         /\ \A i \in 1..Len(q) : (y \o q)[Len(y) + i] = q[i]
OBVIOUS

LEMMA GivenType ==
  ASSUME TypeOK, NEW g \in Goals
  PROVE  /\ Given(g) \in Seq(QueueItem)
         /\ Len(Given(g)) = Len(yielded[g]) + Len(queue[g])
         /\ Len(Given(g)) \in Nat /\ Len(yielded[g]) \in Nat /\ Len(queue[g]) \in Nat
         /\ \A i \in 1..Len(yielded[g]) : Given(g)[i] = yielded[g][i]
         /\ \A i \in 1..Len(queue[g]) : Given(g)[Len(yielded[g]) + i] = queue[g][i]
<1>1. yielded[g] \in Seq(QueueItem) /\ queue[g] \in Seq(QueueItem)
  BY DEF TypeOK
<1> DEFINE y == yielded[g]
           q == queue[g]
<1>2. y \in Seq(QueueItem) /\ q \in Seq(QueueItem) /\ Given(g) = y \o q
  BY <1>1 DEF Given
<1> HIDE DEF y, q
<1>3. /\ y \o q \in Seq(QueueItem)
      /\ Len(y \o q) = Len(y) + Len(q)
      /\ Len(y \o q) \in Nat /\ Len(y) \in Nat /\ Len(q) \in Nat
      /\ \A i \in 1..Len(y) : (y \o q)[i] = y[i]
      /\ \A i \in 1..Len(q) : (y \o q)[Len(y) + i] = q[i]
  BY <1>2, ConcatItems
<1>4. QED
  BY <1>2, <1>3, Zenon DEF y, q

(* An item of a queue is a plan, a failure or the sentinel.                *)
LEMMA ItemKinds ==
  ASSUME NEW item \in QueueItem
  PROVE  /\ IsPlan(item) => item \in PlanItem
         /\ ~IsPlan(item) => item = Failure \/ item = Stop
         /\ item = Failure \/ item = Stop => ~IsPlan(item)
         /\ Failure # Stop
BY DEF QueueItem, PlanItem, Failure, Stop, IsPlan

LEMMA TakeMoves ==
  ASSUME NEW S, NEW y \in Seq(S), NEW q \in Seq(S), q # <<>>
  PROVE  Append(y, Head(q)) \o Tail(q) = y \o q
<1>1. Append(y, Head(q)) = y \o <<Head(q)>>
  BY AppendIsConcat, HeadTailProperties
<1>2. q = <<Head(q)>> \o Tail(q)
  BY ConcatProperties, HeadTailProperties, SeqEqual
<1>3. <<Head(q)>> \in Seq(S) /\ Tail(q) \in Seq(S)
  BY HeadTailProperties
<1>4. QED
  BY <1>1, <1>2, <1>3, ConcatAssociative

LEMMA PutAppends ==
  ASSUME NEW S, NEW y \in Seq(S), NEW q \in Seq(S), NEW e \in S
  PROVE  y \o Append(q, e) = Append(y \o q, e)
<1>1. Append(q, e) = q \o <<e>> /\ Append(y \o q, e) = (y \o q) \o <<e>>
  BY AppendIsConcat, ConcatProperties
<1>2. QED
  BY <1>1, ConcatAssociative

LEMMA ThinnedSame ==
  ASSUME NEW S, NEW t \in Seq(S)
  PROVE  Thinned(t, t)
<1> DEFINE f == [i \in PlansIn(t) |-> i]
<1>1. f \in [PlansIn(t) -> PlansIn(t)]
  OBVIOUS
<1>2. \A i \in PlansIn(t) : t[i] = t[f[i]]
  OBVIOUS
<1>3. \A i, j \in PlansIn(t) : i < j => f[i] < f[j]
  OBVIOUS
<1>4. QED
  BY <1>1, <1>2, <1>3 DEF Thinned

LEMMA ThinnedAppend ==
  ASSUME NEW S, NEW t \in Seq(S), NEW e \in S, ~IsPlan(e)
  PROVE  Thinned(Append(t, e), t)
<1> DEFINE s == Append(t, e)
           f == [i \in PlansIn(s) |-> i]
<1>1. /\ Len(s) = Len(t) + 1 /\ Len(t) \in Nat
      /\ s[Len(t) + 1] = e /\ \A i \in 1..Len(t) : s[i] = t[i]
  BY AppendProperties
<1> HIDE DEF s
<1>2. \A i \in PlansIn(s) : i \in 1..Len(t) /\ i \in PlansIn(t) /\ s[i] = t[i]
  BY <1>1 DEF PlansIn
<1>3. f \in [PlansIn(s) -> PlansIn(t)] /\ \A i \in PlansIn(s) : f[i] = i
  BY <1>2
<1> HIDE DEF f
<1>4. Thinned(s, t)
  BY <1>2, <1>3 DEF Thinned
<1>5. QED
  BY <1>4 DEF s

LEMMA ThinnedFront ==
  ASSUME NEW S, NEW y \in Seq(S), NEW q \in Seq(S)
  PROVE  Thinned(y, y \o q)
<1> DEFINE t == y \o q
           f == [i \in PlansIn(y) |-> i]
<1>1. /\ Len(t) = Len(y) + Len(q) /\ Len(y) \in Nat /\ Len(q) \in Nat
      /\ \A i \in 1..Len(y) : t[i] = y[i]
  BY ConcatItems
<1> HIDE DEF t
<1>2. \A i \in PlansIn(y) : i \in PlansIn(t) /\ y[i] = t[i] /\ i \in Nat
  BY <1>1 DEF PlansIn
<1>3. f \in [PlansIn(y) -> PlansIn(t)] /\ \A i \in PlansIn(y) : f[i] = i
  BY <1>2
<1> HIDE DEF f
<1>4. Thinned(y, t)
  BY <1>2, <1>3 DEF Thinned
<1>5. QED
  BY <1>4 DEF t

LEMMA ThinnedTail ==
  ASSUME NEW S, NEW y \in Seq(S), NEW q \in Seq(S), q # <<>>
  PROVE  Thinned(y \o Tail(q), y \o q)
<1> DEFINE s == y \o Tail(q)
           t == y \o q
           f == [i \in PlansIn(s) |-> IF i <= Len(y) THEN i ELSE i + 1]
<1>1. /\ Tail(q) \in Seq(S) /\ Len(Tail(q)) = Len(q) - 1
      /\ \A i \in 1..Len(Tail(q)) : Tail(q)[i] = q[i + 1]
  BY HeadTailProperties
<1>2. /\ Len(t) = Len(y) + Len(q) /\ Len(y) \in Nat /\ Len(q) \in Nat
      /\ \A i \in 1..Len(y) : t[i] = y[i]
      /\ \A i \in 1..Len(q) : t[Len(y) + i] = q[i]
  BY ConcatItems
<1>3. /\ Len(s) = Len(y) + Len(Tail(q))
      /\ \A i \in 1..Len(y) : s[i] = y[i]
      /\ \A i \in 1..Len(Tail(q)) : s[Len(y) + i] = Tail(q)[i]
  BY <1>1, ConcatItems
<1> HIDE DEF s, t
<1>4. ASSUME NEW i \in 1..Len(s), i <= Len(y)
      PROVE  i \in 1..Len(t) /\ s[i] = t[i]
  BY <1>1, <1>2, <1>3, <1>4
<1>5. ASSUME NEW i \in 1..Len(s), ~(i <= Len(y))
      PROVE  i + 1 \in 1..Len(t) /\ s[i] = t[i + 1]
  <2> DEFINE k == i - Len(y)
  <2>1. k \in 1..Len(Tail(q)) /\ k + 1 \in 1..Len(q) /\ i = Len(y) + k
        /\ i + 1 = Len(y) + (k + 1)
    BY <1>1, <1>2, <1>3, <1>5
  <2> HIDE DEF k
  <2>2. s[i] = Tail(q)[k] /\ Tail(q)[k] = q[k + 1] /\ t[i + 1] = q[k + 1]
    BY <1>1, <1>2, <1>3, <2>1
  <2>3. QED
    BY <1>1, <1>2, <1>3, <1>5, <2>1, <2>2
<1>6. \A i \in PlansIn(s) : /\ i \in 1..Len(s)
                            /\ f[i] = IF i <= Len(y) THEN i ELSE i + 1
                            /\ f[i] \in PlansIn(t) /\ s[i] = t[f[i]]
  BY <1>4, <1>5 DEF PlansIn
<1>7. f \in [PlansIn(s) -> PlansIn(t)]
  BY <1>6
<1> HIDE DEF f
<1>8. \A i, j \in PlansIn(s) : i < j => f[i] < f[j]
  BY <1>2, <1>6
<1>9. Thinned(s, t)
  BY <1>6, <1>7, <1>8 DEF Thinned
<1>10. QED
  BY <1>9 DEF s, t

(* No plan is given or enqueued that was not there, or that is out of order.*)
NoNewPlan == \A g \in Goals : Thinned(Given(g)', Given(g))

(* What the steps do to what is given: nothing, taking a result included,  *)
LEMMA GivenKept ==
  ASSUME UNCHANGED <<queue, yielded>>, NEW g \in Goals
  PROVE  Given(g)' = Given(g)
BY DEF Given

LEMMA GivenTaken ==
  ASSUME TypeOK, Take, NEW g \in Goals
  PROVE  Given(g)' = Given(g)
<1>1. /\ current \in Goals /\ planQueue = current
      /\ queue \in [Goals -> Seq(QueueItem)] /\ yielded \in [Goals -> Seq(QueueItem)]
  BY DEF TypeOK, Take, GoalOrNone
<1>2. CASE g = current
  <2> DEFINE y == yielded[g]
             q == queue[g]
  <2>1. y \in Seq(QueueItem) /\ q \in Seq(QueueItem) /\ q # <<>>
    BY <1>1, <1>2 DEF Take
  <2>2. yielded'[g] = Append(y, Head(q)) /\ queue'[g] = Tail(q)
    BY <1>1, <1>2 DEF Take
  <2>3. Given(g)' = Append(y, Head(q)) \o Tail(q) /\ Given(g) = y \o q
    BY <2>2 DEF Given
  <2> HIDE DEF y, q
  <2>4. QED
    BY <2>1, <2>3, TakeMoves
<1>3. CASE g # current
  <2>1. yielded'[g] = yielded[g] /\ queue'[g] = queue[g]
    BY <1>1, <1>3 DEF Take
  <2>2. QED
    BY <2>1 DEF Given
<1>4. QED
  BY <1>2, <1>3

(* another item at the end of the present queue,                           *)
LEMMA GivenPut ==
  ASSUME TypeOK, NEW item \in QueueItem, PutIfAny(item), UNCHANGED yielded,
         NEW g \in Goals
  PROVE  Given(g)' = IF g = planQueue THEN Append(Given(g), item) ELSE Given(g)
<1> DEFINE y == yielded[g]
           q == queue[g]
<1>1. y \in Seq(QueueItem) /\ q \in Seq(QueueItem)
  BY DEF TypeOK
<1>2. Given(g) = y \o q /\ yielded'[g] = y
  BY DEF Given
<1>3. queue'[g] = IF g = planQueue THEN Append(q, item) ELSE q
  BY DEF PutIfAny
<1>4. Given(g)' = y \o (IF g = planQueue THEN Append(q, item) ELSE q)
  BY <1>2, <1>3 DEF Given
<1> HIDE DEF y, q
<1>5. CASE g = planQueue
  <2>1. Given(g)' = y \o Append(q, item)
    BY <1>4, <1>5
  <2>2. QED
    BY <1>1, <1>2, <1>5, <2>1, PutAppends
<1>6. CASE g # planQueue
  BY <1>2, <1>4, <1>6
<1>7. QED
  BY <1>5, <1>6

LEMMA PutNoPlan ==
  ASSUME TypeOK, NEW item \in QueueItem, ~IsPlan(item), PutIfAny(item), UNCHANGED yielded
  PROVE  NoNewPlan
<1> SUFFICES ASSUME NEW g \in Goals PROVE Thinned(Given(g)', Given(g))
  BY DEF NoNewPlan
<1>1. Given(g) \in Seq(QueueItem)
  BY GivenType
<1>2. CASE g = planQueue
  <2>1. Given(g)' = Append(Given(g), item)
    BY <1>2, GivenPut
  <2>2. QED
    BY <1>1, <2>1, ThinnedAppend
<1>3. CASE g # planQueue
  <2>1. Given(g)' = Given(g)
    BY <1>3, GivenPut
  <2>2. QED
    BY <1>1, <2>1, ThinnedSame
<1>4. QED
  BY <1>2, <1>3

LEMMA KeptNoPlan ==
  ASSUME TypeOK, \A g \in Goals : Given(g)' = Given(g)
  PROVE  NoNewPlan
BY GivenType, ThinnedSame DEF NoNewPlan

(* the sentinel gone, or the whole queue.                                  *)
LEMMA FinishNoPlan ==
  ASSUME TypeOK, Finish
  PROVE  NoNewPlan
<1> SUFFICES ASSUME NEW g \in Goals PROVE Thinned(Given(g)', Given(g))
  BY DEF NoNewPlan
<1> DEFINE y == yielded[g]
           q == queue[g]
<1>1. y \in Seq(QueueItem) /\ q \in Seq(QueueItem) /\ Given(g) = y \o q
  BY DEF TypeOK, Given
<1>2. CASE g = planQueue
  <2>1. q # <<>> /\ queue'[g] = Tail(q) /\ yielded'[g] = y
    BY <1>2 DEF Finish, TypeOK
  <2>2. Given(g)' = y \o Tail(q)
    BY <2>1 DEF Given
  <2> HIDE DEF y, q
  <2>3. QED
    BY <1>1, <2>1, <2>2, ThinnedTail
<1>3. CASE g # planQueue
  <2>1. queue'[g] = q /\ yielded'[g] = y
    BY <1>3 DEF Finish, TypeOK
  <2>2. Given(g)' = Given(g)
    BY <2>1 DEF Given
  <2>3. QED
    BY <2>2, GivenType, ThinnedSame
<1>4. QED
  BY <1>2, <1>3

LEMMA DrainNoPlan ==
  ASSUME TypeOK, NEW k \in Cancellers, CancelDrain(k)
  PROVE  NoNewPlan
<1> SUFFICES ASSUME NEW g \in Goals PROVE Thinned(Given(g)', Given(g))
  BY DEF NoNewPlan
<1> DEFINE y == yielded[g]
           q == queue[g]
<1>1. y \in Seq(QueueItem) /\ q \in Seq(QueueItem) /\ Given(g) = y \o q
  BY DEF TypeOK, Given
<1>2. yielded'[g] = y /\ queue'[g] = IF g = planQueue THEN <<>> ELSE q
  BY DEF CancelDrain, CancelUse, callerVars
<1>3. CASE g = planQueue
  <2>1. Given(g)' = y \o <<>>
    BY <1>2, <1>3 DEF Given
  <2> HIDE DEF y, q
  <2>2. Given(g)' = y
    BY <1>1, <2>1, ConcatEmptySeq
  <2>3. QED
    BY <1>1, <2>2, ThinnedFront
<1>4. CASE g # planQueue
  <2>1. Given(g)' = Given(g)
    BY <1>2, <1>4 DEF Given
  <2>2. QED
    BY <2>1, GivenType, ThinnedSame
<1>5. QED
  BY <1>3, <1>4

-----------------------------------------------------------------------------
(* No group twice. The planned groups are those of the plans given, those  *)
(* waiting in a queue and those a chain has asked a planner for: they are  *)
(* all different, and all were popped from their session. A group popped   *)
(* next is therefore a new one, whichever session it is popped from.       *)
Asked(c) == chainPc[c] \in {"planning", "enqueue"}

SameGroup(a, b) == a.goal = b.goal /\ a.group = b.group

GivenPopped ==
  \A g \in Goals : \A i \in PlansAt(g) :
     Given(g)[i].group <= popped[Given(g)[i].goal]

GivenOnce ==
  \A g, h \in Goals : \A i \in PlansAt(g), j \in PlansAt(h) :
     SameGroup(Given(g)[i], Given(h)[j]) => g = h /\ i = j

NotAskedAgain ==
  \A g, c \in Goals : \A i \in PlansAt(g) :
     Asked(c) => ~SameGroup(Given(g)[i], job[c])

AskedPopped == \A c \in Goals : Asked(c) => job[c].group <= popped[job[c].goal]

AskedOnce ==
  \A c, d \in Goals : Asked(c) /\ Asked(d) /\ SameGroup(job[c], job[d]) => c = d

OnceInv == GivenPopped /\ GivenOnce /\ NotAskedAgain /\ AskedPopped /\ AskedOnce

(* Nothing new is asked for.                                               *)
NothingAsked ==
  \A c \in Goals : Asked(c)' => /\ Asked(c)
                                /\ job'[c].goal = job[c].goal
                                /\ job'[c].group = job[c].group

LEMMA PlanTypes ==
  ASSUME TypeOK, NEW g \in Goals
  PROVE  /\ \A i \in PlansAt(g) : Given(g)[i] \in PlanItem /\ i \in Nat
         /\ PlansAt(g) \subseteq 1..Len(Given(g))
<1>1. Given(g) \in Seq(QueueItem) /\ Len(Given(g)) \in Nat
  BY GivenType
<1> DEFINE t == Given(g)
<1>2. \A i \in 1..Len(t) : t[i] \in QueueItem
  <2>1. t \in Seq(QueueItem)
    BY <1>1
  <2> HIDE DEF t
  <2>2. QED
    BY <2>1
<1>3. QED
  BY <1>1, <1>2, ItemKinds DEF PlansAt, PlansIn

LEMMA OnceKept ==
  ASSUME TypeOK, OnceInv, NoNewPlan, popped' = popped, NothingAsked
  PROVE  OnceInv'
<1> DEFINE From(g, f) ==
             /\ f \in [PlansAt(g)' -> PlansAt(g)]
             /\ \A i \in PlansAt(g)' : Given(g)'[i] = Given(g)[f[i]]
             /\ \A i, j \in PlansAt(g)' : i < j => f[i] < f[j]
<1>1. \A g \in Goals : \E f : From(g, f)
  BY DEF NoNewPlan, Thinned, PlansAt
<1>2. \A g \in Goals : PlansAt(g)' \subseteq Nat
  BY DEF PlansAt, PlansIn
<1> DEFINE F(g) == CHOOSE f : From(g, f)
<1>3. ASSUME NEW g \in Goals, NEW i \in PlansAt(g)'
      PROVE  /\ F(g)[i] \in PlansAt(g) /\ Given(g)'[i] = Given(g)[F(g)[i]]
             /\ \A j \in PlansAt(g)' : i < j => F(g)[i] < F(g)[j]
  <2>1. From(g, F(g))
    BY <1>1, Zenon
  <2> HIDE DEF F
  <2>2. QED
    BY <2>1
<1> HIDE DEF F, From
<1>4. GivenPopped'
  BY <1>3 DEF OnceInv, GivenPopped
<1>5. GivenOnce'
  <2> SUFFICES ASSUME NEW g \in Goals, NEW h \in Goals,
                      NEW i \in PlansAt(g)', NEW j \in PlansAt(h)',
                      SameGroup(Given(g)'[i], Given(h)'[j])
               PROVE  g = h /\ i = j
    BY DEF GivenOnce, SameGroup
  <2>1. F(g)[i] \in PlansAt(g) /\ F(h)[j] \in PlansAt(h)
        /\ SameGroup(Given(g)[F(g)[i]], Given(h)[F(h)[j]])
    BY <1>3
  <2>2. g = h /\ F(g)[i] = F(h)[j]
    BY <2>1 DEF OnceInv, GivenOnce
  <2>3. F(g)[i] \in Nat /\ i \in Nat /\ j \in Nat
    BY <1>2, <2>1, PlanTypes
  <2>4. ~(i < j) /\ ~(j < i)
    BY <1>3, <2>2, <2>3
  <2>5. QED
    BY <2>2, <2>3, <2>4
<1>6. NotAskedAgain'
  <2> SUFFICES ASSUME NEW g \in Goals, NEW c \in Goals, NEW i \in PlansAt(g)', Asked(c)',
                      SameGroup(Given(g)'[i], job'[c])
               PROVE  FALSE
    BY DEF NotAskedAgain, SameGroup
  <2>1. Asked(c) /\ SameGroup(Given(g)[F(g)[i]], job[c]) /\ F(g)[i] \in PlansAt(g)
    BY <1>3 DEF NothingAsked, SameGroup
  <2>2. QED
    BY <2>1 DEF OnceInv, NotAskedAgain
<1>7. AskedPopped' /\ AskedOnce'
  BY DEF OnceInv, AskedPopped, AskedOnce, NothingAsked, SameGroup
<1>8. QED
  BY <1>4, <1>5, <1>6, <1>7 DEF OnceInv

(* A plan put on a queue is the last of the plans there.                    *)
LEMMA PlanAppended ==
  ASSUME TypeOK, NEW item \in QueueItem, IsPlan(item), NEW p \in Goals,
         Given(p)' = Append(Given(p), item)
  PROVE  LET n == Len(Given(p)) + 1
         IN  /\ PlansAt(p)' = PlansAt(p) \cup {n} /\ n \notin PlansAt(p)
             /\ Given(p)'[n] = item
             /\ \A i \in PlansAt(p) : Given(p)'[i] = Given(p)[i]
             /\ \A i \in PlansAt(p) : i < n
<1> DEFINE t == Given(p)
           s == Given(p)'
           n == Len(Given(p)) + 1
<1>1. t \in Seq(QueueItem) /\ s = Append(t, item) /\ n = Len(t) + 1
  BY GivenType
<1> HIDE DEF t, s, n
<1>2. /\ Len(t) \in Nat /\ Len(s) = n
      /\ s[n] = item /\ \A i \in 1..Len(t) : s[i] = t[i]
  BY <1>1, AppendProperties
<1>3. PlansIn(s) = PlansIn(t) \cup {n} /\ n \notin PlansIn(t)
  BY <1>1, <1>2 DEF PlansIn
<1>4. \A i \in PlansIn(t) : s[i] = t[i] /\ i < n
  BY <1>1, <1>2 DEF PlansIn
<1>5. QED
  BY <1>2, <1>3, <1>4 DEF t, s, n, PlansAt

(* The result of a chain joins the plans given; the chain asks no more.    *)
LEMMA OnceEnqueued ==
  ASSUME TypeOK, OnceInv, NEW c \in Goals, EnqueueResult(c)
  PROVE  OnceInv'
<1> DEFINE item == IF reply[c] = "failed" THEN Failure ELSE Plan(job[c], reply[c])
<1>1. Asked(c) /\ job[c] \in Job /\ job[c].goal \in Goals
  BY DEF EnqueueResult, Asked, TypeOK
<1>2. item \in QueueItem
  BY <1>1, ItemTypes
<1>3. PutIfAny(item) /\ UNCHANGED <<yielded, popped>>
  BY DEF EnqueueResult, callerVars
<1>4. \A g \in Goals :
         Given(g)' = IF g = planQueue THEN Append(Given(g), item) ELSE Given(g)
  BY <1>2, <1>3, GivenPut
<1>5. /\ ~Asked(c)'
      /\ \A d \in Goals : d # c => (Asked(d)' <=> Asked(d)) /\ job'[d] = job[d]
  <2>1. PICK to \in {"schedule", "putFailure", "putStop"} : MoveChain(c, to)
    BY DEF EnqueueResult
  <2>2. \A d \in Goals : d # c => job'[d] = job[d]
    BY DEF EnqueueResult, TypeOK
  <2>3. QED
    BY <2>1, <2>2 DEF MoveChain, Asked, TypeOK
<1>6. NothingAsked
  BY <1>5 DEF NothingAsked
<1>7. CASE planQueue = NoGoal \/ ~IsPlan(item)
  <2>1. NoNewPlan
    <3>1. CASE planQueue = NoGoal
      BY <1>4, <3>1, CoordinatorAssumption, KeptNoPlan
    <3>2. CASE ~IsPlan(item)
      <4> HIDE DEF item
      <4>1. QED
        BY <1>2, <1>3, <3>2, PutNoPlan
    <3>3. QED
      BY <1>7, <3>1, <3>2
  <2>2. QED
    BY <1>3, <1>6, <2>1, OnceKept
<1>8. CASE planQueue # NoGoal /\ IsPlan(item)
  <2>1. PICK p \in Goals : p = planQueue
    BY <1>8 DEF TypeOK, GoalOrNone
  <2>2. item.goal = job[c].goal /\ item.group = job[c].group
    BY <1>8 DEF Plan, Failure, IsPlan
  <2> DEFINE n == Len(Given(p)) + 1
  <2> HIDE DEF item
  <2>3. /\ PlansAt(p)' = PlansAt(p) \cup {n} /\ n \notin PlansAt(p)
        /\ Given(p)'[n] = item
        /\ \A i \in PlansAt(p) : Given(p)'[i] = Given(p)[i]
    BY <1>2, <1>4, <1>8, <2>1, PlanAppended
  <2>4. \A g \in Goals : g # p => PlansAt(g)' = PlansAt(g) /\ Given(g)' = Given(g)
    BY <1>4, <2>1 DEF PlansAt
  <2>5. \A g \in Goals : \A i \in PlansAt(g)' :
           \/ i \in PlansAt(g) /\ Given(g)'[i] = Given(g)[i] /\ ~(g = p /\ i = n)
           \/ g = p /\ i = n /\ Given(g)'[i] = item
    BY <2>3, <2>4
  <2> HIDE DEF n
  <2>6. GivenPopped'
    BY <1>1, <1>3, <2>2, <2>5 DEF GivenPopped, OnceInv, AskedPopped
  <2>7. GivenOnce'
    <3> SUFFICES ASSUME NEW g \in Goals, NEW h \in Goals,
                        NEW i \in PlansAt(g)', NEW j \in PlansAt(h)',
                        SameGroup(Given(g)'[i], Given(h)'[j])
                 PROVE  g = h /\ i = j
      BY DEF GivenOnce, SameGroup
    <3>1. \A f \in Goals : \A k \in PlansAt(f) : ~SameGroup(Given(f)[k], item)
      BY <1>1, <2>2 DEF OnceInv, NotAskedAgain, SameGroup
    <3>2. \A a, b : SameGroup(a, b) => SameGroup(b, a)
      BY DEF SameGroup
    <3>3. QED
      BY <2>5, <3>1, <3>2 DEF OnceInv, GivenOnce
  <2>8. NotAskedAgain'
    <3> SUFFICES ASSUME NEW g \in Goals, NEW d \in Goals, NEW i \in PlansAt(g)', Asked(d)',
                        SameGroup(Given(g)'[i], job'[d])
                 PROVE  FALSE
      BY DEF NotAskedAgain, SameGroup
    <3>1. d # c /\ Asked(d) /\ job'[d] = job[d]
      BY <1>5
    <3>2. ~SameGroup(job[c], job[d])
      BY <1>1, <3>1 DEF OnceInv, AskedOnce
    <3>3. QED
      BY <2>2, <2>5, <3>1, <3>2 DEF OnceInv, NotAskedAgain, SameGroup
  <2>9. AskedPopped' /\ AskedOnce'
    BY <1>3, <1>6 DEF OnceInv, AskedPopped, AskedOnce, NothingAsked, SameGroup
  <2>10. QED
    BY <2>6, <2>7, <2>8, <2>9 DEF OnceInv
<1>9. QED
  BY <1>7, <1>8

(* A popped group is a new one.                                            *)
LEMMA OncePopped ==
  ASSUME TypeOK, OnceInv, NEW c \in Goals, PopGroup(c)
  PROVE  OnceInv'
<1> DEFINE new == popped[session] + 1
<1>1. session \in Goals /\ popped[session] \in Nat
  BY DEF PopGroup, HasGroup, TypeOK, GoalOrNone
<1>2. /\ UNCHANGED <<queue, yielded>>
      /\ \A g \in Goals : popped'[g] = IF g = session THEN new ELSE popped[g]
  BY DEF PopGroup, callerVars, GroupTaken, NextGroup, TypeOK
<1>3. /\ ~Asked(c) /\ job'[c].goal = session /\ job'[c].group = new
      /\ \A d \in Goals : d # c => (Asked(d)' <=> Asked(d)) /\ job'[d] = job[d]
  BY DEF PopGroup, MoveChain, NextGroup, Asked, TypeOK
<1>4. \A g \in Goals : Given(g)' = Given(g) /\ PlansAt(g)' = PlansAt(g)
  BY <1>2 DEF Given, PlansAt
<1>5. \A g \in Goals : popped[g] \in Nat /\ popped'[g] \in Nat /\ popped[g] <= popped'[g]
  <2>1. \A g \in Goals : popped[g] \in Nat
    BY DEF TypeOK
  <2>2. QED
    BY <1>1, <1>2, <2>1
<1>6. \A a \in PlanItem \cup Job :
        a.goal \in Goals /\ a.group <= popped[a.goal] =>
           /\ a.group <= popped'[a.goal]
           /\ ~(a.goal = session /\ a.group = new)
  <2> SUFFICES ASSUME NEW a \in PlanItem \cup Job, a.goal \in Goals,
                      a.group <= popped[a.goal]
               PROVE  a.group <= popped'[a.goal] /\ ~(a.goal = session /\ a.group = new)
    OBVIOUS
  <2>1. a.group \in Nat
    BY DEF PlanItem, Job
  <2>2. QED
    BY <1>1, <1>2, <1>5, <2>1
<1> HIDE DEF new
<1>7. \A g \in Goals : \A i \in PlansAt(g) :
         /\ Given(g)[i] \in PlanItem /\ Given(g)[i].goal \in Goals
         /\ Given(g)[i].group <= popped[Given(g)[i].goal]
  BY PlanTypes DEF OnceInv, GivenPopped, PlanItem
<1>8. \A d \in Goals : Asked(d) =>
         /\ job[d] \in Job /\ job[d].goal \in Goals
         /\ job[d].group <= popped[job[d].goal]
  BY DEF OnceInv, AskedPopped, TypeOK, Asked
<1>9. GivenPopped'
  BY <1>4, <1>6, <1>7 DEF GivenPopped
<1>10. GivenOnce'
  BY <1>4 DEF OnceInv, GivenOnce
<1>11. NotAskedAgain'
  <2> SUFFICES ASSUME NEW g \in Goals, NEW d \in Goals, NEW i \in PlansAt(g), Asked(d)',
                      SameGroup(Given(g)[i], job'[d])
               PROVE  FALSE
    BY <1>4 DEF NotAskedAgain, SameGroup
  <2>1. CASE d = c
    BY <1>3, <1>6, <1>7, <2>1 DEF SameGroup
  <2>2. CASE d # c
    BY <1>3, <2>2 DEF OnceInv, NotAskedAgain
  <2>3. QED
    BY <2>1, <2>2
<1>12. AskedPopped'
  <2> SUFFICES ASSUME NEW d \in Goals, Asked(d)' PROVE job'[d].group <= popped'[job'[d].goal]
    BY DEF AskedPopped
  <2>1. CASE d = c
    BY <1>1, <1>2, <1>3, <1>5, <2>1
  <2>2. CASE d # c
    BY <1>3, <1>6, <1>8, <2>2
  <2>3. QED
    BY <2>1, <2>2
<1>13. AskedOnce'
  <2> SUFFICES ASSUME NEW d \in Goals, NEW e \in Goals, Asked(d)', Asked(e)',
                      SameGroup(job'[d], job'[e]), d # e
               PROVE  FALSE
    BY DEF AskedOnce, SameGroup
  <2>1. CASE d # c /\ e # c
    BY <1>3, <2>1 DEF OnceInv, AskedOnce
  <2>2. CASE d = c
    BY <1>3, <1>6, <1>8, <2>2 DEF SameGroup
  <2>3. CASE e = c
    BY <1>3, <1>6, <1>8, <2>3 DEF SameGroup
  <2>4. QED
    BY <2>1, <2>2, <2>3
<1>14. QED
  BY <1>9, <1>10, <1>11, <1>12, <1>13 DEF OnceInv

LEMMA OnceInit == Init => OnceInv
<1> SUFFICES ASSUME Init PROVE OnceInv
  OBVIOUS
<1>1. ASSUME NEW g \in Goals PROVE PlansAt(g) = {}
  <2>1. Given(g) = <<>> \o <<>>
    BY DEF Init, Given
  <2>2. Given(g) = <<>>
    BY <2>1, ConcatEmptySeq, EmptySeq
  <2>3. QED
    BY <2>2, EmptySeq DEF PlansAt, PlansIn
<1>2. \A c \in Goals : ~Asked(c)
  BY DEF Init, Asked
<1>3. QED
  BY <1>1, <1>2 DEF OnceInv, GivenPopped, GivenOnce, NotAskedAgain, AskedPopped, AskedOnce

(* The other steps pop no group, give or enqueue no new plan, and take no   *)
(* chain to a new request; and none back to before its request either, if  *)
(* plan_all starts only chains that were not there.                        *)
Early(c) == chainPc[c] \in {"unborn", "scene", "schedule", "pop"}

NothingEarlier == \A c \in Goals : Early(c)' => Early(c)

LEMMA OtherSteps ==
  ASSUME TypeOK, [Next]_vars,
         ~\E c \in Goals : PopGroup(c) \/ EnqueueResult(c)
  PROVE  /\ NoNewPlan /\ UNCHANGED <<popped, job>> /\ NothingAsked
         /\ (PlanAllRequest => chainPc[current] = "unborn") => NothingEarlier
<1>1. /\ UNCHANGED <<popped, job>> /\ NothingAsked
      /\ (PlanAllRequest => chainPc[current] = "unborn") => NothingEarlier
  <2> DEFINE Later == UNCHANGED <<popped, job>> /\ NothingAsked /\ NothingEarlier
  <2>1. CASE UNCHANGED <<popped, chainPc, job>>
    BY <2>1 DEF NothingAsked, Asked, NothingEarlier, Early
  <2>2. ASSUME NEW c \in Goals, UNCHANGED <<popped, job>>,
               \/ Early(c) /\ MoveChain(c, "scene")
               \/ Early(c) /\ MoveChain(c, "schedule")
               \/ Early(c) /\ MoveChain(c, "pop")
               \/ Asked(c) /\ MoveChain(c, "enqueue")
               \/ MoveChain(c, "putFailure")
               \/ MoveChain(c, "putStop")
               \/ MoveChain(c, "done")
        PROVE  Later
    BY <2>2 DEF NothingAsked, Asked, NothingEarlier, Early, MoveChain, TypeOK
  <2>3. CASE PlanAllRequest
    <3>1. current \in Goals /\ UNCHANGED <<popped, job>> /\ MoveChain(current, "scene")
      BY <2>3 DEF PlanAllRequest, TypeOK, GoalOrNone
    <3>2. NothingAsked
      BY <3>1 DEF NothingAsked, Asked, MoveChain, TypeOK
    <3>3. chainPc[current] = "unborn" => NothingEarlier
      BY <2>2, <3>1 DEF Early
    <3>4. QED
      BY <2>3, <3>1, <3>2, <3>3
  <2>4. ASSUME NEW c \in Goals, Chain(c) PROVE Later
    <3> HIDE DEF Later
    <3>1. CASE SceneResponse(c)
      BY <2>2, <3>1 DEF SceneResponse, Early
    <3>2. CASE Schedule(c)
      BY <2>2, <3>2 DEF Schedule, Early
    <3>3. CASE PopNothing(c)
      BY <2>2, <3>3 DEF PopNothing
    <3>4. CASE PlanResponse(c)
      BY <2>2, <3>4 DEF PlanResponse, Asked
    <3>5. CASE PutFailure(c)
      BY <2>2, <3>5 DEF PutFailure
    <3>6. CASE PutStop(c)
      BY <2>2, <3>6 DEF PutStop
    <3>7. QED
      BY <2>4, <3>1, <3>2, <3>3, <3>4, <3>5, <3>6 DEF Chain
  <2>5. QED
    BY <2>1, <2>3, <2>4
       DEF Next, vars, attributes, chainVars, callerVars, PlanAll, Iterate, Cancel,
           PlanAllEvent, PlanAllQueue, PlanAllSession, PlanAllRefuse, Take, Finish,
           Resume, Abandon, CancelBegin, CancelSet, CancelCheck, CancelDrain,
           CancelPutFailure, CancelPutStop, CancelUse
<1>2. NoNewPlan
  <2>1. CASE UNCHANGED <<queue, yielded>>
    BY <2>1, GivenKept, KeptNoPlan
  <2>2. CASE Take
    BY <2>2, GivenTaken, KeptNoPlan
  <2>3. CASE Finish
    BY <2>3, FinishNoPlan
  <2>4. CASE \E k \in Cancellers : CancelDrain(k)
    BY <2>4, DrainNoPlan
  <2>5. ASSUME NEW item \in {Failure, Stop}, PutIfAny(item), UNCHANGED yielded
        PROVE  NoNewPlan
    BY <2>5, ItemTypes, PutNoPlan, ItemKinds
  <2>6. ASSUME NEW c \in Goals, Chain(c) PROVE NoNewPlan
    BY <2>1, <2>5, <2>6
       DEF Chain, SceneResponse, Schedule, PopNothing, PlanResponse, PutFailure, PutStop,
           callerVars
  <2>7. ASSUME NEW k \in Cancellers, CancelBegin(k) \/ Cancel(k) PROVE NoNewPlan
    BY <2>1, <2>4, <2>5, <2>7
       DEF Cancel, CancelBegin, CancelSet, CancelCheck, CancelPutFailure, CancelPutStop,
           CancelUse, callerVars
  <2>8. QED
    BY <2>1, <2>2, <2>3, <2>6, <2>7
       DEF Next, vars, callerVars, PlanAll, Iterate, PlanAllEvent, PlanAllQueue,
           PlanAllSession, PlanAllRequest, PlanAllRefuse, Resume, Abandon
<1>3. QED
  BY <1>1, <1>2

LEMMA OnceStep == TypeOK /\ OnceInv /\ [Next]_vars => OnceInv'
BY OnceEnqueued, OncePopped, OtherSteps, OnceKept

(* What the iterator gave of the plans in Given: those before a failure.   *)
LEMMA PlansGiven ==
  ASSUME TypeOK, NEW g \in Goals,
         \A i \in 1..Len(yielded[g]) :
            yielded[g][i] # Stop /\ (yielded[g][i] = Failure => i = Len(yielded[g]))
  PROVE  \A i \in DOMAIN PlansOf(g) :
            /\ i \in PlansAt(g)
            /\ PlansOf(g)[i] = [goal  |-> Given(g)[i].goal, group |-> Given(g)[i].group,
                                from  |-> Given(g)[i].from]
<1> DEFINE y == yielded[g]
           n == IF Len(y) > 0 /\ y[Len(y)] = Failure THEN Len(y) - 1 ELSE Len(y)
<1>1. y \in Seq(QueueItem) /\ Len(y) \in Nat
  BY DEF TypeOK
<1>2. PlansOf(g) = [i \in 1..n |-> [goal |-> y[i].goal, group |-> y[i].group,
                                   from |-> y[i].from]]
  BY DEF PlansOf
<1>3. \A i \in 1..Len(y) : y[i] \in QueueItem
  <2>1. y \in Seq(QueueItem)
    BY <1>1
  <2> HIDE DEF y
  <2>2. QED
    BY <2>1
<1>4. \A i \in 1..n : i \in 1..Len(y) /\ y[i] # Failure /\ y[i] # Stop
  <2> HIDE DEF y
  <2>1. \A i \in 1..Len(y) : y[i] # Stop /\ (y[i] = Failure => i = Len(y))
    BY DEF y
  <2>2. QED
    BY <1>1, <2>1
<1>5. \A i \in 1..n : /\ i \in 1..Len(Given(g)) /\ Given(g)[i] = y[i] /\ IsPlan(y[i])
  <2>1. Len(Given(g)) \in Nat /\ Len(Given(g)) = Len(y) + Len(queue[g]) /\ Len(queue[g]) \in Nat
        /\ \A i \in 1..Len(y) : Given(g)[i] = y[i]
    BY GivenType
  <2> HIDE DEF n, y
  <2>2. \A i \in 1..n : i \in 1..Len(Given(g)) /\ Given(g)[i] = y[i]
    BY <1>1, <1>4, <2>1
  <2>3. QED
    BY <1>3, <1>4, <2>2, ItemKinds
<1> HIDE DEF n, y
<1>6. QED
  BY <1>2, <1>5 DEF PlansAt, PlansIn

-----------------------------------------------------------------------------
(* What an iterator gives: never the sentinel, and a failure only last; a  *)
(* goal that is not being iterated yet was given nothing.                  *)
Starting == callerPc \in {"makeQueue", "makeSession", "request"}

FailureLast ==
  \A g \in Goals : \A i \in 1..Len(yielded[g]) :
     /\ yielded[g][i] # Stop
     /\ yielded[g][i] = Failure =>
          i = Len(yielded[g]) /\ ~(callerPc = "iterating" /\ current = g)

NothingYet ==
  \A g \in Goals : outcome[g] = "pending" /\ (current # g \/ Starting) => yielded[g] = <<>>

Pending == \A g \in Goals : current = g => outcome[g] = "pending"

GivesInOrder == FailureLast /\ NothingYet /\ Pending

LEMMA GivesInit == Init => GivesInOrder
BY DEF Init, GivesInOrder, FailureLast, NothingYet, Pending, Starting

LEMMA GivesStep == TypeOK /\ GivesInOrder /\ [Next]_vars => GivesInOrder'
<1> SUFFICES ASSUME TypeOK, GivesInOrder, [Next]_vars PROVE GivesInOrder'
  OBVIOUS
<1> USE CoordinatorAssumption DEF GivesInOrder, FailureLast, NothingYet, Pending, Starting
<1>1. CASE UNCHANGED <<callerPc, current, yielded, outcome>>
  BY <1>1
<1>2. CASE Take
  <2>1. /\ current \in Goals /\ planQueue = current /\ callerPc = "iterating"
        /\ callerPc' = "consuming" /\ UNCHANGED <<current, outcome>>
    BY <1>2 DEF Take, TypeOK, GoalOrNone
  <2> DEFINE y == yielded[current]
             item == Head(queue[current])
  <2>2. y \in Seq(QueueItem) /\ item \in QueueItem /\ item # Stop
    BY <1>2, <2>1, HeadTailProperties DEF Take, TypeOK
  <2>3. \A g \in Goals : yielded'[g] = IF g = current THEN Append(y, item) ELSE yielded[g]
    BY <1>2, <2>1 DEF Take, TypeOK
  <2>4. \A i \in 1..Len(y) : y[i] # Stop /\ y[i] # Failure
    BY <2>1
  <2> HIDE DEF y, item
  <2>5. /\ Len(Append(y, item)) = Len(y) + 1 /\ Len(y) \in Nat
        /\ \A i \in 1..Len(y) : Append(y, item)[i] = y[i]
        /\ Append(y, item)[Len(y) + 1] = item
    BY <2>2, AppendProperties
  <2>6. \A i \in 1..Len(Append(y, item)) :
           /\ Append(y, item)[i] # Stop
           /\ Append(y, item)[i] = Failure => i = Len(Append(y, item))
    BY <2>2, <2>4, <2>5
  <2>7. FailureLast'
    BY <2>1, <2>3, <2>6, ZenonT(60)
  <2>8. NothingYet' /\ Pending'
    BY <2>1, <2>3
  <2>9. QED
    BY <2>7, <2>8
<1>3. CASE Finish
  BY <1>3 DEF Finish, TypeOK
<1>4. CASE Resume
  BY <1>4 DEF Resume, TypeOK, LastYield
<1>5. CASE Abandon
  BY <1>5 DEF Abandon, TypeOK
<1>6. CASE PlanAll
  BY <1>6 DEF PlanAll, PlanAllQueue, PlanAllSession, PlanAllRequest, PlanAllRefuse, TypeOK
<1>7. CASE \E g \in Goals : PlanAllEvent(g)
  BY <1>7 DEF PlanAllEvent, TypeOK
<1>8. QED
  BY <1>1, <1>2, <1>3, <1>4, <1>5, <1>6, <1>7
     DEF Next, vars, callerVars, Iterate, Chain, Cancel, SceneResponse, Schedule, PopGroup,
         PopNothing, PlanResponse, EnqueueResult, PutFailure, PutStop, CancelBegin,
         CancelSet, CancelCheck, CancelDrain, CancelPutFailure, CancelPutStop, CancelUse

LEMMA PlansOfGiven ==
  ASSUME TypeOK, GivesInOrder, NEW g \in Goals
  PROVE  \A i \in DOMAIN PlansOf(g) :
            /\ i \in PlansAt(g)
            /\ PlansOf(g)[i] = [goal  |-> Given(g)[i].goal, group |-> Given(g)[i].group,
                                from  |-> Given(g)[i].from]
BY PlansGiven DEF GivesInOrder, FailureLast

(* Whatever callbacks of an earlier session are still under way when a     *)
(* goal is planned and whenever cancel() is called, no group's plan is     *)
(* given to the executor twice.                                            *)
THEOREM GroupsGivenOnce == Init /\ [][Next]_vars => []NoGroupTwice
<1>1. TypeOK /\ OnceInv /\ GivesInOrder => NoGroupTwice
  BY PlansOfGiven DEF NoGroupTwice, OnceInv, GivenOnce, SameGroup
<1>2. QED
  BY <1>1, TypeInit, TypeStep, OnceInit, OnceStep, GivesInit, GivesStep, PTL

-----------------------------------------------------------------------------
(* One session at a time. When plan_all waits for the threads of the       *)
(* session before, a chain that runs has the three attributes of its own   *)
(* session, or finds them all None.                                        *)
Attached(c) == cancelEvent = c /\ planQueue = c /\ session = c
Detached == cancelEvent = NoGoal /\ planQueue = NoGoal /\ session = NoGoal

ChainsOwnSession == \A c \in Goals : ~ChainAtRest(c) => Attached(c) \/ Detached

StartsAlone == Starting => /\ chainPc[current] = "unborn"
                           /\ \A c \in Goals : ChainAtRest(c)

CallersSession ==
  /\ current # NoGoal => cancelEvent = current
  /\ callerPc \in {"request", "iterating", "consuming"} => session = current

ChainsFollowCaller ==
  \A g \in Goals : outcome[g] = "pending" /\ current # g => chainPc[g] = "unborn"

QuietInv == ChainsOwnSession /\ StartsAlone /\ CallersSession /\ ChainsFollowCaller

(* What a chain does to its own place, and to nobody else's.               *)
ChainMoves(c) ==
  /\ chainPc[c] \in {"scene", "schedule", "pop", "planning", "enqueue", "putFailure",
                     "putStop"}
  /\ \A d \in Goals : d # c => chainPc'[d] = chainPc[d]
  /\ chainPc'[c] # "unborn"

LEMMA ChainStepMoves ==
  ASSUME TypeOK, NEW c \in Goals, Chain(c)
  PROVE  ChainMoves(c) /\ UNCHANGED <<attributes, eventSet, callerVars, cancelPc>>
<1>1. PICK to \in {"done", "schedule", "putFailure", "pop", "planning", "putStop", "enqueue"} :
         MoveChain(c, to)
  BY DEF Chain, SceneResponse, Schedule, PopGroup, PopNothing, PlanResponse,
         EnqueueResult, PutFailure, PutStop
<1>2. chainPc[c] \in {"scene", "schedule", "pop", "planning", "enqueue", "putFailure",
                      "putStop"}
  BY DEF Chain, SceneResponse, Schedule, PopGroup, PopNothing, PlanResponse,
         EnqueueResult, PutFailure, PutStop
<1>3. UNCHANGED <<attributes, eventSet, callerVars, cancelPc>>
  BY DEF Chain, SceneResponse, Schedule, PopGroup, PopNothing, PlanResponse,
         EnqueueResult, PutFailure, PutStop
<1>4. QED
  BY <1>1, <1>2, <1>3 DEF ChainMoves, MoveChain, TypeOK

LEMMA QuietInit == Init => QuietInv
BY CoordinatorAssumption
   DEF Init, QuietInv, ChainsOwnSession, StartsAlone, CallersSession, ChainsFollowCaller,
       ChainAtRest, Starting

LEMMA QuietStep == QuietStart /\ TypeOK /\ QuietInv /\ [Next]_vars => QuietInv'
<1> SUFFICES ASSUME QuietStart, TypeOK, QuietInv, [Next]_vars PROVE QuietInv'
  OBVIOUS
<1> USE CoordinatorAssumption DEF QuietInv, ChainsOwnSession, StartsAlone, CallersSession,
        ChainsFollowCaller, ChainAtRest, Starting, Attached, Detached
<1>1. CASE UNCHANGED <<attributes, chainPc, callerPc, current, outcome>>
  BY <1>1 DEF attributes
<1>2. ASSUME NEW g \in Goals, PlanAllEvent(g) PROVE QuietInv'
  BY <1>2 DEF PlanAllEvent, TypeOK, chainVars
<1>3. CASE PlanAllQueue \/ PlanAllSession \/ PlanAllRefuse
  BY <1>3, ZenonT(60) DEF PlanAllQueue, PlanAllSession, PlanAllRefuse, TypeOK, chainVars, GoalOrNone
<1>4. CASE PlanAllRequest
  <2>1. current \in Goals /\ Attached(current)
    BY <1>4 DEF PlanAllRequest, TypeOK, GoalOrNone
  <2>2. QED
    BY <1>4, <2>1 DEF PlanAllRequest, MoveChain, attributes, TypeOK
<1>5. CASE Take \/ Resume
  BY <1>5 DEF Take, Resume, attributes, chainVars
<1>6. CASE Finish \/ Abandon
  <2>1. /\ callerPc' = "idle" /\ current' = NoGoal /\ UNCHANGED chainPc
        /\ UNCHANGED attributes \/ Detached'
    BY <1>6 DEF Finish, Abandon, chainVars
  <2>2. /\ current \in Goals
        /\ \A g \in Goals : outcome'[g] = "pending" => outcome[g] = "pending" /\ g # current
    BY <1>6 DEF Finish, Abandon, TypeOK, GoalOrNone
  <2>3. QED
    BY <2>1, <2>2 DEF attributes
<1>7. ASSUME NEW c \in Goals, Chain(c) PROVE QuietInv'
  BY <1>7, ChainStepMoves DEF ChainMoves, attributes, callerVars
<1>8. ASSUME NEW k \in Cancellers, CancelBegin(k) \/ Cancel(k) PROVE QuietInv'
  BY <1>1, <1>8 DEF Cancel, CancelBegin, CancelSet, CancelCheck, CancelDrain,
                    CancelPutFailure, CancelPutStop, CancelUse, chainVars, callerVars
<1>9. QED
  BY <1>1, <1>2, <1>3, <1>4, <1>5, <1>6, <1>7, <1>8
     DEF Next, vars, PlanAll, Iterate, chainVars, callerVars

(* When plan_all waits for the threads of the session before, a chain      *)
(* whose Event is set sends at most the request it had already decided to  *)
(* send, drops the answer and ends (cancel's "pending future callbacks are *)
(* skipped").                                                              *)
LEMMA CancelledStep ==
  TypeOK /\ QuietInv /\ [Next]_vars =>
    \A c \in eventSet : planQueue = c /\ chainPc[c] # "unborn" =>
        \/ chainPc'[c] = chainPc[c]
        \/ StepsLeft(chainPc'[c]) < StepsLeft(chainPc[c])
<1> SUFFICES ASSUME TypeOK, QuietInv, [Next]_vars, NEW c \in eventSet,
                    planQueue = c, chainPc[c] # "unborn", chainPc'[c] # chainPc[c]
             PROVE  StepsLeft(chainPc'[c]) < StepsLeft(chainPc[c])
  OBVIOUS
<1>1. c \in Goals
  BY DEF TypeOK
<1>2. Chain(c)
  <2>1. ~PlanAllRequest
    BY <1>1 DEF PlanAllRequest, MoveChain, TypeOK, QuietInv, StartsAlone, Starting
  <2>2. PICK d \in Goals : Chain(d)
    BY <2>1 DEF Next, vars, PlanAll, Iterate, chainVars, Cancel, PlanAllEvent, PlanAllQueue,
                PlanAllSession, PlanAllRefuse, Take, Finish, Resume, Abandon, CancelBegin,
                CancelSet, CancelCheck, CancelDrain, CancelPutFailure, CancelPutStop,
                CancelUse
  <2>3. d = c
    BY <1>1, <2>2, ChainStepMoves DEF ChainMoves
  <2>4. QED
    BY <2>2, <2>3
<1>3. Cancelled
  BY <1>1, <1>2, ChainStepMoves, CoordinatorAssumption
     DEF ChainMoves, QuietInv, ChainsOwnSession, ChainAtRest, Attached, Detached, Cancelled
<1>4. \A to : MoveChain(c, to) => chainPc'[c] = to
  BY <1>1 DEF MoveChain, TypeOK
<1> USE DEF StepsLeft
<1>5. CASE SceneResponse(c)
  BY <1>3, <1>4, <1>5 DEF SceneResponse
<1>6. CASE Schedule(c)
  BY <1>3, <1>4, <1>6 DEF Schedule
<1>7. CASE PopGroup(c) \/ PopNothing(c)
  BY <1>4, <1>7 DEF PopGroup, PopNothing
<1>8. CASE PlanResponse(c)
  BY <1>3, <1>4, <1>8 DEF PlanResponse
<1>9. CASE EnqueueResult(c)
  BY <1>4, <1>9 DEF EnqueueResult
<1>10. CASE PutFailure(c) \/ PutStop(c)
  BY <1>4, <1>10 DEF PutFailure, PutStop
<1>11. QED
  BY <1>2, <1>5, <1>6, <1>7, <1>8, <1>9, <1>10 DEF Chain

(* A chain of callbacks whose Event was set only comes nearer to its end,  *)
(* by the checks of cancel_event in the callbacks: it sends at most the    *)
(* request it had already decided to send.                                 *)
THEOREM CancelledChainsEnd ==
  QuietStart => (Init /\ [][Next]_vars => CancelledChainWindsDown)
<1> SUFFICES ASSUME QuietStart PROVE Init /\ [][Next]_vars => CancelledChainWindsDown
  OBVIOUS
<1>1. Init => TypeOK /\ QuietInv
  BY TypeInit, QuietInit
<1>2. TypeOK /\ QuietInv /\ [Next]_vars => (TypeOK /\ QuietInv)'
  BY TypeStep, QuietStep
<1>3. TypeOK /\ QuietInv /\ [Next]_vars =>
        [\A c \in eventSet : planQueue = c /\ chainPc[c] # "unborn" =>
            \/ chainPc'[c] = chainPc[c]
            \/ StepsLeft(chainPc'[c]) < StepsLeft(chainPc[c])]_vars
  BY CancelledStep
<1>4. QED
  BY <1>1, <1>2, <1>3, PTL DEF CancelledChainWindsDown

-----------------------------------------------------------------------------
(* A session's own plans. While one session runs at a time, every plan     *)
(* given or waiting in a goal's queue is a plan of that goal, from the end *)
(* of the group before, and the groups ascend; a chain that has asked a    *)
(* planner asked for the group it popped last, and one that has not will   *)
(* ask from where the last popped group ends.                              *)
Answered(c) == IF Asked(c) THEN popped[c] - 1 ELSE popped[c]

OwnGiven ==
  \A g \in Goals : \A i \in PlansAt(g) :
     /\ Given(g)[i].goal = g
     /\ Given(g)[i].from = <<g, Given(g)[i].group - 1>>
     /\ Given(g)[i].group <= Answered(g)

GivenForward ==
  \A g \in Goals : \A i, j \in PlansAt(g) :
     i < j => Given(g)[i].group < Given(g)[j].group

OwnAsked ==
  \A c \in Goals : Asked(c) =>
     job[c] = [goal |-> c, group |-> popped[c], from |-> <<c, popped[c] - 1>>]

OwnNext == \A c \in Goals : Early(c) => job[c].from = <<c, popped[c]>>

OwnInv == OwnGiven /\ GivenForward /\ OwnAsked /\ OwnNext

LEMMA OwnInit == Init => OwnInv
<1> SUFFICES ASSUME Init PROVE OwnInv
  OBVIOUS
<1>1. ASSUME NEW g \in Goals PROVE PlansAt(g) = {}
  <2>1. Given(g) = <<>> \o <<>>
    BY DEF Init, Given
  <2>2. Given(g) = <<>>
    BY <2>1, ConcatEmptySeq, EmptySeq
  <2>3. QED
    BY <2>2, EmptySeq DEF PlansAt, PlansIn
<1>2. \A c \in Goals : ~Asked(c) /\ job[c].from = <<c, popped[c]>>
  BY DEF Init, Asked
<1>3. QED
  BY <1>1, <1>2 DEF OwnInv, OwnGiven, GivenForward, OwnAsked, OwnNext

(* The plans given stay the goal's own, in order, when no new one is put   *)
(* there and no answer is awaited anew.                                    *)
LEMMA OwnGivenKept ==
  ASSUME TypeOK, OwnInv, NoNewPlan,
         \A g \in Goals : Answered(g) <= Answered(g)' /\ Answered(g)' \in Int
  PROVE  OwnGiven' /\ GivenForward'
<1> SUFFICES ASSUME NEW g \in Goals
             PROVE  /\ \A i \in PlansAt(g)' :
                         /\ Given(g)'[i].goal = g
                         /\ Given(g)'[i].from = <<g, Given(g)'[i].group - 1>>
                         /\ Given(g)'[i].group <= Answered(g)'
                    /\ \A i, j \in PlansAt(g)' :
                         i < j => Given(g)'[i].group < Given(g)'[j].group
  BY DEF OwnGiven, GivenForward
<1>1. PICK f \in [PlansAt(g)' -> PlansAt(g)] :
         /\ \A i \in PlansAt(g)' : Given(g)'[i] = Given(g)[f[i]]
         /\ \A i, j \in PlansAt(g)' : i < j => f[i] < f[j]
  BY DEF NoNewPlan, Thinned, PlansAt
<1>2. \A i \in PlansAt(g) : /\ Given(g)[i].goal = g
                            /\ Given(g)[i].from = <<g, Given(g)[i].group - 1>>
                            /\ Given(g)[i].group <= Answered(g)
                            /\ Given(g)[i].group \in Nat
  BY PlanTypes DEF OwnInv, OwnGiven, PlanItem
<1>3. Answered(g) \in Int
  BY DEF Answered, TypeOK
<1>4. \A i \in PlansAt(g) : Given(g)[i].group <= Answered(g)'
  BY <1>2, <1>3
<1>5. \A i, j \in PlansAt(g) : i < j => Given(g)[i].group < Given(g)[j].group
  BY DEF OwnInv, GivenForward
<1>6. QED
  BY <1>1, <1>2, <1>4, <1>5

LEMMA OwnPopped ==
  ASSUME TypeOK, QuietInv, OwnInv, NEW c \in Goals, PopGroup(c)
  PROVE  OwnInv'
<1>1. session = c /\ popped[c] \in Nat
  BY CoordinatorAssumption
     DEF PopGroup, HasGroup, QuietInv, ChainsOwnSession, ChainAtRest, Attached, Detached,
         TypeOK
<1>2. /\ \A g \in Goals : popped'[g] = IF g = c THEN popped[c] + 1 ELSE popped[g]
      /\ job'[c] = [goal |-> c, group |-> popped[c] + 1, from |-> job[c].from]
      /\ \A d \in Goals : d # c => job'[d] = job[d] /\ chainPc'[d] = chainPc[d]
      /\ chainPc[c] = "pop" /\ chainPc'[c] = "planning"
      /\ UNCHANGED <<queue, yielded>>
  BY <1>1 DEF PopGroup, MoveChain, GroupTaken, NextGroup, callerVars, TypeOK
<1>3. \A g \in Goals : Answered(g)' = Answered(g) /\ Answered(g) \in Int
  <2>1. \A g \in Goals : popped[g] \in Nat
    BY DEF TypeOK
  <2>2. QED
    BY <1>1, <1>2, <2>1 DEF Answered, Asked
<1>4. OwnGiven' /\ GivenForward'
  BY <1>2, <1>3, GivenKept, KeptNoPlan, OwnGivenKept
<1>5. job[c].from = <<c, popped[c]>>
  BY <1>2 DEF OwnInv, OwnNext, Early
<1>6. OwnAsked'
  <2> SUFFICES ASSUME NEW d \in Goals, Asked(d)'
               PROVE  job'[d] = [goal |-> d, group |-> popped'[d], from |-> <<d, popped'[d] - 1>>]
    BY DEF OwnAsked
  <2>1. CASE d = c
    <3>1. popped'[d] = popped[c] + 1 /\ popped'[d] - 1 = popped[c]
      BY <1>1, <1>2, <2>1
    <3>2. QED
      BY <1>2, <1>5, <2>1, <3>1
  <2>2. CASE d # c
    BY <1>2, <2>2 DEF OwnInv, OwnAsked, Asked
  <2>3. QED
    BY <2>1, <2>2
<1>7. OwnNext'
  BY <1>2 DEF OwnInv, OwnNext, Early
<1>8. QED
  BY <1>4, <1>6, <1>7 DEF OwnInv

LEMMA OwnEnqueued ==
  ASSUME TypeOK, QuietInv, OwnInv, NEW c \in Goals, EnqueueResult(c)
  PROVE  OwnInv'
<1> DEFINE item == IF reply[c] = "failed" THEN Failure ELSE Plan(job[c], reply[c])
<1>1. /\ Asked(c) /\ popped[c] \in Nat
      /\ job[c] = [goal |-> c, group |-> popped[c], from |-> <<c, popped[c] - 1>>]
      /\ job[c] \in Job /\ job[c].goal = c
      /\ planQueue \in {c, NoGoal}
  <2>1. Asked(c)
    BY DEF EnqueueResult, Asked
  <2>2. job[c] = [goal |-> c, group |-> popped[c], from |-> <<c, popped[c] - 1>>]
    BY <2>1 DEF OwnInv, OwnAsked
  <2>3. popped[c] \in Nat /\ job[c] \in Job
    BY DEF TypeOK
  <2>4. planQueue \in {c, NoGoal}
    BY DEF EnqueueResult, QuietInv, ChainsOwnSession, ChainAtRest, Attached, Detached
  <2>5. job[c].goal = c
    BY <2>2
  <2>6. QED
    BY <2>1, <2>2, <2>3, <2>4, <2>5
<1>2. item \in QueueItem
  BY <1>1, ItemTypes
<1>3. PutIfAny(item) /\ UNCHANGED <<yielded, popped>>
  BY DEF EnqueueResult, callerVars
<1>4. \A g \in Goals :
         Given(g)' = IF g = planQueue THEN Append(Given(g), item) ELSE Given(g)
  BY <1>2, <1>3, GivenPut
<1>5. /\ chainPc[c] = "enqueue" /\ chainPc'[c] \in {"schedule", "putFailure", "putStop"}
      /\ chainPc'[c] = "schedule" => job'[c].from = <<c, popped[c]>>
      /\ \A d \in Goals : d # c => chainPc'[d] = chainPc[d] /\ job'[d] = job[d]
  BY <1>1 DEF EnqueueResult, MoveChain, EndState, TypeOK
<1>6. \A g \in Goals : /\ Answered(g)' = IF g = c THEN popped[c] ELSE Answered(g)
                       /\ Answered(g) \in Int /\ Answered(g)' \in Int
                       /\ Answered(g) <= Answered(g)'
  <2>1. \A g \in Goals : popped[g] \in Nat
    BY DEF TypeOK
  <2>2. QED
    BY <1>1, <1>3, <1>5, <2>1 DEF Answered, Asked
<1>7. OwnAsked' /\ OwnNext'
  BY <1>3, <1>5 DEF OwnInv, OwnAsked, OwnNext, Asked, Early
<1>8. CASE planQueue = NoGoal \/ ~IsPlan(item)
  <2>1. NoNewPlan
    <3>1. CASE planQueue = NoGoal
      BY <1>4, <3>1, CoordinatorAssumption, KeptNoPlan
    <3>2. CASE ~IsPlan(item)
      <4> HIDE DEF item
      <4>1. QED
        BY <1>2, <1>3, <3>2, PutNoPlan
    <3>3. QED
      BY <1>8, <3>1, <3>2
  <2>2. QED
    BY <1>6, <1>7, <2>1, OwnGivenKept DEF OwnInv
<1>9. CASE planQueue # NoGoal /\ IsPlan(item)
  <2> DEFINE n == Len(Given(c)) + 1
  <2>1. item.goal = c /\ item.group = popped[c] /\ item.from = <<c, popped[c] - 1>>
    BY <1>1, <1>9 DEF Plan, Failure, IsPlan
  <2> HIDE DEF item
  <2>2. /\ PlansAt(c)' = PlansAt(c) \cup {n} /\ n \notin PlansAt(c)
        /\ Given(c)'[n] = item
        /\ \A i \in PlansAt(c) : Given(c)'[i] = Given(c)[i] /\ i < n
        /\ n \in Nat
    BY <1>1, <1>2, <1>4, <1>9, PlanAppended, GivenType
  <2>3. \A g \in Goals : g # c => PlansAt(g)' = PlansAt(g) /\ Given(g)' = Given(g)
    BY <1>1, <1>4, <1>9 DEF PlansAt
  <2>4. \A i \in PlansAt(c) : Given(c)[i].group \in Nat /\ Given(c)[i].group < popped[c]
    <3>1. \A i \in PlansAt(c) : Given(c)[i].group \in Nat
      BY PlanTypes DEF PlanItem
    <3>2. Answered(c) = popped[c] - 1
      BY <1>1 DEF Answered
    <3>3. QED
      BY <1>1, <3>1, <3>2 DEF OwnInv, OwnGiven
  <2> HIDE DEF n
  <2>5. OwnGiven'
    BY <1>1, <1>6, <2>1, <2>2, <2>3, <2>4 DEF OwnInv, OwnGiven
  <2>6. GivenForward'
    <3> SUFFICES ASSUME NEW g \in Goals, NEW i \in PlansAt(g)', NEW j \in PlansAt(g)', i < j
                 PROVE  Given(g)'[i].group < Given(g)'[j].group
      BY DEF GivenForward
    <3>1. CASE g # c
      BY <2>3, <3>1 DEF OwnInv, GivenForward
    <3>2. CASE g = c
      <4>1. i \in PlansAt(c)
        <5>1. i # n
          BY <2>2, <3>2, PlanTypes
        <5>2. QED
          BY <2>2, <3>2, <5>1
      <4>2. QED
        BY <2>1, <2>2, <2>4, <3>2, <4>1 DEF OwnInv, GivenForward
    <3>3. QED
      BY <3>1, <3>2
  <2>7. QED
    BY <1>7, <2>5, <2>6 DEF OwnInv
<1>10. QED
  BY <1>8, <1>9

LEMMA OwnStep == QuietStart /\ TypeOK /\ QuietInv /\ OwnInv /\ [Next]_vars => OwnInv'
<1> SUFFICES ASSUME QuietStart, TypeOK, QuietInv, OwnInv, [Next]_vars PROVE OwnInv'
  OBVIOUS
<1>1. CASE \E c \in Goals : PopGroup(c) \/ EnqueueResult(c)
  BY <1>1, OwnPopped, OwnEnqueued
<1>2. CASE ~\E c \in Goals : PopGroup(c) \/ EnqueueResult(c)
  <2>1. PlanAllRequest => chainPc[current] = "unborn"
    BY DEF PlanAllRequest, QuietInv, StartsAlone, Starting
  <2>2. NoNewPlan /\ UNCHANGED <<popped, job>> /\ NothingAsked /\ NothingEarlier
    BY <1>2, <2>1, OtherSteps
  <2>3. \A g \in Goals : Answered(g) <= Answered(g)' /\ Answered(g)' \in Int
    <3>1. \A g \in Goals : popped[g] \in Nat
      BY DEF TypeOK
    <3>2. QED
      BY <2>2, <3>1 DEF Answered, NothingAsked
  <2>4. OwnGiven' /\ GivenForward'
    BY <2>2, <2>3, OwnGivenKept
  <2>5. OwnAsked' /\ OwnNext'
    BY <2>2 DEF OwnInv, OwnAsked, OwnNext, NothingAsked, NothingEarlier
  <2>6. QED
    BY <2>4, <2>5 DEF OwnInv
<1>3. QED
  BY <1>1, <1>2

(* When plan_all waits for the threads of the session before, a goal's     *)
(* iterator gives only plans of that goal, each planned from the end of    *)
(* the group before it, and never goes back to an earlier group.           *)
THEOREM OwnPlans == QuietStart => (Init /\ [][Next]_vars => []OwnPlansForward)
<1> SUFFICES ASSUME QuietStart PROVE Init /\ [][Next]_vars => []OwnPlansForward
  OBVIOUS
<1> DEFINE Inv == TypeOK /\ GivesInOrder /\ QuietInv /\ OwnInv
<1>1. Init => Inv
  BY TypeInit, GivesInit, QuietInit, OwnInit
<1>2. Inv /\ [Next]_vars => Inv'
  BY TypeStep, GivesStep, QuietStep, OwnStep
<1>3. Inv => OwnPlansForward
  <2> SUFFICES ASSUME Inv, NEW g \in Goals
               PROVE  /\ \A i \in DOMAIN PlansOf(g) :
                           PlansOf(g)[i] = Stream!PlanOf(g, PlansOf(g)[i].group)
                      /\ \A i, j \in DOMAIN PlansOf(g) :
                           i < j => PlansOf(g)[i].group < PlansOf(g)[j].group
    BY DEF OwnPlansForward
  <2>1. \A i \in DOMAIN PlansOf(g) :
           /\ i \in PlansAt(g)
           /\ PlansOf(g)[i] = [goal  |-> Given(g)[i].goal, group |-> Given(g)[i].group,
                               from  |-> Given(g)[i].from]
    BY PlansOfGiven
  <2>2. ASSUME NEW i \in DOMAIN PlansOf(g)
        PROVE  PlansOf(g)[i] = Stream!PlanOf(g, PlansOf(g)[i].group)
    <3>1. /\ Given(g)[i].goal = g
          /\ Given(g)[i].from = <<g, Given(g)[i].group - 1>>
      BY <2>1 DEF OwnInv, OwnGiven
    <3>2. PlansOf(g)[i].group = Given(g)[i].group
      BY <2>1
    <3>3. QED
      BY <2>1, <3>1, <3>2 DEF Stream!PlanOf
  <2>3. ASSUME NEW i \in DOMAIN PlansOf(g), NEW j \in DOMAIN PlansOf(g), i < j
        PROVE  PlansOf(g)[i].group < PlansOf(g)[j].group
    <3>1. Given(g)[i].group < Given(g)[j].group
      BY <2>1, <2>3 DEF OwnInv, GivenForward
    <3>2. /\ PlansOf(g)[i].group = Given(g)[i].group
          /\ PlansOf(g)[j].group = Given(g)[j].group
      BY <2>1
    <3>3. QED
      BY <3>1, <3>2
  <2>4. QED
    BY <2>2, <2>3
<1>4. QED
  BY <1>1, <1>2, <1>3, PTL

-----------------------------------------------------------------------------
(* A goal that is not cancelled gets every group, in order. While one      *)
(* session runs at a time, a cancel() past its first step finds an Event   *)
(* that is set, and _plan_queue is the queue of the goal being served or   *)
(* of one that has ended ...                                               *)
QueueIsCurrent ==
  planQueue # NoGoal => planQueue = current \/ outcome[planQueue] # "pending"

CancelsAreSet ==
  \A k \in Cancellers :
     cancelPc[k] \in {"check", "drain", "putFailure", "putStop"} =>
        cancelEvent \in eventSet \cup {NoGoal}

CancelInv == QueueIsCurrent /\ CancelsAreSet

(* ... so that what is given to a goal that is not cancelled is put there  *)
(* by its own chain alone: the groups 1, 2, ... that the planner answered, *)
(* possibly a failure, and the sentinel.                                   *)
PlansTo(s, n) == \A i \in 1..n : IsPlan(s[i]) /\ s[i].group = i

Uncancelled(g) == outcome[g] = "pending" /\ g \notin eventSet

EndsWell(s, n, total) ==
  \/ n = total /\ PlansTo(s, n)
  \/ n > 0 /\ s[n] = Failure /\ n - 1 <= total /\ PlansTo(s, n - 1)

Shape(g) ==
  LET s == Given(g)
      n == Len(Given(g))
  IN  /\ chainPc[g] = "unborn" => n = 0 /\ popped[g] = 0
      /\ chainPc[g] \in {"scene", "schedule", "pop", "planning", "enqueue", "putFailure"} =>
            n = Answered(g) /\ PlansTo(s, n)
      /\ chainPc[g] = "putStop" => EndsWell(s, n, GroupCount[g])
      /\ chainPc[g] = "done" => n > 0 /\ s[n] = Stop /\ EndsWell(s, n - 1, GroupCount[g])

PoppedCounted == \A g \in Goals : popped[g] <= GroupCount[g]

ExactInv == PoppedCounted /\ \A g \in Goals : Uncancelled(g) => Shape(g)

LEMMA CancelInit == Init => CancelInv
BY DEF Init, CancelInv, QueueIsCurrent, CancelsAreSet

LEMMA CancelStep == QuietStart /\ TypeOK /\ CancelInv /\ [Next]_vars => CancelInv'
<1> SUFFICES ASSUME QuietStart, TypeOK, CancelInv, [Next]_vars PROVE CancelInv'
  OBVIOUS
<1> USE CoordinatorAssumption DEF CancelInv, QueueIsCurrent, CancelsAreSet
<1>1. CASE UNCHANGED <<cancelEvent, planQueue, eventSet, current, outcome, cancelPc>>
  BY <1>1
<1>2. ASSUME NEW g \in Goals, PlanAllEvent(g) PROVE CancelInv'
  <2>1. current = NoGoal
    BY <1>2 DEF PlanAllEvent, TypeOK
  <2>2. \A k \in Cancellers : cancelPc[k] \in {"unborn", "returned", "raised"}
    BY <1>2 DEF PlanAllEvent, CancelAtRest
  <2>3. QED
    BY <1>2, <2>1, <2>2 DEF PlanAllEvent
<1>3. CASE PlanAllQueue \/ PlanAllRefuse \/ Finish
  <2>1. /\ planQueue' = current' \/ planQueue' = NoGoal
        /\ cancelEvent' \in {cancelEvent, NoGoal} /\ UNCHANGED <<eventSet, cancelPc>>
    BY <1>3 DEF PlanAllQueue, PlanAllRefuse, Finish
  <2>2. QED
    BY <2>1
<1>4. CASE Abandon
  <2>1. /\ planQueue = current /\ outcome'[current] # "pending"
        /\ UNCHANGED <<planQueue, cancelEvent, eventSet, cancelPc>>
    BY <1>4 DEF Abandon, TypeOK, GoalOrNone, attributes
  <2>2. QED
    BY <2>1
<1>5. ASSUME NEW k \in Cancellers, CancelBegin(k) PROVE CancelInv'
  BY <1>5 DEF CancelBegin, MoveCancel, TypeOK, GoalOrNone, attributes, callerVars
<1>6. ASSUME NEW k \in Cancellers, CancelSet(k) PROVE CancelInv'
  BY <1>6 DEF CancelSet, MoveCancel, TypeOK, GoalOrNone, attributes, callerVars
<1>7. ASSUME NEW k \in Cancellers,
             CancelCheck(k) \/ CancelDrain(k) \/ CancelPutFailure(k) \/ CancelPutStop(k)
      PROVE  CancelInv'
  <2>1. /\ UNCHANGED <<cancelEvent, planQueue, eventSet, current, outcome>>
        /\ cancelPc[k] \in {"check", "drain", "putFailure", "putStop"}
        /\ \E to : MoveCancel(k, to)
    BY <1>7 DEF CancelCheck, CancelDrain, CancelPutFailure, CancelPutStop, CancelUse,
                attributes, callerVars
  <2>2. QED
    BY <2>1 DEF MoveCancel, TypeOK
<1>8. ASSUME NEW c \in Goals, Chain(c) PROVE CancelInv'
  BY <1>1, <1>8, ChainStepMoves DEF attributes, callerVars
<1>9. QED
  BY <1>1, <1>2, <1>3, <1>4, <1>5, <1>6, <1>7, <1>8
     DEF Next, vars, PlanAll, Iterate, Cancel, attributes, callerVars, PlanAllSession,
         PlanAllRequest, Take, Resume

(* A chain of a goal that is being served and not cancelled has its own    *)
(* attributes, and no cancel() touches that goal's queue.                  *)
LEMMA ServedAttached ==
  ASSUME TypeOK, QuietInv, NEW g \in Goals, outcome[g] = "pending", ~ChainAtRest(g)
  PROVE  current = g /\ Attached(g)
<1>1. current = g
  BY DEF QuietInv, ChainsFollowCaller, ChainAtRest
<1>2. QED
  BY <1>1, CoordinatorAssumption DEF QuietInv, CallersSession, ChainsOwnSession, Detached

LEMMA CancelElsewhere ==
  ASSUME TypeOK, QuietInv, CancelInv, NEW g \in Goals, Uncancelled(g), NEW k \in Cancellers,
         cancelPc[k] \in {"check", "drain", "putFailure", "putStop"}
  PROVE  planQueue # g
BY CoordinatorAssumption
   DEF QuietInv, CallersSession, CancelInv, QueueIsCurrent, CancelsAreSet, Uncancelled

LEMMA ShapeKept ==
  ASSUME NEW g \in Goals, Shape(g), Given(g)' = Given(g), chainPc'[g] = chainPc[g],
         popped'[g] = popped[g]
  PROVE  Shape(g)'
<1>1. Answered(g)' = Answered(g)
  BY DEF Answered, Asked
<1>2. QED
  BY <1>1 DEF Shape

LEMMA ShapeInit == Init => ExactInv
<1> SUFFICES ASSUME Init PROVE ExactInv
  OBVIOUS
<1>1. \A g \in Goals : popped[g] = 0 /\ chainPc[g] = "unborn"
  BY DEF Init
<1>2. ASSUME NEW g \in Goals PROVE Len(Given(g)) = 0
  <2>1. Given(g) = <<>> \o <<>>
    BY DEF Init, Given
  <2>2. QED
    BY <2>1, ConcatEmptySeq, EmptySeq
<1>3. QED
  BY <1>1, <1>2, CoordinatorAssumption DEF ExactInv, PoppedCounted, Shape

(* What is put on the queue while a goal is served follows what was given. *)
LEMMA PutShape ==
  ASSUME TypeOK, NEW g \in Goals, planQueue = g, NEW item \in QueueItem, PutIfAny(item),
         UNCHANGED yielded
  PROVE  LET n == Len(Given(g))
         IN  /\ n \in Nat /\ Len(Given(g)') = n + 1
             /\ Given(g)'[n + 1] = item
             /\ \A i \in 1..n : Given(g)'[i] = Given(g)[i]
             /\ \A m \in 0..n : PlansTo(Given(g), m) => PlansTo(Given(g)', m)
<1> DEFINE t == Given(g)
           s == Given(g)'
<1>1. t \in Seq(QueueItem) /\ s = Append(t, item)
  BY GivenPut, GivenType
<1> HIDE DEF t, s
<1>2. /\ Len(t) \in Nat /\ Len(s) = Len(t) + 1
      /\ s[Len(t) + 1] = item /\ \A i \in 1..Len(t) : s[i] = t[i]
  BY <1>1, AppendProperties
<1>3. \A m \in 0..Len(t) : PlansTo(t, m) => PlansTo(s, m)
  BY <1>2 DEF PlansTo
<1>4. QED
  BY <1>2, <1>3 DEF t, s

(* The steps of the goal's own chain.                                      *)
LEMMA OwnChainShape ==
  ASSUME TypeOK, QuietInv, OwnInv, PoppedCounted, NEW g \in Goals, Uncancelled(g), Shape(g),
         Chain(g)
  PROVE  Shape(g)'
<1> DEFINE n == Len(Given(g))
<1>1. planQueue = g /\ session = g /\ ~Cancelled
  BY ChainStepMoves, ServedAttached
     DEF ChainMoves, ChainAtRest, Attached, Uncancelled, Cancelled
<1>2. \A to : MoveChain(g, to) => chainPc'[g] = to
  BY DEF MoveChain, TypeOK
<1>3. n \in Nat /\ popped[g] \in Nat /\ GroupCount[g] \in Nat
  BY CoordinatorAssumption, GivenType DEF TypeOK
<1>4. ASSUME UNCHANGED <<queue, yielded>>
      PROVE  Given(g)' = Given(g)
  BY <1>4, GivenKept
<1>5. CASE SceneResponse(g) \/ Schedule(g) \/ PlanResponse(g)
  <2>1. /\ Given(g)' = Given(g) /\ popped'[g] = popped[g]
        /\ Asked(g)' <=> Asked(g)
        /\ chainPc[g] \in {"scene", "schedule", "planning"}
        /\ chainPc'[g] \in {"schedule", "putFailure", "pop", "enqueue"}
    BY <1>1, <1>2, <1>4, <1>5
       DEF SceneResponse, Schedule, PlanResponse, callerVars, Asked
  <2>2. QED
    BY <2>1 DEF Shape, Answered
<1>6. CASE PopGroup(g)
  <2>1. /\ Given(g)' = Given(g) /\ popped'[g] = popped[g] + 1
        /\ chainPc[g] = "pop" /\ chainPc'[g] = "planning"
    BY <1>1, <1>2, <1>4, <1>6 DEF PopGroup, callerVars, GroupTaken, NextGroup, TypeOK
  <2>2. Answered(g)' = Answered(g)
    BY <1>3, <2>1 DEF Answered, Asked
  <2>3. QED
    BY <2>1, <2>2 DEF Shape
<1>7. CASE PopNothing(g)
  <2>1. /\ Given(g)' = Given(g) /\ popped'[g] = popped[g]
        /\ chainPc[g] = "pop" /\ chainPc'[g] = "putStop"
        /\ ~(popped[g] < GroupCount[g])
    BY <1>1, <1>2, <1>4, <1>7, CoordinatorAssumption DEF PopNothing, callerVars, HasGroup
  <2>2. n = GroupCount[g] /\ PlansTo(Given(g), n)
    BY <1>3, <2>1 DEF Shape, Answered, Asked, PoppedCounted
  <2>3. QED
    BY <2>1, <2>2 DEF Shape, EndsWell
<1>8. CASE EnqueueResult(g)
  <2> DEFINE item == IF reply[g] = "failed" THEN Failure ELSE Plan(job[g], reply[g])
  <2>1. Asked(g) /\ chainPc[g] = "enqueue"
    BY <1>8 DEF EnqueueResult, Asked
  <2>2. job[g] \in Job /\ job[g].goal = g /\ job[g].group = popped[g]
    <3>1. job[g] = [goal |-> g, group |-> popped[g], from |-> <<g, popped[g] - 1>>]
      BY <2>1 DEF OwnInv, OwnAsked
    <3>2. job[g].goal = g /\ job[g].group = popped[g]
      BY <3>1
    <3>3. QED
      BY <3>2 DEF TypeOK
  <2>3. item \in QueueItem /\ PutIfAny(item) /\ UNCHANGED <<yielded, popped>>
    BY <1>8, <2>2, ItemTypes DEF EnqueueResult, callerVars
  <2>4. n = popped[g] - 1 /\ PlansTo(Given(g), n)
    BY <2>1 DEF Shape, Answered
  <2>5. /\ Len(Given(g)') = n + 1 /\ Given(g)'[n + 1] = item
        /\ PlansTo(Given(g)', n)
    BY <1>1, <1>3, <2>3, <2>4, PutShape
  <2>6. CASE reply[g] = "failed"
    <3>1. chainPc'[g] = "putStop" /\ item = Failure
      BY <1>2, <1>8, <2>6 DEF EnqueueResult
    <3>2. n + 1 > 0 /\ (n + 1) - 1 = n /\ n <= GroupCount[g]
      BY <1>3, <2>4 DEF PoppedCounted
    <3>3. EndsWell(Given(g)', n + 1, GroupCount[g])
      BY <2>5, <3>1, <3>2 DEF EndsWell
    <3>4. QED
      BY <2>5, <3>1, <3>3 DEF Shape
  <2>7. CASE reply[g] # "failed"
    <3>1. chainPc'[g] \in {"schedule", "putFailure"} /\ IsPlan(item) /\ item.group = popped[g]
      BY <1>2, <1>8, <2>2, <2>7 DEF EnqueueResult, IsPlan, Plan
    <3> HIDE DEF item, n
    <3>2. PlansTo(Given(g)', n + 1)
      BY <1>3, <2>4, <2>5, <3>1 DEF PlansTo
    <3>3. Answered(g)' = n + 1
      BY <1>3, <2>3, <2>4, <3>1 DEF Answered, Asked
    <3>4. QED
      BY <2>5, <3>1, <3>2, <3>3 DEF Shape
  <2>8. QED
    BY <2>6, <2>7
<1>9. CASE PutFailure(g)
  <2>1. /\ chainPc[g] = "putFailure" /\ chainPc'[g] = "putStop"
        /\ PutIfAny(Failure) /\ UNCHANGED yielded
    BY <1>2, <1>9 DEF PutFailure, callerVars
  <2>2. n = popped[g] /\ PlansTo(Given(g), n)
    BY <2>1 DEF Shape, Answered, Asked
  <2>3. /\ Len(Given(g)') = n + 1 /\ Given(g)'[n + 1] = Failure
        /\ PlansTo(Given(g)', n)
    BY <1>1, <1>3, <2>1, <2>2, ItemTypes, PutShape
  <2>4. n + 1 > 0 /\ (n + 1) - 1 = n /\ n <= GroupCount[g]
    BY <1>3, <2>2 DEF PoppedCounted
  <2>5. EndsWell(Given(g)', n + 1, GroupCount[g])
    BY <2>3, <2>4 DEF EndsWell
  <2>6. QED
    BY <2>1, <2>3, <2>5 DEF Shape
<1>10. CASE PutStop(g)
  <2>1. /\ chainPc[g] = "putStop" /\ chainPc'[g] = "done"
        /\ PutIfAny(Stop) /\ UNCHANGED yielded
    BY <1>2, <1>10 DEF PutStop, callerVars
  <2>2. EndsWell(Given(g), n, GroupCount[g])
    BY <2>1 DEF Shape
  <2>3. /\ Len(Given(g)') = n + 1 /\ Given(g)'[n + 1] = Stop
        /\ \A i \in 1..n : Given(g)'[i] = Given(g)[i]
        /\ \A m \in 0..n : PlansTo(Given(g), m) => PlansTo(Given(g)', m)
    BY <1>1, <1>3, <2>1, ItemTypes, PutShape
  <2>4. n + 1 > 0 /\ (n + 1) - 1 = n /\ n \in 0..n /\ (n > 0 => n \in 1..n /\ n - 1 \in 0..n)
    BY <1>3
  <2>5. EndsWell(Given(g)', n, GroupCount[g])
    BY <2>2, <2>3, <2>4 DEF EndsWell
  <2>6. QED
    BY <2>1, <2>3, <2>4, <2>5 DEF Shape
<1>11. QED
  BY <1>5, <1>6, <1>7, <1>8, <1>9, <1>10 DEF Chain

(* The steps of everybody else.                                            *)
LEMMA OtherShape ==
  ASSUME TypeOK, QuietInv, CancelInv, [Next]_vars, NEW g \in Goals,
         Uncancelled(g), Uncancelled(g)', Shape(g), ~Chain(g)
  PROVE  Shape(g)'
<1>1. ASSUME UNCHANGED <<queue, yielded, chainPc, popped>> PROVE Shape(g)'
  BY <1>1, GivenKept, ShapeKept
<1>2. CASE PlanAllRequest
  <2>1. /\ current \in Goals /\ UNCHANGED <<queue, yielded, popped>>
        /\ \A c \in Goals : c # current => chainPc'[c] = chainPc[c]
        /\ chainPc[current] = "unborn" /\ chainPc'[current] = "scene"
    BY <1>2 DEF PlanAllRequest, MoveChain, TypeOK, GoalOrNone, QuietInv, StartsAlone,
                Starting
  <2>2. Given(g)' = Given(g) /\ popped'[g] = popped[g]
    BY <2>1, GivenKept
  <2>3. CASE g = current
    BY <2>1, <2>2, <2>3 DEF Shape, Answered, Asked, PlansTo
  <2>4. CASE g # current
    BY <2>1, <2>2, <2>4, ShapeKept
  <2>5. QED
    BY <2>3, <2>4
<1>3. CASE Take
  <2>1. chainPc'[g] = chainPc[g] /\ popped'[g] = popped[g]
    BY <1>3 DEF Take, chainVars
  <2>2. QED
    BY <1>3, <2>1, GivenTaken, ShapeKept
<1>4. CASE Finish
  <2>1. planQueue = current /\ g # current
    BY <1>4 DEF Finish, TypeOK, GoalOrNone, Uncancelled
  <2>2. /\ queue'[g] = queue[g] /\ UNCHANGED <<yielded, chainPc, popped>>
    BY <1>4, <2>1 DEF Finish, TypeOK, chainVars
  <2>3. Given(g)' = Given(g)
    BY <2>2 DEF Given
  <2>4. QED
    BY <2>2, <2>3, ShapeKept
<1>5. ASSUME NEW c \in Goals, Chain(c) PROVE Shape(g)'
  <2>1. c # g /\ ~ChainAtRest(c) /\ chainPc'[g] = chainPc[g] /\ UNCHANGED yielded
    BY <1>5, ChainStepMoves DEF ChainMoves, ChainAtRest, callerVars
  <2>2. planQueue # g /\ session # g
    BY <2>1, CoordinatorAssumption DEF QuietInv, ChainsOwnSession, Attached, Detached
  <2>3. queue'[g] = queue[g]
    BY <1>5, <2>2
       DEF Chain, SceneResponse, Schedule, PopGroup, PopNothing, PlanResponse,
           EnqueueResult, PutFailure, PutStop, PutIfAny, TypeOK
  <2>4. popped'[g] = popped[g]
    BY <1>5, <2>2
       DEF Chain, SceneResponse, Schedule, PopGroup, PopNothing, PlanResponse,
           EnqueueResult, PutFailure, PutStop, GroupTaken, TypeOK
  <2>5. Given(g)' = Given(g)
    BY <2>1, <2>3 DEF Given
  <2>6. QED
    BY <2>1, <2>4, <2>5, ShapeKept
<1>6. ASSUME NEW k \in Cancellers, CancelDrain(k) \/ CancelPutFailure(k) \/ CancelPutStop(k)
      PROVE  Shape(g)'
  <2>1. planQueue # g
    BY <1>6, CancelElsewhere DEF CancelDrain, CancelPutFailure, CancelPutStop, CancelUse
  <2>2. queue'[g] = queue[g] /\ UNCHANGED <<yielded, chainPc, popped>>
    BY <1>6, <2>1 DEF CancelDrain, CancelPutFailure, CancelPutStop, CancelUse, PutIfAny,
                      callerVars, chainVars
  <2>3. Given(g)' = Given(g)
    BY <2>2 DEF Given
  <2>4. QED
    BY <2>2, <2>3, ShapeKept
<1>7. QED
  BY <1>1, <1>2, <1>3, <1>4, <1>5, <1>6
     DEF Next, vars, PlanAll, Iterate, Cancel, chainVars, callerVars, PlanAllEvent,
         PlanAllQueue, PlanAllSession, PlanAllRefuse, Resume, Abandon, CancelBegin,
         CancelSet, CancelCheck

LEMMA EndedStaysEnded ==
  ASSUME TypeOK, [Next]_vars, NEW g \in Goals, Uncancelled(g)'
  PROVE  Uncancelled(g)
<1>1. eventSet \subseteq eventSet'
  BY DEF Next, vars, PlanAll, Iterate, Chain, Cancel, PlanAllEvent, PlanAllQueue,
         PlanAllSession, PlanAllRequest, PlanAllRefuse, Take, Finish, Resume, Abandon,
         SceneResponse, Schedule, PopGroup, PopNothing, PlanResponse, EnqueueResult,
         PutFailure, PutStop, CancelBegin, CancelSet, CancelCheck, CancelDrain,
         CancelPutFailure, CancelPutStop, CancelUse
<1>2. \/ UNCHANGED outcome
      \/ /\ current \in Goals
         /\ \E to \in {"refused", "exhausted", "abandoned"} :
               outcome' = [outcome EXCEPT ![current] = to]
  <2>1. CASE PlanAllRefuse \/ Finish \/ Abandon
    BY <2>1 DEF PlanAllRefuse, Finish, Abandon, TypeOK, GoalOrNone
  <2>2. QED
    BY <2>1 DEF Next, vars, PlanAll, Iterate, Chain, Cancel, PlanAllEvent, PlanAllQueue,
         PlanAllSession, PlanAllRequest, Take, Resume, callerVars,
         SceneResponse, Schedule, PopGroup, PopNothing, PlanResponse, EnqueueResult,
         PutFailure, PutStop, CancelBegin, CancelSet, CancelCheck, CancelDrain,
         CancelPutFailure, CancelPutStop, CancelUse
<1>3. outcome'[g] = "pending" => outcome[g] = "pending"
  BY <1>2 DEF TypeOK
<1>4. QED
  BY <1>1, <1>3 DEF Uncancelled

LEMMA PoppedStep ==
  ASSUME TypeOK, PoppedCounted, [Next]_vars
  PROVE  PoppedCounted'
<1>1. CASE \E c \in Goals : PopGroup(c)
  <2>1. /\ session \in Goals /\ popped[session] < GroupCount[session]
        /\ popped' = [popped EXCEPT ![session] = popped[session] + 1]
    BY <1>1, CoordinatorAssumption
       DEF PopGroup, HasGroup, GroupTaken, NextGroup, TypeOK, GoalOrNone
  <2>2. \A g \in Goals : popped[g] \in Nat /\ GroupCount[g] \in Nat
    BY CoordinatorAssumption DEF TypeOK
  <2>3. \A g \in Goals : popped'[g] = IF g = session THEN popped[session] + 1 ELSE popped[g]
    BY <2>1 DEF TypeOK
  <2>4. QED
    BY <2>1, <2>2, <2>3 DEF PoppedCounted
<1>2. CASE ~\E c \in Goals : PopGroup(c)
  <2>1. popped' = popped
    BY <1>2, OtherSteps DEF EnqueueResult
  <2>2. QED
    BY <2>1 DEF PoppedCounted
<1>3. QED
  BY <1>1, <1>2

LEMMA ExactStep ==
  QuietStart /\ TypeOK /\ QuietInv /\ OwnInv /\ CancelInv /\ ExactInv /\ [Next]_vars
     => ExactInv'
BY OwnChainShape, OtherShape, EndedStaysEnded, PoppedStep DEF ExactInv

-----------------------------------------------------------------------------
(* How what is given ends, after the plans.                                *)
LEMMA ShapeEnds ==
  ASSUME NEW s, NEW n \in Nat, NEW total \in Nat,
         \/ n <= total /\ PlansTo(s, n)
         \/ EndsWell(s, n, total)
         \/ n > 0 /\ s[n] = Stop /\ EndsWell(s, n - 1, total)
  PROVE  \E m \in 0..n :
            /\ m <= total /\ PlansTo(s, m)
            /\ m < n => s[m + 1] = Failure \/ (s[m + 1] = Stop /\ m = total)
<1>1. CASE n <= total /\ PlansTo(s, n)
  BY <1>1
<1>2. CASE n > 0 /\ s[n] = Failure /\ n - 1 <= total /\ PlansTo(s, n - 1)
  <2>1. n - 1 \in 0..n /\ (n - 1) + 1 = n
    BY <1>2
  <2>2. QED
    BY <1>2, <2>1
<1>3. CASE n > 0 /\ s[n] = Stop /\ n - 1 = total /\ PlansTo(s, n - 1)
  <2>1. n - 1 \in 0..n /\ (n - 1) + 1 = n
    BY <1>3
  <2>2. QED
    BY <1>3, <2>1
<1>4. CASE n - 1 > 0 /\ s[n - 1] = Failure /\ (n - 1) - 1 <= total
           /\ PlansTo(s, (n - 1) - 1)
  <2>1. (n - 1) - 1 \in 0..n /\ ((n - 1) - 1) + 1 = n - 1
    BY <1>4
  <2>2. QED
    BY <1>4, <2>1
<1>5. QED
  BY <1>1, <1>2, <1>3, <1>4 DEF EndsWell

(* The stream. Of a goal that is not cancelled the next thing given is the *)
(* plan of the next group, or a failure, or, once all groups were, the end.*)
LEMMA NextGiven ==
  ASSUME TypeOK, GivesInOrder, ExactInv, callerPc = "iterating", current \notin eventSet,
         queue[current] # <<>>
  PROVE  LET k    == Len(yielded[current])
             item == Head(queue[current])
         IN  /\ current \in Goals /\ k \in Nat
             /\ k + 1 \in 1..Len(Given(current)) /\ Given(current)[k + 1] = item
             /\ \A i \in 1..k : yielded[current][i] # Failure /\ yielded[current][i] # Stop
             /\ PlansTo(Given(current), k)
             /\ item \in QueueItem
             /\ IsPlan(item) => item.group = k + 1 /\ k < GroupCount[current]
             /\ item = Stop => k = GroupCount[current]
<1> DEFINE y == yielded[current]
           q == queue[current]
           s == Given(current)
           n == Len(s)
           k == Len(y)
           total == GroupCount[current]
<1>1. current \in Goals /\ Uncancelled(current)
  BY DEF TypeOK, GoalOrNone, GivesInOrder, Pending, Uncancelled
<1>2. /\ n \in Nat /\ k \in Nat /\ Len(q) \in Nat /\ n = k + Len(q)
      /\ \A i \in 1..k : s[i] = y[i]
      /\ \A i \in 1..Len(q) : s[k + i] = q[i]
      /\ total \in Nat
  BY <1>1, GivenType, CoordinatorAssumption
<1>3. y \in Seq(QueueItem) /\ q \in Seq(QueueItem) /\ q # <<>>
  BY <1>1 DEF TypeOK
<1>4. \A i \in 1..k : y[i] # Failure /\ y[i] # Stop
  BY <1>1 DEF GivesInOrder, FailureLast
<1>5. \/ n <= total /\ PlansTo(s, n)
      \/ EndsWell(s, n, total)
      \/ n > 0 /\ s[n] = Stop /\ EndsWell(s, n - 1, total)
  <2>1. Shape(current) /\ popped[current] <= total /\ popped[current] \in Nat
    BY <1>1 DEF ExactInv, PoppedCounted, TypeOK
  <2>2. Answered(current) <= total
    <3> DEFINE p == popped[current]
    <3>1. p \in Nat /\ p <= total /\ total \in Nat /\ Answered(current) \in {p, p - 1}
      BY <1>2, <2>1 DEF Answered
    <3> HIDE DEF p, total
    <3>2. QED
      BY <3>1
  <2>3. CASE chainPc[current] = "unborn"
    <3>1. n = 0 /\ 0 <= total
      BY <1>2, <2>1, <2>3 DEF Shape
    <3>2. QED
      BY <3>1 DEF PlansTo
  <2>4. CASE chainPc[current] # "unborn"
    BY <1>1, <2>1, <2>2, <2>4 DEF Shape, TypeOK
  <2>5. QED
    BY <2>3, <2>4
<1> HIDE DEF y, q, s, n, k, total
<1>6. PICK m \in 0..n : /\ m <= total /\ PlansTo(s, m)
                        /\ m < n => s[m + 1] = Failure \/ (s[m + 1] = Stop /\ m = total)
  BY <1>2, <1>5, ShapeEnds
<1>7. /\ Head(q) \in QueueItem /\ Head(q) = q[1] /\ Len(q) > 0
  BY <1>2, <1>3, EmptySeq, HeadTailProperties
<1>8. k + 1 \in 1..n /\ s[k + 1] = Head(q)
  BY <1>2, <1>7
<1>9. k <= m
  <2> SUFFICES ASSUME k > m PROVE FALSE
    BY <1>2
  <2>1. m + 1 \in 1..k /\ m < n
    BY <1>2
  <2>2. s[m + 1] = y[m + 1] /\ y[m + 1] # Failure /\ y[m + 1] # Stop
    BY <1>2, <1>4, <2>1
  <2>3. QED
    BY <1>6, <2>1, <2>2
<1>10. IsPlan(Head(q)) => Head(q).group = k + 1 /\ k < total
  <2> SUFFICES ASSUME IsPlan(Head(q)) PROVE Head(q).group = k + 1 /\ k < total
    OBVIOUS
  <2>1. k # m
    BY <1>2, <1>6, <1>7, <1>8, ItemKinds
  <2>2. k + 1 \in 1..m /\ k < total
    BY <1>2, <1>6, <1>9, <2>1
  <2>3. QED
    BY <1>6, <1>8, <2>2 DEF PlansTo
<1>11. Head(q) = Stop => k = total
  <2> SUFFICES ASSUME Head(q) = Stop PROVE k = total
    OBVIOUS
  <2>1. ~(k + 1 \in 1..m)
    BY <1>6, <1>7, <1>8, ItemKinds DEF PlansTo
  <2>2. k = m /\ m < n
    BY <1>2, <1>8, <1>9, <2>1
  <2>3. QED
    BY <1>6, <1>7, <1>8, <2>2, ItemKinds
<1>12. PlansTo(s, k)
  BY <1>2, <1>6, <1>9 DEF PlansTo
<1>13. QED
  BY <1>1, <1>2, <1>4, <1>7, <1>8, <1>10, <1>11, <1>12 DEF y, q, s, n, k, total

(* The plans in what an iterator gave.                                     *)
Stripped(item) == [goal |-> item.goal, group |-> item.group, from |-> item.from]

PlansFrom(y) ==
  [i \in 1..(IF Len(y) > 0 /\ y[Len(y)] = Failure THEN Len(y) - 1 ELSE Len(y))
     |-> Stripped(y[i])]

LEMMA PlansFromYielded == \A g \in Goals : PlansOf(g) = PlansFrom(yielded[g])
BY DEF PlansOf, PlansFrom, Stripped

LEMMA AppendAsFunction ==
  ASSUME NEW S, NEW t \in Seq(S), NEW e \in S
  PROVE  Append(t, e) = [i \in 1..(Len(t) + 1) |-> IF i = Len(t) + 1 THEN e ELSE t[i]]
<1> DEFINE n == Len(t)
           f == [i \in 1..(n + 1) |-> IF i = n + 1 THEN e ELSE t[i]]
<1>1. n \in Nat /\ \A i \in 1..n : t[i] \in S
  OBVIOUS
<1>2. f \in Seq(S) /\ Len(f) = n + 1
  <2>1. n + 1 \in Nat /\ f \in [1..(n + 1) -> S]
    BY <1>1
  <2> HIDE DEF f
  <2>2. QED
    BY <2>1
<1>3. Append(t, e) \in Seq(S) /\ Len(Append(t, e)) = n + 1
  BY AppendProperties
<1>4. \A i \in 1..(n + 1) : Append(t, e)[i] = f[i]
  BY <1>1, AppendProperties
<1> HIDE DEF f
<1>5. Append(t, e) = f
  BY <1>2, <1>3, <1>4, SeqEqual
<1>6. QED
  BY <1>5 DEF f

LEMMA PlansFromTaken ==
  ASSUME NEW y \in Seq(QueueItem), NEW item \in QueueItem,
         \A i \in 1..Len(y) : y[i] # Failure
  PROVE  /\ Len(PlansFrom(y)) = Len(y)
         /\ item = Failure => PlansFrom(Append(y, item)) = PlansFrom(y)
         /\ item # Failure =>
              PlansFrom(Append(y, item)) = Append(PlansFrom(y), Stripped(item))
<1> DEFINE n == Len(y)
           z == Append(y, item)
           t == [i \in 1..n |-> Stripped(y[i])]
<1>1. /\ n \in Nat /\ Len(z) = n + 1 /\ z[n + 1] = item
      /\ \A i \in 1..n : z[i] = y[i]
  BY AppendProperties
<1>2. n > 0 => y[n] # Failure
  BY <1>1
<1>3. PlansFrom(y) = t
  BY <1>2 DEF PlansFrom
<1>4. t \in Seq({Stripped(x) : x \in QueueItem}) /\ Len(t) = n
  BY <1>1
<1>5. ASSUME item = Failure PROVE PlansFrom(z) = t
  <2>1. PlansFrom(z) = [i \in 1..((n + 1) - 1) |-> Stripped(z[i])]
    BY <1>1, <1>5 DEF PlansFrom
  <2> HIDE DEF n, z
  <2>2. (n + 1) - 1 = n
    BY <1>1
  <2>3. QED
    BY <1>1, <2>1, <2>2
<1>6. ASSUME item # Failure PROVE PlansFrom(z) = Append(t, Stripped(item))
  <2>1. PlansFrom(z) = [i \in 1..(n + 1) |-> Stripped(z[i])]
    BY <1>1, <1>6 DEF PlansFrom
  <2>2. Append(t, Stripped(item)) =
          [i \in 1..(n + 1) |-> IF i = n + 1 THEN Stripped(item) ELSE t[i]]
    BY <1>1, <1>4, AppendAsFunction
  <2>3. \A i \in 1..(n + 1) : Stripped(z[i]) = IF i = n + 1 THEN Stripped(item) ELSE t[i]
    <3> HIDE DEF z, n
    <3>1. QED
      BY <1>1 DEF t
  <2> HIDE DEF t, n, z
  <2>4. QED
    BY <2>1, <2>2, <2>3
<1>7. QED
  BY <1>3, <1>4, <1>5, <1>6

(* A step that ends or begins no iteration and gives nothing leaves the    *)
(* stream as it is.                                                        *)
LEMMA StreamSame ==
  ASSUME UNCHANGED <<outcome, current, yielded>>
  PROVE  UNCHANGED Stream!streamVars
BY DEF Stream!streamVars, Phase, PlansOf

LEMMA TakeDelivers ==
  ASSUME TypeOK, GivesInOrder, OwnInv, ExactInv, Take, current \notin eventSet
  PROVE  Stream!Deliver(current) \/ UNCHANGED Stream!streamVars
<1> DEFINE g == current
           y == yielded[current]
           item == Head(queue[current])
           k == Len(y)
           D == [h \in Goals |-> PlansOf(h)]
<1>1. /\ callerPc = "iterating" /\ planQueue = g /\ queue[g] # <<>> /\ item # Stop
      /\ UNCHANGED <<outcome, current>>
      /\ yielded' = [yielded EXCEPT ![g] = Append(y, item)]
  BY DEF Take, TypeOK
<1>2. /\ g \in Goals /\ k \in Nat
      /\ k + 1 \in 1..Len(Given(g)) /\ Given(g)[k + 1] = item
      /\ \A i \in 1..k : y[i] # Failure
      /\ item \in QueueItem
      /\ IsPlan(item) => item.group = k + 1 /\ k < GroupCount[g]
  BY <1>1, NextGiven
<1>3. y \in Seq(QueueItem) /\ yielded'[g] = Append(y, item)
      /\ \A h \in Goals : h # g => yielded'[h] = yielded[h]
  BY <1>1, <1>2 DEF TypeOK
<1>4. PlansOf(g) = PlansFrom(y) /\ \A h \in Goals : PlansOf(h) = PlansFrom(yielded[h])
  BY <1>2, PlansFromYielded
<1>5. \A h \in Goals : PlansOf(h)' = PlansFrom(yielded'[h])
  BY DEF PlansOf, PlansFrom, Stripped
<1>6. UNCHANGED [h \in Goals |-> Phase(h)]
  BY <1>1 DEF Phase
<1>7. CASE item = Failure
  <2>1. PlansFrom(Append(y, item)) = PlansFrom(y)
    BY <1>2, <1>3, <1>7, PlansFromTaken
  <2>2. \A h \in Goals : PlansOf(h)' = PlansOf(h)
    BY <1>3, <1>4, <1>5, <2>1
  <2>3. QED
    BY <1>6, <2>2 DEF Stream!streamVars
<1>8. CASE item # Failure
  <2>1. IsPlan(item)
    BY <1>1, <1>2, <1>8, ItemKinds
  <2>2. k + 1 \in PlansAt(g)
    BY <1>2, <2>1 DEF PlansAt, PlansIn
  <2>3. item.goal = g /\ item.group = k + 1 /\ item.from = <<g, item.group - 1>>
    BY <1>2, <2>1, <2>2 DEF OwnInv, OwnGiven
  <2>4. Stripped(item) = Stream!PlanOf(g, k + 1)
    BY <2>3 DEF Stripped, Stream!PlanOf
  <2>5. /\ Len(PlansFrom(y)) = k
        /\ PlansFrom(Append(y, item)) = Append(PlansFrom(y), Stripped(item))
    BY <1>2, <1>3, <1>8, PlansFromTaken
  <2>6. /\ D[g] = PlansFrom(y) /\ Len(D[g]) = k
        /\ D' = [D EXCEPT ![g] = Append(D[g], Stream!PlanOf(g, Len(D[g]) + 1))]
    <3>1. D[g] = PlansFrom(y) /\ Len(D[g]) = k
      BY <1>2, <1>4, <2>5
    <3>2. \A h \in Goals : PlansOf(h)' = IF h = g THEN Append(D[g], Stream!PlanOf(g, Len(D[g]) + 1))
                                         ELSE PlansOf(h)
      BY <1>3, <1>4, <1>5, <2>4, <2>5, <3>1
    <3>3. QED
      BY <1>2, <3>1, <3>2
  <2>7. Phase(g) = "open"
    BY <1>2 DEF Phase, GivesInOrder, Pending
  <2>8. QED
    BY <1>2, <1>6, <2>1, <2>6, <2>7 DEF Stream!Deliver
<1>9. QED
  BY <1>7, <1>8

(* The steps that begin or end an iteration change the phase of one goal.  *)
LEMMA PhaseMoves ==
  ASSUME TypeOK, GivesInOrder, NEW g \in Goals, NEW to,
         UNCHANGED yielded,
         Phase(g)' = to,
         \A h \in Goals : h # g => outcome'[h] = outcome[h] /\ (current' = h <=> current = h)
  PROVE  /\ [h \in Goals |-> Phase(h)]' = [[h \in Goals |-> Phase(h)] EXCEPT ![g] = to]
         /\ UNCHANGED [h \in Goals |-> PlansOf(h)]
<1>1. \A h \in Goals : h # g => Phase(h)' = Phase(h)
  BY DEF Phase
<1>2. \A h \in Goals : PlansOf(h)' = PlansOf(h)
  BY DEF PlansOf
<1>3. QED
  BY <1>1, <1>2, Zenon

LEMMA OpenStep ==
  ASSUME TypeOK, GivesInOrder, NEW g \in Goals, PlanAllEvent(g)
  PROVE  Stream!Open(g)
<1>1. /\ current = NoGoal /\ current' = g /\ outcome[g] = "pending"
      /\ UNCHANGED <<outcome, yielded>>
  BY DEF PlanAllEvent, TypeOK
<1>2. Phase(g) = "unopened" /\ Phase(g)' = "open" /\ \A h \in Goals : Phase(h) # "open"
  BY <1>1, CoordinatorAssumption DEF Phase, TypeOK
<1>3. QED
  BY <1>1, <1>2, CoordinatorAssumption, PhaseMoves DEF Stream!Open

LEMMA FailStep ==
  ASSUME TypeOK, GivesInOrder, PlanAllRefuse \/ Abandon
  PROVE  Stream!Fail(current)
<1>1. /\ current \in Goals /\ current' = NoGoal
      /\ \E to \in {"refused", "abandoned"} : outcome' = [outcome EXCEPT ![current] = to]
      /\ UNCHANGED yielded
  BY DEF PlanAllRefuse, Abandon, TypeOK, GoalOrNone
<1>2. PICK g \in Goals : g = current
  BY <1>1
<1>3. Phase(g) = "open"
  BY <1>2 DEF Phase, GivesInOrder, Pending
<1>4. /\ outcome'[g] \in {"refused", "abandoned"}
      /\ \A h \in Goals : h # g => outcome'[h] = outcome[h] /\ (current' = h <=> current = h)
  BY <1>1, <1>2, CoordinatorAssumption DEF TypeOK
<1>5. Phase(g)' = "failed"
  BY <1>4 DEF Phase
<1>6. Stream!Fail(g)
  BY <1>1, <1>3, <1>4, <1>5, PhaseMoves DEF Stream!Fail
<1>7. QED
  BY <1>2, <1>6

LEMMA CompleteStep ==
  ASSUME TypeOK, GivesInOrder, ExactInv, Finish, current \notin eventSet
  PROVE  Stream!Complete(current)
<1>1. /\ callerPc = "iterating" /\ planQueue = current /\ queue[current] # <<>>
      /\ Head(queue[current]) = Stop
      /\ current' = NoGoal /\ outcome' = [outcome EXCEPT ![current] = "exhausted"]
      /\ UNCHANGED yielded
  BY DEF Finish, TypeOK
<1>2. /\ current \in Goals /\ Len(yielded[current]) = GroupCount[current]
      /\ \A i \in 1..Len(yielded[current]) : yielded[current][i] # Failure
  BY <1>1, NextGiven
<1>3. PICK g \in Goals : g = current
  BY <1>2
<1>4. Len(PlansOf(g)) = GroupCount[g]
  BY <1>2, <1>3, ItemTypes, PlansFromYielded, PlansFromTaken DEF TypeOK
<1>5. Phase(g) = "open"
  BY <1>3 DEF Phase, GivesInOrder, Pending
<1>6. /\ outcome'[g] = "exhausted"
      /\ \A h \in Goals : h # g => outcome'[h] = outcome[h] /\ (current' = h <=> current = h)
  BY <1>1, <1>3, CoordinatorAssumption DEF TypeOK
<1>7. Phase(g)' = "complete"
  BY <1>6 DEF Phase
<1>8. Stream!Complete(g)
  BY <1>1, <1>4, <1>5, <1>6, <1>7, PhaseMoves DEF Stream!Complete
<1>9. QED
  BY <1>3, <1>8

LEMMA StreamStep ==
  TypeOK /\ GivesInOrder /\ OwnInv /\ ExactInv /\ [Next]_vars /\ current \notin eventSet
    => [Stream!Next]_(Stream!streamVars)
<1> SUFFICES ASSUME TypeOK, GivesInOrder, OwnInv, ExactInv, [Next]_vars,
                    current \notin eventSet
             PROVE  Stream!Next \/ UNCHANGED Stream!streamVars
  OBVIOUS
<1>1. CASE Take
  <2>1. current \in Goals
    BY <1>1 DEF Take, TypeOK, GoalOrNone
  <2>2. QED
    BY <1>1, <2>1, TakeDelivers DEF Stream!Next
<1>2. CASE Finish
  <2>1. current \in Goals
    BY <1>2 DEF Finish, TypeOK, GoalOrNone
  <2>2. QED
    BY <1>2, <2>1, CompleteStep DEF Stream!Next
<1>3. CASE PlanAllRefuse \/ Abandon
  <2>1. current \in Goals
    BY <1>3 DEF PlanAllRefuse, Abandon, TypeOK, GoalOrNone
  <2>2. QED
    BY <1>3, <2>1, FailStep DEF Stream!Next
<1>4. CASE \E g \in Goals : PlanAllEvent(g)
  BY <1>4, OpenStep DEF Stream!Next
<1>5. CASE UNCHANGED <<outcome, current, yielded>>
  BY <1>5, StreamSame
<1>6. ASSUME NEW c \in Goals, Chain(c) PROVE UNCHANGED <<outcome, current, yielded>>
  BY <1>6, ChainStepMoves DEF callerVars
<1>7. QED
  BY <1>1, <1>2, <1>3, <1>4, <1>5, <1>6
     DEF Next, vars, PlanAll, Iterate, Cancel, callerVars, PlanAllQueue, PlanAllSession,
         PlanAllRequest, Resume, CancelBegin, CancelSet, CancelCheck, CancelDrain,
         CancelPutFailure, CancelPutStop, CancelUse

LEMMA StreamInit == Init => Stream!Init
<1> SUFFICES ASSUME Init PROVE Stream!Init
  OBVIOUS
<1>1. ASSUME NEW g \in Goals PROVE Phase(g) = "unopened" /\ PlansOf(g) = <<>>
  <2>1. Phase(g) = "unopened"
    BY CoordinatorAssumption DEF Init, Phase
  <2>2. Len(yielded[g]) = 0
    BY EmptySeq DEF Init
  <2>3. PlansOf(g) = [i \in 1..0 |-> Stripped(yielded[g][i])]
    BY <2>2 DEF PlansOf, Stripped
  <2>4. QED
    BY <2>1, <2>3
<1>2. QED
  BY <1>1 DEF Stream!Init

StreamInv == TypeOK /\ GivesInOrder /\ QuietInv /\ OwnInv /\ CancelInv /\ ExactInv

(* When plan_all waits for the threads of the session before, every step   *)
(* is a step of the stream of plans or leaves it alone, except while the   *)
(* goal being served has been cancelled: whatever the callbacks and        *)
(* cancel() do, an uncancelled goal is given group after group, and its    *)
(* iterator ends only after the last (iterate_planned_trajectories).       *)
THEOREM UncancelledStream ==
  QuietStart => (Init /\ [][Next]_vars =>
     Stream!Init /\ [][current \notin eventSet => [Stream!Next]_(Stream!streamVars)]_vars)
<1> SUFFICES ASSUME QuietStart
             PROVE  Init /\ [][Next]_vars =>
                      /\ Stream!Init
                      /\ [][current \notin eventSet => [Stream!Next]_(Stream!streamVars)]_vars
  OBVIOUS
<1>1. Init => StreamInv
  BY TypeInit, GivesInit, QuietInit, OwnInit, CancelInit, ShapeInit DEF StreamInv
<1>2. StreamInv /\ [Next]_vars => StreamInv'
  BY TypeStep, GivesStep, QuietStep, OwnStep, CancelStep, ExactStep DEF StreamInv
<1>3. StreamInv /\ [Next]_vars =>
        [current \notin eventSet => [Stream!Next]_(Stream!streamVars)]_vars
  BY StreamStep DEF StreamInv
<1>4. QED
  BY <1>1, <1>2, <1>3, StreamInit, PTL

(* Without cancel() calls nothing is set, and the coordinator implements   *)
(* the stream of plans, step by step.                                      *)
NothingSet == Cancellers = {} => eventSet = {}

LEMMA NothingSetStep == NothingSet /\ [Next]_vars => NothingSet'
<1> SUFFICES ASSUME Cancellers = {}, eventSet = {}, [Next]_vars PROVE eventSet' = {}
  BY DEF NothingSet
<1>1. QED
  BY DEF Next, vars, PlanAll, Iterate, Chain, PlanAllEvent, PlanAllQueue, PlanAllSession,
         PlanAllRequest, PlanAllRefuse, Take, Finish, Resume, Abandon, SceneResponse,
         Schedule, PopGroup, PopNothing, PlanResponse, EnqueueResult, PutFailure, PutStop

(* So each step of the coordinator is a step of the stream or leaves it.   *)
THEOREM StreamImplemented ==
  QuietStart /\ Cancellers = {} => (Init /\ [][Next]_vars =>
     Stream!Init /\ [][Stream!Next]_(Stream!streamVars))
<1> SUFFICES ASSUME QuietStart, Cancellers = {}
             PROVE  Init /\ [][Next]_vars =>
                      Stream!Init /\ [][Stream!Next]_(Stream!streamVars)
  OBVIOUS
<1> DEFINE Inv == StreamInv /\ NothingSet
<1>1. Init => Inv
  BY TypeInit, GivesInit, QuietInit, OwnInit, CancelInit, ShapeInit
     DEF StreamInv, NothingSet, Init
<1>2. Inv /\ [Next]_vars => Inv'
  BY TypeStep, GivesStep, QuietStep, OwnStep, CancelStep, ExactStep, NothingSetStep
     DEF StreamInv
<1>3. Inv /\ [Next]_vars => [Stream!Next]_(Stream!streamVars)
  BY StreamStep DEF StreamInv, NothingSet
<1>4. QED
  BY <1>1, <1>2, <1>3, StreamInit, PTL

(* An iterator of an uncancelled goal that ran to its end has given every  *)
(* group of the goal, in order.                                            *)
AllGiven(g) == PlansOf(g) = [n \in 1..GroupCount[g] |-> Stream!PlanOf(g, n)]

EndMeansAll == \A g \in Goals : outcome[g] = "exhausted" /\ g \notin eventSet => AllGiven(g)

LEMMA FinishGivesAll ==
  ASSUME TypeOK, GivesInOrder, OwnInv, ExactInv, Finish, current \notin eventSet
  PROVE  AllGiven(current)
<1>1. callerPc = "iterating" /\ queue[current] # <<>> /\ Head(queue[current]) = Stop
  BY DEF Finish, TypeOK
<1>2. /\ current \in Goals /\ Len(yielded[current]) = GroupCount[current]
      /\ \A i \in 1..Len(yielded[current]) : yielded[current][i] # Failure
      /\ PlansTo(Given(current), Len(yielded[current]))
  BY <1>1, NextGiven
<1>3. PICK g \in Goals : g = current
  BY <1>2
<1> DEFINE y == yielded[g]
           n == GroupCount[g]
<1>4. /\ n \in Nat /\ Len(y) = n /\ (n > 0 => y[n] # Failure)
  BY <1>2, <1>3, CoordinatorAssumption
<1>5. PlansOf(g) = [i \in 1..n |-> Stripped(y[i])]
  BY <1>4 DEF PlansOf, Stripped
<1>6. ASSUME NEW i \in 1..n PROVE Stripped(y[i]) = Stream!PlanOf(g, i)
  <2>1. /\ IsPlan(Given(g)[i]) /\ Given(g)[i].group = i /\ Given(g)[i] = y[i]
        /\ i \in 1..Len(Given(g))
    <3>1. i \in 1..Len(y) /\ \A j \in 1..Len(y) : Given(g)[j] = y[j]
      BY <1>3, <1>4, GivenType
    <3>2. Len(Given(g)) = Len(y) + Len(queue[g]) /\ Len(queue[g]) \in Nat
      BY <1>3, GivenType
    <3>3. PlansTo(Given(g), Len(y))
      BY <1>2, <1>3
    <3> HIDE DEF y, n
    <3>4. i \in 1..Len(Given(g))
      BY <1>4, <3>1, <3>2
    <3>5. QED
      BY <3>1, <3>3, <3>4 DEF PlansTo
  <2>2. i \in PlansAt(g)
    BY <2>1 DEF PlansAt, PlansIn
  <2>3. y[i].goal = g /\ y[i].group = i /\ y[i].from = <<g, y[i].group - 1>>
    BY <2>1, <2>2 DEF OwnInv, OwnGiven
  <2>4. QED
    BY <2>3 DEF Stripped, Stream!PlanOf
<1> HIDE DEF n, y
<1>7. PlansOf(g) = [i \in 1..n |-> Stream!PlanOf(g, i)]
  BY <1>5, <1>6
<1>8. QED
  BY <1>3, <1>7 DEF AllGiven, n

LEMMA EndStep ==
  TypeOK /\ GivesInOrder /\ OwnInv /\ ExactInv /\ EndMeansAll /\ [Next]_vars => EndMeansAll'
<1> SUFFICES ASSUME TypeOK, GivesInOrder, OwnInv, ExactInv, EndMeansAll, [Next]_vars,
                    NEW g \in Goals, outcome'[g] = "exhausted", g \notin eventSet'
             PROVE  AllGiven(g)'
  BY DEF EndMeansAll
<1>1. g \notin eventSet
  BY DEF Next, vars, PlanAll, Iterate, Chain, Cancel, PlanAllEvent, PlanAllQueue,
         PlanAllSession, PlanAllRequest, PlanAllRefuse, Take, Finish, Resume, Abandon,
         SceneResponse, Schedule, PopGroup, PopNothing, PlanResponse, EnqueueResult,
         PutFailure, PutStop, CancelBegin, CancelSet, CancelCheck, CancelDrain,
         CancelPutFailure, CancelPutStop, CancelUse
<1>2. ASSUME UNCHANGED yielded, AllGiven(g) PROVE AllGiven(g)'
  <2>1. PlansOf(g)' = PlansOf(g)
    BY <1>2 DEF PlansOf
  <2>2. QED
    BY <1>2, <2>1 DEF AllGiven, Stream!PlanOf
<1>3. CASE UNCHANGED <<outcome, yielded>>
  BY <1>1, <1>2, <1>3 DEF EndMeansAll
<1>4. CASE Take
  <2>1. UNCHANGED outcome /\ current # g
    BY <1>4 DEF Take, GivesInOrder, Pending
  <2>2. yielded'[g] = yielded[g]
    BY <1>4, <2>1 DEF Take, TypeOK
  <2>3. PlansOf(g)' = PlansOf(g)
    BY <2>2 DEF PlansOf
  <2>4. QED
    BY <1>1, <2>1, <2>3 DEF EndMeansAll, AllGiven, Stream!PlanOf
<1>5. CASE Finish
  <2>1. UNCHANGED yielded
    BY <1>5 DEF Finish
  <2>2. CASE g = current
    BY <1>1, <1>2, <1>5, <2>1, <2>2, FinishGivesAll
  <2>3. CASE g # current
    <3>1. outcome[g] = "exhausted"
      BY <1>5, <2>3 DEF Finish, TypeOK
    <3>2. QED
      BY <1>1, <1>2, <2>1, <3>1 DEF EndMeansAll
  <2>4. QED
    BY <2>2, <2>3
<1>6. CASE PlanAllRefuse \/ Abandon
  <2>1. UNCHANGED yielded /\ outcome[g] = "exhausted"
    BY <1>6 DEF PlanAllRefuse, Abandon, TypeOK
  <2>2. QED
    BY <1>1, <1>2, <2>1 DEF EndMeansAll
<1>7. ASSUME NEW c \in Goals, Chain(c) PROVE UNCHANGED <<outcome, yielded>>
  BY <1>7, ChainStepMoves DEF callerVars
<1>8. QED
  BY <1>3, <1>4, <1>5, <1>6, <1>7
     DEF Next, vars, PlanAll, Iterate, Cancel, callerVars, PlanAllEvent, PlanAllQueue,
         PlanAllSession, PlanAllRequest, Resume, CancelBegin, CancelSet, CancelCheck,
         CancelDrain, CancelPutFailure, CancelPutStop, CancelUse

(* iterate_planned_trajectories takes the sentinel for the end: and so it  *)
(* is, unless cancel() was called.                                         *)
THEOREM EndedMeansAll == QuietStart => (Init /\ [][Next]_vars => []EndMeansAll)
<1> SUFFICES ASSUME QuietStart PROVE Init /\ [][Next]_vars => []EndMeansAll
  OBVIOUS
<1> DEFINE Inv == StreamInv /\ EndMeansAll
<1>1. Init => Inv
  BY TypeInit, GivesInit, QuietInit, OwnInit, CancelInit, ShapeInit
     DEF StreamInv, EndMeansAll, Init
<1>2. Inv /\ [Next]_vars => Inv'
  BY TypeStep, GivesStep, QuietStep, OwnStep, CancelStep, ExactStep, EndStep DEF StreamInv
<1>3. QED
  BY <1>1, <1>2, PTL

(* Without cancel() calls that is what the executor takes the end of the   *)
(* iterator to mean: all groups were given.                                *)
THEOREM ExhaustedIsComplete ==
  QuietStart /\ Cancellers = {} => (Init /\ [][Next]_vars => []ExhaustedMeansAll)
<1> SUFFICES ASSUME QuietStart, Cancellers = {}
             PROVE  Init /\ [][Next]_vars => []ExhaustedMeansAll
  OBVIOUS
<1> DEFINE Inv == StreamInv /\ EndMeansAll /\ NothingSet
<1>1. Init => Inv
  BY TypeInit, GivesInit, QuietInit, OwnInit, CancelInit, ShapeInit
     DEF StreamInv, EndMeansAll, NothingSet, Init
<1>2. Inv /\ [Next]_vars => Inv'
  BY TypeStep, GivesStep, QuietStep, OwnStep, CancelStep, ExactStep, EndStep,
     NothingSetStep DEF StreamInv
<1>3. Inv => ExhaustedMeansAll
  BY DEF NothingSet, EndMeansAll, AllGiven, ExhaustedMeansAll
<1>4. QED
  BY <1>1, <1>2, <1>3, PTL

-----------------------------------------------------------------------------
(***************************************************************************)
(* The movement controller node as its clients see it, for any goals,      *)
(* groups, trajectories and cancel requests: what is proved above of the   *)
(* coordinator holds in the node, and the node implements the GoalService, *)
(* step by step, while the goal that it serves has not been cancelled.     *)
(*                                                                         *)
(* The node is instantiated over the variables of the coordinator, and its *)
(* own constants and variables are declared here; AsInTheNode says which   *)
(* coordinator is the node's.                                              *)
(***************************************************************************)
CONSTANTS CancelRequests, MaxTrajectories

VARIABLES isExecuting, trajectoryGoal, goalPc, status, left, completed,
          requestFor, requestPc, motion, motionResult, stopPending

Node == INSTANCE MovementController

AsInTheNode == Cancellers = CancelRequests \cup Goals /\ PatientCaller = FALSE

NodeSpec == Node!Init /\ [][Node!Next]_(Node!vars)

(* The coordinator in the node is the coordinator of the first part.       *)
LEMMA SamePlanAll ==
  ASSUME AsInTheNode
  PROVE  /\ Node!Coordinator!Init => Init
         /\ \A g : Node!Coordinator!PlanAllEvent(g) => PlanAllEvent(g)
         /\ Node!Coordinator!PlanAllQueue => PlanAllQueue
         /\ Node!Coordinator!PlanAllSession => PlanAllSession
         /\ Node!Coordinator!PlanAllRequest => PlanAllRequest
         /\ Node!Coordinator!PlanAllRefuse => PlanAllRefuse
<1> USE DEF Node!Coordinator!attributes, attributes, Node!Coordinator!chainVars, chainVars,
            Node!Coordinator!callerVars, callerVars, Node!Coordinator!Failure, Failure,
            Node!Coordinator!Stop, Stop, Node!Coordinator!MoveChain, MoveChain
<1>1. Node!Coordinator!Init => Init
  BY DEF AsInTheNode, Init, Node!Coordinator!Init
<1>2. \A g : Node!Coordinator!PlanAllEvent(g) => PlanAllEvent(g)
  BY DEF AsInTheNode, PlanAllEvent, Node!Coordinator!PlanAllEvent,
         Node!Coordinator!ChainAtRest, ChainAtRest, Node!Coordinator!CancelAtRest, CancelAtRest
<1>3. QED
  BY <1>1, <1>2
     DEF Node!Coordinator!PlanAllQueue, PlanAllQueue,
         Node!Coordinator!PlanAllSession, PlanAllSession,
         Node!Coordinator!PlanAllRequest, PlanAllRequest,
         Node!Coordinator!PlanAllRefuse, PlanAllRefuse

LEMMA SameIterate ==
  ASSUME AsInTheNode
  PROVE  /\ Node!Coordinator!Take => Take
         /\ Node!Coordinator!Finish => Finish
         /\ Node!Coordinator!Resume => Resume
         /\ Node!Coordinator!Abandon => Abandon
<1> USE DEF Node!Coordinator!attributes, attributes, Node!Coordinator!chainVars, chainVars,
            Node!Coordinator!callerVars, callerVars, Node!Coordinator!Failure, Failure,
            Node!Coordinator!Stop, Stop, Node!Coordinator!LastYield, LastYield
<1>1. Node!Coordinator!Take => Take
  BY DEF Node!Coordinator!Take, Take
<1>2. Node!Coordinator!Finish => Finish
  BY DEF Node!Coordinator!Finish, Finish
<1>3. Node!Coordinator!Resume => Resume
  BY DEF Node!Coordinator!Resume, Resume
<1>4. Node!Coordinator!Abandon => Abandon
  BY DEF Node!Coordinator!Abandon, Abandon, AsInTheNode
<1>5. QED
  BY <1>1, <1>2, <1>3, <1>4

LEMMA SameChain ==
  ASSUME NEW c, Node!Coordinator!Chain(c) PROVE Chain(c)
<1> USE DEF Node!Coordinator!attributes, attributes, Node!Coordinator!chainVars, chainVars,
            Node!Coordinator!callerVars, callerVars, Node!Coordinator!Failure, Failure,
            Node!Coordinator!Stop, Stop,
            Node!Coordinator!MoveChain, MoveChain, Node!Coordinator!PutIfAny, PutIfAny,
            Node!Coordinator!Cancelled, Cancelled, Node!Coordinator!HasGroup, HasGroup,
            Node!Coordinator!NextGroup, NextGroup, Node!Coordinator!GroupTaken, GroupTaken,
            Node!Coordinator!EndState, EndState, Node!Coordinator!Plan, Plan
<1>1. Node!Coordinator!SceneResponse(c) => SceneResponse(c)
  BY DEF Node!Coordinator!SceneResponse, SceneResponse
<1>2. Node!Coordinator!Schedule(c) => Schedule(c)
  BY DEF Node!Coordinator!Schedule, Schedule
<1>3. Node!Coordinator!PopGroup(c) => PopGroup(c)
  BY DEF Node!Coordinator!PopGroup, PopGroup
<1>4. Node!Coordinator!PopNothing(c) => PopNothing(c)
  BY DEF Node!Coordinator!PopNothing, PopNothing
<1>5. Node!Coordinator!PlanResponse(c) => PlanResponse(c)
  BY DEF Node!Coordinator!PlanResponse, PlanResponse
<1>6. Node!Coordinator!EnqueueResult(c) => EnqueueResult(c)
  BY DEF Node!Coordinator!EnqueueResult, EnqueueResult
<1>7. Node!Coordinator!PutFailure(c) \/ Node!Coordinator!PutStop(c)
        => PutFailure(c) \/ PutStop(c)
  BY DEF Node!Coordinator!PutFailure, PutFailure, Node!Coordinator!PutStop, PutStop
<1>8. QED
  BY <1>1, <1>2, <1>3, <1>4, <1>5, <1>6, <1>7 DEF Node!Coordinator!Chain, Chain

LEMMA SameCancel ==
  ASSUME NEW k
  PROVE  /\ Node!Coordinator!CancelBegin(k) => CancelBegin(k)
         /\ Node!Coordinator!Cancel(k) => Cancel(k)
<1> USE DEF Node!Coordinator!attributes, attributes, Node!Coordinator!chainVars, chainVars,
            Node!Coordinator!callerVars, callerVars, Node!Coordinator!Failure, Failure,
            Node!Coordinator!Stop, Stop,
            Node!Coordinator!MoveCancel, MoveCancel, Node!Coordinator!PutIfAny, PutIfAny
<1>1. Node!Coordinator!CancelBegin(k) => CancelBegin(k)
  BY DEF Node!Coordinator!CancelBegin, CancelBegin
<1>2. Node!Coordinator!CancelSet(k) => CancelSet(k)
  BY DEF Node!Coordinator!CancelSet, CancelSet
<1>3. Node!Coordinator!CancelCheck(k) => CancelCheck(k)
  BY DEF Node!Coordinator!CancelCheck, CancelCheck
<1>5. Node!Coordinator!CancelDrain(k) => CancelDrain(k)
  BY DEF Node!Coordinator!CancelUse, CancelUse, Node!Coordinator!CancelDrain, CancelDrain
<1>6. Node!Coordinator!CancelPutFailure(k) => CancelPutFailure(k)
  BY DEF Node!Coordinator!CancelUse, CancelUse, Node!Coordinator!CancelPutFailure, CancelPutFailure
<1>7. Node!Coordinator!CancelPutStop(k) => CancelPutStop(k)
  BY DEF Node!Coordinator!CancelUse, CancelUse, Node!Coordinator!CancelPutStop, CancelPutStop
<1>8. QED
  BY <1>1, <1>2, <1>3, <1>5, <1>6, <1>7 DEF Node!Coordinator!Cancel, Cancel

-----------------------------------------------------------------------------
(* What the callbacks of a goal do to the state that matters to clients.   *)
kept == <<isExecuting, trajectoryGoal, status, completed>>

Goes(g, from, to) == goalPc[g] = from /\ goalPc' = [goalPc EXCEPT ![g] = to]

(* A step of the goal or execute callback that nobody else notices.        *)
GoesOn(g) ==
  /\ \/ Goes(g, "unsent", "rejected")   \/ Goes(g, "accepted", "aborting")
     \/ Goes(g, "judging", "executing") \/ Goes(g, "executing", "sending")
     \/ Goes(g, "sending", "moving")    \/ Goes(g, "moving", "executing")
  /\ UNCHANGED <<kept, vars>>

TakesServer(g) ==
  /\ Goes(g, "unsent", "validating")
  /\ ~isExecuting /\ isExecuting' = TRUE
  /\ UNCHANGED <<trajectoryGoal, status, completed, vars>>

FreesServer(g) ==
  /\ Goes(g, "refusing", "rejected") \/ Goes(g, "releasing", "returned")
  /\ isExecuting' = FALSE
  /\ UNCHANGED <<trajectoryGoal, status, completed, vars>>

ChangesDTO(g) ==
  /\ Goes(g, "validating", "refusing") \/ Goes(g, "dropping", "releasing")
  /\ UNCHANGED <<isExecuting, status, completed, vars>>

ChangesStatus(g) ==
  /\ \/ /\ Goes(g, "validating", "accepted") /\ trajectoryGoal' = g
        /\ status' = [status EXCEPT ![g] = "executing"]
     \/ /\ Goes(g, "succeeding", "releasing") /\ UNCHANGED trajectoryGoal
        /\ status' = [status EXCEPT ![g] = "succeeded"]
     \/ /\ Goes(g, "aborting", "dropping") /\ UNCHANGED trajectoryGoal
        /\ status' = [status EXCEPT ![g] = "aborted"]
  /\ UNCHANGED <<isExecuting, completed, vars>>

Plans(g) ==
  /\ \/ Goes(g, "accepted", "planning") /\ PlanAllEvent(trajectoryGoal)
     \/ /\ goalPc[g] = "planning" /\ UNCHANGED goalPc
        /\ PlanAllQueue \/ PlanAllSession \/ PlanAllRequest
     \/ Goes(g, "planning", "aborting") /\ PlanAllRefuse
  /\ UNCHANGED kept

TakesPlan(g) == Goes(g, "planning", "judging") /\ Take /\ UNCHANGED kept

EndsPlans(g) == Goes(g, "planning", "succeeding") /\ Finish /\ UNCHANGED kept

DropsPlans(g) ==
  /\ \/ Goes(g, "judging", "aborting") \/ Goes(g, "executing", "aborting")
     \/ Goes(g, "moving", "aborting")  \/ Goes(g, "cancelling", "aborting")
  /\ Abandon /\ UNCHANGED kept

CancelsPlans(g) ==
  /\ \/ Goes(g, "moving", "cancelling") /\ CancelBegin(g)
     \/ goalPc[g] = "cancelling" /\ UNCHANGED goalPc /\ Cancel(g)
  /\ UNCHANGED kept

Completes(g) ==
  /\ Goes(g, "executing", "planning")
  /\ completed' = [completed EXCEPT ![g] = Append(@, <<LastYield.goal, LastYield.group>>)]
  /\ Resume /\ UNCHANGED <<isExecuting, trajectoryGoal, status>>

GoalActs(g) ==
  \/ GoesOn(g) \/ TakesServer(g) \/ FreesServer(g) \/ ChangesDTO(g) \/ ChangesStatus(g)
  \/ Plans(g) \/ TakesPlan(g) \/ EndsPlans(g) \/ DropsPlans(g) \/ CancelsPlans(g)
  \/ Completes(g)

(* What the others do: the callbacks of the planners, cancel requests and  *)
(* MoveIt. rclpy moves a goal to CANCELING.                                *)
OthersAct ==
  /\ UNCHANGED <<isExecuting, trajectoryGoal, completed, goalPc>>
  /\ \/ \E c \in Goals : Chain(c)
     \/ \E k \in CancelRequests : CancelBegin(k) \/ Cancel(k)
     \/ UNCHANGED vars
  /\ \/ UNCHANGED status
     \/ \E g : status[g] = "executing" /\ status' = [status EXCEPT ![g] = "canceling"]

LEMMA CoordinatorVars == Node!coordinatorVars' = Node!coordinatorVars => UNCHANGED vars
BY DEF Node!coordinatorVars, vars, attributes, chainVars, callerVars

LEMMA GoalEffects ==
  ASSUME AsInTheNode, NEW g \in Goals,
         \/ Node!Admit(g) \/ Node!RejectBusy(g) \/ Node!GoalCallback(g)
         \/ Node!ExecuteCallback(g)
  PROVE  GoalActs(g)
<1> USE DEF Goes, Node!GoalMoves, Node!SetStatus, kept, Node!admissionVars, Node!planVars
<1>1. CASE Node!RejectBusy(g) \/ Node!ServerMissing(g) \/ Node!BeginPlan(g)
           \/ Node!Send(g) \/ Node!MotionDone(g)
  BY <1>1, CoordinatorVars
     DEF Node!RejectBusy, Node!ServerMissing, Node!BeginPlan, Node!Send, Node!MotionDone,
         GoesOn, GoalActs
<1>2. CASE Node!Admit(g)
  BY <1>2, CoordinatorVars DEF Node!Admit, TakesServer, GoalActs
<1>3. CASE Node!Refuse(g) \/ Node!Release(g)
  BY <1>3, CoordinatorVars DEF Node!Refuse, Node!Release, FreesServer, GoalActs
<1>4. CASE Node!RejectInvalid(g) \/ Node!DropGoal(g)
  BY <1>4, CoordinatorVars DEF Node!RejectInvalid, Node!DropGoal, ChangesDTO, GoalActs
<1>5. CASE Node!Accept(g) \/ Node!Succeed(g) \/ Node!Abort(g)
  BY <1>5, CoordinatorVars
     DEF Node!Accept, Node!Succeed, Node!Abort, ChangesStatus, GoalActs
<1>6. CASE Node!StartPlanning(g) \/ Node!ContinuePlanAll(g) \/ Node!PlanningRefused(g)
  BY <1>6, SamePlanAll
     DEF Node!StartPlanning, Node!ContinuePlanAll, Node!PlanningRefused, Node!nodeVars,
         Plans, GoalActs
<1>7. CASE Node!TakeResult(g)
  BY <1>7, SameIterate DEF Node!TakeResult, TakesPlan, GoalActs
<1>8. CASE Node!IteratorExhausted(g)
  BY <1>8, SameIterate DEF Node!IteratorExhausted, EndsPlans, GoalActs
<1>9. CASE Node!GiveUp(g) \/ Node!MotionAborted(g) \/ Node!LeaveFailed(g)
  BY <1>9, SameIterate
     DEF Node!GiveUp, Node!MotionAborted, Node!LeaveFailed, DropsPlans, GoalActs
<1>10. CASE Node!CheckCancel(g)
  BY <1>10, SameIterate, CoordinatorVars DEF Node!CheckCancel, DropsPlans, GoesOn, GoalActs
<1>11. CASE Node!MotionFailed(g) \/ Node!CancelPlanning(g)
  BY <1>11, SameCancel
     DEF Node!MotionFailed, Node!CancelPlanning, Node!nodeVars, CancelsPlans, GoalActs
<1>12. CASE Node!CompletePlan(g)
  BY <1>12, SameIterate
     DEF Node!CompletePlan, Node!ExecutedGroup, Node!Coordinator!LastYield, LastYield,
         Completes, GoalActs
<1>13. QED
  BY <1>1, <1>2, <1>3, <1>4, <1>5, <1>6, <1>7, <1>8, <1>9, <1>10, <1>11, <1>12
     DEF Node!GoalCallback, Node!ExecuteCallback, Node!Executing

LEMMA OtherEffects ==
  ASSUME AsInTheNode,
         \/ \E k \in CancelRequests :
               Node!CancelCallback(k) \/ \E g \in Goals : Node!RequestCancel(k, g)
         \/ \E c \in Goals : Node!PlannerCallback(c)
         \/ Node!MoveIt
         \/ UNCHANGED Node!vars
  PROVE  OthersAct
<1> USE DEF OthersAct, Node!admissionVars, Node!planVars
<1>1. ASSUME NEW k \in CancelRequests, NEW g \in Goals, Node!RequestCancel(k, g)
      PROVE  OthersAct
  BY <1>1, SameCancel DEF Node!RequestCancel
<1>2. ASSUME NEW k \in CancelRequests, Node!CancelPlanner(k) PROVE OthersAct
  BY <1>2, SameCancel DEF Node!CancelPlanner, Node!nodeVars
<1>3. ASSUME NEW k \in CancelRequests, Node!PublishStop(k) PROVE OthersAct
  BY <1>3, CoordinatorVars DEF Node!PublishStop
<1>4. ASSUME NEW k \in CancelRequests, Node!AcceptCancel(k) PROVE OthersAct
  BY <1>4, CoordinatorVars DEF Node!AcceptCancel, Node!SetStatus
<1>5. ASSUME NEW c \in Goals, Node!PlannerCallback(c) PROVE OthersAct
  BY <1>5, SameChain DEF Node!PlannerCallback, Node!nodeVars
<1>6. CASE Node!MoveIt
  BY <1>6, CoordinatorVars DEF Node!MoveIt, Node!MotionEnds, Node!StopDelivered
<1>7. CASE UNCHANGED Node!vars
  BY <1>7, CoordinatorVars DEF Node!vars, Node!nodeVars
<1>8. QED
  BY <1>1, <1>2, <1>3, <1>4, <1>5, <1>6, <1>7 DEF Node!CancelCallback

LEMMA NodeEffects ==
  ASSUME AsInTheNode, [Node!Next]_(Node!vars)
  PROVE  (\E g \in Goals : GoalActs(g)) \/ OthersAct
BY GoalEffects, OtherEffects DEF Node!Next

-----------------------------------------------------------------------------
(* The node takes only steps of the coordinator, provided that the DTO it  *)
(* plans from is that of a goal.                                           *)
LEMMA NodeCoordinates ==
  ASSUME AsInTheNode, (\E g \in Goals : GoalActs(g)) \/ OthersAct,
         \A g \in Goals : goalPc[g] = "accepted" => trajectoryGoal = g
  PROVE  [Next]_vars
<1>1. ASSUME NEW g \in Goals, GoalActs(g) PROVE Next \/ UNCHANGED vars
  <2>1. g \in Cancellers
    BY DEF AsInTheNode
  <2>2. CASE Plans(g)
    BY <2>2 DEF Plans, Goes, Next, PlanAll
  <2>3. CASE CancelsPlans(g)
    BY <2>1, <2>3 DEF CancelsPlans, Next
  <2>4. CASE TakesPlan(g) \/ EndsPlans(g) \/ DropsPlans(g) \/ Completes(g)
    BY <2>4 DEF TakesPlan, EndsPlans, DropsPlans, Completes, Next, Iterate
  <2>5. CASE GoesOn(g) \/ TakesServer(g) \/ FreesServer(g) \/ ChangesDTO(g) \/ ChangesStatus(g)
    BY <2>5 DEF GoesOn, TakesServer, FreesServer, ChangesDTO, ChangesStatus
  <2>6. QED
    BY <1>1, <2>2, <2>3, <2>4, <2>5 DEF GoalActs
<1>2. CASE OthersAct
  BY <1>2 DEF OthersAct, Next, AsInTheNode
<1>3. QED
  BY <1>1, <1>2

(* How the node and the coordinator stand to each other. The node's part   *)
(* of it: one goal has the server (MovementControllerProofs), the goal     *)
(* that is planned and executed is the coordinator's current one, and its  *)
(* status follows the callbacks. completed_ids counts the plans that the   *)
(* iterator gave, but for the one in hand.                                 *)
Before  == {"unsent", "validating", "refusing", "rejected"}
Holding == {"judging", "executing", "sending", "moving", "cancelling"}
Active  == {"accepted", "planning", "succeeding", "aborting"} \cup Holding
After   == {"dropping", "releasing", "returned"}
Idle    == {"unsent", "rejected", "returned"}

Serving(g) == goalPc[g] \notin Idle

NodeTypes ==
  /\ isExecuting \in BOOLEAN
  /\ goalPc \in [Goals -> Before \cup Active \cup After]
  /\ status \in [Goals -> {"unknown", "executing", "canceling", "succeeded", "aborted"}]
  /\ completed \in [Goals -> Seq(Goals \X Nat)]

OneServing ==
  /\ \A g \in Goals : Serving(g) => isExecuting
  /\ \A g, h \in Goals : Serving(g) /\ Serving(h) => g = h

Place(g) ==
  /\ goalPc[g] \in {"planning"} \cup Holding <=> current = g
  /\ goalPc[g] = "planning" => callerPc # "consuming"
  /\ goalPc[g] \in Holding => callerPc = "consuming"
  /\ goalPc[g] = "accepted" => trajectoryGoal = g
  /\ goalPc[g] \in Before <=> status[g] = "unknown"
  /\ goalPc[g] \in Active <=> status[g] \in {"executing", "canceling"}

Counts(g) ==
  /\ goalPc[g] \in Before \cup {"accepted"} => completed[g] = <<>>
  /\ goalPc[g] = "planning" => Len(yielded[g]) = Len(completed[g])
  /\ goalPc[g] \in Holding => Len(yielded[g]) = Len(completed[g]) + 1

(* What only the goals that are not cancelled can count on, and that only  *)
(* while one session runs at a time.                                       *)
CountsAll(g) ==
  QuietStart /\ g \notin eventSet =>
    /\ goalPc[g] \in Holding /\ yielded[g][Len(yielded[g])] # Failure
         => Len(yielded[g]) <= GroupCount[g]
    /\ goalPc[g] = "succeeding" => Len(completed[g]) = GroupCount[g]

PlaceInv == NodeTypes /\ OneServing /\ \A g \in Goals : Place(g)
CountInv == \A g \in Goals : Counts(g) /\ CountsAll(g)
NodeInv  == PlaceInv /\ CountInv

CoordinatorInv == TypeOK /\ GivesInOrder /\ (QuietStart => StreamInv)

LEMMA NodeInit == AsInTheNode /\ Node!Init => Init /\ NodeInv
<1> SUFFICES ASSUME AsInTheNode, Node!Init PROVE Init /\ NodeInv
  OBVIOUS
<1>1. Init
  BY SamePlanAll DEF Node!Init
<1>2. \A g \in Goals : goalPc[g] = "unsent" /\ status[g] = "unknown" /\ completed[g] = <<>>
                       /\ current # g
  BY <1>1, CoordinatorAssumption DEF Node!Init, Init
<1>3. NodeTypes
  <2>1. <<>> \in Seq(Goals \X Nat)
    BY EmptySeq
  <2>2. completed \in [Goals -> Seq(Goals \X Nat)]
    BY <2>1 DEF Node!Init
  <2>3. QED
    BY <2>2 DEF Node!Init, NodeTypes, Before
<1>4. OneServing
  BY <1>2 DEF OneServing, Serving, Idle
<1>5. \A g \in Goals : Place(g) /\ Counts(g) /\ CountsAll(g)
  BY <1>2 DEF Place, Counts, CountsAll, Before, Holding, Active
<1>6. QED
  BY <1>1, <1>3, <1>4, <1>5 DEF NodeInv, PlaceInv, CountInv

-----------------------------------------------------------------------------
(* One goal's step, seen from the others. They are idle, or nothing that   *)
(* concerns them changes.                                                  *)
Untouched(h) ==
  /\ goalPc'[h] = goalPc[h] /\ status'[h] = status[h] /\ completed'[h] = completed[h]

LEMMA IdleStays ==
  ASSUME NEW h, Place(h), Counts(h), goalPc[h] \in Idle, Untouched(h),
         current' = h => current = h
  PROVE  Place(h)' /\ Counts(h)' /\ CountsAll(h)'
BY DEF Place, Counts, CountsAll, Untouched, Idle, Before, Holding, Active

LEMMA UntouchedStays ==
  ASSUME NEW h, Place(h), Counts(h), CountsAll(h), Untouched(h),
         UNCHANGED <<trajectoryGoal, current, callerPc, yielded>>, eventSet \subseteq eventSet'
  PROVE  Place(h)' /\ Counts(h)' /\ CountsAll(h)'
BY DEF Place, Counts, CountsAll, Untouched

(* A goal that keeps the server: the others are idle.                      *)
LEMMA ServingStep ==
  ASSUME NodeInv, NEW g \in Goals, NEW from, NEW to \in (Before \cup Active \cup After) \ Idle,
         from \notin Idle, Goes(g, from, to), UNCHANGED isExecuting,
         current' \in {current, g, NoGoal},
         \A h \in Goals : h # g => Untouched(h)
  PROVE  /\ goalPc' \in [Goals -> Before \cup Active \cup After] /\ goalPc'[g] = to
         /\ OneServing'
         /\ \A h \in Goals : h # g => Place(h)' /\ Counts(h)' /\ CountsAll(h)'
<1> USE DEF NodeInv, PlaceInv
<1>1. /\ goalPc' \in [Goals -> Before \cup Active \cup After] /\ goalPc'[g] = to
      /\ \A h \in Goals : h # g => goalPc'[h] = goalPc[h]
  BY DEF NodeTypes, Goes
<1>2. \A h \in Goals : h # g => goalPc[h] \in Idle
  BY DEF OneServing, Serving, Goes
<1>3. OneServing'
  BY <1>1, <1>2 DEF OneServing, Serving, Goes
<1>4. ASSUME NEW h \in Goals, h # g PROVE Place(h)' /\ Counts(h)' /\ CountsAll(h)'
  <2>1. current' = h => current = h
    BY <1>4, CoordinatorAssumption
  <2>2. QED
    BY <1>2, <1>4, <2>1, IdleStays DEF CountInv
<1>5. QED
  BY <1>1, <1>3, <1>4

(* The step of the goal that has the server, seen from itself.             *)
LEMMA NodeGoalStep ==
  ASSUME CoordinatorInv, NodeInv, NEW g \in Goals, GoalActs(g)
  PROVE  NodeInv'
<1> USE DEF NodeInv, PlaceInv
<1>1. /\ TypeOK /\ Place(g) /\ Counts(g) /\ CountsAll(g) /\ NodeTypes
      /\ completed[g] \in Seq(Goals \X Nat) /\ Len(completed[g]) \in Nat
  BY DEF CoordinatorInv, CountInv, NodeTypes
<1>2. ASSUME NEW to \in (Before \cup Active \cup After) \ Idle,
             NEW from \in (Before \cup Active \cup After) \ Idle,
             Goes(g, from, to), UNCHANGED isExecuting, current' \in {current, g, NoGoal},
             \A h \in Goals : h # g => Untouched(h),
             status' \in [Goals -> {"unknown", "executing", "canceling", "succeeded",
                                    "aborted"}],
             completed' \in [Goals -> Seq(Goals \X Nat)],
             Place(g)', Counts(g)', CountsAll(g)'
      PROVE  NodeInv'
  <2>1. /\ goalPc' \in [Goals -> Before \cup Active \cup After]
        /\ OneServing'
        /\ \A h \in Goals : h # g => Place(h)' /\ Counts(h)' /\ CountsAll(h)'
    BY <1>2, ServingStep
  <2>2. QED
    BY <1>2, <2>1 DEF NodeTypes, CountInv
<1>3. ASSUME NEW from, NEW to, Goes(g, from, to)
      PROVE  goalPc[g] = from /\ goalPc'[g] = to /\ \A h \in Goals : h # g => goalPc'[h] = goalPc[h]
  BY <1>1, <1>3 DEF Goes, NodeTypes
<1>4. ASSUME UNCHANGED kept
      PROVE  /\ \A h \in Goals : h # g /\ goalPc'[h] = goalPc[h] => Untouched(h)
             /\ UNCHANGED <<isExecuting, trajectoryGoal, status, completed>>
             /\ status' \in [Goals -> {"unknown", "executing", "canceling", "succeeded",
                                       "aborted"}]
             /\ completed' \in [Goals -> Seq(Goals \X Nat)]
  BY <1>1, <1>4 DEF kept, Untouched, NodeTypes
<1>5. CASE GoesOn(g)
  <2>1. /\ UNCHANGED kept /\ UNCHANGED <<current, callerPc, yielded, eventSet>>
    BY <1>5 DEF GoesOn, vars, callerVars
  <2>2. CASE Goes(g, "unsent", "rejected")
    <3>1. \A h \in Goals : h # g => Untouched(h)
      BY <1>3, <1>4, <2>1, <2>2
    <3>2. \A h \in Goals : h # g => Place(h)' /\ Counts(h)' /\ CountsAll(h)'
      BY <2>1, <3>1, UntouchedStays DEF CountInv, kept
    <3>3. Place(g)' /\ Counts(g)' /\ CountsAll(g)'
      BY <1>1, <1>3, <1>4, <2>1, <2>2
         DEF Place, Counts, CountsAll, Before, Holding, Active
    <3>4. NodeTypes' /\ OneServing'
      BY <1>1, <1>3, <1>4, <2>1, <2>2 DEF NodeTypes, OneServing, Serving, Idle, Goes, Before
    <3>5. QED
      BY <3>2, <3>3, <3>4 DEF CountInv
  <2>3. CASE ~Goes(g, "unsent", "rejected")
    <3>1. PICK from \in {"accepted", "judging", "executing", "sending", "moving"},
               to \in {"aborting", "executing", "sending", "moving"} :
             /\ Goes(g, from, to)
             /\ (from = "accepted") <=> (to = "aborting")
      BY <1>5, <2>3 DEF GoesOn
    <3>2. Place(g)' /\ Counts(g)' /\ CountsAll(g)'
      BY <1>1, <1>3, <1>4, <2>1, <3>1
         DEF Place, Counts, CountsAll, Before, Holding, Active
    <3>3. QED
      BY <1>2, <1>3, <1>4, <2>1, <3>1, <3>2
         DEF Before, Active, Holding, After, Idle, kept
  <2>4. QED
    BY <2>2, <2>3
<1>6. CASE TakesServer(g)
  <2>1. /\ UNCHANGED <<trajectoryGoal, status, completed, current, callerPc, yielded, eventSet>>
        /\ Goes(g, "unsent", "validating")
    BY <1>6 DEF TakesServer, vars, callerVars
  <2>2. \A h \in Goals : h # g => Untouched(h)
    BY <1>3, <2>1 DEF Untouched
  <2>3. \A h \in Goals : h # g => Place(h)' /\ Counts(h)' /\ CountsAll(h)'
    BY <2>1, <2>2, UntouchedStays DEF CountInv
  <2>4. Place(g)' /\ Counts(g)' /\ CountsAll(g)'
    BY <1>1, <1>3, <2>1 DEF Place, Counts, CountsAll, Before, Holding, Active
  <2>5. NodeTypes'
    BY <1>1, <1>6, <2>1 DEF NodeTypes, TakesServer, Goes, Before
  <2>6. OneServing'
    BY <1>3, <1>6, <2>1 DEF OneServing, Serving, TakesServer
  <2>7. QED
    BY <2>3, <2>4, <2>5, <2>6 DEF CountInv
<1>7. CASE FreesServer(g)
  <2>1. PICK from \in {"refusing", "releasing"}, to \in {"rejected", "returned"} :
           Goes(g, from, to) /\ ((from = "refusing") <=> (to = "rejected"))
    BY <1>7 DEF FreesServer
  <2>2. UNCHANGED <<trajectoryGoal, status, completed, current, callerPc, yielded, eventSet>>
    BY <1>7 DEF FreesServer, vars, callerVars
  <2>3. \A h \in Goals : h # g => Untouched(h)
    BY <1>3, <2>1, <2>2 DEF Untouched
  <2>4. \A h \in Goals : h # g => Place(h)' /\ Counts(h)' /\ CountsAll(h)'
    BY <2>2, <2>3, UntouchedStays DEF CountInv
  <2>5. Place(g)' /\ Counts(g)' /\ CountsAll(g)'
    BY <1>1, <1>3, <2>1, <2>2 DEF Place, Counts, CountsAll, Before, Holding, Active
  <2>6. NodeTypes'
    BY <1>1, <1>7, <2>1, <2>2 DEF NodeTypes, FreesServer, Goes, Before, After
  <2>7. \A h \in Goals : ~Serving(h)'
    BY <1>3, <2>1 DEF OneServing, Serving, Idle
  <2>8. QED
    BY <2>4, <2>5, <2>6, <2>7 DEF CountInv, OneServing
<1>8. CASE ChangesDTO(g)
  <2>1. PICK from \in {"validating", "dropping"}, to \in {"refusing", "releasing"} :
           Goes(g, from, to) /\ ((from = "validating") <=> (to = "refusing"))
    BY <1>8 DEF ChangesDTO
  <2>2. UNCHANGED <<isExecuting, status, completed, current, callerPc, yielded, eventSet>>
    BY <1>8 DEF ChangesDTO, vars, callerVars
  <2>3. \A h \in Goals : h # g => Untouched(h)
    BY <1>3, <2>1, <2>2 DEF Untouched
  <2>4. Place(g)' /\ Counts(g)' /\ CountsAll(g)'
    BY <1>1, <1>3, <2>1, <2>2 DEF Place, Counts, CountsAll, Before, Holding, Active
  <2>5. QED
    BY <1>1, <1>2, <2>1, <2>2, <2>3, <2>4
       DEF Before, Active, Holding, After, Idle, NodeTypes
<1>9. CASE ChangesStatus(g)
  <2>1. PICK from \in {"validating", "succeeding", "aborting"},
             to \in {"accepted", "releasing", "dropping"},
             st \in {"executing", "succeeded", "aborted"} :
           /\ Goes(g, from, to) /\ status' = [status EXCEPT ![g] = st]
           /\ to = "accepted" => trajectoryGoal' = g
           /\ (from = "validating") <=> (to = "accepted")
           /\ (from = "validating") <=> (st = "executing")
    BY <1>9 DEF ChangesStatus
  <2>2. UNCHANGED <<isExecuting, completed, current, callerPc, yielded, eventSet>>
    BY <1>9 DEF ChangesStatus, vars, callerVars
  <2>3. /\ status'[g] = st /\ \A h \in Goals : h # g => status'[h] = status[h]
        /\ status' \in [Goals -> {"unknown", "executing", "canceling", "succeeded", "aborted"}]
    BY <1>1, <2>1 DEF NodeTypes
  <2>4. \A h \in Goals : h # g => Untouched(h)
    BY <1>3, <2>1, <2>2, <2>3 DEF Untouched
  <2>5. Place(g)' /\ Counts(g)' /\ CountsAll(g)'
    BY <1>1, <1>3, <2>1, <2>2, <2>3 DEF Place, Counts, CountsAll, Before, Holding, Active
  <2>6. QED
    BY <1>1, <1>2, <2>1, <2>2, <2>3, <2>4, <2>5
       DEF Before, Active, Holding, After, Idle, NodeTypes
<1>10. CASE Plans(g)
  <2>1. UNCHANGED kept
    BY <1>10 DEF Plans
  <2>2. CASE Goes(g, "accepted", "planning") /\ PlanAllEvent(trajectoryGoal)
    <3>1. /\ trajectoryGoal = g /\ current' = g /\ callerPc' = "makeQueue"
          /\ UNCHANGED <<yielded, eventSet>>
          /\ current = NoGoal /\ outcome[g] = "pending"
      BY <1>1, <2>2 DEF Place, Goes, PlanAllEvent, TypeOK
    <3>2. Len(yielded[g]) = 0
      BY <3>1, CoordinatorAssumption, EmptySeq DEF CoordinatorInv, GivesInOrder, NothingYet
    <3>3. Len(completed[g]) = 0
      BY <1>1, <2>2, EmptySeq DEF Counts, Goes
    <3>4. Place(g)' /\ Counts(g)' /\ CountsAll(g)'
      BY <1>1, <1>3, <1>4, <2>1, <2>2, <3>1, <3>2, <3>3
         DEF Place, Counts, CountsAll, Before, Holding, Active
    <3>5. QED
      BY <1>2, <1>3, <1>4, <2>1, <2>2, <3>1, <3>4 DEF Before, Active, Holding, After, Idle, kept
  <2>3. CASE /\ goalPc[g] = "planning" /\ UNCHANGED goalPc
             /\ PlanAllQueue \/ PlanAllSession \/ PlanAllRequest
    <3>1. /\ UNCHANGED <<current, yielded, eventSet>>
          /\ callerPc' # "consuming" /\ callerPc \notin {"consuming"}
      BY <2>3 DEF PlanAllQueue, PlanAllSession, PlanAllRequest
    <3>2. \A h \in Goals : Place(h)' /\ Counts(h)' /\ CountsAll(h)'
      BY <2>1, <2>3, <3>1 DEF CountInv, Place, Counts, CountsAll, kept
    <3>3. NodeTypes' /\ OneServing'
      BY <2>1, <2>3 DEF NodeTypes, OneServing, Serving, kept
    <3>4. QED
      BY <3>2, <3>3 DEF CountInv
  <2>4. CASE Goes(g, "planning", "aborting") /\ PlanAllRefuse
    <3>1. current' = NoGoal /\ callerPc' = "idle" /\ UNCHANGED <<yielded, eventSet>>
      BY <2>4 DEF PlanAllRefuse
    <3>2. Place(g)' /\ Counts(g)' /\ CountsAll(g)'
      BY <1>1, <1>3, <1>4, <2>1, <2>4, <3>1, CoordinatorAssumption, SMTT(30)
           DEF Place, Counts, CountsAll, Before, Holding, Active
    <3>3. QED
      BY <1>2, <1>3, <1>4, <2>1, <2>4, <3>1, <3>2 DEF Before, Active, Holding, After, Idle, kept
  <2>5. QED
    BY <1>10, <2>2, <2>3, <2>4 DEF Plans
<1>11. CASE TakesPlan(g)
  <2>1. Goes(g, "planning", "judging") /\ Take /\ UNCHANGED kept
    BY <1>11 DEF TakesPlan
  <2>2. /\ current = g /\ callerPc = "iterating" /\ planQueue = g /\ queue[g] # <<>>
        /\ yielded' = [yielded EXCEPT ![g] = Append(@, Head(queue[g]))]
        /\ UNCHANGED <<current, eventSet>> /\ callerPc' = "consuming"
    BY <1>1, <2>1 DEF Take, Place, Goes, TypeOK
  <2>3. /\ yielded[g] \in Seq(QueueItem) /\ Head(queue[g]) \in QueueItem
        /\ yielded'[g] = Append(yielded[g], Head(queue[g]))
    BY <1>1, <2>2, HeadTailProperties DEF TypeOK
  <2>4. /\ Len(yielded'[g]) = Len(yielded[g]) + 1 /\ Len(yielded[g]) \in Nat
        /\ yielded'[g][Len(yielded[g]) + 1] = Head(queue[g])
    BY <2>3, AppendProperties
  <2>5. ASSUME QuietStart, g \notin eventSet, Head(queue[g]) # Failure
        PROVE  Len(yielded[g]) + 1 <= GroupCount[g]
    <3>1. Head(queue[g]) # Stop
      BY <1>1, <2>1, <2>2 DEF Take
    <3>2. IsPlan(Head(queue[g]))
      BY <2>3, <2>5, <3>1, ItemKinds
    <3>3. Len(yielded[g]) < GroupCount[g] /\ GroupCount[g] \in Nat
      BY <2>2, <2>5, <3>2, NextGiven, CoordinatorAssumption DEF CoordinatorInv, StreamInv
    <3>4. QED
      BY <2>4, <3>3
  <2>6. Len(yielded[g]) = Len(completed[g])
    BY <1>1, <2>1 DEF Counts, Goes
  <2>7. Place(g)'
    BY <1>1, <1>3, <1>4, <2>1, <2>2 DEF Place, Before, Holding, Active
  <2>8. Counts(g)'
    BY <1>3, <1>4, <2>1, <2>4, <2>6 DEF Counts, Before, Holding
  <2>9. CountsAll(g)'
    BY <1>3, <2>1, <2>2, <2>4, <2>5 DEF CountsAll
  <2>10. QED
    BY <1>2, <1>3, <1>4, <2>1, <2>2, <2>7, <2>8, <2>9
       DEF Before, Active, Holding, After, Idle, kept
<1>12. CASE EndsPlans(g)
  <2>1. Goes(g, "planning", "succeeding") /\ Finish /\ UNCHANGED kept
    BY <1>12 DEF EndsPlans
  <2>2. /\ current = g /\ callerPc = "iterating" /\ queue[g] # <<>> /\ Head(queue[g]) = Stop
        /\ current' = NoGoal /\ callerPc' = "idle" /\ UNCHANGED <<yielded, eventSet>>
    BY <1>1, <2>1 DEF Finish, Place, Goes, TypeOK
  <2>3. Len(yielded[g]) = Len(completed[g])
    BY <1>1, <2>1 DEF Counts, Goes
  <2>4. QuietStart /\ g \notin eventSet => Len(completed[g]) = GroupCount[g]
    BY <2>2, <2>3, NextGiven DEF CoordinatorInv, StreamInv
  <2>5. Place(g)' /\ Counts(g)' /\ CountsAll(g)'
    BY <1>1, <1>3, <1>4, <2>1, <2>2, <2>4, CoordinatorAssumption, SMTT(30)
         DEF Place, Counts, CountsAll, Before, Holding, Active
  <2>6. QED
    BY <1>2, <1>3, <1>4, <2>1, <2>2, <2>5 DEF Before, Active, Holding, After, Idle, kept
<1>13. CASE DropsPlans(g)
  <2>1. PICK from \in {"judging", "executing", "moving", "cancelling"} :
           Goes(g, from, "aborting")
    BY <1>13 DEF DropsPlans
  <2>2. /\ UNCHANGED kept /\ current' = NoGoal /\ callerPc' = "idle"
        /\ UNCHANGED <<yielded, eventSet>>
    BY <1>13 DEF DropsPlans, Abandon
  <2>3. Place(g)' /\ Counts(g)' /\ CountsAll(g)'
    BY <1>1, <1>3, <1>4, <2>1, <2>2, CoordinatorAssumption
       DEF Place, Counts, CountsAll, Before, Holding, Active
  <2>4. QED
    BY <1>2, <1>3, <1>4, <2>1, <2>2, <2>3 DEF Before, Active, Holding, After, Idle, kept
<1>14. CASE CancelsPlans(g)
  <2>1. /\ UNCHANGED kept /\ UNCHANGED <<current, callerPc, yielded>>
        /\ eventSet \subseteq eventSet'
    BY <1>14 DEF CancelsPlans, CancelBegin, Cancel, CancelSet, CancelCheck, CancelDrain,
                 CancelPutFailure, CancelPutStop, CancelUse, callerVars
  <2>2. CASE Goes(g, "moving", "cancelling")
    <3>1. Place(g)' /\ Counts(g)' /\ CountsAll(g)'
      BY <1>1, <1>3, <1>4, <2>1, <2>2 DEF Place, Counts, CountsAll, Before, Holding, Active
    <3>2. QED
      BY <1>2, <1>3, <1>4, <2>1, <2>2, <3>1 DEF Before, Active, Holding, After, Idle, kept
  <2>3. CASE UNCHANGED goalPc
    <3>1. \A h \in Goals : Place(h)' /\ Counts(h)' /\ CountsAll(h)'
      BY <2>1, <2>3, UntouchedStays DEF CountInv, Untouched, kept
    <3>2. NodeTypes' /\ OneServing'
      BY <2>1, <2>3 DEF NodeTypes, OneServing, Serving, kept
    <3>3. QED
      BY <3>1, <3>2 DEF CountInv
  <2>4. QED
    BY <1>14, <2>2, <2>3 DEF CancelsPlans
<1>15. CASE Completes(g)
  <2>1. /\ Goes(g, "executing", "planning") /\ Resume
        /\ UNCHANGED <<isExecuting, trajectoryGoal, status>>
        /\ completed' = [completed EXCEPT ![g] = Append(@, <<LastYield.goal, LastYield.group>>)]
    BY <1>15 DEF Completes
  <2>2. /\ current = g /\ callerPc' = "iterating" /\ LastYield # Failure
        /\ UNCHANGED <<current, yielded, eventSet>>
    BY <1>1, <2>1 DEF Resume, Place, Goes, Holding
  <2>3. Len(yielded[g]) = Len(completed[g]) + 1
    BY <1>1, <2>1 DEF Counts, Goes, Holding
  <2>4. LastYield \in PlanItem
    <3>1. yielded[g] \in Seq(QueueItem) /\ Len(yielded[g]) \in 1..Len(yielded[g])
      BY <1>1, <2>3 DEF TypeOK
    <3>2. LastYield \in QueueItem /\ LastYield # Stop
      BY <2>2, <3>1 DEF LastYield, CoordinatorInv, GivesInOrder, FailureLast
    <3>3. QED
      BY <2>2, <3>2 DEF QueueItem
  <2>5. <<LastYield.goal, LastYield.group>> \in Goals \X Nat
    BY <2>4 DEF PlanItem
  <2>6. /\ completed'[g] = Append(completed[g], <<LastYield.goal, LastYield.group>>)
        /\ \A h \in Goals : h # g => completed'[h] = completed[h]
    BY <1>1, <2>1 DEF NodeTypes
  <2>7. completed'[g] \in Seq(Goals \X Nat) /\ Len(completed'[g]) = Len(completed[g]) + 1
    BY <1>1, <2>5, <2>6, AppendProperties
  <2>8. completed' \in [Goals -> Seq(Goals \X Nat)]
    BY <1>1, <2>1, <2>6, <2>7 DEF NodeTypes
  <2>9. Place(g)' /\ Counts(g)' /\ CountsAll(g)'
    BY <1>1, <1>3, <2>1, <2>2, <2>3, <2>7
       DEF Place, Counts, CountsAll, Before, Holding, Active
  <2>10. \A h \in Goals : h # g => Untouched(h)
    BY <1>3, <2>1, <2>6 DEF Untouched
  <2>11. QED
    BY <1>1, <1>2, <2>1, <2>2, <2>8, <2>9, <2>10
       DEF Before, Active, Holding, After, Idle, NodeTypes
<1>16. QED
  BY <1>5, <1>6, <1>7, <1>8, <1>9, <1>10, <1>11, <1>12, <1>13, <1>14, <1>15 DEF GoalActs

(* What the others do leaves every goal where it is; a goal that is        *)
(* CANCELING is still active.                                              *)
LEMMA NodeOtherStep ==
  ASSUME NodeInv, OthersAct PROVE NodeInv'
<1> USE DEF NodeInv, PlaceInv
<1>1. UNCHANGED <<isExecuting, trajectoryGoal, completed, goalPc>>
  BY DEF OthersAct
<1>2. UNCHANGED <<current, callerPc, yielded>> /\ eventSet \subseteq eventSet'
  BY DEF OthersAct, Chain, SceneResponse, Schedule, PopGroup, PopNothing, PlanResponse,
         EnqueueResult, PutFailure, PutStop, CancelBegin, Cancel, CancelSet, CancelCheck,
         CancelDrain, CancelPutFailure, CancelPutStop, CancelUse, callerVars, vars
<1>3. /\ status' \in [Goals -> {"unknown", "executing", "canceling", "succeeded", "aborted"}]
      /\ \A h \in Goals : \/ status'[h] = status[h]
                          \/ status[h] = "executing" /\ status'[h] = "canceling"
  BY DEF OthersAct, NodeTypes
<1>4. NodeTypes' /\ OneServing'
  BY <1>1, <1>3 DEF NodeTypes, OneServing, Serving
<1>5. \A h \in Goals : Place(h)'
  BY <1>1, <1>2, <1>3 DEF Place
<1>6. \A h \in Goals : Counts(h)' /\ CountsAll(h)'
  BY <1>1, <1>2 DEF CountInv, Counts, CountsAll
<1>7. QED
  BY <1>4, <1>5, <1>6 DEF CountInv

BothInv == CoordinatorInv /\ NodeInv

LEMMA BothInit == AsInTheNode /\ Node!Init => BothInv
BY NodeInit, TypeInit, GivesInit, QuietInit, OwnInit, CancelInit, ShapeInit
   DEF BothInv, CoordinatorInv, StreamInv

LEMMA BothStep ==
  ASSUME AsInTheNode, BothInv, [Node!Next]_(Node!vars) PROVE BothInv' /\ [Next]_vars
<1>1. (\E g \in Goals : GoalActs(g)) \/ OthersAct
  BY NodeEffects
<1>2. NodeInv'
  BY <1>1, NodeGoalStep, NodeOtherStep DEF BothInv
<1>3. [Next]_vars
  BY <1>1, NodeCoordinates DEF BothInv, NodeInv, PlaceInv, Place
<1>4. TypeOK' /\ GivesInOrder'
  BY <1>3, TypeStep, GivesStep DEF BothInv, CoordinatorInv
<1>5. QuietStart => StreamInv'
  BY <1>3, TypeStep, GivesStep, QuietStep, OwnStep, CancelStep, ExactStep
     DEF BothInv, CoordinatorInv, StreamInv
<1>6. QED
  BY <1>2, <1>3, <1>4, <1>5 DEF BothInv, CoordinatorInv

(* The node uses the coordinator as PlanningCoordinator assumes: one       *)
(* caller that plans, consumes and abandons, and cancel() calls. So what   *)
(* is proved of PlanningCoordinator holds in the node, in particular:      *)
THEOREM NodeUsesCoordinator == AsInTheNode => (NodeSpec => Init /\ [][Next]_vars)
<1> SUFFICES ASSUME AsInTheNode PROVE NodeSpec => Init /\ [][Next]_vars
  OBVIOUS
<1>1. Node!Init => BothInv /\ Init
  BY BothInit, NodeInit
<1>2. BothInv /\ [Node!Next]_(Node!vars) => BothInv' /\ [Next]_vars
  BY BothStep
<1>3. QED
  BY <1>1, <1>2, PTL DEF NodeSpec

(* Whatever clients cancel, and whatever callbacks of an earlier goal are  *)
(* still under way, the execute callbacks are given no group's plan twice. *)
THEOREM NodeGivesOnce == AsInTheNode => (NodeSpec => []NoGroupTwice)
<1> SUFFICES ASSUME AsInTheNode PROVE NodeSpec => []NoGroupTwice
  OBVIOUS
<1>1. NodeSpec => Init /\ [][Next]_vars
  BY NodeUsesCoordinator
<1>2. QED
  BY <1>1, GroupsGivenOnce, PTL

(* When no thread of the goal before is still at work on its planning, an  *)
(* execute callback is given its own goal's plans only, forward.           *)
THEOREM NodeGivesOwnPlans == QuietStart /\ AsInTheNode => (NodeSpec => []OwnPlansForward)
<1> SUFFICES ASSUME QuietStart, AsInTheNode PROVE NodeSpec => []OwnPlansForward
  OBVIOUS
<1>1. NodeSpec => Init /\ [][Next]_vars
  BY NodeUsesCoordinator
<1>2. Init /\ [][Next]_vars => []OwnPlansForward
  BY OwnPlans
<1>3. QED
  BY <1>1, <1>2, PTL

-----------------------------------------------------------------------------
(* The service, step by step.                                              *)
LEMMA StandingIs ==
  \A g : Node!Standing(g) =
    CASE goalPc[g] \in {"unsent", "validating", "refusing"} -> "unsent"
      [] goalPc[g] = "rejected"                             -> "rejected"
      [] status[g] \in {"executing", "canceling"}           -> "active"
      [] OTHER                                              -> status[g]
BY DEF Node!Standing

(* One goal's standing or progress changes, and nobody else's.             *)
LEMMA StandingMoves ==
  ASSUME NodeTypes, NEW g \in Goals, NEW to, Node!Standing(g)' = to,
         UNCHANGED completed,
         \A h \in Goals : h # g => Untouched(h)
  PROVE  /\ [h \in Goals |-> Node!Standing(h)]'
              = [[h \in Goals |-> Node!Standing(h)] EXCEPT ![g] = to]
         /\ UNCHANGED [h \in Goals |-> Len(completed[h])]
<1>1. \A h \in Goals : h # g => Node!Standing(h)' = Node!Standing(h)
  BY DEF Node!Standing, Untouched
<1>2. \A h \in Goals : Len(completed[h])' = Len(completed[h])
  OBVIOUS
<1>3. QED
  BY <1>1, <1>2, Zenon

LEMMA StandingSame ==
  ASSUME \A h \in Goals : Node!Standing(h)' = Node!Standing(h), UNCHANGED completed
  PROVE  UNCHANGED Node!Service!serviceVars
<1>1. [h \in Goals |-> Node!Standing(h)]' = [h \in Goals |-> Node!Standing(h)]
  BY Zenon
<1>2. [h \in Goals |-> Len(completed[h])]' = [h \in Goals |-> Len(completed[h])]
  OBVIOUS
<1>3. QED
  BY <1>1, <1>2 DEF Node!Service!serviceVars

LEMMA ServiceInit == Node!Init => Node!Service!Init
<1> SUFFICES ASSUME Node!Init PROVE Node!Service!Init
  OBVIOUS
<1>1. \A g \in Goals : Node!Standing(g) = "unsent" /\ Len(completed[g]) = 0
  BY EmptySeq DEF Node!Init, Node!Standing
<1>2. QED
  BY <1>1 DEF Node!Service!Init

(* Where a goal stands with the server, by the place of its callbacks.     *)
LEMMA StandingByPlace ==
  ASSUME NodeTypes, NEW g \in Goals, Place(g)
  PROVE  /\ goalPc[g] \in {"unsent", "validating", "refusing"} <=> Node!Standing(g) = "unsent"
         /\ goalPc[g] = "rejected" <=> Node!Standing(g) = "rejected"
         /\ goalPc[g] \in Active <=> Node!Standing(g) = "active"
         /\ goalPc[g] \in After => Node!Standing(g) = status[g]
BY DEF NodeTypes, Place, Node!Standing, Before, Active, Holding, After

(* The callbacks of a goal whose Event is not set where it matters: where  *)
(* a plan was executed, and where the iterator was exhausted.              *)
LEMMA ServiceGoalStep ==
  ASSUME QuietStart, NodeInv, NodeInv', NEW g \in Goals, GoalActs(g),
         goalPc[g] \in {"executing", "succeeding"} => g \notin eventSet
  PROVE  Node!Service!Next \/ UNCHANGED Node!Service!serviceVars
<1> DEFINE standing == [h \in Goals |-> Node!Standing(h)]
           progress == [h \in Goals |-> Len(completed[h])]
<1>1. /\ NodeTypes /\ Place(g) /\ Counts(g) /\ CountsAll(g)
      /\ NodeTypes' /\ Place(g)'
      /\ standing[g] = Node!Standing(g) /\ progress[g] = Len(completed[g])
      /\ Len(completed[g]) \in Nat /\ GroupCount[g] \in Nat
  BY CoordinatorAssumption DEF NodeInv, PlaceInv, CountInv, NodeTypes
<1>2. ASSUME NEW from, NEW to, Goes(g, from, to)
      PROVE  goalPc[g] = from /\ goalPc'[g] = to /\ \A h \in Goals : h # g => goalPc'[h] = goalPc[h]
  BY <1>1, <1>2 DEF Goes, NodeTypes
<1>3. ASSUME UNCHANGED <<status, completed>>,
             NEW from \in Before \cup Active \cup After, NEW to \in Before \cup Active \cup After,
             Goes(g, from, to),
             \/ from \in Active /\ to \in Active
             \/ from \in After /\ to \in After
             \/ from \in Before \ {"rejected"} /\ to \in Before \ {"rejected"}
      PROVE  UNCHANGED Node!Service!serviceVars
  <2>1. Node!Standing(g)' = Node!Standing(g)
    BY <1>1, <1>2, <1>3
       DEF Node!Standing, Place, Before, Active, Holding, After, NodeTypes
  <2>2. \A h \in Goals : h # g => Node!Standing(h)' = Node!Standing(h)
    BY <1>2, <1>3 DEF Node!Standing
  <2>3. QED
    BY <1>3, <2>1, <2>2, StandingSame
<1>4. ASSUME UNCHANGED completed, NEW from \in {"unsent", "refusing"}, Goes(g, from, "rejected"),
             UNCHANGED status
      PROVE  Node!Service!Next
  <2>1. Node!Standing(g) = "unsent" /\ Node!Standing(g)' = "rejected"
    <3>1. goalPc[g] \in {"unsent", "refusing"} /\ goalPc'[g] = "rejected"
      BY <1>2, <1>4
    <3>2. status[g] = "unknown" /\ status'[g] = "unknown"
      BY <1>1, <1>4, <3>1 DEF Place, Before
    <3>3. Node!Standing(g) = "unsent"
      BY <3>1, <3>2 DEF Node!Standing
    <3>4. Node!Standing(g)' = "rejected"
      BY <3>1, <3>2 DEF Node!Standing
    <3>5. QED
      BY <3>3, <3>4
  <2>2. \A h \in Goals : h # g => Untouched(h)
    BY <1>2, <1>4 DEF Untouched
  <2>3. Node!Service!Reject(g)
    BY <1>1, <1>4, <2>1, <2>2, StandingMoves DEF Node!Service!Reject, Node!Service!Become
  <2>4. QED
    BY <2>3 DEF Node!Service!Next
<1>5. CASE GoesOn(g)
  <2>1. UNCHANGED <<status, completed>>
    BY <1>5 DEF GoesOn, kept
  <2>2. CASE Goes(g, "unsent", "rejected")
    BY <1>4, <2>1, <2>2
  <2>3. CASE ~Goes(g, "unsent", "rejected")
    <3>1. PICK from \in Active, to \in Active : Goes(g, from, to)
      BY <1>5, <2>3 DEF GoesOn, Active, Holding
    <3>2. QED
      BY <1>3, <2>1, <3>1
  <2>4. QED
    BY <2>2, <2>3
<1>6. CASE TakesServer(g) \/ ChangesDTO(g)
  <2>1. UNCHANGED <<status, completed>>
    BY <1>6 DEF TakesServer, ChangesDTO
  <2>2. PICK from, to :
           /\ Goes(g, from, to)
           /\ \/ from \in After /\ to \in After
              \/ from \in Before \ {"rejected"} /\ to \in Before \ {"rejected"}
    BY <1>6 DEF TakesServer, ChangesDTO, Before, After
  <2>3. QED
    BY <1>3, <2>1, <2>2
<1>7. CASE FreesServer(g)
  <2>1. UNCHANGED <<status, completed>>
    BY <1>7 DEF FreesServer
  <2>2. CASE Goes(g, "refusing", "rejected")
    BY <1>4, <2>1, <2>2
  <2>3. CASE Goes(g, "releasing", "returned")
    BY <1>3, <2>1, <2>3 DEF After
  <2>4. QED
    BY <1>7, <2>2, <2>3 DEF FreesServer
<1>8. CASE ChangesStatus(g)
  <2>1. UNCHANGED completed /\ \A h \in Goals : h # g => Untouched(h)
    <3>1. UNCHANGED completed /\ \E st : status' = [status EXCEPT ![g] = st]
      BY <1>8 DEF ChangesStatus
    <3>2. \A h \in Goals : h # g => goalPc'[h] = goalPc[h]
      BY <1>2, <1>8 DEF ChangesStatus
    <3>3. QED
      BY <1>1, <3>1, <3>2 DEF Untouched, NodeTypes
  <2>2. CASE Goes(g, "validating", "accepted")
    <3>1. Node!Standing(g) = "unsent" /\ Node!Standing(g)' = "active"
      BY <1>1, <1>2, <2>2, StandingByPlace DEF Node!Standing, Place, Active
    <3>2. \A h \in Goals : Node!Standing(h) # "active"
      <4>1. goalPc[g] = "validating"
        BY <2>2 DEF Goes
      <4>2. \A h \in Goals : goalPc[h] \in Active => h = g
        BY <4>1 DEF NodeInv, PlaceInv, OneServing, Serving, Idle, Active, Holding
      <4>3. goalPc[g] \notin Active
        BY <4>1 DEF Active, Holding
      <4>4. QED
        BY <4>2, <4>3, StandingByPlace DEF NodeInv, PlaceInv
    <3>3. Node!Service!Accept(g)
      BY <1>1, <2>1, <3>1, <3>2, StandingMoves DEF Node!Service!Accept, Node!Service!Become
    <3>4. QED
      BY <3>3 DEF Node!Service!Next
  <2>3. CASE Goes(g, "succeeding", "releasing")
    <3>1. Node!Standing(g) = "active" /\ Node!Standing(g)' = "succeeded"
      <4>1. Node!Standing(g) = "active"
        BY <1>1, <1>2, <2>3, StandingByPlace DEF Active
      <4>2. status'[g] = "succeeded"
        BY <1>1, <1>2, <1>8, <2>3 DEF ChangesStatus, NodeTypes, Goes
      <4>3. QED
        BY <1>2, <2>3, <4>1, <4>2 DEF Node!Standing
    <3>2. progress[g] = GroupCount[g]
      BY <1>1, <1>2, <2>3 DEF CountsAll
    <3>3. Node!Service!Succeed(g)
      BY <1>1, <2>1, <3>1, <3>2, StandingMoves DEF Node!Service!Succeed, Node!Service!Become
    <3>4. QED
      BY <3>3 DEF Node!Service!Next
  <2>4. CASE Goes(g, "aborting", "dropping")
    <3>1. Node!Standing(g) = "active" /\ Node!Standing(g)' = "aborted"
      <4>1. Node!Standing(g) = "active"
        BY <1>1, <1>2, <2>4, StandingByPlace DEF Active
      <4>2. status'[g] = "aborted"
        BY <1>1, <1>2, <1>8, <2>4 DEF ChangesStatus, NodeTypes, Goes
      <4>3. QED
        BY <1>2, <2>4, <4>1, <4>2 DEF Node!Standing
    <3>2. Node!Service!Abort(g)
      BY <1>1, <2>1, <3>1, StandingMoves DEF Node!Service!Abort, Node!Service!Become
    <3>3. QED
      BY <3>2 DEF Node!Service!Next
  <2>5. QED
    BY <1>8, <2>2, <2>3, <2>4 DEF ChangesStatus
<1>9. CASE Plans(g) \/ TakesPlan(g) \/ EndsPlans(g) \/ DropsPlans(g) \/ CancelsPlans(g)
  <2>1. UNCHANGED <<status, completed>>
    BY <1>9 DEF Plans, TakesPlan, EndsPlans, DropsPlans, CancelsPlans, kept
  <2>2. CASE UNCHANGED goalPc
    <3>1. \A h \in Goals : Node!Standing(h)' = Node!Standing(h)
      BY <2>1, <2>2 DEF Node!Standing
    <3>2. QED
      BY <2>1, <3>1, StandingSame
  <2>3. CASE \E from \in Active, to \in Active : Goes(g, from, to)
    BY <1>3, <2>1, <2>3
  <2>4. QED
    BY <1>9, <2>2, <2>3
       DEF Plans, TakesPlan, EndsPlans, DropsPlans, CancelsPlans, Active, Holding
<1>10. CASE Completes(g)
  <2>1. /\ Goes(g, "executing", "planning") /\ Resume /\ UNCHANGED status
        /\ completed' = [completed EXCEPT ![g] = Append(@, <<LastYield.goal, LastYield.group>>)]
    BY <1>10 DEF Completes
  <2>2. /\ goalPc[g] = "executing" /\ goalPc'[g] = "planning" /\ g \notin eventSet
        /\ current = g /\ LastYield # Failure /\ UNCHANGED yielded
    BY <1>1, <1>2, <2>1 DEF Resume, Place, Holding
  <2>3. Len(yielded[g]) = Len(completed[g]) + 1 /\ Len(yielded[g]) <= GroupCount[g]
    BY <1>1, <2>2 DEF Counts, CountsAll, Holding, LastYield
  <2>4. Len(completed'[g]) = Len(completed[g]) + 1
    <3>1. Counts(g)'
      BY DEF NodeInv, CountInv
    <3>2. QED
      BY <2>2, <2>3, <3>1 DEF Counts
  <2>5. \A h \in Goals : h # g => Len(completed'[h]) = Len(completed[h])
    BY <1>1, <2>1 DEF NodeTypes
  <2>6. UNCHANGED standing
    <3>1. Node!Standing(g)' = Node!Standing(g)
      BY <1>1, <2>1, <2>2, StandingByPlace DEF Node!Standing, Active, Place, Holding
    <3>2. \A h \in Goals : h # g => Node!Standing(h)' = Node!Standing(h)
      BY <1>2, <2>1 DEF Node!Standing
    <3>3. \A h \in Goals : Node!Standing(h)' = Node!Standing(h)
      BY <3>1, <3>2
    <3>4. QED
      BY <3>3, Zenon
  <2>7. progress' = [progress EXCEPT ![g] = progress[g] + 1]
    BY <1>1, <2>4, <2>5
  <2>8. Node!Standing(g) = "active" /\ progress[g] < GroupCount[g]
    BY <1>1, <2>2, <2>3, StandingByPlace DEF Active, Holding
  <2>9. Node!Service!Advance(g)
    BY <1>1, <2>6, <2>7, <2>8 DEF Node!Service!Advance
  <2>10. QED
    BY <2>9 DEF Node!Service!Next
<1>11. QED
  BY <1>5, <1>6, <1>7, <1>8, <1>9, <1>10 DEF GoalActs

LEMMA ServiceOtherStep ==
  ASSUME NodeInv, OthersAct PROVE UNCHANGED Node!Service!serviceVars
<1>1. /\ UNCHANGED <<goalPc, completed>>
      /\ \A h \in Goals : status'[h] # status[h] =>
            status[h] = "executing" /\ status'[h] = "canceling"
  BY DEF OthersAct, NodeInv, PlaceInv, NodeTypes
<1>2. \A h \in Goals : Node!Standing(h)' = Node!Standing(h)
  BY <1>1 DEF Node!Standing
<1>3. QED
  BY <1>1, <1>2, StandingSame

(* The Event of no goal is set whose plans are executed, or that is about  *)
(* to succeed.                                                             *)
Uncanceled == \A g \in Goals : goalPc[g] \in {"executing", "succeeding"} => g \notin eventSet

LEMMA ServiceStep ==
  ASSUME QuietStart, AsInTheNode, BothInv, [Node!Next]_(Node!vars), Uncanceled
  PROVE  [Node!Service!Next]_(Node!Service!serviceVars)
<1>1. (\E g \in Goals : GoalActs(g)) \/ OthersAct
  BY NodeEffects
<1>2. NodeInv /\ NodeInv'
  BY BothStep DEF BothInv
<1>3. CASE OthersAct
  BY <1>2, <1>3, ServiceOtherStep
<1>4. ASSUME NEW g \in Goals, GoalActs(g)
      PROVE  Node!Service!Next \/ UNCHANGED Node!Service!serviceVars
  BY <1>2, <1>4, ServiceGoalStep DEF Uncanceled
<1>5. QED
  BY <1>1, <1>3, <1>4

(* Whatever clients cancel: every step of the node is a step of the        *)
(* service or leaves it alone, except where a goal goes on after its Event *)
(* was set. Goals are accepted one at a time, groups are executed in       *)
(* order, and a goal succeeds only when all of its groups were executed.   *)
THEOREM UncanceledService ==
  QuietStart /\ AsInTheNode => (NodeSpec =>
     /\ Node!Service!Init
     /\ [][Uncanceled => [Node!Service!Next]_(Node!Service!serviceVars)]_(Node!vars))
<1> SUFFICES ASSUME QuietStart, AsInTheNode
             PROVE  NodeSpec =>
                      /\ Node!Service!Init
                      /\ [][Uncanceled => [Node!Service!Next]_(Node!Service!serviceVars)]_(Node!vars)
  OBVIOUS
<1>1. Node!Init => BothInv /\ Node!Service!Init
  BY BothInit, ServiceInit
<1>2. BothInv /\ [Node!Next]_(Node!vars) => BothInv'
  BY BothStep
<1>3. BothInv /\ [Node!Next]_(Node!vars) =>
        [Uncanceled => [Node!Service!Next]_(Node!Service!serviceVars)]_(Node!vars)
  BY ServiceStep
<1>4. QED
  BY <1>1, <1>2, <1>3, PTL DEF NodeSpec

(* Without cancel requests, an Event is set only by the goal itself, after *)
(* a motion that failed: it goes on only to abort.                         *)
OwnCancels ==
  CancelRequests = {} => \A g \in eventSet : goalPc[g] \in {"cancelling", "aborting"} \cup After

LEMMA OwnCancelsStep ==
  ASSUME QuietStart, AsInTheNode, BothInv, OwnCancels, [Node!Next]_(Node!vars)
  PROVE  OwnCancels'
<1> SUFFICES ASSUME CancelRequests = {}, NEW h \in eventSet'
             PROVE  goalPc'[h] \in {"cancelling", "aborting"} \cup After
  BY DEF OwnCancels
<1>1. NodeTypes /\ TypeOK /\ QuietInv /\ \A g \in Goals : Place(g)
  BY DEF BothInv, CoordinatorInv, StreamInv, NodeInv, PlaceInv
<1>2. CASE OthersAct
  <2>1. UNCHANGED <<eventSet, goalPc>>
    BY <1>2 DEF OthersAct, Chain, SceneResponse, Schedule, PopGroup, PopNothing,
                PlanResponse, EnqueueResult, PutFailure, PutStop, vars
  <2>2. QED
    BY <2>1 DEF OwnCancels
<1>3. ASSUME NEW g \in Goals, GoalActs(g), h \in eventSet
      PROVE  goalPc'[h] \in {"cancelling", "aborting"} \cup After
  <2>1. goalPc[h] \in {"cancelling", "aborting"} \cup After
    BY <1>3 DEF OwnCancels
  <2>2. h \in Goals
    BY <1>1, <1>3 DEF TypeOK
  <2>3. CASE g # h
    <3>1. goalPc'[h] = goalPc[h]
      BY <1>1, <1>3, <2>2, <2>3
         DEF GoalActs, GoesOn, TakesServer, FreesServer, ChangesDTO, ChangesStatus, Plans,
             TakesPlan, EndsPlans, DropsPlans, CancelsPlans, Completes, Goes, NodeTypes
    <3>2. QED
      BY <2>1, <3>1
  <2>4. CASE g = h
    BY <1>1, <1>3, <2>1, <2>2, <2>4
       DEF GoalActs, GoesOn, TakesServer, FreesServer, ChangesDTO, ChangesStatus, Plans,
           TakesPlan, EndsPlans, DropsPlans, CancelsPlans, Completes, Goes, NodeTypes, After
  <2>5. QED
    BY <2>3, <2>4
<1>4. ASSUME NEW g \in Goals, GoalActs(g), h \notin eventSet
      PROVE  goalPc'[h] = "cancelling"
  <2>1. eventSet' # eventSet
    BY <1>4
  <2>2. CancelsPlans(g) /\ CancelSet(g)
    BY <1>4, <2>1
       DEF GoalActs, GoesOn, TakesServer, FreesServer, ChangesDTO, ChangesStatus, Plans,
           TakesPlan, EndsPlans, DropsPlans, CancelsPlans, Completes, vars, PlanAllEvent,
           PlanAllQueue, PlanAllSession, PlanAllRequest, PlanAllRefuse, Take, Finish,
           Resume, Abandon, CancelBegin, Cancel, CancelCheck, CancelDrain,
           CancelPutFailure, CancelPutStop, CancelUse
  <2>3. goalPc[g] = "cancelling" /\ goalPc' = goalPc
    BY <2>2 DEF CancelsPlans, CancelBegin, CancelSet
  <2>4. h = cancelEvent
    BY <1>4, <2>2 DEF CancelSet
  <2>5. cancelEvent = current /\ current = g
    BY <1>1, <2>3, CoordinatorAssumption DEF Place, Holding, QuietInv, CallersSession
  <2>6. QED
    BY <2>3, <2>4, <2>5
<1>5. QED
  BY <1>2, <1>3, <1>4, NodeEffects

(* Without cancel requests the node implements the service, step by step.  *)
THEOREM ServiceImplemented ==
  QuietStart /\ AsInTheNode /\ CancelRequests = {} => (NodeSpec =>
     Node!Service!Init /\ [][Node!Service!Next]_(Node!Service!serviceVars))
<1> SUFFICES ASSUME QuietStart, AsInTheNode, CancelRequests = {}
             PROVE  NodeSpec =>
                      Node!Service!Init /\ [][Node!Service!Next]_(Node!Service!serviceVars)
  OBVIOUS
<1> DEFINE Inv == BothInv /\ OwnCancels
<1>1. Node!Init => Inv /\ Node!Service!Init
  BY BothInit, ServiceInit, NodeInit DEF OwnCancels, Init
<1>2. Inv /\ [Node!Next]_(Node!vars) => Inv'
  BY BothStep, OwnCancelsStep
<1>3. Inv => Uncanceled
  BY DEF OwnCancels, Uncanceled, After
<1>4. Inv /\ [Node!Next]_(Node!vars) => [Node!Service!Next]_(Node!Service!serviceVars)
  BY <1>3, ServiceStep
<1>5. QED
  BY <1>1, <1>2, <1>4, PTL DEF NodeSpec
=============================================================================
