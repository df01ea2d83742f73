--------------------------- MODULE GpioController ---------------------------
(* The GPIO controller node with its driver and its monitor_io goals.       *)
(*                                                                         *)
(* Lifecycle transitions, the services, the mock timers and the io_states  *)
(* subscription are in the node's one mutually exclusive callback group:   *)
(* they exclude each other (busy).  Only monitor_io runs beside them, one  *)
(* thread per goal, in a reentrant group.  A driver is an object made by   *)
(* on_configure; the subscription it made may outlive the node's use of it.*)
EXTENDS Integers, SequencesExt

CONSTANTS
  Inputs, Outputs,    \* the io_names of the configuration
  CommandOnly,        \* the outputs without readback (tool voltage)
  Values, Default,    \* of a signal
  Drivers, NoDriver,  \* bound: driver objects that exist at a time
  Monitors,           \* the monitor_io goals
  MaxChanges,         \* bound: changes of one signal of a driver
  MaxTimers,          \* bound: scheduled changes of one input to one value
  CleanupAfterFailure, \* TRUE: a node that failed to activate may be cleaned
                      \* up while its driver still has a subscription
  PatientOperator     \* TRUE: the node is configured and activated only
                      \* when no monitor of before is still winding down

ASSUME SignalsAssumption ==
  /\ Inputs \cap Outputs = {} /\ CommandOnly \subseteq Outputs
  /\ Default \in Values
  /\ NoDriver \notin Drivers
  /\ MaxChanges \in Nat /\ MaxTimers \in Nat
  /\ CleanupAfterFailure \in BOOLEAN /\ PatientOperator \in BOOLEAN

Signals == Inputs \cup Outputs

VARIABLES
  nodeState,   \* of the lifecycle node
  active,      \* _active
  driver,      \* _driver; the signal index is filled while there is one
  simulated,   \* _simulated: the driver is a MockIODriver
  subscribed,  \* drivers that hold their io_states subscription and clients
  leaked,      \* drivers with a subscription they hold no handle of
  cache,       \* per driver and signal
  changes,     \* history: what a driver called its change callback with
  timers,      \* how many mock timers wait to set an input to a value
  busy,        \* what the transition under way has still to do
  moved,       \* the <<driver, signal, value>> still to be routed
  watchers,    \* the goals registered in _watchers
  monitor,     \* where _execute_monitor of a goal stands
  status,      \* of its goal handle
  watched,     \* its io_name
  emit,        \* its emit_initial
  pending,     \* its entry's queue
  initial,     \* the feedback of emit_initial, if it was given
  streamed,    \* the feedbacks of changes
  since        \* history: how many changes were routed when it registered

node     == <<nodeState, active, driver, simulated, subscribed, leaked>>
signals  == <<cache, changes, moved>>
request  == <<watched, emit>>
feedback == <<initial, streamed>>
vars == <<node, signals, request, feedback, timers, busy, watchers, monitor,
          status, pending, since>>

Registered == {"initial", "checkActive", "checkCancel", "get", "leaving"}
Running == {"accepted", "found"} \cup Registered
NoTimers == [t \in Inputs \X Values |-> 0]

Nothing == <<>>
Idle == busy = "no" /\ moved = Nothing
Winding == \E m \in Monitors : monitor[m] \in Running
OperatorReady == PatientOperator => ~Winding

Init ==
  /\ nodeState = "unconfigured"
  /\ active = FALSE
  /\ driver = NoDriver
  /\ simulated = FALSE
  /\ subscribed = {} /\ leaked = {}
  /\ cache = [d \in Drivers |-> [s \in Signals |-> Default]]
  /\ changes = [d \in Drivers |-> [s \in Signals |-> <<>>]]
  /\ timers = NoTimers
  /\ busy = "no"
  /\ moved = Nothing
  /\ watchers = {}
  /\ monitor = [m \in Monitors |-> "none"]
  /\ status = [m \in Monitors |-> "none"]
  /\ watched \in [Monitors -> Signals]
  /\ emit \in [Monitors -> BOOLEAN]
  /\ pending = [m \in Monitors |-> <<>>]
  /\ initial = [m \in Monitors |-> <<>>]
  /\ streamed = [m \in Monitors |-> <<>>]
  /\ since = [m \in Monitors |-> 0]
---------------------------------------------------------------------------
(* Lifecycle transitions.  A configuration or activation that fails before *)
(* it has made anything leaves no trace and is not an action.              *)

(* A driver without a subscription is garbage once the node dropped it.    *)
Connected == subscribed \cup leaked

(* Builds the driver and its cache, and opens the services and the action. *)
Configure ==
  /\ Idle /\ OperatorReady
  /\ nodeState = "unconfigured"
  /\ simulated' \in BOOLEAN
  /\ \E d \in Drivers \ Connected :
       /\ driver' = d
       /\ cache' = [cache EXCEPT ![d] = [s \in Signals |-> Default]]
       /\ changes' = [changes EXCEPT ![d] = [s \in Signals |-> <<>>]]
  /\ nodeState' = "inactive"
  /\ UNCHANGED <<active, subscribed, leaked, moved, request, feedback,
                 timers, busy, watchers, monitor, status, pending, since>>

(* A real driver subscribes and makes its clients before it waits for the  *)
(* services; a subscription it already had loses its only handle.          *)
Attach ==
  IF simulated
    THEN UNCHANGED <<subscribed, leaked>>
    ELSE /\ leaked' = leaked \cup (subscribed \cap {driver})
         /\ subscribed' = subscribed \cup {driver}

Activate ==
  /\ Idle /\ OperatorReady
  /\ nodeState = "inactive"
  /\ Attach
  /\ active' = TRUE
  /\ nodeState' = "active"
  /\ UNCHANGED <<driver, simulated, signals, request, feedback, timers,
                 busy, watchers, monitor, status, pending, since>>

(* wait_for_service times out: the exception skips the clean-up.           *)
ActivateFails ==
  /\ Idle /\ OperatorReady
  /\ nodeState = "inactive" /\ ~simulated
  /\ Attach
  /\ UNCHANGED <<nodeState, active, driver, simulated, signals, request,
                 feedback, timers, busy, watchers, monitor, status, pending,
                 since>>

Deactivate ==
  /\ Idle
  /\ nodeState = "active"
  /\ active' = FALSE
  /\ timers' = NoTimers
  /\ subscribed' = subscribed \ {driver}
  /\ nodeState' = "inactive"
  /\ UNCHANGED <<driver, simulated, leaked, signals, request, feedback,
                 busy, watchers, monitor, status, pending, since>>

(* The first part of _teardown; destroying the action server destroys the  *)
(* handles of its goals, which then neither publish nor show a cancel      *)
(* request.  The driver is not deactivated.                                *)
Teardown(target) ==
  /\ active' = FALSE
  /\ timers' = NoTimers
  /\ status' = [m \in Monitors |->
                  IF status[m] \in {"executing", "canceling"} THEN "gone"
                                                            ELSE status[m]]
  /\ nodeState' = target
  /\ busy' = "watchers"
  /\ UNCHANGED <<driver, simulated, subscribed, leaked, signals, request,
                 feedback, watchers, monitor, pending, since>>

Cleanup ==
  /\ Idle
  /\ nodeState = "inactive"
  /\ CleanupAfterFailure \/ driver \notin Connected
  /\ Teardown("unconfigured")

Shutdown ==
  /\ Idle
  /\ nodeState # "finalized"
  /\ Teardown("finalized")

TeardownWatchers ==
  /\ busy = "watchers"
  /\ watchers' = {}
  /\ busy' = "driver"
  /\ UNCHANGED <<node, signals, request, feedback, timers, monitor, status,
                 pending, since>>

TeardownDriver ==
  /\ busy = "driver"
  /\ driver' = NoDriver
  /\ busy' = "no"
  /\ UNCHANGED <<nodeState, active, simulated, subscribed, leaked, signals,
                 request, feedback, timers, watchers, monitor, status,
                 pending, since>>
---------------------------------------------------------------------------
(* Signals.                                                                *)

(* Caches a value and, if it is a change, calls the change callback.       *)
Apply(d, s, v) ==
  IF cache[d][s] = v
    THEN UNCHANGED signals
    ELSE /\ Len(changes[d][s]) < MaxChanges
         /\ cache' = [cache EXCEPT ![d][s] = v]
         /\ changes' = [changes EXCEPT ![d][s] = Append(@, v)]
         /\ moved' = <<d, s, v>>

(* One entry of an io_states message, on any subscription there is.        *)
DeviceReports(d, s, v) ==
  /\ Idle
  /\ d \in Connected
  /\ s \notin CommandOnly
  /\ Apply(d, s, v)
  /\ UNCHANGED <<node, request, feedback, timers, busy, watchers, monitor,
                 status, pending, since>>

(* One entry of a set_io request.  A mock applies it, a real driver sends  *)
(* it to the device and caches only what the device will not report.       *)
SetOutput(s, v) ==
  /\ Idle
  /\ driver # NoDriver
  /\ simulated \/ (driver \in subscribed /\ s \in CommandOnly)
  /\ Apply(driver, s, v)
  /\ UNCHANGED <<node, request, feedback, timers, busy, watchers, monitor,
                 status, pending, since>>

(* set_mock_behavior; of an inactive node it schedules nothing.            *)
ScheduleMock(s, v) ==
  /\ Idle
  /\ simulated /\ driver # NoDriver
  /\ active
  /\ timers[<<s, v>>] < MaxTimers
  /\ timers' = [timers EXCEPT ![<<s, v>>] = @ + 1]
  /\ UNCHANGED <<node, signals, request, feedback, busy, watchers, monitor,
                 status, pending, since>>

FireTimer(s, v) ==
  /\ Idle
  /\ timers[<<s, v>>] > 0
  /\ timers' = [timers EXCEPT ![<<s, v>>] = @ - 1]
  /\ IF driver = NoDriver THEN UNCHANGED signals ELSE Apply(driver, s, v)
  /\ UNCHANGED <<node, request, feedback, busy, watchers, monitor, status,
                 pending, since>>

Coming(m) == IF moved # Nothing /\ moved[2] = watched[m]
               THEN <<moved[3]>> ELSE <<>>

(* _on_driver_change: collects the watchers under the lock and puts the    *)
(* change into their queues.  A put to a queue commutes with all that other*)
(* threads do between the two, so they are one step.                       *)
Route ==
  /\ moved # Nothing
  /\ pending' = [m \in Monitors |->
                   IF m \in watchers THEN pending[m] \o Coming(m)
                                     ELSE pending[m]]
  /\ moved' = Nothing
  /\ UNCHANGED <<node, cache, changes, request, feedback, timers, busy,
                 watchers, monitor, status, since>>
---------------------------------------------------------------------------
(* monitor_io goals.                                                       *)

MonitorMoves(m, from, to) ==
  /\ monitor[m] = from
  /\ monitor' = [monitor EXCEPT ![m] = to]
  /\ UNCHANGED <<node, signals, request, timers, busy>>

(* The goal callback; a goal it rejects leaves no trace.                   *)
Accept(m) ==
  /\ active
  /\ driver # NoDriver
  /\ MonitorMoves(m, "none", "accepted")
  /\ status' = [status EXCEPT ![m] = "executing"]
  /\ UNCHANGED <<feedback, watchers, pending, since>>

RequestCancel(m) ==
  /\ status[m] = "executing"
  /\ status' = [status EXCEPT ![m] = "canceling"]
  /\ UNCHANGED <<node, signals, request, feedback, timers, busy, watchers,
                 monitor, pending, since>>

(* _signal_index[io_name]; the KeyError of a cleaned-up node ends the goal *)
(* outside the try block.                                                  *)
LookUp(m) ==
  /\ MonitorMoves(m, "accepted", IF driver = NoDriver THEN "ended" ELSE "found")
  /\ status' = IF driver = NoDriver THEN [status EXCEPT ![m] = "ended"]
                                    ELSE status
  /\ UNCHANGED <<feedback, watchers, pending, since>>

(* How many changes of a signal has _on_driver_change routed.              *)
RoutedChanges(s) ==
  IF driver = NoDriver THEN 0
    ELSE Len(changes[driver][s])
           - (IF moved # Nothing /\ moved[1] = driver /\ moved[2] = s
                THEN 1 ELSE 0)

Register(m) ==
  /\ MonitorMoves(m, "found", IF emit[m] THEN "initial" ELSE "checkActive")
  /\ watchers' = watchers \cup {m}
  /\ since' = [since EXCEPT ![m] = RoutedChanges(watched[m])]
  /\ UNCHANGED <<feedback, status, pending>>

Current(m) == cache[driver][watched[m]]

(* Mutant: the value comes from the snapshot that on_configure took.       *)
EmitInitial_AsConfigured(m) ==
  /\ MonitorMoves(m, "initial", "checkActive")
  /\ initial' = [initial EXCEPT ![m] = <<Default>>]
  /\ UNCHANGED <<streamed, status, watchers, pending, since>>

(* The feedback of emit_initial, from the driver's snapshot.  Without a    *)
(* driver the exception aborts the goal.                                   *)
EmitInitial(m) ==
  /\ MonitorMoves(m, "initial",
                  IF driver = NoDriver THEN "leaving" ELSE "checkActive")
  /\ initial' = IF driver = NoDriver THEN initial
                  ELSE [initial EXCEPT ![m] = <<Current(m)>>]
  /\ status' = IF driver = NoDriver THEN [status EXCEPT ![m] = "ended"]
                                    ELSE status
  /\ UNCHANGED <<streamed, watchers, pending, since>>

(* Mutant: the loop ends only on a cancel request.                         *)
CheckActive_Unread(m) ==
  /\ MonitorMoves(m, "checkActive", "checkCancel")
  /\ UNCHANGED <<feedback, status, watchers, pending, since>>

(* The loop: the two checks, then the next change or a timeout.            *)
CheckActive(m) ==
  /\ MonitorMoves(m, "checkActive", IF active THEN "checkCancel" ELSE "leaving")
  /\ status' = IF active THEN status ELSE [status EXCEPT ![m] = "ended"]
  /\ UNCHANGED <<feedback, watchers, pending, since>>

CheckCancel(m) ==
  /\ MonitorMoves(m, "checkCancel",
                  IF status[m] = "canceling" THEN "leaving" ELSE "get")
  /\ status' = IF status[m] = "canceling" THEN [status EXCEPT ![m] = "ended"]
                                          ELSE status
  /\ UNCHANGED <<feedback, watchers, pending, since>>

(* Mutant: the queue is emptied, and its newest change reported.           *)
Report_Newest(m) ==
  /\ pending[m] # <<>>
  /\ MonitorMoves(m, "get", "checkActive")
  /\ streamed' = [streamed EXCEPT ![m] = Append(@, Last(pending[m]))]
  /\ pending' = [pending EXCEPT ![m] = <<>>]
  /\ UNCHANGED <<initial, status, watchers, since>>

Report(m) ==
  /\ pending[m] # <<>>
  /\ MonitorMoves(m, "get", "checkActive")
  /\ streamed' = [streamed EXCEPT ![m] = Append(@, Head(pending[m]))]
  /\ pending' = [pending EXCEPT ![m] = Tail(@)]
  /\ UNCHANGED <<initial, status, watchers, since>>

Timeout(m) ==
  /\ pending[m] = <<>>
  /\ MonitorMoves(m, "get", "checkActive")
  /\ UNCHANGED <<feedback, status, watchers, pending, since>>

(* Mutant: only the goals of an active node clean up after themselves.     *)
Unregister_WhenActive(m) ==
  /\ MonitorMoves(m, "leaving", "ended")
  /\ watchers' = IF active THEN watchers \ {m} ELSE watchers
  /\ UNCHANGED <<feedback, status, pending, since>>

(* The finally clause.                                                     *)
Unregister(m) ==
  /\ MonitorMoves(m, "leaving", "ended")
  /\ watchers' = watchers \ {m}
  /\ UNCHANGED <<feedback, status, pending, since>>
---------------------------------------------------------------------------
Transition ==
  Configure \/ Activate \/ ActivateFails \/ Deactivate \/ Cleanup \/ Shutdown

Signal ==
  \/ \E d \in Drivers, s \in Signals, v \in Values : DeviceReports(d, s, v)
  \/ \E s \in Outputs, v \in Values : SetOutput(s, v)
  \/ \E s \in Inputs, v \in Values : ScheduleMock(s, v) \/ FireTimer(s, v)

Callback == TeardownWatchers \/ TeardownDriver \/ Route

Watch(m) ==
  \/ LookUp(m) \/ Register(m) \/ EmitInitial(m)
  \/ CheckActive(m) \/ CheckCancel(m) \/ Report(m) \/ Timeout(m)
  \/ Unregister(m)

Next ==
  \/ Transition \/ Signal \/ Callback
  \/ \E m \in Monitors : Accept(m) \/ RequestCancel(m) \/ Watch(m)

(* A callback that has begun goes on, and so does the thread of a goal.    *)
Fairness ==
  /\ WF_vars(Callback)
  /\ \A m \in Monitors : WF_vars(Watch(m))

Spec == Init /\ [][Next]_vars /\ Fairness
---------------------------------------------------------------------------
(* The state has its type, a configured node has a driver, a mock has no   *)
(* subscription, and the change that is being routed is the last one of its*)
(* driver and signal.                                                      *)
JustMoved ==
  moved # Nothing =>
    LET past == changes[moved[1]][moved[2]]
    IN  past # <<>> /\ past[Len(past)] = moved[3]

TypeOK ==
  /\ nodeState \in {"unconfigured", "inactive", "active", "finalized"}
  /\ active \in BOOLEAN
  /\ driver \in Drivers \cup {NoDriver}
  /\ nodeState \in {"inactive", "active"} => driver # NoDriver /\ busy = "no"
  /\ simulated \in BOOLEAN
  /\ subscribed \subseteq Drivers /\ leaked \subseteq Drivers
  /\ simulated => driver \notin Connected
  /\ cache \in [Drivers -> [Signals -> Values]]
  /\ changes \in [Drivers -> [Signals -> Seq(Values)]]
  /\ timers \in [Inputs \X Values -> 0 .. MaxTimers]
  /\ busy \in {"no", "watchers", "driver"}
  /\ moved \in (Drivers \X Signals \X Values) \cup {Nothing}
  /\ JustMoved
  /\ watchers \subseteq Monitors
  /\ monitor \in [Monitors -> {"none", "ended"} \cup Running]
  /\ status \in [Monitors -> {"none", "executing", "canceling", "ended", "gone"}]
  /\ watched \in [Monitors -> Signals]
  /\ emit \in [Monitors -> BOOLEAN]
  /\ pending \in [Monitors -> Seq(Values)]
  /\ initial \in [Monitors -> Seq(Values)]
  /\ streamed \in [Monitors -> Seq(Values)]
  /\ since \in [Monitors -> Nat]

(* A mock timer waits only while the node is active: a deactivated node    *)
(* keeps its last values, and nothing scheduled before returns after it    *)
(* was activated again.                                                    *)
TimersOnlyWhileActive == timers # NoTimers => active /\ simulated

(* One feedback per change: what a registered goal has streamed, has in    *)
(* its queue and is about to get are the changes its node's driver made    *)
(* since the goal registered, each once and in order.                      *)
ChangesSince(m) ==
  LET past == changes[driver][watched[m]]
  IN  SubSeq(past, since[m] + 1, Len(past))

MonitorsHearEveryChange ==
  \A m \in watchers : driver # NoDriver =>
    streamed[m] \o pending[m] \o Coming(m) = ChangesSince(m)

(* A goal that asked for the initial value and has nothing left to report  *)
(* has reported the value the signal has: no change falls between the      *)
(* snapshot and the registration.                                          *)
ReportsCurrentValue ==
  \A m \in watchers :
    /\ driver # NoDriver
    /\ emit[m] /\ monitor[m] \in {"checkActive", "checkCancel", "get"}
    /\ pending[m] = <<>> /\ Coming(m) = <<>>
    => Last(initial[m] \o streamed[m]) = Current(m)

(* No queue of a goal that ended is fed any more.                          *)
OnlyRunningWatch == \A m \in watchers : monitor[m] \in Registered

(* A cancelled goal ends, and so does every goal of a node that is         *)
(* deactivated, however many changes keep coming.                          *)
CancelledMonitorsEnd ==
  \A m \in Monitors : status[m] = "canceling" ~> monitor[m] = "ended"

DeactivationEndsMonitors ==
  \A m \in Monitors : ~active /\ monitor[m] \in Running ~> monitor[m] = "ended"

(* A deactivation and the end of a goal leave nothing behind that would    *)
(* still change an input or collect changes.                               *)
NothingLeftBehind == TimersOnlyWhileActive /\ OnlyRunningWatch

(* Both ways to end a monitor from outside reach its thread.               *)
MonitorsEnd == CancelledMonitorsEnd /\ DeactivationEndsMonitors
=============================================================================
