# A verification development for the movement controller workspace

TLA+ modules, TLC configurations and TLAPS proofs for the two programs in this
repository: a ROS 2 workspace with a MoveIt front end and the device nodes around
it (`src/movement_controller`, `src/io_controllers`, `src/laser_sensors`,
`src/cameras`), and gsd-tools, the planning tooling under
`.github/get-shit-done`, whose commands and agents keep the state of a project in
the files of `.planning`. Paths below are relative to the repository.

## 1. Inventory

### The ROS workspace

| part | state it keeps | operations | correct when |
|---|---|---|---|
| **Planning coordinator** `movement_controller/services/planning_coordinator.py` (with `planning_session_dto.py`, `plan_result_dto.py`) | `_cancel_event`, `_plan_queue`, `_session`, replaced by every `plan_all` | `plan_all`, the callbacks `_on_scene` and `_on_group_planned` with `_schedule_next`, `iterate_planned_trajectories`, `cancel`, `on_activate`, `on_deactivate` | the iterator gives every group of its goal once, in order, each planned from the end state of the one before; it ends; `cancel` ends it |
| **PILZ / OMPL planner services** `pilz_planner_service.py`, `ompl_planner_service.py`, `base_planner_service.py` | service client, constraints, OMPL tuning | build a request, convert the response, scale speeds | one result per request |
| **Movement controller, goals** `movement_controller/movement_controller.py` | `_is_executing`, `_trajectory_goal`, `_goal_handle` | `_goal_callback`, `_execute_callback`, `_cancel_callback`, `_call_with_cancellation` | one goal at a time; success only when everything was executed; no motion without a waiting goal; every accepted goal ends |
| **Movement controller, lifecycle** same file | planner service, publisher, action server and client | `on_configure`, `on_activate`, `on_deactivate`, `on_cleanup` | resources follow the lifecycle state; no transition leaves the node busy for nobody |
| **Trajectory grouper** `utils/trajectory_grouper.py`, `trajectory_path_dto.py` | none | `group`, `_effective_blend`, `normalise_blend_radius` | a PTP is alone, no path is lost, the robot blends where asked |
| **GPIO controller** `io_controllers/gpio_controller.py`, `monitor_entry.py` | driver, watchers, mock timers, `_active` | lifecycle, `set_io`, `monitor_io`, `set_mock_behavior` | a monitor reports every change once and ends with the node; a mock timer does not outlive the activation |
| **IO drivers** `mock_io_driver.py`, `ur_io_driver.py` | signal cache, change callback | `configure`, `activate`, `deactivate`, `set_digital`, `set_analog`, `apply_mock_change`, `_on_io_states` | the cache follows the device; changes are reported in order |
| constraint configuration, CAPTRON laser, Basler camera, vendored packages, launch files | parameters, publishers | | not modelled (section 6) |

A client's goal reaches `_goal_callback`, which validates it and leaves the DTO
for `_execute_callback`; that groups the paths, calls `plan_all` and runs the
`for` loop over the iterator. `plan_all` starts a chain of service callbacks that
plans one group after the other and puts results in a queue, ahead of the
execution. A cancel request runs `_cancel_callback` in yet another thread: it
calls `cancel()` and publishes "stop" for MoveIt. All of these run in a
multi-threaded executor with reentrant callback groups; except for
`_is_executing` and the queue, what they share has no lock. Lifecycle transitions
run next to them and do not wait for them.

The GPIO controller is a node of its own. A driver (mock or UR) caches the value
of every signal and calls the node back on a change; the node puts the change
into the queues of the `monitor_io` goals that watch the signal, and each goal's
thread publishes what it finds there. Everything but those threads runs in the
node's default, mutually exclusive callback group.

### gsd-tools

Every command is a process of its own; what they share is files. `bin/lib` is
short for `.github/get-shit-done/bin/lib`.

| part | state it keeps | operations | correct when |
|---|---|---|---|
| **Locks** `bin/lib/state.cjs`, `planning-workspace.cjs` | `STATE.md.lock`, `.planning/.lock` | `acquireStateLock`, `withPlanningLock`, and the read-modify-write of STATE.md and ROADMAP.md | one holder; no edit is lost; a crash blocks nobody for ever |
| **Phases and milestones** `phase.cjs`, `milestone.cjs`, `roadmap.cjs` | ROADMAP.md, `.planning/phases`, `.planning/milestones` | phase add, insert, remove, complete; milestone complete; phases clear | ROADMAP.md and the directories tell of the same phases; executed work is kept |
| **STATE.md** `state.cjs` | body, frontmatter, decisions, STATE-ARCHIVE.md | state begin-phase, advance-plan, update, sync, prune, ... | the frontmatter follows from body and disk; no decision is forgotten |
| **Queries** `init.cjs`, `roadmap.cjs`, `commands.cjs`, `verify.cjs` | none | init manager, init progress, stats, roadmap analyze | work that can be done is offered; 100 % means done |
| **Waves** `phase.cjs`, `roadmap.cjs` | the index of a phase's plans | phase-plan-index, annotate-dependencies | a plan comes after all it depends on, in the earliest such wave |
| **Configuration** `config.cjs`, `core.cjs` | config.json of project and workstream | config-set, config-new-project, every load with its migrations | what was set is used, and stays |
| **Workstreams** `workstream.cjs`, `planning-workspace.cjs` | directories, pointers of sessions | create with migration, set, complete with its undo | no written text is lost; what fails is undone |
| **Worktree cleanup** `worktree-safety.cjs` | branches and worktrees of agents | cleanup-wave, run again after it was blocked | only checked work is merged, only merged work is removed |
| **Repairs** `verify.cjs` | the planning directory | validate health --repair | repairs converge and keep what is there |
| **Skill surface** `surface.cjs`, `install-profiles.cjs`, `clusters.cjs` | profile marker, surface file, the two directories | apply a profile, switch clusters and skills | the directories show the resolved set, closed under what skills require |
| **Commits** `commands.cjs` | index, branches | commit, commit-to-subrepo | a text that was to be committed is in a commit |
| **Model routing** `core.cjs`, `model-catalog.cjs` | configuration | resolve model and effort, retry with a stronger tier | the effort is of the model's tier, escalation is bounded |
| **Learnings** `learnings.cjs` | `~/.gsd/knowledge`, shared by all projects | write, copy, delete, prune | nothing is stored twice, omitted or kept too long |
| **Knowledge graph** `graphify.cjs` | graph, snapshot | build, status, diff, query | answers fit the graph that was built, in the budget |
| **Requirements and todos** `milestone.cjs`, `phase.cjs`, `commands.cjs` | REQUIREMENTS.md, todos | requirements mark-complete, phase complete, todo complete | box and table agree; no mark and no todo is lost |
| **Installer migrations** `installer-migrations.cjs` | managed files, journal, backups, lock | plan, apply, roll back | the user's text is kept, a migration is applied once |
| **Local patches** `bin/verify-reapply-patches.cjs` | backups over an update | back up, merge, verify | backups do not go while a user's line is missing |
| audits, intel, documents, profiles, templates, security scan, import; command routing | none | text in, report out | not modelled (section 6) |
| codebase drift gate | the commit stamped into the codebase map | gate, mapping, stamp | not modelled (section 6) |

phase complete is the command where most of them meet: under the planning lock it
writes ROADMAP.md and REQUIREMENTS.md, then under the state lock STATE.md, whose
frontmatter it derives from the directories, and it may prune. Wave execution
reads the index of `phase-plan-index`, starts agents in worktrees with the model
that routing gives, and cleans up after them.

### Hard behaviours

In the ROS nodes: interleavings of threads; attributes that are replaced while
older callbacks still read them; two-step operations on the queue (failure, then
sentinel; drain, then put); a planner that never answers; a stop that meets a
trajectory not sent yet; a deactivation under a running goal; monitors that
register while signals change. In gsd-tools: commands of several agents at once,
with a lock, with half a lock and without one; a crash between two writes; undo
steps that fail as well; a command that is run again on what it has half done;
several readers of the same files that each read them in their own way.
`PROJECT.json` lists each at its line under "hazards".

## 2. Plan

Built, in this order (each composes or refines what is named with it):

1. `PlanStream` <- `PlanningCoordinator`: look-ahead planning.
2. `GoalService` <- `MovementController` (instantiates `PlanningCoordinator`): goals.
3. `TrajectoryGrouper`; proofs for the three.
4. `GpioController`: the GPIO node with its drivers and monitors, and its proofs.
5. gsd-tools, the shared files first: `PlanningLocks` with its proofs;
   `PhaseRegistry` -> `StateDocument` -> `PlanningProject` -> `PlanningQueries`, each
   extending the one before, so that a command is one action on both sides and
   the queries can be compared on what the commands leave; proofs of what the
   commands keep.
6. The parts of gsd-tools with files of their own: `WaveSchedule`, `Workstreams`,
   `WorktreeCleanup`, `ConfigStore`, `PlanningHealth`, `SkillSurface`,
   `DocumentCommits`, `ModelRouting`, `LearningsStore`, `KnowledgeGraph`,
   `TrackingFiles`, `InstallerMigrations`, `LocalPatches`; proofs for each. `Tooling`
   puts all of them but the installer's migrations side by side.
7. `NodeLifecycle`: the transitions of the movement controller under its goals, and
   its proofs.

What remains open: `NodeLifecycle` composed with the full `PlanningCoordinator`
instead of the few answers of it that a thread can meet.

## 3. Modules and how they correspond to the code

### PlanningCoordinator

Every `plan_all` puts new `Event`, `Queue` and session objects behind three
attributes, which every thread reads again at every use. So an attribute is the
*goal whose object it refers to* (`cancelEvent`, `planQueue`, `session`, or
`NoGoal` for `None`), and the objects are functions of the goal (`eventSet`,
`queue`, `popped`). An action is what one thread does between two uses of this
shared state:

| code | actions |
|---|---|
| `plan_all` | `PlanAllEvent`, `PlanAllQueue`, `PlanAllSession`, then `PlanAllRequest` or `PlanAllRefuse` |
| `iterate_planned_trajectories` | `Take`, `Finish`; its consumer: `Resume`, `Abandon` |
| `_on_scene` | `SceneResponse` |
| `_schedule_next` | `Schedule` (check), `PopGroup` or `PopNothing` |
| `_on_plan_response`, `_on_group_planned` | `PlanResponse` (check), `EnqueueResult` |
| `_abort`, end of the chain | `PutFailure`, `PutStop` |
| `cancel` | `CancelBegin`, `CancelSet`, `CancelCheck`, `CancelDrain`, `CancelPutFailure`, `CancelPutStop` |

A chain carries its own start state and its group in `job`; everything else it
reads through the attributes, so a chain of an ended session may work on the
next one's. A robot state is `<<g, n>>`, the end of group `n` of goal `g`.
`cancel()` tests an attribute and uses it again later; both are actions, because
the iterator may clear the attribute in between (and `cancel()` then raises). The callbacks'
own test-and-use of an attribute within one expression or one `if` (for example
`if self._plan_queue is not None: self._plan_queue.put(...)`) is a single step.

`QuietStart` and `PatientCaller` are parameters of the environment, not of the
code. `QuietStart = TRUE` says that `plan_all` is not called while a callback or
a `cancel()` of an earlier session is still running; `FALSE` lets sessions
overlap, which the code does not prevent. `PatientCaller = TRUE` is a consumer
that leaves the iterator only on a failure.

### PlanStream

What the coordinator promises: groups delivered one by one and in order, the
first planned from the live state, each later one from the end of the one
before, until all have been or planning fails. `PlanningCoordinator!StreamSpec`
is `PlanStream!Spec` under the mapping of `outcome` and `yielded`.

### MovementController

One program counter per goal follows `_goal_callback` and then
`_execute_callback` (which rclpy runs one after the other for a goal, each in
its own thread); one per cancel request follows `_cancel_callback`. The module
instantiates `PlanningCoordinator` with the execute callback as its caller, and
with the cancel requests and the goals themselves as its `cancel()` calls (the
execute callback cancels the planner when a motion fails). The coordinator's
variables change by the coordinator's own actions only; `CoordinatorUse` checks
that the composition never uses them otherwise.

External, from how the code uses it: rclpy's goal handle (a cancel request is
passed on only for a goal that is executing; the goal becomes CANCELING after
the callback returned ACCEPT, if it has not ended), MoveIt's `execute_trajectory`
(one motion; it ends with success, status 5/6, or another failure) and the stop
topic (a message that is delivered later; its publisher keeps the last one, so
one pending stop is enough; without a motion it has no effect). "aborted" stands
for every end of a motion that leaves the loop without `cancel()`, which
includes exceptions of the two futures. A missing action server is
`ServerMissing`. An `AttributeError` that leaves a cancel callback ends
`executor.spin()`: after it no action is possible (`NodeRuns`).

### GoalService

What a client is promised: one goal at a time, groups executed in order, success
only when all were, every accepted goal ends. `MovementController!ServiceSpec`
is `GoalService!Spec` under a mapping of program counter, status and
`completed_ids`.

### TrajectoryGrouper

A goal is a list of paths with motion type and blend radius. `Validate`
normalises the radii, `OpenGroup` and `ExtendGroup` are the two outcomes of a
turn of the grouping loop, `PlanGroup` builds the request of the planner that
`_select_service` picks: PILZ takes the whole group with radius 0 in its last
item, OMPL only the first path. Path ids are positions (the DTO rejects
duplicates). Checks of poses, UUIDs and CIRC fields are left out: they reject
goals and do not influence the grouping of those that remain.

### GpioController

The node, the driver objects it made, and one thread per `monitor_io` goal.

| code | actions |
|---|---|
| `on_configure`, `on_activate`, `on_deactivate` | `Configure`, `Activate`, `ActivateFails`, `Deactivate` |
| `on_cleanup`, `on_shutdown`, `_teardown` | `Cleanup`, `Shutdown`, `TeardownWatchers`, `TeardownDriver` |
| `_on_io_states`, `_update_cache`, mock `_apply` | `DeviceReports`, `Apply` |
| `_on_set_io` with `set_digital`, `set_analog` | `SetOutput` |
| `_on_set_mock_behavior`, `_schedule_mock_change`, `_fire` | `ScheduleMock`, `FireTimer` |
| `_on_driver_change` | `Route` |
| `_on_monitor_goal`, `_on_monitor_cancel` | `Accept`, `RequestCancel` |
| `_execute_monitor` | `LookUp`, `Register`, `EmitInitial`, then the loop `CheckActive`, `CheckCancel`, `Report` or `Timeout`; `Unregister` |

`busy` and `moved` hold what a callback of the default group has still to do, so
that the monitors' threads run between its steps and its other callbacks do not
(`Idle`): a teardown destroys the action server, then replaces `_watchers`, then
drops the driver (the actions merge the assignments of the signal index, the
driver and the configuration, which are adjacent); a change is cached first and
routed after. Putting it into several queues is one step: a put commutes with
what the threads do meanwhile. `busy` also covers one `io_states` message or
`set_io` request: each of its entries is an action, with other callbacks allowed
between two of them, as if they were separate messages.

A real driver's `activate` makes its subscription before it waits for the
services, so `ActivateFails` leaves it in `subscribed`; a second attempt drops
the handle of the first (`leaked`). A driver the node no longer refers to, but
that is subscribed, still calls the node back. A mock has no subscription. Tool
voltage (`CommandOnly`) is cached when it is commanded, every other real output
when the device reports it.

Two parameters are about the operator who drives the lifecycle, not about the
code. `PatientOperator = TRUE` configures and activates only when the monitors
of before have ended: a monitor in `get()` looks at `_active` every 0.1 s, so a
deactivation shorter than that is not noticed. `CleanupAfterFailure = TRUE`
allows `on_cleanup` while the driver still has a subscription.

History variables: `changes` (what a driver reported) and `since` (how many of
these were routed when the goal registered).

### NodeLifecycle

The lifecycle state, the resources that transitions make and destroy, and one
program counter per goal. Transitions run one at a time (rclpy's default callback
group); each assignment or call of theirs that a goal's thread can notice is an
action:

| code | actions |
|---|---|
| `on_configure`, `on_cleanup` | `OnConfigure`, `OnCleanup` |
| `on_activate` | `ActivatePlanner`, `ActivateTimesOut`, `ActivatePublisher`, `ActivateServer`, `ActivateClient`, `ActivateRaises` |
| `on_deactivate` | `DeactivateCancel`, `DeactivatePlanner`, `DeactivateStop`, `DeactivateClient`, `DeactivateServer`, `DeactivateFree`, `DeactivateDrop` |
| `_goal_callback`, `_execute_callback` | `OfferGoal`, `Begin`, `WaitForServer`, ..., `DropGoal`, `Release` |

A motion's result reaches only a thread whose client is still the one it asked
through; a plan that was asked for before the planner's clients were destroyed is
answered no more (`CloseClients`). `on_deactivate` waits for nobody. Goals whose
callback it leaves behind are in `left`, the history the properties refer to, since
much is possible after that which is not before: two goals can move at once, one
can execute the DTO of the other, a thread can wait for ever in a queue that
nobody fills. An activation that runs into its time-out returns without taking
down the planner's clients, although the docstring of `on_activate` says that any
failure tears down what was created (`activationFailed`).

### PlanningLocks

Commands as sequences of sections, one locked file each (`Sections`): they read
the file, add their edit and write it back. `Open`, `StatState`, `StatPlanning`,
`UnlinkOld`, `UnlinkLast`, `Wake`, `TimeOut` and `Reopen` are the system calls of
`acquireStateLock` and `withPlanningLock`: a waiter judges a lock by its age,
unlinks it by its path, and enters without it (planning lock) or takes it by force
(state lock) at the end of its patience. `Fail` and `Crash` end a command with and
without its exit handlers. `broken` says of which files a lock was removed under
its holder; every exception the properties make is phrased with it or with a text
that was read before the lock was taken.

### PhaseRegistry, StateDocument, PlanningProject, PlanningQueries

`PhaseRegistry` is what a command does to the sections of ROADMAP.md and the
directories, `StateDocument` what it does to STATE.md; an action of
`PlanningProject` is the whole command, from the check of its arguments to the
derived frontmatter, or the part of it before a crash between two writes. Numbers
are pairs `<<int, dec>>`, with the padded and unpadded spelling that the code
compares as strings. `phase remove` renames what is at the path of each later
directory when its turn comes (`AtPath`), from the last number down, and in any
order between directories of one number (`Orders`). `torn` collects why the two sides may have been driven apart
(`Reasons`), and a property that only holds until then names the reasons it
excludes. `PlanningQueries` has the commands that only read: no action, but
operators that follow the code's own way of reading the same files.

### InstallerMigrations and LocalPatches

`InstallerMigrations`: planning, resolving prompts, then per action the copy and the
change (`Copy`, `Change`), commit, roll back action by action, under a lock that
is only checked when it is made. In the moment between the copy of a path and its
change no other run and no user touches that path: text written in that moment is
overwritten without a copy, and what is checked is everything besides. A file is a
set of pieces of text, so that "the user's text is kept" is a statement about pieces
in files, copies and backups.
`LocalPatches` is the later half of an update: backup, a merge that may lose or
keep any line, and the verifier with its substring rule (`Inside`).

### The parts with files of their own

| module | actions | notes |
|---|---|---|
| `WaveSchedule` | one pass of Kahn's loop; index; annotate | checked against levels defined by longest paths |
| `Workstreams` | each existence check, rename and removal of create, migrate, set, complete and their undo | renames may throw, sessions may crash |
| `WorktreeCleanup` | each git command of an entry; agents' edits; the operator; a rerun | git commands fail, or time out after they worked |
| `ConfigStore` | load with its writes, set, new, remove of repositories | two spellings of a setting in two files |
| `PlanningHealth` | a run of the checks with their repairs, damages by an operator | a repair may throw |
| `SkillSurface` | one file copied or deleted at a time | deletions fail, an apply dies half way |
| `DocumentCommits` | branch, stage, commit of a command, each by itself | one index and one checked-out branch for all agents |
| `ModelRouting` | an attempt | the rest are operators over the configuration |
| `LearningsStore` | list, then file by file read, write or unlink | no lock |
| `KnowledgeGraph` | extract, copy, snapshot; commits; history that is dropped | status, diff and query are operators |
| `TrackingFiles` | lock, read, write, unlink per file | mark-complete takes no lock |

### Composition for the runs

`MCPlanningProject` gives the initial projects. `MCNodeParts` (grouper and
lifecycle), `MCLockFiles` (both lock protocols) and `Tooling` (twelve parts) put
parts that share no state side by side: a variable `part` says which of them
a behaviour is of, and the variables of the others stay as they are. `MCTooling`
gives `Tooling` its instances and leaves each part that does not run in one of its
initial states (`MCToolingInit`), so that the runs' state graphs are the disjoint union
of those of the parts. Each module keeps its own specification (`LifecycleSpec`,
`WavesSpec`, ...), and `ToolingPartsProofs!PartsRun` says that a behaviour of `Tooling`
is one of each.

## 4. Runs

All runs set `CHECK_DEADLOCK FALSE`: goals are planned once, commands and edits are
bounded, and when all of them are over the system stops; a finalized GPIO node
does nothing more.

| run | instance | shows |
|---|---|---|
| `CoordinatorStream` | 2 goals of 3 groups, quiet, no cancel | `StreamSpec`: the coordinator implements `PlanStream` |
| `CoordinatorCancel` | 2 goals of 2 groups, a `cancel()` at any moment, quiet, impatient, a planner that may never answer | `OwnPlansForward`: what an iterator gives is of its goal, correctly threaded, never backwards; `CancelTakesEffect`: a chain whose event is set ends within three steps, and a cancel that found the queue ends the iteration |
| `CoordinatorOverlap` | 2 goals of 2 groups, overlapping sessions | `NoGroupTwice`, `SessionsEnd` |
| `ServeGoals` | 2 goals of 2 groups, plans of up to 2 trajectories, quiet, no cancel request | `ServiceSpec`: the node implements `GoalService`; `AcceptedGoalsEnd` |
| `ServeCancels` | 2 goals of 1 group, plans of up to 2 trajectories, 1 cancel request at any moment | `OneGoalServed`: one goal at a time, and the DTO it validated; `MotionIsAwaited`, `CancelingSendsNoMore`, `CoordinatorUse` |
| `NodeParts` | every goal of up to 4 paths, 3 motion types, radius negative, zero or positive; 2 goals and 2 coordinators under any transitions | `GroupsAreSound`: a PTP is alone, no path is lost; `BlendsAsAsked`; `TransitionsAreClean`: resources follow the state, the node is busy for someone, and until a deactivation leaves a callback behind one goal is served and nothing moves in a node that is not active |
| `MonitorSignals` | an input and the tool voltage, 2 changes each, either driver, 1 monitor, any transitions | `MonitorsHearEveryChange`: each change since the registration once and in order; `ReportsCurrentValue`: none is lost between snapshot and registration; `NothingLeftBehind`: no timer or queue outlives its activation or goal; `MonitorsEnd` |
| `PlanningProject` | 3 projects (midway, with an inserted phase and a backlog, nearly done), up to 3 commands | `PhasesAgree`: ROADMAP.md and directories; `NextStepIsKnown`: what can be done is offered, what is called done is done; `NothingIsLost`: executed work and decisions; `ReportsAreTrue`: 100 % , the last phase, a crashed phase add, and validity after a sync |
| `LockFiles` | 2 phase completes and a command that read too early, 3 tries, 1 crash; 2 installer runs, 1 failure | `MutualExclusion`, `NoLostUpdate`, `LocksFitSections`: quick holders never lose a lock, only crashes leave one; `MigrationsAreSafe`: the user's text is kept, what is recorded as applied is done, once; `WaitersEnd` |
| `Tooling` | one small instance per part, see below | `ToolingTypeOK`: the types of all twelve, and one property per part |

The properties of `Tooling`: `ScheduleIsSound` (a plan's wave is after those it
depends on, none could be earlier, the checklist follows the index),
`WorkSurvives` (a text is in some directory unless two faults met; what failed left
no trace), `CleanupIsSafe` (only edits made after the check are lost, only what
was checked is merged), `SettingsHold` (a setting stays, one load migrates all,
what was set is used), `RepairsConverge` (two repairs are enough, they keep what is
there), `SurfaceConverges` (after an apply without faults the directories show the
surface, with what it requires, and only superseded files went), `NoTextIsLost`
(a text that was staged gets committed or is superseded; edits stay on disk),
`RoutingIsSound`, `StoreIsFaithful` (only copies that race store a text twice),
`AnswersFitTheGraph` (a diff that differs comes from an unfinished build, fresh
means fresh, a budget keeps paths and is kept), `TrackingAgrees`, `GateIsRight`.

Two runs show what the code does not keep (`PROJECT.json`, "findings"):

| run | violated | story |
|---|---|---|
| `StaleSentinel` | `ExhaustedMeansAll` | an aborting chain puts its failure, the goal ends, the next one opens its queue, and the sentinel lands there: success without its groups, with no cancel involved |
| `CleanupRerun` | `CleanedEntriesDoNotBlock` | a cleanup blocked half way and run again, as `execute-phase.md` says, stops at an entry that it has already merged and removed |

### What the passing properties allow

Some properties are stated with an exception, because the code does what the
exception says:

* A `cancel()` between `plan_all`'s new event and its new queue silences the chain and
  leaves no sentinel, so the iterator blocks; one that meets the end of the
  iteration raises `AttributeError`; and a cancelled goal may end as a success with
  groups missing, if the chain's own sentinel gets in before the failure.
  `CancelTakesEffect` is about a cancel that found the queue.
* After a cleanup that follows a failed activation two drivers report each change
  (`CleanupAfterFailure`); a monitor in `get()` sleeps through a deactivation of
  less than 0.1 s (`PatientOperator`).
* What a deactivation under a running goal leaves behind: `NodeLifecycle` above.
* Callers of `writeStateMd` write back a text they read before the lock
  (`OverwrittenBy`); a waiter may remove a lock that is fresh again (`broken`).
* The installer's lock names no age: a run that dies leaves it for good, and later
  runs end by their time-out.
* A crash of state prune between its two writes loses the entries (`cut`); phase
  remove leaves dependencies on the removed number in place, which then name the
  phase that got the number (`torn`).
* A flat `research` in config.json shadows what config-set writes. The skill surface
  deletes `.md` files that are not its own from the commands directory. A commit can
  land on the branch that another agent has switched to. A HEAD that was moved
  back counts as fresh for the knowledge graph. `Math.round` gives 100 at 199 of 200.

### Bounds

Two goals are the least with which one session can disturb the next, and the
attributes refer to one session at a time, so a third adds another occurrence of
the same overlap. Two groups are the least with a successor (threading, skipping)
and three the least with a group that is neither first nor last. Two `cancel()`
calls that interleave are in `ServeCancels`, as the client's request and the
execute callback's own. Two trajectories per plan let a cancel fall between two
of them. Four paths contain every pattern of three neighbours, which is what a
grouping decision and its two effects depend on, and one more; the proofs remove
the bound. In `NodeLifecycle` two goals meet across a deactivation, with an old and
a new coordinator; transitions are not bounded. `Symmetry` is used in `ServeCancels`
and `NodeParts`, which have no liveness property.

Monitors share nothing but `_watchers`, from which each removes only itself, so
one shows what a monitor can meet; the theorems cover any number. Two changes of a
signal (`MaxChanges`) go away from the default and back to it, and fall
anywhere between two steps of the monitor; one timer per input and value
(`MaxTimers`) can be pending at a deactivation. There is one driver object,
because without `CleanupAfterFailure` none outlives its node's use.

Three commands on a lock are a holder, a waiter, and one that comes while the
waiter breaks the lock. `MaxTries` is 3 instead of 10: what matters is whether it
is at least the number of commands, which is the code's own assumption. Slow
holders make the instance large; the theorems cover them and any numbers. Three
commands on a project are one that changes it, one that builds on that and one
that meets the result; the initial projects stand for longer pasts. `KeepRecent`
1 instead of 3 makes old decisions out of few.

In `Tooling` each part has two actors where it has concurrency and two or three
commands, so that one can fall between any two steps of the other. Workstreams allow
two faults, because one fault may hit the undo of another; worktree cleanup two agents, one
late edit, one git fault and one rerun, an entry before and one after the blocked
one; health four edits, as many as there are kinds of damage that depend on each
other; routing and waves enumerate configurations and graphs as given in
`MCTooling`. The bounds of commands (`MaxCommands`, `MaxConfigCommands`, ...), edits and
faults are guards of the modules, named in their CONSTANTS.

### Fairness

Weak fairness for each thread of the code (a thread that is not blocked runs),
for MoveIt's answers to planning requests, for the end of motions and for the
delivery of the stop. Each is a single actor whose step, once enabled, stays
enabled until it is taken, so weak fairness is enough. Nothing makes a client
send goals, nor anyone cancel: `PlanAllEvent`, `CancelBegin`, `Admit`,
`RejectBusy` and `RequestCancel` have no fairness. `SilentPlannerSpec` drops the
fairness of the callback chains altogether: cancel has to work then, too.

In `GpioController` a callback that has begun goes on (`Callback`: the rest of a
teardown or of a change), and so does the thread of each monitor (`Watch(m)`,
whose `get` ends with a change or a timeout). Transitions, device messages,
requests and timers have no fairness.

In `PlanningLocks` every process runs (weak fairness of its steps). That a waiter's
ten seconds pass is strong fairness of `TimeOut`, because the step is enabled only
while it sleeps: the code compares the clock at every turn, however often it woke
before. Commands that crash, fail or age a lock do so without fairness. A run of the
installer goes on (`InstallFairness`). The other modules state safety only and
have no fairness.

## 5. Proofs

All of them hold for every value of the constants that satisfies the modules'
assumptions; what a theorem assumes besides is named with it.

The coordinator, over `Init /\ [][Next]_vars` (none of these needs fairness):

* `PlanningCoordinatorProofs!TypeCorrect`: `TypeOK` is inductive as it stands,
  because it holds two relations besides types: the caller that iterates has its
  own queue in place (without it `Take` would apply `queue` to `NoGoal`), and a
  chain that is planning has a group of some goal.
* `GroupsGivenOnce` (`NoGroupTwice`), for overlapping sessions too. `OnceInv` takes
  the plans that were given, those in a queue and the groups that chains have asked
  a planner for: they are all different, and all were popped from their session, so
  the group popped next is new, whichever session it is popped from.
* `OwnPlans`, `CancelledChainsEnd`, `UncancelledStream`, `StreamImplemented`,
  `EndedMeansAll` and `ExhaustedIsComplete` assume `QuietStart`: `plan_all` finds no
  thread of the session before at work. The code does not wait for them, so what
  these theorems say is bought by that assumption, and the run `StaleSentinel`
  shows that without it an uncancelled goal may be ended by an older sentinel.
  Under it `QuietInv` says that the chain, the caller and the attributes are of one
  session; `OwnInv` that what a goal was given and what is in its queue are plans
  of that goal, ascending, each from the group before; `CancelInv` that a cancel()
  past its first step has set an Event; `ExactInv` that the queue of an uncancelled
  goal holds the groups 1, 2, ... that the planner answered, then possibly a
  failure, then the sentinel. From these every step of the coordinator is a step of
  `PlanStream` or leaves it alone, as long as the goal that is served was not cancelled
  (`UncancelledStream`); without cancel() calls that is the refinement
  (`StreamImplemented`), and an iterator that ends means what the executor takes it
  to mean (`ExhaustedIsComplete`).

The node:

* `MovementControllerProofs!MutualExclusion`, `OwnGoal`, `NoStrayMotion`,
  `ServedAlone`. They share the inductive invariant `IInv`: the types of the node's
  own variables, `OneGoal`, the ownership of `_trajectory_goal` from acceptance to
  the end of the goal, and the agreement of a motion, its result and the callback
  that waits for it. `OneGoal` is what makes the others inductive: a step of goal
  `g` may overwrite shared variables only because no other goal is being served.
  The coordinator does not occur in the invariant: these properties hold whatever
  the planner does, with overlapping sessions too.
* `CanceledSendsNoMore`: a goal gets to `sending` only through the look at its
  cancel request, and only its own callback moves it (`PlaceMoves`).
* `CoordinatorUsed`: each action of the node is an action of the coordinator or
  leaves its variables alone. It is the bridge to the proofs of the coordinator.
* The second part of `PlanningCoordinatorProofs` crosses it. It
  instantiates the node over the variables of the coordinator, with the node's cancellers
  (`AsInTheNode`: the cancel requests and the goals, whose callbacks call cancel()
  when a motion fails). `NodeUsesCoordinator` says that a behaviour of the node is
  one of the coordinator, hence `NodeGivesOnce` and `NodeGivesOwnPlans`.
  `UncanceledService` is the refinement of `GoalService` step by step: `PlaceInv` ties
  the place of a goal's callback to the session it is in, `CountInv` the completed
  groups to the plans that were yielded, and the coordinator's invariant gives that
  the iterator of an uncancelled goal ends after its last group, so `Succeed` finds
  all groups executed. `ServiceImplemented` is the case without cancel requests.
  Both assume `QuietStart`. The one exception of `UncanceledService` is a goal that
  goes on executing or succeeding after its Event was set: it may have missed
  groups that cancel() drained and still end as the sentinel tells it.
* `NodePartsProofs!LifecycleTyped`, `LifecycleIsClean` (`TransitionsAreClean`).
  The property looks at the node between transitions; `NodeInv` says what the node
  has at every step of one (`GoingUp`, `GoingDown`). `Waiters` and `Busy` belong together:
  a callback that waits on a destroyed client ends without clearing
  `_is_executing`, which is harmless only because `on_deactivate` clears it later or has
  already left that callback behind. `Movers` (a goal that moves has its callback in
  `moving`) makes `StillUnlessLeft` inductive: whoever moves is served, and is
  counted as left when the node is freed.

The parts beside it:

* `NodePartsProofs!GrouperTyped`, `PTPIsolation`, `NoPathLost`,
  `GroupsStaySound`: for goals of any length. `GroupsInv` describes the loop: group `k`
  is an interval of positions (`Interval`), each begins where the one before ends
  and the last ends at `grouped` (`GroupsFollow`), and the completed ids are the
  concatenation of the groups planned so far (`PlansFollow`), which needs that a PTP
  is alone, or OMPL's request would be shorter than its group.
* `NodePartsProofs!BlendsRespected`. `BlendInv` says that inside a group each
  path blends into the next and that the last of a group does not (`GroupsBlend`);
  so the radius that `Request` sets to 0 at the end of a group was none.
* `NodePartsProofs!TypeCorrect`, `NoStrayTimer`, `NoStaleWatcher`,
  `NothingStays`. The first needs that a configured node has a driver and no
  teardown under way (part of `TypeOK`); the second that an active node is in the
  lifecycle state `active` (`TimerInv`), so `on_configure`, which may change the
  driver's kind, meets no timer; the third is inductive with the types and with a
  fact the next one needs: a goal that has not registered yet has neither feedback
  nor a queue (`MonitorInv`).
* `NodePartsProofs!OneFeedbackPerChange`: `MonitorsHearEveryChange`, under
  `PatientOperator` and `~CleanupAfterFailure` (without the second it is false).
  `IInv` of that part adds to `MonitorInv` that every subscription belongs to the node's driver
  and that an unconfigured node has none (`LinkInv`), so a change being routed is
  that driver's; and that `since` lies within the driver's history (`HeardInv`). A
  node that gets a new driver has no registered monitor, by `OnlyRunningWatch` and
  the patient operator. The lemmas on sequences (`SubSeqAppended` and others) say
  that appending a change to the history extends what a monitor still has to hear
  by that change.
* `NodePartsProofs!CurrentValueReported`, under the same two conditions:
  `ValueInv` adds that the cache has what the driver reported last, and that until
  the first change after its registration a monitor that asked for the initial
  value was given the value in the cache.
* `LockFilesProofs!TypeCorrect`, `LocksExclude`, `UpdatesAreKept`,
  `LocksAreReleased`, for any commands, tries and crashes, slow holders included.
  `LocksInv` adds to the types: a command in a section holds its lock unless it is
  `broken` (`Held`), a lock of an unbroken file has a maker that is in its section or
  dead (`Manned`), and what a command in its section has read is still what the
  file says (`Fresh`), from which `NoLostUpdate` follows at the write.
* `LockFilesProofs!QuickHoldersKeepLocks`, `LocksFit`, for a finite set of
  commands. Each try that a waiter uses up is charged to another command that went
  through meanwhile (`QuickOf`), and every command goes through once: with no more
  commands than tries, no waiter reaches its last try.
* `LockFilesProofs!MigrationsHold`: `MigrationsAreSafe` for any runs, texts, crashes and
  exceptions, also when several runs apply side by side after their prompts.
  `SoundPlan` says that a plan changes no path twice and that the actions of a migration
  do what it is for; it is what the planning makes and the answers to prompts keep.
  `CopiesFit` says that a run has a copy only of what it has come to, so a
  copy never overwrites an older one, and that the file is as it was copied until it
  is changed (`UserTextIsKept` follows from the two). `StatesFit` ties the files, the
  copies and the install state together while no rollback crossed another run: what
  is applied is done, and so is, in the copies, what was applied before the run. A run
  that died counts as one that may have changed something, or a run beside it
  that fails would put back the registrations that the dead one removed and recorded.
* `ToolingProofs!GateHolds`: the verifier does not pass while a significant
  line of the user's is missing, and where it has the old release to compare with
  it stops for nothing else, for any releases, lines and containment between lines.
* `ToolingProofs!MarksAndTodosHold`. A command that holds the planning lock has
  in its copy every mark that the file has (`CopyHasMarks`), unless it is one of
  those without the lock; hence the action property `OnlyUnlockedCommandsUnmark`.
* `ToolingProofs!StoreHolds`. `StoreInv` relates a command's listing and
  position to the files: what it has passed was read or written by then
  (`Stored`, `ReadOthers`), and files too old for a prune are ahead of it (`OldAreAhead`).

* `ToolingProofs!SettingsAreKept`. `CopiesAreCurrent`: while config-set is between its
  read and its write its process has the lock, and its copy has every value that was set
  since and not taken back by a write without the lock; so the write keeps them.
  That one load is enough (`LoadedOnce`) and that what is set is used (`SetIsUsed`)
  hold for any file, whoever wrote it.
* `ToolingProofs!RoutingHolds`. The settings stay while an agent makes its attempts, so
  `RoutingInv` gives the i-th attempt as a function of i. `EffortFits` goes through the
  tables (`RoutingAssumption`: a runtime that takes an effort has a model for each tier,
  as in `model-catalog.json`); `EscalationBounded` rests on `EscalationsGrow`: the tier
  of an attempt is the place of the first one plus a capped count.
* `ToolingProofs!CleanupHolds`. `ChecksHold` says what each check of the command still
  says of its entry at the later steps, but for what the agent did since;
  `MergeHolds` that a branch that is about to go has no unmerged commit older than the
  merge. What is lost is then late.
* `ToolingProofs!CommitsKeepTexts`. `TipsAreStored`: what a tip has is in a commit, so
  what a checkout replaces is stored. `StagedTextsStay`: what a command staged is in
  the index, or stored, or superseded, until it commits. The proof found that
  `EditsStayOnDisk` had been stated too strongly: a document that is away, because the
  branch lacks it, comes back with the next checkout. No run was long enough to show
  it; one with two branches and three commits does.
* `ToolingProofs!RepairsHold`. `OneIsLeft`: after one repair in which nothing threw only
  the key that the defaults lack can be missing.
* `WorkflowProofs` begins with induction over the natural numbers (`LeastNumber`,
  `NumbersFromZero`, `RepeatedStep`, `RepeatedForever`). The library's induction
  theorems have an operator as a parameter, which no prover here can instantiate. That
  the order of the numbers is well-founded has none: it gives the least number of a
  set, hence induction for a set of numbers, hence what a recursive function on numbers
  returns. So these proofs do reach the recursive functions of the model, as long
  as they recurse on a number.
* `WorkflowProofs!SurfaceHolds`: all of `SurfaceConverges`. `CopiesGoOn`: what is not
  copied yet is still to be copied, and nothing is deleted before; `CommandsGo`: what
  was superseded is to be deleted or could not be. `RequirementsAreMet` needs that the
  closure over `requires` is closed (`ClosureIsClosed`): the sets of its rounds grow
  within a finite set and stay as they are once a round adds nothing, and each
  round before that adds a skill, so there are enough rounds.
* `WorkflowProofs!AnswersHold`. `GraphInv`: the files have graphs of commits that
  exist, and between builds that got to their end the snapshot is of the graph. The
  rest is about the queries for any graph: what a budget leaves is closed under the
  edges that it leaves (`PathsStay`), and a number of tiers that fits exists whenever
  dropping all of them does (`BudgetFits`).
* `WorkflowProofs!ScheduleHolds`. `PlansInv` and `QueueInv`: the in-degree of a plan is
  the number of its references that are still open, and the queue has, once each, the
  plans without open references that were not visited. `LevelInv`: the level of a plan
  is the length of a chain of dependencies that ends in it, above those of all its
  visited dependencies, and of the longest chain once it waits for nothing. A cycle is
  noticed because every plan that is never visited depends on another one of them
  (`LeftInChains`), and chains among them get as long as one likes.
* `WorkflowProofs!WorkIsSafe`: all three parts of `WorkSurvives`. `FoundInv` is what makes
  them inductive: while a migration or a complete that no other command has met is
  under way, the directories, files and pointer are what it found, with what it has
  moved so far moved (`MovedSince`). So a move overwrites nothing, and an undo in which
  no rename throws puts everything back.

* `PlanningProjectProofs!PhasesStayTogether` (`PhasesAgree`) and `NothingGetsLost`
  (`NothingIsLost`), for any number of phases, directories, names and commands. They
  assume of the projects that behaviours begin with (`ProjectsAssumption`) what the
  properties say, that ROADMAP.md lists each directory, and that the integers in use
  are so far below the backlog's 999 that the commands of a behaviour, of which each
  adds at most two, do not reach it: `phase add` would otherwise number a phase into the
  backlog, and the next one would get that number again. Both rest on `ProjectInv`:
  * `ListedInv`: until something sets the two sides against each other each number is
    there once, and every directory is listed under its number and name. The second
    half is what makes the first inductive: a new directory has a number that no
    *section* has either, so numbers of both sides have to be compared.
  * `NumbersInv`: the distance to the backlog in commands that are left.
  * `FilesInv`: directories have different paths, so a rename that finds nothing at its
    new path joins no two phases, and one that replaces an empty directory loses no
    summary, because a directory without any file has none.

  `phase remove` is the hard step. `RenamedAll` goes through its loop by induction. After
  `i` renames every directory has the name of one that was left and its old or its new
  number, paths still differ, no summary is gone, and if all of them worked, nothing is
  at the old paths of the first `i` any more; so in the end, if all worked,
  everything has its new number. No two of these are the same unless they were before,
  because the number that is removed is free (`ShiftedApart`), and the sections get their
  numbers from the same function (`Shifted`). Of the summaries it is proved that their
  number does not fall (`SummariesAddUp`, `OneReplaced`: the counts are cardinalities
  of unions). For STATE.md each command has a lemma about what it writes.
* `PlanningProjectProofs!WorkStaysOffered` (`NextStepIsKnown`). `DepsInv`: until one of the
  reasons in `Blocking` is there, every phase depends on phases with smaller numbers, and
  a section is spelled exactly as the dependency is. So the least phase of the sequence
  that is not complete waits for nothing, and with no phase in the middle of its
  execution no rival holds it back: the manager offers it. `phase remove` renumbers a
  section and what depends on it by one function (`RespelledRef`), which keeps the order
  of the phases that are left if the removed one had no decimal phases (`ShiftedInOrder`;
  otherwise `StaysBehind` counts it as torn). `ProjectsAssumption` says of the projects to
  begin with that their dependencies are earlier phases, spelled as their sections are.
* `PlanningProjectProofs!ReportsStayTrue` (`ReportsAreTrue`), an action property, from
  `ProjectInv` and one lemma per report. That 100 % means done is counting: the kept
  directories have different numbers, which are all in the ROADMAP, the complete ones are
  among them, and there are as many of these as phases (`AllAreDone`). It needs that the
  rounded fraction is 1, which is so below 200 phases only (`FullWhenAll`): `Math.round`
  makes 100 % of 199 phases out of 200, as the property now says.

The parts of gsd-tools together:

* `ToolingPartsProofs!ToolingTyped` (`ToolingTypeOK`). Each of the twelve parts has its type
  theorem (`WavesTyped`, `GraphTyped`, `SurfaceTyped`, `WorkstreamsTyped` in `WorkflowProofs`,
  the other eight in `ToolingProofs`). Most take the part's own invariant and add what
  nobody needed before; these are not only about types:
  * `WorkstreamsTyped`: a directory has one text of each file. `OnePieceEach` is inductive only
    with `JobsNamed`, that a command in the middle of its steps is about a workstream that has
    a name (so it moves files between known directories), and because a move into a
    directory replaces the file of that name there.
  * `WavesTyped`: the in-degree of a plan is never below zero although each visit subtracts
    from it, since it is the number of references that are open (`PlansInv`).
  * `RoutingTyped`: no attempt is without a model, through every branch of the resolution.
    `RoutingAssumption` says for it that the catalogue's entry of claude has a model of every
    tier, as `model-catalog.json` has.
  * `SurfaceTyped` found that `SurfaceStates` was too small: the first surface that a command
    writes starts from the installed profile (`CurrentSurface`), which may be the full one, and
    has no additions and removals, whatever the sets of these are.
  * `CommitsTyped`: every text on disk, staged or in a commit was written, through checkouts
    that take a document away and bring it back.
* `ToolingPartsProofs!ToolingHolds`: `PartsStep` shows that a step of `Tooling` is for each part
  a step of it or leaves its variables alone, `PartsRun` that a behaviour is one of each
  part's specification, so the theorems about the twelve parts hold side by side.

Only model-checked: liveness, and with it the fairness in `StreamSpec` and
`ServiceSpec`, of which the theorems prove the safety part, and `DrainEndsIteration` in
`CancelTakesEffect` (out of the prover's reach). `NodePartsProofs`, `ToolingProofs` and
`WorkflowProofs` hold the proofs of several parts each; every theorem is about the
specification of its own part.

## 6. Not modelled, and why

* Constraint configuration and goal validation: comparisons of floats with caps, path
  by path, and a quotient with the same caps. There is no state and no order, and
  a model would repeat the comparisons. Negative speeds pass both checks.
* The laser node republishes each message by itself. Its `on_deactivate`
  destroys the publishers but keeps the subscriptions (`captron_orl2.py:142`), so
  that after a second activation every message is republished twice; there is no
  other state a property could be about. The camera relays images.
  Vendored packages, launch files, robot description and calibration have no logic
  of this system.
* Of the GPIO controller: the periodic `io_states` snapshots (they read the cache
  and change nothing), rejected requests, configurations that fail, the mapping
  from pins to names, and the UR service's answers, which are only logged.
* Of planning and execution: the fields of requests, the second `on_result` call
  that an exception inside the first would cause (`pilz_planner_service.py:235`),
  `set_constraints` and `set_ompl_tuning`, `on_error` and shutdown of the node.
* Of the phases: custom phase names, letters in numbers (`02A`) and the
  `project_code` prefix, which go through the same functions with other patterns;
  renaming of files inside the directories.
* Of the configuration: the schema of the keys whose spelling does not move. Of
  validate health: the checks that only report. Of worktrees: the listing.
* The codebase drift gate (`drift.cjs`, `verify.cjs:1256`) keeps one piece of state,
  the commit stamped into the codebase map. What it promises (that a new part of the
  code is noticed until it is mapped) depends on a mapper outside these commands,
  which chooses its scope at one commit and stamps another; nothing in the code fixes
  how the two relate, so a model would check an assumption about the mapper.
* Audits, intel, documents, profiles, templates, the security scan and the import of
  other formats read files and write one report, on which no later step depends;
  their correctness is in patterns and wording. Command routing is a table.
* Contents of messages, logging and formats, except where a property is about them
  (spelling of numbers, rounding, substring rule of the verifier).
