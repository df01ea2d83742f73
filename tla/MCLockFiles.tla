---------------------------- MODULE MCLockFiles ----------------------------
(***************************************************************************)
(* The two places where gsd-tools keeps others out with a lock file: the   *)
(* locks of ROADMAP.md and STATE.md, which waiters break when they are     *)
(* old, and that of the installer's migrations, which nobody breaks.  A    *)
(* behaviour is one of the commands or one of the runs of the installer;   *)
(* the other part stays in one initial state.                              *)
(***************************************************************************)
EXTENDS PlanningLocks, InstallerMigrations

VARIABLE part   \* the part that runs

(* Two runs of phase.complete, which edit ROADMAP.md and then STATE.md, and *)
(* a command that writes back a text of STATE.md it read before its lock.  *)
MCCmds == {"c1", "c2", "c3"}
MCKind == [c \in MCCmds |-> IF c = "c3" THEN "direct" ELSE "complete"]

lockFileVars == <<part, vars, installVars>>

OnlyCommands == part = "commands" /\ UNCHANGED <<part, installVars>>
OnlyInstaller == part = "installer" /\ UNCHANGED <<part, vars>>

(* The user has texts of his own in both of GSD's files, or in none. *)
LockFilesInit ==
    /\ part \in {"commands", "installer"}
    /\ Init
    /\ InstallInit /\ files["hook"] = files["hooks.json"]
    /\ part = "commands" => managed = {} /\ files["hook"] = {"gsd"}

LockFilesNext ==
    \/ OnlyCommands /\ Next
    \/ OnlyInstaller /\ InstallNext

(* Fairness of PlanningLocks, and InstallFairness. *)
LockFilesFairness ==
    /\ \A c \in Cmds : /\ WF_lockFileVars(OnlyCommands /\ Step(c))
                       /\ SF_lockFileVars(OnlyCommands /\ TimeOut(c))
    /\ \A r \in Runs : WF_lockFileVars(OnlyInstaller /\ RunStep(r))

LockFilesSpec ==
    LockFilesInit /\ [][LockFilesNext]_lockFileVars /\ LockFilesFairness

(* EveryCommandEnds, and RunsEnd: whoever takes a lock file, waits for one *)
(* or finds one that a crash left behind comes to an end.                  *)
WaitersEnd ==
    /\ part = "commands" => EveryCommandEnds
    /\ part = "installer" => RunsEnd
=============================================================================
