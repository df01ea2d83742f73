------------------------ MODULE InstallerMigrations ------------------------
(***************************************************************************)
(* The installer migrations of gsd-tools (installer-migrations.cjs): runs  *)
(* of the installer plan and apply the bundled migrations on one config    *)
(* directory, under a lock file, with copies to roll back to.              *)
(*                                                                         *)
(* A file is a set of pieces of text: "gsd" is what the installer wrote    *)
(* there (the manifest has its hash), the others are the user's.  Three    *)
(* paths stand for the kinds the migrations tell apart: a retired hook, a  *)
(* file of the user's own, and hooks.json, which both write to.  In the    *)
(* moment between the copy of a path and its change nobody else copies it  *)
(* or writes to it.                                                        *)
(***************************************************************************)
EXTENDS Integers, Sequences, Functions

CONSTANTS Runs,          \* runs of the installer
          Typed,         \* pieces of text the user may add to a file
          MaxFailures    \* bound on steps and restores that throw

ASSUME InstallerAssumption == MaxFailures \in Nat /\ "gsd" \notin Typed

Paths == {"hook", "own", "hooks.json"}
Migrations == {"baseline", "orphans", "codex-hooks"}

Absent == {}             \* a file that is not there has no pieces

VARIABLES
    files, managed,      \* the files, and the paths the manifest has
    lockFile,            \* who made the lock file
    applied,             \* install state: <<migration, run that applied it>>
    progress, plan, next,      \* where a run is, its plan and its next action
    copies, backups,     \* its copies to roll back to, and for the user
    before,              \* the install state when it began to apply
    typed,               \* history: what the user has typed, and where
    forgone,             \* history: text that a rollback wrote over, or left
                         \* in copies which it then removed
    crossed, failures    \* history: rollbacks while others ran; exceptions

fileVars == <<files, managed, typed, forgone>>
runVars == <<progress, plan, next, copies, backups, before>>
installVars == <<fileVars, lockFile, applied, runVars, crossed, failures>>

NoCopies == [p \in Paths |-> Absent]

InstallInit ==
    /\ managed \in SUBSET {"hook"}
    /\ files \in {[p \in Paths |-> CASE p = "hook" -> hook
                                     [] p = "own" -> {"mine"}
                                     [] OTHER -> json] :
                    hook \in {{"gsd"}, {"gsd", "mine"}},
                    json \in {{"gsd"}, {"gsd", "mine"}}}
    /\ lockFile = "nobody" /\ applied = {}
    /\ progress = [r \in Runs |-> "idle"]
    /\ plan = [r \in Runs |-> <<>>] /\ next = [r \in Runs |-> 1]
    /\ copies = [r \in Runs |-> NoCopies] /\ backups = [r \in Runs |-> NoCopies]
    /\ before = [r \in Runs |-> {}]
    /\ typed = {<<p, "mine">> : p \in {q \in Paths : "mine" \in files[q]}}
    /\ forgone = {} /\ crossed = FALSE /\ failures = 0

Move(r, label) == progress' = [progress EXCEPT ![r] = label]

(* ------------------------------ the lock ------------------------------- *)

Acquire(r) ==
    /\ progress[r] = "idle" /\ lockFile = "nobody"
    /\ lockFile' = r
    /\ Move(r, "plan")
    /\ UNCHANGED <<fileVars, applied, plan, next, copies, backups, before,
                   crossed, failures>>

(* 30 seconds: the lock of a run that crashed is never found stale. *)
LockTimeout(r) ==
    /\ progress[r] = "idle" /\ lockFile # "nobody"
    /\ Move(r, "failed")
    /\ UNCHANGED <<fileVars, lockFile, applied, plan, next, copies, backups,
                   before, crossed, failures>>

(* ------------------------------ planning ------------------------------- *)

(* A rewrite has the value to write, all others leave no file. *)
Action(migration, type, path) ==
    [migration |-> migration, type |-> type, path |-> path, value |-> Absent]

Classified(p) ==
    CASE files[p] = Absent /\ p \in managed -> "managed-missing"
      [] files[p] = Absent /\ p \notin managed -> "missing"
      [] files[p] # Absent /\ p \notin managed -> "unknown"
      [] files[p] = {"gsd"} /\ p \in managed -> "managed-pristine"
      [] OTHER -> "managed-modified"

AtMost(found, action) == IF found THEN <<action>> ELSE <<>>

(* The first-time scan, sorted: what is recorded, what is preserved, and   *)
(* last what looks like GSD's but is not in the manifest.                  *)
Preserved(p) ==
    AtMost(files[p] # Absent, Action("baseline", "baseline-preserve-user", p))

BaselineActions ==
    AtMost(files["hook"] # Absent /\ "hook" \in managed,
           Action("baseline", "record-baseline", "hook"))
    \o Preserved("hooks.json") \o Preserved("own")
    \o AtMost(Classified("hook") = "unknown",
              Action("baseline", "prompt-user", "hook"))

OrphanActions ==
    CASE Classified("hook") = "managed-pristine" ->
            <<Action("orphans", "remove-managed", "hook")>>
      [] Classified("hook") = "managed-modified" ->
            <<Action("orphans", "backup-and-remove", "hook")>>
      [] OTHER -> <<>>

(* hooks.json without the registrations of GSD; no file if it is empty. *)
HooksActions ==
    AtMost("gsd" \in files["hooks.json"],
           [Action("codex-hooks", "rewrite-json", "hooks.json")
              EXCEPT !.value = files["hooks.json"] \ {"gsd"}])

ActionsOf(migration, scan) ==
    CASE migration = "baseline" -> IF scan THEN BaselineActions ELSE <<>>
      [] migration = "orphans" -> OrphanActions
      [] migration = "codex-hooks" -> HooksActions

AppliedIds == {entry[1] : entry \in applied}

Pending(migration, scan) ==
    IF migration \in AppliedIds THEN <<>> ELSE ActionsOf(migration, scan)

BlockedActions(actions) == {i \in DOMAIN actions : actions[i].type = "prompt-user"}

(* A plan without actions marks every pending migration as applied. *)
Plan(r) ==
    /\ progress[r] = "plan"
    /\ \E scan \in BOOLEAN :
        LET actions == Pending("baseline", scan) \o Pending("orphans", scan)
                         \o Pending("codex-hooks", scan)
        IN /\ plan' = [plan EXCEPT ![r] = actions]
           /\ IF actions = <<>>
                THEN /\ applied' = applied \cup
                            {<<m, "marked">> : m \in Migrations \ AppliedIds}
                     /\ Move(r, "release")
                     /\ UNCHANGED before
                ELSE /\ before' = [before EXCEPT ![r] = applied]
                     /\ Move(r, IF BlockedActions(actions) # {} THEN "blocked" ELSE "apply")
                     /\ UNCHANGED applied
    /\ UNCHANGED <<fileVars, lockFile, next, copies, backups, crossed, failures>>

(* A blocked plan is returned, the lock is released, and the caller has    *)
(* the prompts answered: a hook is removed unless the operator keeps it.   *)
(* It then applies the plan it has, without the lock.                      *)
Resolve(r) ==
    /\ progress[r] = "blocked"
    /\ lockFile' = "nobody"
    /\ \E choice \in {"baseline-preserve-user", "backup-and-remove"} :
          plan' = [plan EXCEPT ![r] =
                     [i \in DOMAIN @ |-> IF @[i].type = "prompt-user"
                                           THEN [@[i] EXCEPT !.type = choice]
                                           ELSE @[i]]]
    /\ before' = [before EXCEPT ![r] = applied]
    /\ Move(r, "apply")
    /\ UNCHANGED <<fileVars, applied, next, copies, backups, crossed, failures>>

(* ------------------------------ applying ------------------------------- *)

Current(r) == plan[r][next[r]]
MoreActions(r) == next[r] <= Len(plan[r])

Harmless(r) == \/ Current(r).type \in {"record-baseline", "baseline-preserve-user"}
               \/ files[Current(r).path] = Absent

Skip(r) ==
    /\ progress[r] = "apply" /\ MoreActions(r) /\ Harmless(r)
    /\ next' = [next EXCEPT ![r] = @ + 1]
    /\ UNCHANGED <<fileVars, lockFile, applied, progress, plan, copies, backups,
                   before, crossed, failures>>

Between(q, p) == progress[q] = "copied" /\ Current(q).path = p

(* The file is copied to the rollback directory and, if it may hold text   *)
(* of the user, to the backups, before it is touched.                      *)
Copy(r) ==
    /\ progress[r] = "apply" /\ MoreActions(r) /\ ~Harmless(r)
    /\ \A q \in Runs \ {r} : ~Between(q, Current(r).path)
    /\ LET p == Current(r).path
       IN /\ copies' = [copies EXCEPT ![r][p] = files[p]]
          /\ backups' = IF Current(r).type = "backup-and-remove"
                          THEN [backups EXCEPT ![r][p] = files[p]] ELSE backups
    /\ Move(r, "copied")
    /\ UNCHANGED <<fileVars, lockFile, applied, plan, next, before, crossed, failures>>

(* The file is removed, or gets the value that was planned. *)
Change(r) ==
    /\ progress[r] = "copied"
    /\ files' = [files EXCEPT ![Current(r).path] = Current(r).value]
    /\ next' = [next EXCEPT ![r] = @ + 1]
    /\ Move(r, "apply")
    /\ UNCHANGED <<managed, typed, forgone, lockFile, applied, plan, copies,
                   backups, before, crossed, failures>>

(* The install state gets the migrations that had actions and are not in   *)
(* it yet, each with the journal of this run.                              *)
Commit(r) ==
    /\ progress[r] = "apply" /\ ~MoreActions(r)
    /\ applied' = applied \cup
         {<<m, r>> : m \in {a.migration : a \in Range(plan[r])} \ AppliedIds}
    /\ Move(r, "release")
    /\ UNCHANGED <<fileVars, lockFile, plan, next, copies, backups, before,
                   crossed, failures>>

Unlocked(r) == IF lockFile = r THEN "nobody" ELSE lockFile

ReleaseRunLock(r) ==
    /\ progress[r] = "release"
    /\ lockFile' = Unlocked(r)
    /\ Move(r, "done")
    /\ UNCHANGED <<fileVars, applied, plan, next, copies, backups, before,
                   crossed, failures>>

(* ------------------------------ rollback ------------------------------- *)

Copied(r) == {p \in Paths : copies[r][p] # Absent}

(* The copies of the paths in S are written back. *)
WriteBack(r, S) ==
    /\ \A p \in S, q \in Runs \ {r} : ~Between(q, p)
    /\ files' = [p \in Paths |-> IF p \in S THEN copies[r][p] ELSE files[p]]

WrittenOver(r, S) ==
    UNION {{p} \X (files[p] \ copies[r][p]) : p \in S}

DropCopies(r) ==
    /\ copies' = [copies EXCEPT ![r] = NoCopies]
    /\ backups' = [backups EXCEPT ![r] = NoCopies]

(* It may have changed files or the install state; a dead run too. *)
Busy(r) == progress[r] \in {"apply", "copied", "release", "done", "dead"}

(* Mutant: the copies are taken to be back. *)
AllBack_Assumed(r, S) == TRUE

AllBack(r, S) == S = Copied(r)

(* A step throws: the files are copied back, and only if all of them are,  *)
(* the copies go.                                                          *)
ActionThrows(r) ==
    /\ progress[r] \in {"apply", "copied"} /\ failures < MaxFailures
    /\ \E S \in SUBSET Copied(r) :
         /\ WriteBack(r, S)
         /\ forgone' = forgone \cup WrittenOver(r, S)
         /\ IF AllBack(r, S) THEN DropCopies(r) ELSE UNCHANGED <<copies, backups>>
    /\ failures' = failures + 1
    /\ lockFile' = Unlocked(r)
    /\ crossed' = (crossed \/ \E q \in Runs \ {r} : Busy(q))
    /\ Move(r, "failed")
    /\ UNCHANGED <<managed, typed, applied, plan, next, before>>

(* The caller's install fails later and takes the migrations back: without *)
(* the lock, to the install state as it was, and the copies always go,     *)
(* whether all of the files could be written back or not.                  *)
RollBack(r) ==
    /\ progress[r] = "done" /\ plan[r] # <<>>
    /\ \E S \in SUBSET Copied(r) :
         /\ S = Copied(r) \/ failures < MaxFailures
         /\ WriteBack(r, S)
         /\ forgone' = forgone \cup WrittenOver(r, S)
              \cup UNION {{p} \X (copies[r][p] \ files[p]) : p \in Copied(r) \ S}
    /\ applied' = before[r]
    /\ DropCopies(r)
    /\ crossed' = (crossed \/ \E q \in Runs \ {r} : Busy(q))
    /\ Move(r, "rolledBack")
    /\ UNCHANGED <<managed, typed, lockFile, plan, next, before, failures>>

(* ---------------------------- environment ------------------------------ *)

(* No exit handler: the lock, the copies and the journal stay. *)
CrashRun(r) ==
    /\ progress[r] \in {"plan", "apply", "copied", "release"} /\ failures < MaxFailures
    /\ failures' = failures + 1
    /\ Move(r, "dead")
    /\ UNCHANGED <<fileVars, lockFile, applied, plan, next, copies, backups,
                   before, crossed>>

(* The user edits a file, but not in the moment between copy and change. *)
Type(p, t) ==
    /\ \A entry \in typed : entry[2] # t
    /\ \A r \in Runs : ~Between(r, p)
    /\ files' = [files EXCEPT ![p] = @ \cup {t}]
    /\ typed' = typed \cup {<<p, t>>}
    /\ UNCHANGED <<managed, forgone, lockFile, applied, runVars, crossed, failures>>

RunStep(r) ==
    \/ Acquire(r) \/ LockTimeout(r) \/ Plan(r) \/ Resolve(r)
    \/ Skip(r) \/ Copy(r) \/ Change(r) \/ Commit(r) \/ ReleaseRunLock(r)

InstallNext ==
    \/ \E r \in Runs : RunStep(r) \/ ActionThrows(r) \/ RollBack(r) \/ CrashRun(r)
    \/ \E p \in Paths, t \in Typed : Type(p, t)

InstallFairness == \A r \in Runs : WF_installVars(RunStep(r))

InstallSpec == InstallInit /\ [][InstallNext]_installVars /\ InstallFairness

(* ------------------------------ properties ----------------------------- *)

AllText == {"gsd", "mine"} \cup Typed

Places == {"idle", "plan", "blocked", "apply", "copied", "release", "done",
           "failed", "rolledBack", "dead"}

InstallTypeOK ==
    /\ files \in [Paths -> SUBSET AllText]
    /\ lockFile \in Runs \cup {"nobody"}
    /\ applied \subseteq Migrations \X (Runs \cup {"marked"})
    /\ progress \in [Runs -> Places]
    /\ \A r \in Runs : next[r] \in 1 .. Len(plan[r]) + 1
    /\ copies \in [Runs -> [Paths -> SUBSET AllText]]
    /\ backups \in [Runs -> [Paths -> SUBSET AllText]]

(* What the user wrote is in the file, or in a copy of it that the run     *)
(* which removed the file keeps, also after a crash and when a step or the *)
(* restore that follows it throws; what is lost is a newer edit that a     *)
(* rollback wrote over, and what rollback() could not write back.          *)
UserTextIsKept ==
    \A entry \in typed \ forgone :
        LET p == entry[1]
            t == entry[2]
        IN \/ t \in files[p]
           \/ \E r \in Runs : t \in copies[r][p] \cup backups[r][p]

(* A migration that the install state has is done: the retired hook is not *)
(* there as the installer wrote it, and hooks.json has no registrations of *)
(* GSD, unless a rollback crossed another run (applyInstallerMigrationPlan *)
(* and its rollback keep the files and the install state together).        *)
AppliedIsDone ==
    ~crossed =>
        /\ "orphans" \in AppliedIds => Classified("hook") # "managed-pristine"
        /\ "codex-hooks" \in AppliedIds => "gsd" \notin files["hooks.json"]

(* No migration is applied twice: the install state has one entry of each, *)
(* also when runs that answered prompts apply side by side.                *)
AppliedOnce ==
    \A e, f \in applied : e[1] = f[1] => e = f

(* A migration happens whole and once, or not at all, and the user's text  *)
(* survives it either way.                                                 *)
MigrationsAreSafe == InstallTypeOK /\ UserTextIsKept /\ AppliedIsDone /\ AppliedOnce

(* Every run ends, also if the run before it crashed with the lock. *)
RunsEnd == \A r \in Runs : <>(progress[r] \in {"done", "failed", "rolledBack", "dead"})

=============================================================================
