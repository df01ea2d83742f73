---------------------------- MODULE ConfigStore ----------------------------
(***************************************************************************)
(* The configuration of a project (config.cjs, loadConfig in core.cjs):    *)
(* config.json of the project and of a workstream, which inherits from it. *)
(* config-set writes under the planning lock; every other command loads    *)
(* the configuration, and a load rewrites a file it finds out of date,     *)
(* without the lock, as does the command that creates a file.              *)
(*                                                                         *)
(* A setting has a flat and a nested spelling.  "research" stands for the  *)
(* ones that are read from both, "branching" for those that a load moves   *)
(* from flat to nested, and "sub_repos" is also kept equal to the child    *)
(* repositories on disk.  model_profile is written flat.                   *)
(***************************************************************************)
EXTENDS Integers, FiniteSets

CONSTANTS Processes,     \* processes, one command after another
          Values,        \* values of a setting
          Layouts,       \* what the files may be at first
          MaxConfigCommands

Unset == "unset"
Fallback == "default"    \* CONFIG_DEFAULTS, and what a new project gets

ASSUME ConfigAssumption ==
    /\ Unset \notin Values /\ Fallback \in Values /\ MaxConfigCommands \in Nat
    /\ "nobody" \notin Processes

Scopes == {"root", "stream"}
Settings == {"research", "branching", "sub_repos", "model_profile"}
Spellings == {"flat", "nested"}
Keys == Settings \X Spellings
Files == [Keys -> Values \cup {Unset}]

NoSettings == [k \in Keys |-> Unset]

ASSUME LayoutsAssumption ==
    \A l \in Layouts : \A s \in Scopes : l[s] = {} \/ \E f \in Files : l[s] = {f}

(* What config-set writes, and isValidConfigKey lets pass. *)
Canonical(setting) == <<setting, IF setting = "model_profile" THEN "flat" ELSE "nested">>
Flat(setting) == <<setting, "flat">>
Nested(setting) == <<setting, "nested">>

VARIABLES
    present,      \* the scopes that have a file
    contents,     \* its contents
    repositories, \* the child repositories on disk
    setter,       \* who holds the planning lock of a scope
    task,         \* what a process is doing
    tasks,
    lastSet,      \* history: what config-set wrote, if nothing took its place
    clobbered     \* history: keys that a write without the lock put back

configVars == <<present, contents, repositories, setter, task, tasks, lastSet, clobbered>>

Resting == [step |-> "rest", scope |-> "root", copy |-> NoSettings,
            key |-> Canonical("research"), value |-> Fallback]

ConfigInit ==
    /\ \E l \in Layouts :
         /\ present = {s \in Scopes : l[s] # {}}
         /\ contents = [s \in Scopes |-> IF l[s] = {} THEN NoSettings
                                         ELSE CHOOSE f \in l[s] : TRUE]
    /\ repositories \in Values \cup {Unset}
    /\ setter = [s \in Scopes |-> "nobody"]
    /\ task = [p \in Processes |-> Resting] /\ tasks = 0
    /\ lastSet = [s \in Scopes |-> NoSettings] /\ clobbered = {}

(* ------------------------------- loading ------------------------------- *)

(* The flat spelling goes, and fills in for a nested one that is not set. *)
Moved(f, setting) ==
    [f EXCEPT ![Nested(setting)] = IF @ = Unset THEN f[Flat(setting)] ELSE @,
              ![Flat(setting)] = Unset]

(* A list of repositories that is set follows the disk. *)
Synced(f) ==
    IF f[Nested("sub_repos")] # Unset /\ repositories # Unset
      THEN [f EXCEPT ![Nested("sub_repos")] = repositories] ELSE f

UpToDate(f) == Synced(Moved(Moved(f, "sub_repos"), "branching"))

(* A workstream loads the file of the project first, for the inheritance,  *)
(* and only moves the branching strategy there.                            *)
RootUpToDate(f) == Moved(f, "branching")

(* The workstream's keys over those of the project, spelling by spelling. *)
Merged(root, f) == [k \in Keys |-> IF f[k] = Unset THEN root[k] ELSE f[k]]

(* get(): flat first, then nested, then the default. *)
Got(f, setting) ==
    CASE f[Flat(setting)] # Unset -> f[Flat(setting)]
      [] f[Flat(setting)] = Unset /\ f[Nested(setting)] # Unset -> f[Nested(setting)]
      [] OTHER -> Fallback

(* Without a file, a workstream has the settings of the project. *)
Effective(scope, setting) ==
    CASE scope \in present /\ scope = "stream" /\ "root" \in present ->
            Got(Merged(RootUpToDate(contents["root"]), UpToDate(contents[scope])), setting)
      [] scope \in present /\ ~(scope = "stream" /\ "root" \in present) ->
            Got(UpToDate(contents[scope]), setting)
      [] scope \notin present /\ scope = "stream" /\ "root" \in present ->
            Got(UpToDate(contents["root"]), setting)
      [] OTHER -> Fallback

(* ------------------------------- commands ------------------------------ *)

Do(p, record) == task' = [task EXCEPT ![p] = record]

Command(p) ==
    /\ task[p].step = "rest" /\ tasks < MaxConfigCommands
    /\ tasks' = tasks + 1

(* loadConfig: the file is read, and written if it is not up to date. *)
Load(p, scope) ==
    /\ Command(p)
    /\ \E s \in (IF scope = "stream" THEN Scopes ELSE {"root"}) \cap present :
         LET new == IF s = scope THEN UpToDate(contents[s]) ELSE RootUpToDate(contents[s])
         IN /\ new # contents[s]
            /\ Do(p, [Resting EXCEPT !.step = "rewrite", !.scope = s, !.copy = new])
    /\ UNCHANGED <<present, contents, repositories, setter, lastSet, clobbered>>

(* What a write without the lock takes back to an older value *)
TakenBack(scope, new) ==
    {k \in Keys : lastSet[scope][k] # Unset /\ contents[scope][k] = lastSet[scope][k]
                  /\ new[k] # contents[scope][k]}

Rewrite(p) ==
    LET scope == task[p].scope
    IN /\ task[p].step = "rewrite"
       /\ contents' = [contents EXCEPT ![scope] = task[p].copy]
       /\ clobbered' = clobbered \cup ({scope} \X TakenBack(scope, task[p].copy))
       /\ Do(p, Resting)
       /\ UNCHANGED <<present, repositories, setter, tasks, lastSet>>

(* buildNewProjectConfig: every setting in its canonical spelling, over    *)
(* that the user's defaults, which may be spelled flat.                    *)
Materialized(userDefaults) ==
    [k \in Keys |-> IF userDefaults[k] # Unset THEN userDefaults[k]
                    ELSE IF k \in {Canonical(s) : s \in Settings \ {"sub_repos"}}
                    THEN Fallback ELSE Unset]

UserDefaults == {NoSettings} \cup
    {[NoSettings EXCEPT ![Flat("research")] = v] : v \in Values}

(* config-new-project, config-ensure-section, and the first half of        *)
(* config-set-model-profile: does the file exist?                          *)
EnsureConfig(p, scope, next) ==
    /\ Command(p)
    /\ IF scope \in present
         THEN Do(p, [Resting EXCEPT !.step = next, !.scope = scope,
                                    !.key = Canonical("model_profile")])
         ELSE \E u \in UserDefaults :
                Do(p, [Resting EXCEPT !.step = "create", !.scope = scope,
                                      !.copy = Materialized(u),
                                      !.key = Canonical("model_profile"),
                                      !.value = IF next = "set" THEN "set" ELSE "rest"])
    /\ UNCHANGED <<present, contents, repositories, setter, lastSet, clobbered>>

CreateConfig(p) ==
    LET scope == task[p].scope
    IN /\ task[p].step = "create"
       /\ present' = present \cup {scope}
       /\ contents' = [contents EXCEPT ![scope] = task[p].copy]
       /\ clobbered' = clobbered \cup ({scope} \X TakenBack(scope, task[p].copy))
       /\ IF task[p].value = "set"
            THEN Do(p, [task[p] EXCEPT !.step = "set", !.value = Fallback])
            ELSE Do(p, Resting)
       /\ UNCHANGED <<repositories, setter, tasks, lastSet>>

(* config-set of a valid key; an invalid key or value ends the command. *)
AskToSet(p, scope, setting, v) ==
    /\ Command(p)
    /\ Do(p, [Resting EXCEPT !.step = "set", !.scope = scope,
                             !.key = Canonical(setting), !.value = v])
    /\ UNCHANGED <<present, contents, repositories, setter, lastSet, clobbered>>

(* Mutant: the file is read before the lock is taken. *)
MayRead_Unlocked(p) == TRUE

MayRead(p) == setter[task[p].scope] = "nobody"

(* setConfigValue: the lock is taken and the file, or nothing, is read. *)
LockAndRead(p) ==
    /\ task[p].step = "set" /\ MayRead(p)
    /\ setter' = [setter EXCEPT ![task[p].scope] = p]
    /\ Do(p, [task[p] EXCEPT !.step = "setting", !.copy = contents[task[p].scope]])
    /\ UNCHANGED <<present, contents, repositories, tasks, lastSet, clobbered>>

WriteAndUnlock(p) ==
    LET t == task[p]
        new == [t.copy EXCEPT ![t.key] = t.value]
    IN /\ t.step = "setting"
       /\ present' = present \cup {t.scope}
       /\ contents' = [contents EXCEPT ![t.scope] = new]
       /\ lastSet' = [lastSet EXCEPT ![t.scope][t.key] = t.value]
       /\ clobbered' = clobbered \ {<<t.scope, t.key>>}
       /\ setter' = [setter EXCEPT ![t.scope] = "nobody"]
       /\ Do(p, Resting)
       /\ UNCHANGED <<repositories, tasks>>

(* A repository is cloned into the directory, or removed. *)
ChangeRepositories(v) ==
    /\ tasks < MaxConfigCommands /\ tasks' = tasks + 1
    /\ repositories' = v
    /\ UNCHANGED <<present, contents, setter, task, lastSet, clobbered>>

ConfigNext ==
    \/ \E p \in Processes :
         \/ \E scope \in Scopes :
              \/ Load(p, scope)
              \/ \E next \in {"rest", "set"} : EnsureConfig(p, scope, next)
              \/ \E setting \in Settings \ {"sub_repos"}, v \in Values :
                    AskToSet(p, scope, setting, v)
         \/ Rewrite(p) \/ CreateConfig(p) \/ LockAndRead(p) \/ WriteAndUnlock(p)
    \/ \E v \in Values \cup {Unset} : ChangeRepositories(v)

ConfigSpec == ConfigInit /\ [][ConfigNext]_configVars

(* ------------------------------ properties ----------------------------- *)

ConfigTypeOK ==
    /\ present \subseteq Scopes
    /\ contents \in [Scopes -> Files]
    /\ \A s \in Scopes \ present : contents[s] = NoSettings
    /\ setter \in [Scopes -> Processes \cup {"nobody"}]

(* What config-set wrote stays, whatever other commands run meanwhile,     *)
(* unless one of those that write without the lock put an older value      *)
(* back (setConfigValue runs in withPlanningLock).                         *)
SettingsStay ==
    \A s \in Scopes, k \in Keys :
        lastSet[s][k] # Unset /\ <<s, k>> \notin clobbered
            => contents[s][k] = lastSet[s][k]

(* One load brings a file up to date: the next one does not write it. *)
OneLoadIsEnough ==
    \A s \in present : UpToDate(UpToDate(contents[s])) = UpToDate(contents[s])

(* What a file of a scope says in the spelling that config-set uses is     *)
(* what the commands in that scope get; only a flat spelling of a setting  *)
(* that no load moves comes before it, also one of the project before what *)
(* its workstream has.                                                     *)
WhatIsSetIsUsed ==
    \A s \in present, setting \in Settings \ {"sub_repos"} :
        LET value == contents[s][Canonical(setting)]
        IN value # Unset =>
              \/ Effective(s, setting) = value
              \/ setting = "research"
                 /\ \E other \in present : contents[other][Flat(setting)] # Unset

(* What was set stays, is read back, and does not change with every load.  *)
SettingsHold == SettingsStay /\ OneLoadIsEnough /\ WhatIsSetIsUsed
=============================================================================
