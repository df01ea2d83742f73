---------------------------- MODULE WaveSchedule ----------------------------
(***************************************************************************)
(* The waves of a phase: phase-plan-index (cmdPhasePlanIndex in phase.cjs) *)
(* orders the plans of a phase by their depends_on with Kahn's algorithm,  *)
(* one pass of its while loop per step, and roadmap annotate-dependencies  *)
(* (roadmap.cjs) groups the checklist of the ROADMAP by the declared wave. *)
(*                                                                         *)
(* The id of a plan, "03-01-auth", is <<"03-01", "auth">>: its canonical   *)
(* prefix and the rest.  depends_on may name a plan by its id or by its    *)
(* prefix alone, <<"03-01", "">>.                                          *)
(***************************************************************************)
EXTENDS Integers, FiniteSets, Sequences, SequencesExt

CONSTANTS PlanFiles,     \* the ids of the plans, in the order of the files
          DependsOn,     \* the depends_on a plan may have
          DeclaredWaves  \* what the plans may say of their waves

NoWave == -1             \* no declared wave, or a plan with no level yet

PlanIds == Range(PlanFiles)

ASSUME WavesAssumption ==
    /\ PlanFiles \in Seq(PlanIds) /\ IsInjective(PlanFiles)
    /\ \A p \in PlanIds : DOMAIN p = {1, 2}
    /\ \A refs \in DependsOn : IsFiniteSet(refs)
    /\ DeclaredWaves \subseteq [PlanIds -> Nat \cup {NoWave}]

VARIABLES
    dependsOn,   \* the depends_on of each plan
    inDeg, level, queue,
    visited,     \* the plans that were taken from the queue
    declared,    \* the declared waves, read when the waves are known
    outcome,     \* "visiting", then "indexed" or "cycle"
    waveOf,      \* the wave of each plan in the index
    checklist,   \* the waves in the ROADMAP's plan list
    shortLines   \* the plans which that list names by their prefix

waveVars == <<dependsOn, inDeg, level, queue, visited, declared, outcome, waveOf,
              checklist, shortLines>>

(* ------------------------------ the graph ------------------------------ *)

(* A prefix that two plans share names the later one. *)
OfPrefix(prefix) ==
    LET places == {i \in DOMAIN PlanFiles : PlanFiles[i][1] = prefix}
    IN {PlanFiles[i] : i \in {j \in places : \A k \in places : k <= j}}

(* The plan that a reference names; one of another phase names none. *)
Resolved(ref) == IF ref \in PlanIds THEN {ref} ELSE OfPrefix(ref[1])

(* How often p is in the adjacency list of d, and what it depends on. *)
EdgesFrom(d, p) == {ref \in dependsOn[p] : d \in Resolved(ref)}
InPhase(p) == {ref \in dependsOn[p] : Resolved(ref) # {}}
Dependencies(p) == UNION {Resolved(ref) : ref \in dependsOn[p]}

Larger(m, n) == IF m < n THEN n ELSE m

(* ----------------------------- the algorithm --------------------------- *)

(* The plans of a set, in the order of the files. *)
InFileOrder(plans) ==
    LET upTo[i \in 0 .. Len(PlanFiles)] ==
          IF i = 0 THEN <<>>
          ELSE IF PlanFiles[i] \in plans THEN Append(upTo[i - 1], PlanFiles[i])
          ELSE upTo[i - 1]
    IN upTo[Len(PlanFiles)]

Ready(degrees) == InFileOrder({p \in PlanIds : degrees[p] = 0})

WavesInit ==
    /\ dependsOn \in [PlanIds -> DependsOn]
    /\ inDeg = [p \in PlanIds |-> Cardinality(InPhase(p))]
    /\ queue = Ready(inDeg)
    /\ level = [p \in PlanIds |-> IF inDeg[p] = 0 THEN 0 ELSE NoWave]
    /\ visited = {}
    /\ declared = [p \in PlanIds |-> NoWave]
    /\ outcome = "visiting"
    /\ waveOf = [p \in PlanIds |-> NoWave]
    /\ checklist = [p \in PlanIds |-> NoWave]
    /\ shortLines = {}

LevelAfter(cur, p) == Larger(level[p], level[cur] + 1)

(* Mutant: a plan is queued when its first dependency is visited. *)
Released_Early(cur) ==
    InFileOrder({p \in PlanIds : EdgesFrom(cur, p) # {} /\ level[p] = NoWave})

Released(cur) ==
    InFileOrder({p \in PlanIds : EdgesFrom(cur, p) # {}
                                /\ inDeg[p] = Cardinality(EdgesFrom(cur, p))})

Visit ==
    /\ queue # <<>>
    /\ LET cur == Head(queue)
       IN /\ visited' = visited \cup {cur}
          /\ level' = [p \in PlanIds |-> IF EdgesFrom(cur, p) = {} THEN level[p]
                                         ELSE LevelAfter(cur, p)]
          /\ inDeg' = [p \in PlanIds |-> inDeg[p] - Cardinality(EdgesFrom(cur, p))]
          /\ queue' = Tail(queue) \o Released(cur)
    /\ UNCHANGED <<dependsOn, declared, outcome, waveOf, checklist, shortLines>>

(* The lowest level is wave 0 if any plan declares that, and 1 otherwise. *)
LevelOffset(waves) == IF \E p \in PlanIds : waves[p] = 0 THEN 0 ELSE 1

Cycle == visited # PlanIds

IndexPlans ==
    /\ queue = <<>> /\ outcome = "visiting"
    /\ declared' \in DeclaredWaves
    /\ outcome' = IF Cycle THEN "cycle" ELSE "indexed"
    /\ waveOf' = IF Cycle THEN waveOf
                 ELSE [p \in PlanIds |-> level[p] + LevelOffset(declared')]
    /\ UNCHANGED <<dependsOn, inDeg, level, queue, visited, checklist, shortLines>>

(* ---------------------- roadmap annotate-dependencies ------------------ *)

(* parseInt(fm.wave) || 1: no wave is wave 1, and so is wave 0, and so is  *)
(* the wave of a line that does not spell the id as the file does.         *)
NotedWave(p, short) ==
    IF p \in short \/ declared[p] \in {0, NoWave} THEN 1 ELSE declared[p]

(* A list that has wave headings is left alone; one wave gets none. *)
Annotated == Cardinality({checklist[p] : p \in PlanIds}) > 1

AnnotateDependencies ==
    /\ outcome # "visiting"
    /\ ~Annotated
    /\ shortLines' \in SUBSET {p \in PlanIds : p[2] # ""}
    /\ checklist' = [p \in PlanIds |-> NotedWave(p, shortLines')]
    /\ UNCHANGED <<dependsOn, inDeg, level, queue, visited, declared, outcome, waveOf>>

WavesNext == Visit \/ IndexPlans \/ AnnotateDependencies

WavesSpec == WavesInit /\ [][WavesNext]_waveVars

(* ------------------------------ properties ----------------------------- *)

WavesTypeOK ==
    /\ dependsOn \in [PlanIds -> DependsOn]
    /\ inDeg \in [PlanIds -> Nat]
    /\ level \in [PlanIds -> Nat \cup {NoWave}]
    /\ queue \in Seq(PlanIds)
    /\ visited \subseteq PlanIds

(* A plan is scheduled after every plan of the phase it depends on, in a   *)
(* later wave (cmdPhasePlanIndex, the level assignment of pass 2).         *)
DependenciesFirst ==
    \A p \in visited : \A d \in Dependencies(p) : d \in visited /\ level[d] < level[p]

(* The plans at the end of a chain of n dependencies. *)
EndOfChain[n \in Nat] ==
    IF n = 0 THEN PlanIds
    ELSE {p \in PlanIds : Dependencies(p) \cap EndOfChain[n - 1] # {}}

(* No plan waits longer than its dependencies make it: it has as many      *)
(* waves before it as the longest chain of dependencies is long; and an    *)
(* index is refused exactly if there is a cycle.                           *)
WavesAreTight ==
    /\ outcome = "indexed" =>
         \A p \in PlanIds :
            LET before == waveOf[p] - LevelOffset(declared)
            IN p \in EndOfChain[before] /\ p \notin EndOfChain[before + 1]
    /\ outcome = "cycle" => EndOfChain[Len(PlanFiles)] # {}

(* An index without warnings agrees with the checklist of the ROADMAP: no  *)
(* plan is listed in the wave of one it depends on, if every line spells   *)
(* its plan as the file does and every plan declares a wave other than 0,  *)
(* which annotate-dependencies takes for 1.                                *)
ChecklistFollowsIndex ==
    /\ outcome = "indexed" /\ shortLines = {} /\ \A p \in PlanIds : checklist[p] # NoWave
    /\ \A p \in PlanIds : declared[p] = waveOf[p] /\ declared[p] # 0
    => \A p \in PlanIds : \A d \in Dependencies(p) : checklist[d] < checklist[p]

(* The index and the checklist send every plan out after the plans that it *)
(* needs, and no later than that.                                          *)
ScheduleIsSound == DependenciesFirst /\ WavesAreTight /\ ChecklistFollowsIndex
=============================================================================
