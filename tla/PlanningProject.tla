-------------------------- MODULE PlanningProject --------------------------
(***************************************************************************)
(* A GSD project over its life: every gsd-tools command that changes the   *)
(* phases or STATE.md is one action, which does to ROADMAP.md and the      *)
(* directories what PhaseRegistry says and then to STATE.md what           *)
(* StateDocument says.  Commands run one at a time; PlanningLocks is about *)
(* those that overlap.  A command with a crash in it stops between two of  *)
(* its writes.  Agents write the plans and summaries.                      *)
(***************************************************************************)
EXTENDS StateDocument

CONSTANTS Projects,      \* the projects to start from, see Init
          AutoPrune,     \* workflow.auto_prune_state of config.json
          KeepRecent,    \* --keep-recent of state prune, and 3 in phase complete
          MaxCommands    \* bound on the commands of a behaviour

ASSUME ProjectAssumption ==
    /\ AutoPrune \in BOOLEAN
    /\ KeepRecent \in Nat
    /\ MaxCommands \in Nat /\ 2 * MaxCommands < Backlog

(* A project before a behaviour: its ROADMAP.md lists each directory, both *)
(* have no number twice, no commands will reach the backlog's numbers, and *)
(* a phase depends on earlier phases, as their sections spell them.        *)
ASSUME ProjectsAssumption ==
    \A p \in Projects :
        /\ p.roadmap \in Seq(SectionType) /\ p.dirs \subseteq DirType
        /\ p.doc \in BodyType /\ p.notes \subseteq Nat /\ p.spent \in 0 .. MaxCommands
        /\ \A i, j \in DOMAIN p.roadmap : p.roadmap[i].num = p.roadmap[j].num => i = j
        /\ \A i \in DOMAIN p.roadmap :
              LET num == p.roadmap[i].num
              IN ~InBacklog(num) => num[1] + 2 * MaxCommands < Backlog
        /\ \A i \in DOMAIN p.roadmap : \A ref \in p.roadmap[i].on :
              /\ Less(ref.num, p.roadmap[i].num)
              /\ \E j \in DOMAIN p.roadmap : /\ p.roadmap[j].num = ref.num
                                            /\ p.roadmap[j].padded = ref.padded
        /\ IsFiniteSet(p.dirs)
        /\ \A d, e \in p.dirs : d.num = e.num => d = e
        /\ \A d \in p.dirs :
              /\ \E i \in DOMAIN p.roadmap : p.roadmap[i].num = d.num /\ p.roadmap[i].name = d.name
              /\ d.files = "none" => d.plans = 0 /\ d.summaries = 0

VARIABLE count      \* how many commands have run, or were spent before

vars == <<registryVars, docVars, count>>

Init ==
    /\ \E p \in Projects :
         /\ roadmap = p.roadmap /\ dirs = p.dirs /\ doc = p.doc
         /\ notes = p.notes /\ said = p.notes
         /\ count = p.spent
    /\ vault = {} /\ torn = {} /\ attic = {} /\ cut = {}
    /\ \E K \in Kept(MilestoneDirs) : fm = Frontmatter(doc, K)

Command ==
    /\ count < MaxCommands
    /\ count' = count + 1

PhaseNums == SectionNums \cup {d.num : d \in dirs}

(* ---------------- commands on the phases and STATE.md ------------------ *)

AddPhase ==
    /\ Command
    /\ \E name \in Names, whole \in BOOLEAN : PhaseAdd(name, whole)
    /\ UNCHANGED docVars

AddPhaseBatch ==
    /\ Command
    /\ \E name1, name2 \in Names : PhaseAddBatch(name1, name2)
    /\ UNCHANGED docVars

InsertPhase ==
    /\ Command
    /\ \E after \in SectionNums, name \in Names, padded, whole \in BOOLEAN :
          PhaseInsert(after, padded, name, whole)
    /\ UNCHANGED docVars

RemovePhase(force) ==
    /\ Command
    /\ \E n \in PhaseNums, padded \in BOOLEAN : PhaseRemove(n, padded, force)
    /\ WriteState(OnePhaseLess)
    /\ UNCHANGED listVars

(* The prune that follows sees the phase that was just transitioned to. *)
CompletePhaseN(n, whole) ==
    LET next == NextPhase(n)
        moved == Transition(n, next)
        old == IF AutoPrune THEN Old(moved, KeepRecent) ELSE {}
    IN /\ Command
       /\ TickPhase(n)
       /\ IF whole
            THEN /\ WriteState(moved)
                 /\ notes' = notes \ old
                 /\ attic' = attic \cup old
                 /\ UNCHANGED <<said, cut>>
            ELSE UNCHANGED docVars

PhaseComplete == \E n \in PhaseNums, whole \in BOOLEAN : CompletePhaseN(n, whole)

RoadmapProgress ==
    /\ Command
    /\ \E n \in PhaseNums : UpdatePlanProgress(n)
    /\ UNCHANGED docVars

CompleteMilestone ==
    /\ Command
    /\ CloseMilestone
    /\ \/ ArchivePhases
       \/ UNCHANGED registryVars

ClearPhases ==
    /\ Command
    /\ PhasesClear
    /\ UNCHANGED docVars

(* ------------------------- state subcommands --------------------------- *)

StateCommand ==
    /\ Command
    /\ UNCHANGED registryVars
    /\ \/ \E n \in PhaseNums : BeginPhase(n) \/ PlannedPhase(n) \/ CompletePhase(n)
       \/ AdvancePlan \/ Sync \/ UpdateProgress \/ MilestoneSwitch
       \/ UpdateStatus("Paused")
       \/ AddDecision(doc.phase[1])
       \/ \E whole \in BOOLEAN : Prune(KeepRecent, whole)

(* ------------------------------- agents -------------------------------- *)

Agent ==
    /\ \/ \E s \in Sections : Scaffold(s)
       \/ \E d \in dirs : WriteContext(d) \/ WritePlan(d) \/ WriteSummary(d)
    /\ Command
    /\ UNCHANGED docVars

Next ==
    \/ AddPhase \/ AddPhaseBatch \/ InsertPhase
    \/ RemovePhase(TRUE) \/ RemovePhase(FALSE)
    \/ PhaseComplete \/ RoadmapProgress \/ CompleteMilestone \/ ClearPhases
    \/ StateCommand \/ Agent

Spec == Init /\ [][Next]_vars

(* ------------------------------ properties ----------------------------- *)

TypeOK == RegistryTypeOK /\ DocTypeOK /\ count \in 0 .. MaxCommands

(* Executed work is deleted only when that is asked for: every summary is  *)
(* still in a directory or the archive, unless phase remove --force or     *)
(* phases clear ran (phase.cjs, "Guard against removing executed work").   *)
NoWorkLost ==
    \/ SummariesIn(dirs') + SummariesIn(vault') >= SummariesIn(dirs) + SummariesIn(vault)
    \/ RemovePhase(TRUE) \/ ClearPhases

(* A decision is in STATE.md or in STATE-ARCHIVE.md, unless a prune        *)
(* crashed after it had written the one and not yet the other.             *)
NothingForgotten == said \subseteq notes \cup attic \cup cut

(* phase complete says that the milestone is complete only for a phase     *)
(* which no other follows, on disk or only in the ROADMAP (phase.cjs,      *)
(* "a filesystem-only scan would incorrectly report is_last_phase:true").  *)
LastPhaseIsLast ==
    doc'.status = "Milestone complete" /\ doc.status # doc'.status =>
       \A n \in SectionNums' : ~Less(doc'.phase, n)

(* ROADMAP.md and the phase directories tell of the same phases.           *)
PhasesAgree == TypeOK /\ SidesAgree /\ NumbersAreUnique

(* Neither executed work nor a decision is lost.                           *)
NothingIsLost == [][NoWorkLost /\ NothingForgotten']_vars

=============================================================================
