--------------------------- MODULE PlanningHealth ---------------------------
(***************************************************************************)
(* validate health --repair (cmdValidateHealth in verify.cjs): what of the *)
(* planning directory it finds broken and repairs - STATE.md, config.json  *)
(* and the registry of milestones - while an operator edits and deletes    *)
(* files between the runs and a repair may throw.  The checks that only    *)
(* report are in PlanningQueries and WorktreeCleanup, or not modelled.     *)
(*                                                                         *)
(* config.json is the set of what it has: {} if it is missing, {"broken"}  *)
(* if it does not parse, else "json" and keys.  A version is a sequence.   *)
(***************************************************************************)
EXTENDS Integers, FiniteSets, Sequences, SequencesExt

CONSTANTS Versions,       \* the milestones that have an archived ROADMAP
          MaxHealthEdits, \* bound on what the operator does
          MaxRepairFaults

ASSUME HealthAssumption ==
    /\ IsFiniteSet(Versions) /\ \A v \in Versions : v \in Seq(Nat)
    /\ MaxHealthEdits \in Nat /\ MaxRepairFaults \in Nat

WorkflowKeys == {"nyquist_validation", "ai_integration_phase"}
ConfigParts == {"json", "workflow", "custom"} \cup WorkflowKeys
Configs == {{}, {"broken"}} \cup
    {c \in SUBSET ConfigParts : "json" \in c /\ (c \cap WorkflowKeys # {} => "workflow" \in c)}

VARIABLES
    planning,       \* PROJECT.md and ROADMAP.md, those that exist
    stateFile,      \* STATE.md: "missing", "written" by commands, "minimal"
    config,
    archive,        \* the versions with a ROADMAP in milestones/
    registry,       \* the versions that MILESTONES.md has a heading for
    healthStatus,   \* what the last run said
    repairsInRow,   \* repairs that did not throw, since the last edit
    healthEdits, repairFaults

healthVars == <<planning, stateFile, config, archive, registry, healthStatus,
                repairsInRow, healthEdits, repairFaults>>

HealthInit ==
    /\ planning = {"PROJECT.md", "ROADMAP.md"}
    /\ stateFile = "written"
    /\ config \in {{"json", "workflow", "custom"} \cup WorkflowKeys, {"json", "custom"}}
    /\ archive = {} /\ registry = {}
    /\ healthStatus = "none" /\ repairsInRow = 0
    /\ healthEdits = 0 /\ repairFaults = 0

(* ------------------------------ the checks ----------------------------- *)

(* The registry is searched for "## v1.1", which "## v1.10" has as well. *)
Registered(v) == \E r \in registry : IsPrefix(v, r)

Unregistered == {v \in archive : ~Registered(v)}

LacksKey(key) == "workflow" \in config /\ key \notin config

Codes ==
    {code \in {"E002", "E003", "E004", "W003", "E005", "W008", "W016", "W018"} :
        CASE code = "E002" -> "PROJECT.md" \notin planning
          [] code = "E003" -> "ROADMAP.md" \notin planning
          [] code = "E004" -> stateFile = "missing"
          [] code = "W003" -> config = {}
          [] code = "E005" -> "broken" \in config
          [] code = "W008" -> LacksKey("nyquist_validation")
          [] code = "W016" -> LacksKey("ai_integration_phase")
          [] code = "W018" -> Unregistered # {}}

Errors == Codes \cap {"E002", "E003", "E004", "E005"}
Repairable == Codes \ {"E002", "E003"}

Status == IF Errors # {} THEN "broken" ELSE IF Codes # {} THEN "degraded" ELSE "healthy"

(* ------------------------------ the repairs ---------------------------- *)

(* What createConfig and resetConfig write: the defaults, with a workflow  *)
(* section that lacks ai_integration_phase.                                *)
DefaultConfig == {"json", "workflow", "nyquist_validation"}

(* Mutant: only one of the keys is added. *)
RepairedConfig_OneKey(done) ==
    IF done \cap {"W003", "E005"} # {} THEN DefaultConfig
    ELSE config \cup (IF "W008" \in done THEN {"nyquist_validation"} ELSE {})

RepairedConfig(done) ==
    IF done \cap {"W003", "E005"} # {} THEN DefaultConfig
    ELSE config \cup (IF "W008" \in done THEN {"nyquist_validation"} ELSE {})
                \cup (IF "W016" \in done THEN {"ai_integration_phase"} ELSE {})

(* The repairs that were found necessary run one after the other; one that *)
(* throws leaves its file as it was, and the rest still run.  A backfill   *)
(* may do some of the versions only, and calls that a success.             *)
Repair ==
    \E failed \in SUBSET Repairable :
       /\ repairFaults' = repairFaults + Cardinality(failed)
       /\ repairFaults' <= MaxRepairFaults
       /\ LET done == Repairable \ failed
          IN /\ stateFile' = IF "E004" \in done THEN "minimal" ELSE stateFile
             /\ config' = RepairedConfig(done)
             /\ \/ /\ "W018" \in done /\ registry' = registry \cup Unregistered
                \/ /\ "W018" \in failed
                   /\ \E some \in SUBSET Unregistered : registry' = registry \cup some
                \/ /\ "W018" \notin Repairable /\ UNCHANGED registry
       /\ repairsInRow' = IF failed # {} THEN 0
                          ELSE IF repairsInRow < 2 THEN repairsInRow + 1 ELSE 2
       /\ healthStatus' = Status
       /\ UNCHANGED <<planning, archive, healthEdits>>

ReportHealth ==
    /\ healthStatus' = Status
    /\ UNCHANGED <<planning, stateFile, config, archive, registry, repairsInRow,
                   healthEdits, repairFaults>>

(* ---------------------------- the operator ----------------------------- *)

EditFiles == healthEdits < MaxHealthEdits /\ healthEdits' = healthEdits + 1
             /\ repairsInRow' = 0

LoseOrRestore ==
    /\ EditFiles
    /\ \/ /\ planning' \in SUBSET {"PROJECT.md", "ROADMAP.md"}
          /\ UNCHANGED <<stateFile, config, registry>>
       \/ /\ stateFile' \in {"missing", "written"}
          /\ UNCHANGED <<planning, config, registry>>
       \/ /\ config' \in Configs
          /\ UNCHANGED <<planning, stateFile, registry>>
       \/ /\ registry' \in SUBSET archive
          /\ UNCHANGED <<planning, stateFile, config>>
    /\ UNCHANGED <<archive, healthStatus, repairFaults>>

(* milestone complete archives the ROADMAP and then writes the registry; a *)
(* crash in between leaves only the archive.                               *)
ArchiveMilestone(v) ==
    /\ EditFiles
    /\ v \notin archive
    /\ archive' = archive \cup {v}
    /\ registry' \in {registry, registry \cup {v}}
    /\ UNCHANGED <<planning, stateFile, config, healthStatus, repairFaults>>

HealthNext ==
    \/ Repair \/ ReportHealth \/ LoseOrRestore
    \/ \E v \in Versions : ArchiveMilestone(v)

HealthSpec == HealthInit /\ [][HealthNext]_healthVars

(* ------------------------------ properties ----------------------------- *)

HealthTypeOK ==
    /\ stateFile \in {"missing", "written", "minimal"}
    /\ config \in Configs
    /\ registry \subseteq archive \cup Versions
    /\ healthStatus \in {"none", "broken", "degraded", "healthy"}

(* Two repairs in a row repair all there is to repair, however the files   *)
(* were damaged; one is not enough, as the configuration that the first    *)
(* one writes lacks a key which the checks ask for.                        *)
TwoRepairsSuffice == repairsInRow = 2 => Repairable = {}

(* No repair takes anything away: a STATE.md that exists is not touched,   *)
(* a config.json that parses keeps its keys, and the registry its          *)
(* milestones (/gsd-health --repair will not overwrite an existing         *)
(* STATE.md, says W002 of it).                                             *)
RepairsKeepWhatIsThere ==
    \/ /\ stateFile # "missing" => stateFile' = stateFile
       /\ "json" \in config => config \subseteq config'
       /\ registry \subseteq registry'
    \/ ~Repair

(* After a repair that did not throw, an archived milestone that the       *)
(* registry lacks is one whose version is the beginning of another one's.  *)
OnlyPrefixesAreMissed ==
    repairsInRow > 0 =>
        \A v \in archive \ registry : \E w \in registry : v # w /\ IsPrefix(v, w)

(* Repairs end in a project that is healthy, and take nothing away.        *)
RepairsConverge ==
    [][RepairsKeepWhatIsThere /\ TwoRepairsSuffice' /\ OnlyPrefixesAreMissed']_healthVars
=============================================================================
