---------------------------- MODULE SkillSurface ----------------------------
(***************************************************************************)
(* Which skills a runtime shows: surface.cjs resolves the profile, the     *)
(* clusters that are switched off and the user's own additions and         *)
(* removals into a set of skills, and applySurface synchronises the        *)
(* directory of the commands and then that of the agents with it, one file *)
(* at a time.  install-profiles.cjs closes a profile under "requires" and  *)
(* keeps the profile's name in .gsd-profile.                               *)
(***************************************************************************)
EXTENDS FiniteSets, Naturals

CONSTANTS Skills,      \* the skills that are installed with the program
          Requires,    \* what each skill requires, installed or not
          CallsAgents, \* the agents that the text of each skill names
          GsdAgents,   \* the agents that are installed with the program
          Clusters,    \* the skills of each cluster
          Profiles,    \* the skills that each profile but "full" lists
          ProfileChoices,     \* the profiles, some composed, that are asked for
          Additions, Removals,  \* the user's own changes that are tried
          UserFiles,   \* files of the user's, in both directories
          MaxSurfaceFaults      \* runs that are cut short, files that stay

ASSUME SurfaceAssumption ==
    /\ IsFiniteSet(Skills) /\ IsFiniteSet(GsdAgents) /\ MaxSurfaceFaults \in Nat
    /\ DOMAIN Requires = Skills /\ DOMAIN CallsAgents = Skills
    /\ UserFiles \cap (Skills \cup GsdAgents) = {} /\ "full" \notin DOMAIN Profiles

NoSurface == [file |-> "none"]
NoProfile == {}
Everything == {"full"}
Directories == {"commands", "agents"}
Stems == Skills \cup UNION {Requires[s] : s \in Skills}

SurfaceStates ==
    [base : ProfileChoices \cup {NoProfile, Everything}, disabled : SUBSET DOMAIN Clusters,
     adds : Additions \cup {{}}, removes : Removals \cup {{}}]

VARIABLES
    surface,    \* .gsd-surface.json
    marker,     \* .gsd-profile
    shown,      \* the files of the two directories
    staged,     \* the files that the last run staged for each of them
    sync,       \* where that run is: its directory, what it does, to which files
    stuck,      \* files that it could not delete
    surfaceFaults

surfaceVars == <<surface, marker, shown, staged, sync, stuck, surfaceFaults>>

SurfaceInit ==
    /\ surface = NoSurface
    /\ marker \in ProfileChoices \cup {NoProfile}
    /\ shown = [d \in Directories |-> UserFiles]
    /\ staged = [d \in Directories |-> {}]
    /\ sync = [dir |-> "commands", doing |-> "nothing", to |-> {}]
    /\ stuck = {}
    /\ surfaceFaults = 0

(* ---------------------------- the resolution --------------------------- *)

RequiredBy(skills) == UNION {Requires[s] : s \in skills \cap Skills}

(* computeClosure: as many rounds as there are skills reach everything. *)
Closure(base) ==
    LET after[n \in 0 .. Cardinality(Skills)] ==
            IF n = 0 THEN base ELSE after[n - 1] \cup RequiredBy(after[n - 1])
    IN after[Cardinality(Skills)]

(* Names that are no profile are passed over; when none is left, and when  *)
(* "full" is one of them, every skill is meant.                            *)
Known(modes) == modes \cap DOMAIN Profiles
IsFull(modes) == "full" \in modes \/ Known(modes) = {}
ProfileSkills(modes) ==
    IF IsFull(modes) THEN Skills
    ELSE UNION {Closure(Profiles[p]) : p \in Known(modes)}

BaseProfile ==
    IF surface # NoSurface /\ surface.base # NoProfile THEN surface.base
    ELSE IF marker # NoProfile THEN marker ELSE Everything

ClusterSkills(names) == UNION {Clusters[c] : c \in names}

(* The clusters go before the additions come, so that an addition brings   *)
(* back what it requires; a removal takes away one skill and no more.      *)
ResolveSurface ==
    IF surface = NoSurface THEN ProfileSkills(BaseProfile)
    ELSE ((ProfileSkills(BaseProfile) \ ClusterSkills(surface.disabled))
          \cup Closure(surface.adds))
         \ surface.removes

AgentsOf(skills) == UNION {CallsAgents[s] : s \in skills \cap Skills}

ListSurface == [enabled |-> Skills \cap ResolveSurface, disabled |-> Skills \ ResolveSurface]

(* ------------------------- applying the surface ------------------------ *)

(* What stageSkillsForProfile and stageAgentsForProfile find of it. *)
Staged(skills) ==
    [commands |-> skills \cap Skills, agents |-> AgentsOf(skills) \cap GsdAgents]

(* Mutant: the agents are those of the profile, which names none when it   *)
(* is "full".                                                              *)
ApplySurface_ProfileAgents ==
    /\ staged' = [Staged(ResolveSurface) EXCEPT
                    !["agents"] = IF IsFull(BaseProfile) THEN {}
                                  ELSE AgentsOf(ProfileSkills(BaseProfile)) \cap GsdAgents]
    /\ sync' = [dir |-> "commands", doing |-> "copy", to |-> staged'["commands"]]
    /\ stuck' = {}
    /\ UNCHANGED <<surface, marker, shown, surfaceFaults>>

ApplySurface ==
    /\ staged' = Staged(ResolveSurface)
    /\ sync' = [dir |-> "commands", doing |-> "copy", to |-> staged'["commands"]]
    /\ stuck' = {}
    /\ UNCHANGED <<surface, marker, shown, surfaceFaults>>

CopyFile(f) ==
    /\ sync.doing = "copy" /\ f \in sync.to
    /\ shown' = [shown EXCEPT ![sync.dir] = @ \cup {f}]
    /\ sync' = [sync EXCEPT !.to = @ \ {f}]
    /\ UNCHANGED <<surface, marker, staged, stuck, surfaceFaults>>

(* Among the commands every file counts as a skill of the program, among   *)
(* the agents only one whose name begins with gsd-.                        *)
Superseded(d) ==
    (IF d = "agents" THEN shown[d] \cap GsdAgents ELSE shown[d]) \ staged[d]

BeginDeleting ==
    /\ sync.doing = "copy" /\ sync.to = {}
    /\ sync' = [sync EXCEPT !.doing = "delete", !.to = Superseded(sync.dir)]
    /\ UNCHANGED <<surface, marker, shown, staged, stuck, surfaceFaults>>

DeleteFile(f) ==
    /\ sync.doing = "delete" /\ f \in sync.to
    /\ sync' = [sync EXCEPT !.to = @ \ {f}]
    /\ \/ /\ shown' = [shown EXCEPT ![sync.dir] = @ \ {f}]
          /\ UNCHANGED <<stuck, surfaceFaults>>
       \/ (* unlinkSync throws, and the run goes on. *)
          /\ surfaceFaults < MaxSurfaceFaults
          /\ surfaceFaults' = surfaceFaults + 1
          /\ stuck' = stuck \cup {f}
          /\ UNCHANGED shown
    /\ UNCHANGED <<surface, marker, staged>>

NextDirectory ==
    /\ sync.doing = "delete" /\ sync.to = {}
    /\ sync' = IF sync.dir = "commands"
               THEN [dir |-> "agents", doing |-> "copy", to |-> staged["agents"]]
               ELSE [sync EXCEPT !.doing = "applied"]
    /\ UNCHANGED <<surface, marker, shown, staged, stuck, surfaceFaults>>

(* The process is killed, or a copy throws. *)
CutShort ==
    /\ sync.doing \in {"copy", "delete"}
    /\ surfaceFaults < MaxSurfaceFaults
    /\ surfaceFaults' = surfaceFaults + 1
    /\ sync' = [sync EXCEPT !.doing = "nothing", !.to = {}]
    /\ UNCHANGED <<surface, marker, shown, staged, stuck>>

(* ----------------------------- the commands ---------------------------- *)

Rests == sync.doing \in {"nothing", "applied"}

(* profile, disable, enable: each command writes the surface, which starts *)
(* from the installed profile, and applies it.                             *)
CurrentSurface ==
    IF surface # NoSurface THEN surface
    ELSE [base |-> marker, disabled |-> {}, adds |-> {}, removes |-> {}]

WriteSurface ==
    /\ Rests
    /\ surface' \in
         {[CurrentSurface EXCEPT !.base = modes] : modes \in ProfileChoices} \cup
         {[CurrentSurface EXCEPT !.disabled = @ \cup {c}] : c \in DOMAIN Clusters} \cup
         {[CurrentSurface EXCEPT !.disabled = @ \ {c}] : c \in DOMAIN Clusters} \cup
         {[CurrentSurface EXCEPT !.adds = skills] : skills \in Additions} \cup
         {[CurrentSurface EXCEPT !.removes = skills] : skills \in Removals}
    /\ sync' = [sync EXCEPT !.doing = "nothing"]
    /\ UNCHANGED <<marker, shown, staged, stuck, surfaceFaults>>

Reset ==
    /\ Rests /\ surface # NoSurface
    /\ surface' = NoSurface
    /\ sync' = [sync EXCEPT !.doing = "nothing"]
    /\ UNCHANGED <<marker, shown, staged, stuck, surfaceFaults>>

(* An installation uses the profile it is asked for, or else the one it    *)
(* finds installed.  It knows nothing of the surface.                      *)
EffectiveProfile(asked) ==
    IF asked # NoProfile THEN asked
    ELSE IF marker \notin {NoProfile, Everything} THEN marker ELSE Everything

InstallProfile(asked) ==
    /\ Rests
    /\ LET modes == EffectiveProfile(asked)
           files == IF IsFull(modes) THEN [commands |-> Skills, agents |-> GsdAgents]
                    ELSE Staged(ProfileSkills(modes))
       IN /\ marker' = modes
          /\ shown' = [d \in Directories |-> UserFiles \cup files[d]]
    /\ sync' = [sync EXCEPT !.doing = "nothing"]
    /\ UNCHANGED <<surface, staged, stuck, surfaceFaults>>

SurfaceNext ==
    \/ WriteSurface \/ Reset
    \/ \E asked \in ProfileChoices \cup {NoProfile} : InstallProfile(asked)
    \/ sync.doing = "nothing" /\ ApplySurface
    \/ \E f \in sync.to : CopyFile(f) \/ DeleteFile(f)
    \/ BeginDeleting \/ NextDirectory \/ CutShort

SurfaceSpec == SurfaceInit /\ [][SurfaceNext]_surfaceVars

(* ------------------------------ properties ----------------------------- *)

(* The values that the variables of the surface take. *)
SurfaceTypeOK ==
    /\ surface \in SurfaceStates \cup {NoSurface}
    /\ marker \in ProfileChoices \cup {NoProfile, Everything}
    /\ shown \in [Directories -> SUBSET (Skills \cup GsdAgents \cup UserFiles)]
    /\ staged \in [Directories -> SUBSET (Skills \cup GsdAgents)]
    /\ sync \in [dir : Directories, doing : {"nothing", "copy", "delete", "applied"},
                 to : SUBSET (Skills \cup GsdAgents \cup UserFiles)]
    /\ stuck \subseteq Skills \cup GsdAgents \cup UserFiles
    /\ surfaceFaults \in 0 .. MaxSurfaceFaults

(* When applySurface has returned, whatever state earlier runs left behind *)
(* half way and whatever it could not delete, what listSurface calls       *)
(* enabled is there, with every agent that it calls, and nothing that is   *)
(* listed as disabled is there that could be deleted.                      *)
SurfaceIsShown ==
    sync.doing = "applied" =>
        /\ ListSurface.enabled \subseteq shown["commands"]
        /\ shown["commands"] \cap ListSurface.disabled \subseteq stuck
        /\ AgentsOf(ListSurface.enabled) \cap GsdAgents \subseteq shown["agents"]

(* The skills that T and everything below them need, said without an       *)
(* algorithm: the least set that is closed under "requires".               *)
Reaches(base, s) ==
    \A T \in SUBSET (Stems \cup base) :
        base \subseteq T /\ RequiredBy(T) \subseteq T => s \in T

(* An applied surface breaks a requirement of a skill only where the user  *)
(* asked for that: the missing skill was removed by name, or it is in a    *)
(* cluster that is off and no skill that was added by name needs it.       *)
RequirementsAreMet ==
    sync.doing = "applied" =>
      LET visible == ResolveSurface IN
      \A s \in Skills \cap visible :
        \A r \in (Requires[s] \cap Skills) \ visible :
          /\ surface # NoSurface
          /\ r \notin surface.removes =>
               r \in ClusterSkills(surface.disabled) /\ ~Reaches(surface.adds, r)

(* While applySurface runs, a file that the new surface shows never        *)
(* disappears, and no agent of the user's own ever does: a session that    *)
(* reads the directories meanwhile always finds what both surfaces have.   *)
OnlySupersededFilesGo ==
    sync.doing \in {"copy", "delete"} =>
      /\ \A d \in Directories : shown[d] \cap staged[d] \subseteq shown'[d]
      /\ shown["agents"] \cap UserFiles \subseteq shown'["agents"]

(* Every apply ends in the surface that was asked for, complete in itself, *)
(* and does not hide on the way what stays.                                *)
SurfaceConverges ==
    [][OnlySupersededFilesGo /\ SurfaceIsShown' /\ RequirementsAreMet']_surfaceVars
=============================================================================
