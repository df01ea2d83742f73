--------------------------- MODULE PhaseRegistry ---------------------------
(***************************************************************************)
(* The phases of a GSD project, kept twice: as sections of ROADMAP.md and  *)
(* as directories of .planning/phases.  A phase has a number <<int, dec>>, *)
(* dec = 0 for an integer phase, and a name, which is the slug of its      *)
(* directory.  Phases of int 999 are the backlog.                          *)
(*                                                                         *)
(* An action is what one gsd-tools command does to the registry; the       *)
(* module PlanningProject joins to it what the command does to STATE.md.   *)
(***************************************************************************)
EXTENDS Integers, FiniteSets, Sequences, SequencesExt

CONSTANTS Names,       \* descriptions of phases
          MaxPlans     \* bound on the plans of one phase

ASSUME RegistryAssumption == MaxPlans \in Nat

Backlog == 999

VARIABLES
    roadmap,   \* the phase sections of ROADMAP.md, in their order
    dirs,      \* the directories of .planning/phases
    vault,     \* the directories of .planning/milestones/<version>-phases
    torn       \* why the two sides may differ, see Reasons

registryVars == <<roadmap, dirs, vault, torn>>

(* What can set the two sides against each other, and what can leave a     *)
(* section with a dependency that will not be met.                         *)
Splitting == {"crash", "spelling", "orphans", "rename"}
Blocking == {"crash", "spelling", "orphans", "rename", "first", "dependents"}
Reasons == Splitting \cup Blocking

(* A section heading spells its integer padded ("Phase 02.1:") or not; its *)
(* checklist entry is missing, open or checked; it depends on at most one  *)
(* other phase, which has a spelling too.                                  *)
Section(num, padded, name, box, on) ==
    [num |-> num, padded |-> padded, name |-> name, box |-> box, on |-> on]

Ref(num, padded) == [num |-> num, padded |-> padded]

(* A directory is empty, or has .gitkeep, or CONTEXT.md of a discussion. *)
Dir(num, name) ==
    [num |-> num, name |-> name, plans |-> 0, summaries |-> 0, files |-> "gitkeep"]

(* ------------------------- numbers and lookups ------------------------- *)

Less(m, n) == m[1] < n[1] \/ (m[1] = n[1] /\ m[2] < n[2])

Top(nums) == CHOOSE n \in nums : \A m \in nums : m <= n

InBacklog(n) == n[1] >= Backlog

Sections == {roadmap[i] : i \in DOMAIN roadmap}

SectionNums == {s.num : s \in Sections}

(* The positions of the sections that a padding-tolerant pattern matches;  *)
(* replace() takes the first of them.                                      *)
Places(n) == {i \in DOMAIN roadmap : roadmap[i].num = n}

First(places) == CHOOSE i \in places : \A j \in places : i <= j

(* Directories are looked up in the order of their numbers, and those of   *)
(* the same number in the order readdir returns them: any of them.         *)
DirsOf(n) == {d \in dirs : d.num = n}

FindPhase(n) ==
    IF DirsOf(n) # {} THEN DirsOf(n) ELSE {d \in vault : d.num = n}

(* A directory belongs to the milestone if the ROADMAP has its number; a   *)
(* ROADMAP without phases lets every directory pass.                       *)
InMilestone(d) == roadmap = <<>> \/ d.num \in SectionNums

MilestoneDirs == {d \in dirs : InMilestone(d)}

Complete(d) == d.plans > 0 /\ d.summaries >= d.plans

(* ------------------------ phase add and insert ------------------------- *)

(* The number after the greatest integer in use; only directories of       *)
(* integer phases and no backlog count.                                    *)
NextInteger ==
    1 + Top({0} \cup {n[1] : n \in {m \in SectionNums : ~InBacklog(m)}}
                \cup {d.num[1] : d \in {e \in dirs : e.num[2] = 0 /\ ~InBacklog(e.num)}})

(* A new section goes before the last "---", which separates the backlog.  *)
Added(sections, section) ==
    LET front == Cardinality({i \in DOMAIN sections : ~InBacklog(sections[i].num)})
    IN InsertAt(sections, front + 1, section)

AddedPhase(int, name) ==
    Section(<<int, 0>>, FALSE, name, "none", {Ref(<<int - 1, 0>>, FALSE)})

(* The dependency on the number before: there may be no such phase, or one *)
(* that is spelled differently.                                            *)
NothingBefore(int) ==
    IF \E s \in Sections : s.num = <<int - 1, 0>> /\ ~s.padded THEN {} ELSE {"first"}

(* The directory is made first; whole is FALSE for a crash in between. *)
PhaseAdd(name, whole) ==
    LET new == NextInteger
    IN /\ dirs' = dirs \cup {Dir(<<new, 0>>, name)}
       /\ IF whole
            THEN /\ roadmap' = Added(roadmap, AddedPhase(new, name))
                 /\ torn' = torn \cup NothingBefore(new)
            ELSE /\ torn' = torn \cup {"crash"}
                 /\ UNCHANGED roadmap
       /\ UNCHANGED vault

PhaseAddBatch(name1, name2) ==
    LET one == NextInteger
    IN /\ dirs' = dirs \cup {Dir(<<one, 0>>, name1), Dir(<<one + 1, 0>>, name2)}
       /\ roadmap' = Added(Added(roadmap, AddedPhase(one, name1)),
                           AddedPhase(one + 1, name2))
       /\ torn' = torn \cup NothingBefore(one)
       /\ UNCHANGED vault

NextDecimal(int) ==
    1 + Top({0} \cup {n[2] : n \in {m \in SectionNums : m[1] = int}}
                \cup {d.num[2] : d \in {e \in dirs : e.num[1] = int}})

(* The new section follows the one it is inserted after, is spelled with   *)
(* the padding of the directory, and depends on the phase as the command   *)
(* was given it.                                                           *)
PhaseInsert(after, padded, name, whole) ==
    LET new == <<after[1], NextDecimal(after[1])>>
        at == First(Places(after))
    IN /\ after[2] = 0 /\ Places(after) # {}
       /\ dirs' = dirs \cup {Dir(new, name)}
       /\ IF whole
            THEN /\ roadmap' = InsertAt(roadmap, at + 1,
                        Section(new, after[1] < 10, name, "none", {Ref(after, padded)}))
                 /\ torn' = torn \cup (IF roadmap[at].padded = padded THEN {}
                                      ELSE {"spelling"})
            ELSE /\ torn' = torn \cup {"crash"}
                 /\ UNCHANGED roadmap
       /\ UNCHANGED vault

(* ---------------------------- phase remove ----------------------------- *)

(* The number a later phase gets when n is removed. *)
Shifted(m, n) ==
    IF n[2] > 0
      THEN IF m[1] = n[1] /\ m[2] > n[2] THEN <<m[1], m[2] - 1>> ELSE m
      ELSE IF m[1] > n[1] /\ ~InBacklog(m) THEN <<m[1] - 1, m[2]>> ELSE m

(* The directory that has this path, if there is one. *)
AtPath(places, num, name) == {e \in places : e.num = num /\ e.name = name}

(* renameSync of what is now at the path of d; onto a directory that has   *)
(* files it fails, which ends the loop.                                    *)
RenameOne(state, d, n) ==
    LET new == Shifted(d.num, n)
        moved == AtPath(state.dirs, d.num, d.name)
        there == AtPath(state.dirs, new, d.name)
    IN IF ~state.ok \/ \E e \in there : e.files # "none"
         THEN [state EXCEPT !.ok = FALSE]
         ELSE [state EXCEPT !.dirs = (@ \ (moved \cup there))
                                        \cup {[e EXCEPT !.num = new] : e \in moved}]

(* Later directories are renamed from the last one down; readdir decides   *)
(* between those of one number.                                            *)
Later(left, n) == {d \in left : Shifted(d.num, n) # d.num}

Orders(later) ==
    {order \in [1 .. Cardinality(later) -> later] :
        /\ Range(order) = later
        /\ \A i, j \in DOMAIN order : i < j => ~Less(order[i].num, order[j].num)}

RenameDirs(left, n, order) ==
    LET after[i \in 0 .. Len(order)] ==
          IF i = 0 THEN [dirs |-> left, ok |-> TRUE]
          ELSE RenameOne(after[i - 1], order[i], n)
    IN after[Len(order)]

(* The section must be spelled as the target is.  Removing an integer      *)
(* phase also renumbers the later sections, which loses their padding.     *)
Matched(n, padded) == {i \in Places(n) : roadmap[i].padded = padded}

Respelled(ref, n) ==
    IF Shifted(ref.num, n) = ref.num THEN ref ELSE Ref(Shifted(ref.num, n), FALSE)

(* Mutant: the heading keeps its number. *)
Renumbered_KeepsHeading(s, n) ==
    [s EXCEPT !.on = {Respelled(ref, n) : ref \in @}]

(* Mutant: the dependencies keep their numbers. *)
Renumbered_KeepsDependencies(s, n) ==
    LET own == Respelled(Ref(s.num, s.padded), n)
    IN [s EXCEPT !.num = own.num, !.padded = own.padded]

Renumbered(s, n) ==
    LET own == Respelled(Ref(s.num, s.padded), n)
    IN [s EXCEPT !.num = own.num, !.padded = own.padded,
                 !.on = {Respelled(ref, n) : ref \in @}]

RemoveSection(n, padded) ==
    LET left == IF Matched(n, padded) = {} THEN roadmap
                ELSE RemoveAt(roadmap, First(Matched(n, padded)))
    IN IF n[2] > 0 THEN left
       ELSE [i \in DOMAIN left |-> Renumbered(left[i], n)]

(* Sections of decimal phases are not renumbered with their siblings, and  *)
(* keep the number of an integer phase that is removed.                    *)
StaysBehind(n) ==
    \E m \in SectionNums :
        m[1] = n[1] /\ m[2] > n[2]

(* What depended on n keeps its number, which another phase gets, perhaps  *)
(* the dependent one itself.                                               *)
Dependents(n) == {s \in Sections : \E ref \in s.on : ref.num = n}

PhaseRemove(n, padded, force) ==
    \E found \in (IF DirsOf(n) = {} THEN {{}} ELSE {{d} : d \in DirsOf(n)}) :
        /\ \A d \in found : d.summaries > 0 => force
        /\ \E order \in Orders(Later(dirs \ found, n)) :
             LET renamed == RenameDirs(dirs \ found, n, order)
             IN /\ dirs' = renamed.dirs
                /\ torn' = torn
                     \cup (IF renamed.ok THEN {} ELSE {"rename"})
                     \cup (IF Matched(n, padded) = {} THEN {"spelling"} ELSE {})
                     \cup (IF StaysBehind(n) THEN {"orphans"} ELSE {})
                     \cup (IF Dependents(n) = {} THEN {} ELSE {"dependents"})
        /\ roadmap' = RemoveSection(n, padded)
        /\ UNCHANGED vault

(* --------------------- completion and milestones ----------------------- *)

Ticked(n) ==
    LET open == {i \in Places(n) : roadmap[i].box = "open"}
    IN IF open = {} THEN roadmap
       ELSE [roadmap EXCEPT ![First(open)].box = "checked"]

(* The first later directory of the milestone that is not in the backlog,  *)
(* or else the first later section, wherever it is in the ROADMAP.         *)
LaterDirs(n) ==
    {d \in MilestoneDirs : Less(n, d.num) /\ d.num[1] # Backlog}

LaterPlaces(n) == {i \in DOMAIN roadmap : Less(n, roadmap[i].num)}

NoNext == [num |-> <<0, 0>>, padded |-> FALSE]

(* Mutant: only the directories are scanned. *)
NextPhase_DirsOnly(n) ==
    IF LaterDirs(n) = {} THEN NoNext
    ELSE [num |-> CHOOSE m \in {d.num : d \in LaterDirs(n)} :
                      \A d \in LaterDirs(n) : ~Less(d.num, m),
          padded |-> TRUE]

NextPhase(n) ==
    IF LaterDirs(n) # {}
      THEN [num |-> CHOOSE m \in {d.num : d \in LaterDirs(n)} :
                        \A d \in LaterDirs(n) : ~Less(d.num, m),
            padded |-> TRUE]
    ELSE IF LaterPlaces(n) # {}
      THEN LET s == roadmap[First(LaterPlaces(n))]
           IN [num |-> s.num, padded |-> s.padded]
    ELSE NoNext

(* phase complete: the ROADMAP half; a phase that has no directory in the  *)
(* project may still have one in the archive.                              *)
TickPhase(n) ==
    /\ FindPhase(n) # {}
    /\ roadmap' = Ticked(n)
    /\ UNCHANGED <<dirs, vault, torn>>

UpdatePlanProgress(n) ==
    \E d \in FindPhase(n) :
        /\ d.plans > 0
        /\ roadmap' = IF d.summaries >= d.plans THEN Ticked(n) ELSE roadmap
        /\ UNCHANGED <<dirs, vault, torn>>

(* Mutant: an archived directory makes room for the new one. *)
ArchivePhases_Replaces ==
    /\ dirs' = dirs \ MilestoneDirs
    /\ vault' = MilestoneDirs
    /\ UNCHANGED <<roadmap, torn>>

(* Archiving stops at the first directory that the archive already has;    *)
(* the order is that of readdir.                                           *)
ArchivePhases ==
    LET taken == {d \in MilestoneDirs :
                    \E e \in vault : e.num = d.num /\ e.name = d.name /\ e.files # "none"}
    IN \E moved \in SUBSET (MilestoneDirs \ taken) :
        /\ taken = {} => moved = MilestoneDirs
        /\ dirs' = dirs \ moved
        /\ vault' = {e \in vault : \A d \in moved : e.num # d.num \/ e.name # d.name}
                        \cup moved
        /\ UNCHANGED <<roadmap, torn>>

PhasesClear ==
    /\ dirs' = {d \in dirs : d.num[1] = Backlog /\ d.num[2] > 0}
    /\ UNCHANGED <<roadmap, vault, torn>>

(* ----------------------- the agents' own files ------------------------- *)

(* scaffold phase-dir, which the planning workflow runs for a section. *)
Scaffold(s) ==
    /\ \A d \in DirsOf(s.num) : d.name # s.name
    /\ dirs' = dirs \cup {[Dir(s.num, s.name) EXCEPT !.files = "none"]}
    /\ UNCHANGED <<roadmap, vault, torn>>

WriteContext(d) ==
    /\ d.files # "context"
    /\ dirs' = (dirs \ {d}) \cup {[d EXCEPT !.files = "context"]}
    /\ UNCHANGED <<roadmap, vault, torn>>

WritePlan(d) ==
    /\ d.plans < MaxPlans
    /\ dirs' = (dirs \ {d}) \cup {[d EXCEPT !.plans = @ + 1,
                                            !.files = IF @ = "none" THEN "gitkeep" ELSE @]}
    /\ UNCHANGED <<roadmap, vault, torn>>

WriteSummary(d) ==
    /\ d.summaries < d.plans
    /\ dirs' = (dirs \ {d}) \cup {[d EXCEPT !.summaries = @ + 1]}
    /\ UNCHANGED <<roadmap, vault, torn>>

(* ------------------------------ properties ----------------------------- *)

Nums == Nat \X Nat

DirType == [num : Nums, name : Names, plans : 0 .. MaxPlans,
            summaries : 0 .. MaxPlans, files : {"none", "gitkeep", "context"}]

SectionType == [num : Nums, padded : BOOLEAN, name : Names,
                box : {"none", "open", "checked"},
                on : SUBSET [num : Nums, padded : BOOLEAN]]

RegistryTypeOK ==
    /\ roadmap \in Seq(SectionType)
    /\ dirs \subseteq DirType
    /\ vault \subseteq DirType
    /\ torn \subseteq Reasons

(* A directory and a section of the same number are the same phase, the    *)
(* one that had this number on both sides before the renumbering, unless a *)
(* command crashed, could not rename, or was given a number as the ROADMAP *)
(* does not spell it (cmdPhaseAdd, cmdPhaseInsert, cmdPhaseRemove).        *)
SidesAgree ==
    torn \cap Splitting = {} =>
        \A d \in dirs : \A s \in Sections : d.num = s.num => d.name = s.name

(* No two phases get the same number (cmdPhaseAdd, cmdPhaseInsert), with   *)
(* the same exceptions.                                                    *)
NumbersAreUnique ==
    torn \cap Splitting = {} =>
        /\ \A i, j \in DOMAIN roadmap : roadmap[i].num = roadmap[j].num => i = j
        /\ \A d, e \in dirs : d.num = e.num => d = e

=============================================================================
