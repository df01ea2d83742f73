---------------------------- MODULE ToolingProofs ----------------------------
(***************************************************************************)
(* Proofs about the parts of gsd-tools that keep their state in files of   *)
(* their own, each for its own specification: local patches over an        *)
(* update, the learnings store, requirements and todos, the configuration, *)
(* model routing, the cleanup of worktrees, the commits of documents, and  *)
(* the repairs of validate health.                                         *)
(***************************************************************************)
EXTENDS LocalPatches, LearningsStore, TrackingFiles, ConfigStore, ModelRouting,
        WorktreeCleanup, DocumentCommits, PlanningHealth, TLAPS

-----------------------------------------------------------------------------
(***************************************************************************)
(* The gate of reapply-patches for any files, releases and lines of the    *)
(* user, any baselines that are there or missing, and any merge: it lets   *)
(* no significant line of the user's be lost, and stops for nothing else.  *)
(***************************************************************************)

(* The files of the three directories are there for each patched file.     *)
OnFiles(dir) == dir \in [PatchedFiles -> SUBSET Lines]

PatchesTypes ==
    /\ OnFiles(installed) /\ OnFiles(backup) /\ OnFiles(pristine) /\ OnFiles(added)
    /\ reapply \in {"before", "merge", "verified", "clean"}
    /\ \A f \in PatchedFiles : pristine[f] \in {OldRelease[f], NoCopy}

(* What the user added is what an installed file has beyond its release,   *)
(* and no other file of that name but the user's own is ever "absent".    *)
AddedIsInstalled ==
    reapply = "before" =>
      \A f \in PatchedFiles :
        added[f] = installed[f] \ OldRelease[f] /\ "absent" \notin installed[f]

(* After the update the backup has it; a file without one had nothing.     *)
AddedIsBackedUp ==
    reapply \in {"merge", "verified"} =>
      \A f \in PatchedFiles :
        IF backup[f] = NoCopy THEN added[f] = {}
                              ELSE added[f] = backup[f] \ OldRelease[f]

(* Once the verifier let the workflow go on, the user's lines are back.    *)
AddedIsBack ==
    reapply \in {"verified", "clean"} =>
      \A f \in PatchedFiles : \A l \in added[f] \cap Significant :
        installed[f] # NoCopy /\ Includes(installed[f], l)

PatchesInv == PatchesTypes /\ AddedIsInstalled /\ AddedIsBackedUp /\ AddedIsBack

LEMMA PatchesInitInv == PatchesInit => PatchesInv
<1> SUFFICES ASSUME PatchesInit PROVE PatchesInv
  OBVIOUS
<1>1. PICK kept \in SUBSET PatchedFiles :
        pristine = [f \in PatchedFiles |-> IF f \in kept THEN OldRelease[f] ELSE NoCopy]
  BY DEF PatchesInit
<1>2. NoCopy \in SUBSET Lines
  BY Zenon DEF Lines
<1>3. PatchesTypes
  BY <1>1, <1>2, PatchesAssumption DEF PatchesInit, PatchesTypes, OnFiles
<1>4. AddedIsInstalled
  BY PatchesAssumption DEF PatchesInit, AddedIsInstalled
<1>5. QED
  BY <1>3, <1>4 DEF PatchesInit, PatchesInv, AddedIsBackedUp, AddedIsBack

LEMMA CustomizeInv ==
  ASSUME PatchesInv, NEW f \in PatchedFiles, Customize(f) PROVE PatchesInv'
<1>0. /\ reapply = "before" /\ reapply' = "before"
      /\ UNCHANGED <<backup, pristine>>
  BY DEF Customize
<1>1. PICK l \in Lines :
        /\ l # "absent"
        /\ \/ /\ l \notin OldRelease[f]
              /\ installed' = [installed EXCEPT ![f] = @ \cup {l}]
              /\ added' = [added EXCEPT ![f] = @ \cup {l}]
           \/ /\ installed' = [installed EXCEPT ![f] = @ \ {l}]
              /\ added' = [added EXCEPT ![f] = @ \ {l}]
  <2>1. CASE \E l \in UserLines[f] \ installed[f] :
               /\ installed' = [installed EXCEPT ![f] = @ \cup {l}]
               /\ added' = [added EXCEPT ![f] = @ \cup {l}]
    <3>1. \A l \in UserLines[f] : /\ l \in Lines /\ l # "absent"
                                  /\ l \notin OldRelease[f]
      BY PatchesAssumption
    <3>2. QED
      BY <2>1, <3>1
  <2>2. CASE \E l \in installed[f] :
               /\ installed' = [installed EXCEPT ![f] = @ \ {l}]
               /\ added' = [added EXCEPT ![f] = @ \ {l}]
    <3>1. \A l \in installed[f] : l \in Lines /\ l # "absent"
      BY <1>0 DEF PatchesInv, PatchesTypes, OnFiles, AddedIsInstalled
    <3>2. QED
      BY <2>2, <3>1
  <2>3. QED
    BY <2>1, <2>2 DEF Customize
<1>2. PatchesTypes'
  BY <1>0, <1>1 DEF PatchesInv, PatchesTypes, OnFiles
<1>3. AddedIsInstalled'
  <2> SUFFICES ASSUME NEW g \in PatchedFiles
               PROVE  /\ added'[g] = installed'[g] \ OldRelease[g]
                      /\ "absent" \notin installed'[g]
    BY DEF AddedIsInstalled
  <2>1. added[g] = installed[g] \ OldRelease[g] /\ "absent" \notin installed[g]
    BY <1>0 DEF PatchesInv, AddedIsInstalled
  <2>2. CASE g # f
    BY <1>1, <2>1, <2>2 DEF PatchesInv, PatchesTypes, OnFiles
  <2>3. CASE g = f
    BY <1>1, <2>1, <2>3 DEF PatchesInv, PatchesTypes, OnFiles
  <2>4. QED
    BY <2>2, <2>3
<1>4. QED
  BY <1>0, <1>2, <1>3 DEF PatchesInv, AddedIsBackedUp, AddedIsBack

LEMMA UpdateInv == ASSUME PatchesInv, Update PROVE PatchesInv'
<1>1. /\ reapply = "before" /\ reapply' = "merge" /\ installed' = NewRelease
      /\ UNCHANGED <<pristine, added>>
      /\ backup' = [f \in PatchedFiles |->
                      IF installed[f] # OldRelease[f] THEN installed[f] ELSE NoCopy]
  BY DEF Update
<1>2. NoCopy \in SUBSET Lines
  BY Zenon DEF Lines
<1>3. PatchesTypes'
  BY <1>1, <1>2, PatchesAssumption DEF PatchesInv, PatchesTypes, OnFiles
<1>4. AddedIsBackedUp'
  <2> SUFFICES ASSUME NEW f \in PatchedFiles
               PROVE  IF backup'[f] = NoCopy THEN added'[f] = {}
                      ELSE added'[f] = backup'[f] \ OldRelease[f]
    BY DEF AddedIsBackedUp
  <2>1. added'[f] = installed[f] \ OldRelease[f] /\ installed[f] # NoCopy
    BY <1>1 DEF PatchesInv, AddedIsInstalled, NoCopy
  <2>2. QED
    BY <1>1, <2>1
<1>5. QED
  BY <1>1, <1>3, <1>4 DEF PatchesInv, AddedIsInstalled, AddedIsBack

LEMMA MergeBackInv ==
  ASSUME PatchesInv, NEW f \in PatchedFiles, MergeBack(f) PROVE PatchesInv'
<1>1. /\ reapply = "merge" /\ UNCHANGED <<backup, pristine, added, reapply>>
  BY DEF MergeBack
<1>2. OnFiles(installed)'
  <2>1. PICK merged \in (SUBSET (NewRelease[f] \cup backup[f])) \cup {NoCopy} :
          installed' = [installed EXCEPT ![f] = merged]
    BY DEF MergeBack
  <2>2. merged \in SUBSET Lines
    <3>1. NoCopy \in SUBSET Lines
      BY Zenon DEF Lines
    <3>2. QED
      BY <2>1, <3>1, PatchesAssumption DEF PatchesInv, PatchesTypes, OnFiles
  <2>3. QED
    BY <2>1, <2>2 DEF PatchesInv, PatchesTypes, OnFiles
<1>3. QED
  BY <1>1, <1>2 DEF PatchesInv, PatchesTypes, OnFiles, AddedIsInstalled,
                    AddedIsBackedUp, AddedIsBack

(* The lines that the verifier asks for include every significant one that *)
(* the user added, and with a baseline they are no others.                 *)
LEMMA ComputedLines ==
  ASSUME PatchesInv, reapply = "merge", NEW f \in PatchedFiles, backup[f] # NoCopy
  PROVE  /\ added[f] \cap Significant \subseteq ComputeUserAddedLines(f)
         /\ HasBaseline(f) => ComputeUserAddedLines(f) \subseteq added[f]
<1>1. added[f] = backup[f] \ OldRelease[f]
  BY DEF PatchesInv, AddedIsBackedUp
<1>2. HasBaseline(f) => pristine[f] = OldRelease[f]
  BY DEF PatchesInv, PatchesTypes, HasBaseline
<1>3. QED
  BY <1>1, <1>2 DEF ComputeUserAddedLines

LEMMA VerifyInv == ASSUME PatchesInv, Verify PROVE PatchesInv'
<1>1. reapply = "merge" /\ UNCHANGED <<installed, backup, pristine, added>>
      /\ reapply' = IF \A f \in PatchedFiles : VerifyFile(f) THEN "verified" ELSE "merge"
  BY DEF Verify
<1>2. AddedIsBack'
  <2> SUFFICES ASSUME reapply' \in {"verified", "clean"}, NEW f \in PatchedFiles,
                      NEW l \in added'[f] \cap Significant
               PROVE  installed'[f] # NoCopy /\ Includes(installed'[f], l)
    BY DEF AddedIsBack, Includes
  <2>1. VerifyFile(f)
    BY <1>1
  <2>2. backup[f] # NoCopy
    BY <1>1 DEF PatchesInv, AddedIsBackedUp
  <2>3. l \in ComputeUserAddedLines(f)
    BY <1>1, <2>2, ComputedLines
  <2>4. QED
    BY <1>1, <2>1, <2>2, <2>3 DEF VerifyFile
<1>3. QED
  BY <1>1, <1>2 DEF PatchesInv, PatchesTypes, OnFiles, AddedIsInstalled, AddedIsBackedUp

LEMMA PatchesCleanInv == ASSUME PatchesInv, Cleanup PROVE PatchesInv'
<1>1. /\ reapply = "verified" /\ reapply' = "clean"
      /\ backup' = [f \in PatchedFiles |-> NoCopy]
      /\ UNCHANGED <<installed, pristine, added>>
  BY DEF Cleanup
<1>2. NoCopy \in SUBSET Lines
  BY Zenon DEF Lines
<1>3. AddedIsBack'
  BY <1>1 DEF PatchesInv, AddedIsBack, Includes
<1>4. QED
  BY <1>1, <1>2, <1>3 DEF PatchesInv, PatchesTypes, OnFiles, AddedIsInstalled,
                          AddedIsBackedUp

LEMMA PatchesNextInv == PatchesInv /\ [PatchesNext]_patchVars => PatchesInv'
<1> SUFFICES ASSUME PatchesInv, [PatchesNext]_patchVars PROVE PatchesInv'
  OBVIOUS
<1>1. CASE UNCHANGED patchVars
  BY <1>1 DEF PatchesInv, PatchesTypes, OnFiles, AddedIsInstalled,
              AddedIsBackedUp, AddedIsBack, Includes, patchVars
<1>2. QED
  BY <1>1, CustomizeInv, UpdateInv, MergeBackInv, VerifyInv, PatchesCleanInv
     DEF PatchesNext

(* compute-user-added-lines and the exit code of the verifier: whatever    *)
(* the releases, the user and the merge did, the backups go only when each *)
(* significant line of the user's is back, and with a baseline the gate    *)
(* stops for a line of the user's only.                                    *)
THEOREM GateHolds == PatchesSpec => []GateIsRight
<1>1. PatchesInv => GateIsRight
  <2> SUFFICES ASSUME PatchesInv PROVE BackupsOutliveLoss /\ HaltsAreDeserved
    BY DEF GateIsRight
  <2>1. BackupsOutliveLoss
    BY DEF PatchesInv, AddedIsBack, BackupsOutliveLoss
  <2>2. HaltsAreDeserved
    <3> SUFFICES ASSUME reapply = "merge", NEW f \in PatchedFiles, HasBaseline(f),
                        installed[f] # NoCopy, ~VerifyFile(f)
                 PROVE  \E l \in added[f] : ~Includes(installed[f], l)
      BY DEF HaltsAreDeserved
    <3>1. backup[f] # NoCopy
          /\ \E l \in ComputeUserAddedLines(f) : ~Includes(installed[f], l)
      BY DEF VerifyFile
    <3>2. QED
      BY <3>1, ComputedLines
  <2>3. QED
    BY <2>1, <2>2
<1>2. QED
  BY <1>1, PatchesInitInv, PatchesNextInv, PTL DEF PatchesSpec

-----------------------------------------------------------------------------
(***************************************************************************)
(* The store of learnings under any number of processes, projects, days    *)
(* and commands: without a lock, commands duplicate or leave out nothing   *)
(* but what another command changed under them.                            *)
(***************************************************************************)

Fields == DOMAIN NoCommand

(* What is known of a file, however old it is.                             *)
FileFits(f) ==
    /\ f.id \in 1..learnings /\ f.date \in 0..today
    /\ f.content_hash = ContentHash(f.learning, f.source_project)

(* A copy leaves behind it what it has passed.                             *)
Stored(c) ==
    \A i \in 1..(c.section - 1) :
       LET content == <<LearningsOf[c.project][i], c.project>> IN
       \/ content \in c.lost
       \/ \E f \in knowledge : <<f.learning, f.source_project>> = content

(* Of the files it listed, a copy has read none with the section's text.   *)
ReadOthers(c) ==
    \A f \in knowledge :
       f.id \in c.listing \ c.unread =>
         f.content_hash # ContentHash(SectionOf(c), c.project)

(* What is too old is what a prune has still to read, or is about to go.   *)
OldAreAhead(c) ==
    \A f \in knowledge :
       f.date < c.cutoff => \/ c.pc # "done" /\ f.id \in c.unread
                            \/ c.pc = "unlink" /\ f.id = c.target

CommandFits(c) ==
    /\ DOMAIN c = Fields
    /\ c.section \in Nat \ {0} /\ c.listing \subseteq 1..learnings
    /\ c.cutoff \in Int /\ c.cutoff <= today
    /\ c.pc \in {"list", "compare"} => c.cutoff = 0
    /\ c.pc \in {"judge", "unlink"} => c.project = "none"
    /\ c.pc = "compare" => ReadOthers(c)
    /\ c.pc \in {"judge", "unlink", "done"} => OldAreAhead(c)
    /\ c.project # "none" => Stored(c)

StoreInv ==
    /\ learnings \in Nat /\ today \in Nat
    /\ \A f \in knowledge : FileFits(f)
    /\ OnlyRacesDuplicate
    /\ DOMAIN learner = Learners
    /\ \A u \in Learners : CommandFits(learner[u])

(* ------------------------------ the helpers ----------------------------- *)

(* What follows of the fields of a command that has them all.              *)
LEMMA FieldNames ==
  ASSUME NEW c, DOMAIN c = Fields
  PROVE  {"pc", "project", "section", "listing", "unread", "cutoff", "target", "lost"}
           \subseteq DOMAIN c
BY DEF Fields, NoCommand

LEMMA StoreInitInv == LearningsInit => StoreInv
<1> SUFFICES ASSUME LearningsInit PROVE StoreInv
  OBVIOUS
<1>1. /\ knowledge = {} /\ today = 0 /\ learnings = 0
      /\ learner = [u \in Learners |-> NoCommand]
  BY DEF LearningsInit
<1>2. /\ DOMAIN NoCommand = Fields /\ NoCommand.pc = "idle" /\ NoCommand.project = "none"
      /\ NoCommand.section = 1 /\ NoCommand.listing = {} /\ NoCommand.cutoff = 0
  BY DEF Fields, NoCommand
<1>3. CommandFits(NoCommand)
  BY <1>1, <1>2 DEF CommandFits
<1>4. QED
  BY <1>1, <1>3 DEF StoreInv, OnlyRacesDuplicate

(* A step of one command that leaves the files alone.                      *)
LEMMA LearnerStep ==
  ASSUME StoreInv, NEW u \in Learners, NEW c, Step(u, c), CommandFits(c),
         UNCHANGED <<knowledge, today, learnings>>
  PROVE  StoreInv'
<1>1. DOMAIN learner' = Learners /\ learner'[u] = c
      /\ (\A v \in Learners \ {u} : learner'[v] = learner[v])
  BY DEF StoreInv, Step
<1>2. \A v \in Learners : CommandFits(learner'[v])
  BY <1>1 DEF StoreInv
<1>3. ASSUME NEW v \in Learners PROVE CommandFits(learner[v])'
  BY <1>2 DEF CommandFits, ReadOthers, OldAreAhead, Stored
<1>4. (\A f \in knowledge : FileFits(f))' /\ OnlyRacesDuplicate'
  BY DEF StoreInv, FileFits, OnlyRacesDuplicate
<1>5. QED
  BY <1>1, <1>3, <1>4 DEF StoreInv

(* A command that has just started has yet to do what it is about.         *)
LEMMA FreshFits ==
  ASSUME StoreInv, NEW c, DOMAIN c = Fields, c.section = 1, c.listing = {},
         c.cutoff \in Int, c.cutoff <= today, c.cutoff = 0 \/ c.unread = Ids,
         \/ c.pc = "list" /\ c.cutoff = 0
         \/ c.pc \in {"judge", "unlink"} /\ c.project = "none"
  PROVE  CommandFits(c)
<1>1. Stored(c)
  BY DEF Stored
<1>2. OldAreAhead(c)
  <2>1. SUFFICES ASSUME NEW f \in knowledge, f.date < c.cutoff
                 PROVE  c.pc # "done" /\ f.id \in c.unread
    BY DEF OldAreAhead
  <2>2. f.date \in Nat
    BY DEF StoreInv, FileFits
  <2>3. QED
    BY <2>1, <2>2 DEF Ids
<1>3. QED
  BY <1>1, <1>2 DEF CommandFits

(* -------------------------------- copying ------------------------------- *)

LEMMA CopyStarted == ASSUME StoreInv, NEW u \in Learners, Copy(u) PROVE StoreInv'
<1>1. PICK p : StartStoreCommand(u, [NoCommand EXCEPT !.pc = "list", !.project = p])
  BY Zenon DEF Copy
<1> DEFINE c == [NoCommand EXCEPT !.pc = "list", !.project = p]
<1>2. /\ DOMAIN c = Fields /\ c.pc = "list" /\ c.section = 1 /\ c.listing = {}
      /\ c.cutoff = 0
  BY DEF Fields, NoCommand
<1> HIDE DEF c
<1>3. Step(u, c) /\ UNCHANGED <<knowledge, today, learnings>>
  BY <1>1 DEF StartStoreCommand, c
<1>4. CommandFits(c)
  BY <1>2, FreshFits DEF StoreInv
<1>5. QED
  BY <1>3, <1>4, LearnerStep

LEMMA SectionListed == ASSUME StoreInv, NEW u \in Learners, ListForSection(u) PROVE StoreInv'
<1> DEFINE c == learner[u]
           ended == [c EXCEPT !.pc = "done"]
           comparing == [c EXCEPT !.pc = "compare", !.listing = Ids, !.unread = Ids]
<1>1. /\ c.pc = "list" /\ UNCHANGED <<knowledge, today, learnings>>
      /\ Step(u, ended) \/ Step(u, comparing)
  BY DEF ListForSection
<1>2. CommandFits(c) /\ DOMAIN c = Fields /\ c.cutoff = 0
  BY <1>1 DEF StoreInv, CommandFits
<1>3. /\ DOMAIN ended = Fields /\ ended.pc = "done" /\ ended.project = c.project
      /\ ended.section = c.section /\ ended.listing = c.listing /\ ended.cutoff = 0
      /\ ended.lost = c.lost
  BY <1>2, FieldNames
<1>4. /\ DOMAIN comparing = Fields /\ comparing.pc = "compare" /\ comparing.project = c.project
      /\ comparing.section = c.section /\ comparing.cutoff = 0 /\ comparing.lost = c.lost
      /\ comparing.listing = Ids /\ comparing.unread = Ids
  BY <1>2, FieldNames
<1>5. Ids \subseteq 1..learnings /\ (\A f \in knowledge : f.date \in Nat)
  BY DEF StoreInv, FileFits, Ids
<1> HIDE DEF ended, comparing
<1>6. CommandFits(ended)
  <2>1. OldAreAhead(ended)
    BY <1>3, <1>5 DEF OldAreAhead
  <2>2. c.project # "none" => Stored(ended)
    BY <1>2, <1>3 DEF CommandFits, Stored
  <2>3. QED
    BY <1>2, <1>3, <2>1, <2>2 DEF CommandFits
<1>7. CommandFits(comparing)
  <2>1. ReadOthers(comparing)
    BY <1>4 DEF ReadOthers
  <2>2. c.project # "none" => Stored(comparing)
    BY <1>2, <1>4 DEF CommandFits, Stored
  <2>3. QED
    BY <1>2, <1>4, <1>5, <2>1, <2>2 DEF CommandFits
<1>8. QED
  BY <1>1, <1>6, <1>7, LearnerStep

(* The command behind the section that it is at.                           *)
LEMMA NextFields ==
  ASSUME NEW c, DOMAIN c = Fields
  PROVE  LET d == NextSection(c) IN
         /\ DOMAIN d = Fields /\ d.pc = "list" /\ d.section = c.section + 1
         /\ d.listing = {} /\ d.project = c.project /\ d.cutoff = c.cutoff
         /\ d.lost = c.lost
BY FieldNames DEF NextSection

LEMMA Compared == ASSUME StoreInv, NEW u \in Learners, Compare(u) PROVE StoreInv'
<1> DEFINE c == learner[u]
<1>1. PICK id \in c.unread :
        Step(u, IF IsCopyOf(id, c) THEN NextSection(c) ELSE [c EXCEPT !.unread = c.unread \ {id}])
  BY DEF Compare
<1>2. c.pc = "compare" /\ UNCHANGED <<knowledge, today, learnings>>
  BY DEF Compare
<1>3. CommandFits(c) /\ DOMAIN c = Fields /\ c.cutoff = 0 /\ ReadOthers(c)
      /\ c.section \in Nat \ {0}
  BY <1>2 DEF StoreInv, CommandFits
<1>4. CASE IsCopyOf(id, c)
  <2> DEFINE d == NextSection(c)
  <2>1. /\ DOMAIN d = Fields /\ d.pc = "list" /\ d.section = c.section + 1
        /\ d.listing = {} /\ d.project = c.project /\ d.cutoff = c.cutoff
        /\ d.lost = c.lost
    BY <1>3, NextFields
  <2>2. PICK f \in knowledge : f.content_hash = ContentHash(SectionOf(c), c.project)
    BY <1>4 DEF IsCopyOf
  <2>3. <<f.learning, f.source_project>> = <<LearningsOf[c.project][c.section], c.project>>
    BY <2>2 DEF StoreInv, FileFits, ContentHash, SectionOf
  <2> HIDE DEF d
  <2>4. c.project # "none" => Stored(d)
    <3>1. SUFFICES ASSUME c.project # "none", NEW i \in 1..(d.section - 1)
                   PROVE  \/ <<LearningsOf[c.project][i], c.project>> \in c.lost
                          \/ \E g \in knowledge : <<g.learning, g.source_project>>
                                                    = <<LearningsOf[c.project][i], c.project>>
      BY <2>1 DEF Stored
    <3>2. CASE i = c.section
      BY <2>3, <3>2
    <3>3. CASE i # c.section
      <4>1. i \in 1..(c.section - 1)
        BY <1>3, <2>1, <3>3
      <4>2. QED
        BY <1>3, <3>1, <4>1 DEF CommandFits, Stored
    <3>4. QED
      BY <3>2, <3>3
  <2>5. CommandFits(d)
    BY <1>3, <2>1, <2>4 DEF CommandFits
  <2>6. Step(u, d)
    BY <1>1, <1>4 DEF d
  <2>7. QED
    BY <1>2, <2>5, <2>6, LearnerStep
<1>5. CASE ~IsCopyOf(id, c)
  <2> DEFINE d == [c EXCEPT !.unread = c.unread \ {id}]
  <2>1. /\ DOMAIN d = Fields /\ d.pc = c.pc /\ d.project = c.project
        /\ d.section = c.section /\ d.listing = c.listing /\ d.cutoff = c.cutoff
        /\ d.lost = c.lost /\ d.unread = c.unread \ {id}
    BY <1>3, FieldNames
  <2> HIDE DEF d
  <2>2. ReadOthers(d)
    <3>1. SectionOf(d) = SectionOf(c)
      BY <2>1 DEF SectionOf
    <3>2. QED
      BY <1>3, <1>5, <2>1, <3>1 DEF ReadOthers, IsCopyOf
  <2>3. c.project # "none" => Stored(d)
    BY <1>3, <2>1 DEF CommandFits, Stored
  <2>4. CommandFits(d)
    BY <1>2, <1>3, <2>1, <2>2, <2>3 DEF CommandFits
  <2>5. Step(u, d)
    BY <1>1, <1>5 DEF d
  <2>6. QED
    BY <1>2, <2>4, <2>5, LearnerStep
<1>6. QED
  BY <1>4, <1>5

LEMMA LearningStored == ASSUME StoreInv, NEW u \in Learners, StoreLearning(u) PROVE StoreInv'
<1> DEFINE c == learner[u]
           new == [id |-> learnings + 1, source_project |-> c.project,
                   learning |-> SectionOf(c), date |-> today,
                   content_hash |-> ContentHash(SectionOf(c), c.project),
                   listing |-> c.listing]
           d == NextSection(c)
<1>1. /\ c.pc = "compare" /\ c.unread = {} /\ today' = today /\ Step(u, d)
      /\ learnings' = learnings + 1 /\ knowledge' = knowledge \cup {new}
  BY DEF StoreLearning
<1>2. CommandFits(c) /\ DOMAIN c = Fields /\ c.cutoff = 0 /\ ReadOthers(c)
      /\ c.section \in Nat \ {0} /\ c.listing \subseteq 1..learnings
  BY <1>1 DEF StoreInv, CommandFits
<1>3. /\ DOMAIN d = Fields /\ d.pc = "list" /\ d.section = c.section + 1
      /\ d.listing = {} /\ d.project = c.project /\ d.cutoff = c.cutoff
      /\ d.lost = c.lost
  BY <1>2, NextFields
<1>4. /\ new.id = learnings + 1 /\ new.date = today
      /\ new.content_hash = ContentHash(SectionOf(c), c.project)
      /\ new.content_hash = ContentHash(new.learning, new.source_project)
      /\ <<new.learning, new.source_project>> = <<LearningsOf[c.project][c.section], c.project>>
      /\ new.listing = c.listing
  BY DEF SectionOf
<1> HIDE DEF new, d
<1>5. learnings \in Nat /\ today \in Nat
      /\ (\A f \in knowledge : FileFits(f) /\ f.id \in 1..learnings)
  BY DEF StoreInv, FileFits
<1>6. ASSUME NEW f \in knowledge' PROVE FileFits(f)'
  <2>1. CASE f \in knowledge
    BY <1>1, <1>5, <2>1 DEF FileFits
  <2>2. CASE f = new
    BY <1>1, <1>4, <1>5, <2>2 DEF FileFits
  <2>3. QED
    BY <1>1, <2>1, <2>2
<1>7. OnlyRacesDuplicate'
  <2>1. SUFFICES ASSUME NEW f \in knowledge', NEW g \in knowledge',
                        f.content_hash = g.content_hash, f.id < g.id
                 PROVE  f.id \notin g.listing
    BY DEF OnlyRacesDuplicate
  <2>2. CASE f \in knowledge /\ g \in knowledge
    BY <2>1, <2>2 DEF StoreInv, OnlyRacesDuplicate
  <2>3. CASE f \in knowledge /\ g = new
    BY <1>1, <1>2, <1>4, <2>1, <2>3 DEF ReadOthers
  <2>4. CASE f = new
    BY <1>1, <1>4, <1>5, <2>1, <2>4
  <2>5. QED
    BY <1>1, <2>2, <2>3, <2>4
<1>8. /\ DOMAIN learner' = Learners /\ learner'[u] = d
      /\ (\A v \in Learners \ {u} : learner'[v] = learner[v])
  BY <1>1 DEF StoreInv, Step
<1>9. CommandFits(learner[u])'
  <2>1. c.project # "none" => Stored(learner[u])'
    <3>1. SUFFICES ASSUME c.project # "none", NEW i \in 1..(d.section - 1)
                   PROVE  \/ <<LearningsOf[c.project][i], c.project>> \in c.lost
                          \/ \E g \in knowledge' : <<g.learning, g.source_project>>
                                                    = <<LearningsOf[c.project][i], c.project>>
      BY <1>3, <1>8 DEF Stored
    <3>2. CASE i = c.section
      BY <1>1, <1>4, <3>2
    <3>3. CASE i # c.section
      <4>1. i \in 1..(c.section - 1)
        BY <1>2, <1>3, <3>3
      <4>2. QED
        BY <1>1, <1>2, <3>1, <4>1 DEF CommandFits, Stored
    <3>4. QED
      BY <3>2, <3>3
  <2>2. QED
    BY <1>1, <1>2, <1>3, <1>5, <1>8, <2>1 DEF CommandFits
<1>10. ASSUME NEW v \in Learners \ {u}, NEW e, e = learner[v] PROVE CommandFits(e)'
  <2>1. CommandFits(e)
    BY <1>10 DEF StoreInv
  <2>2. e.listing \subseteq 1..learnings /\ learnings + 1 \notin 1..learnings
        /\ 1..learnings \subseteq 1..(learnings + 1) /\ e.cutoff \in Int /\ e.cutoff <= today
    BY <1>5, <2>1 DEF CommandFits
  <2>3. e.pc = "compare" => ReadOthers(e)'
    BY <1>1, <1>4, <2>1, <2>2 DEF CommandFits, ReadOthers, SectionOf, ContentHash
  <2>4. e.pc \in {"judge", "unlink", "done"} => OldAreAhead(e)'
    BY <1>1, <1>4, <1>5, <2>1, <2>2 DEF CommandFits, OldAreAhead
  <2>5. e.project # "none" => Stored(e)'
    BY <1>1, <2>1 DEF CommandFits, Stored
  <2>6. QED
    BY <1>1, <2>1, <2>2, <2>3, <2>4, <2>5 DEF CommandFits
<1>11. \A v \in Learners \ {u} : CommandFits(learner[v])'
  <2>1. SUFFICES ASSUME NEW v \in Learners \ {u} PROVE CommandFits(learner[v])'
    OBVIOUS
  <2>2. PICK e : e = learner[v]
    OBVIOUS
  <2>3. CommandFits(e)' /\ learner'[v] = e
    BY <1>8, <1>10, <2>2
  <2>4. QED
    BY <2>3 DEF CommandFits, ReadOthers, OldAreAhead, Stored, SectionOf
<1>12. QED
  BY <1>1, <1>5, <1>6, <1>7, <1>8, <1>9, <1>11 DEF StoreInv

(* ------------------------- pruning and deleting ------------------------- *)

LEMMA PruneStarted == ASSUME StoreInv, NEW u \in Learners, Prune(u) PROVE StoreInv'
<1>1. PICK days \in Ages :
        StartStoreCommand(u, [NoCommand EXCEPT !.pc = "judge", !.unread = Ids,
                                               !.cutoff = today - days])
  BY DEF Prune
<1> DEFINE c == [NoCommand EXCEPT !.pc = "judge", !.unread = Ids, !.cutoff = today - days]
<1>2. /\ DOMAIN c = Fields /\ c.pc = "judge" /\ c.section = 1 /\ c.listing = {}
      /\ c.cutoff = today - days /\ c.project = "none" /\ c.unread = Ids
  BY DEF Fields, NoCommand
<1>3. Step(u, c) /\ UNCHANGED <<knowledge, today, learnings>>
  BY <1>1 DEF StartStoreCommand
<1> HIDE DEF c
<1>4. c.cutoff \in Int /\ c.cutoff <= today
  BY <1>2, LearningsAssumption DEF StoreInv
<1>5. CommandFits(c)
  BY <1>2, <1>4, FreshFits
<1>6. QED
  BY <1>3, <1>5, LearnerStep

LEMMA FileJudged == ASSUME StoreInv, NEW u \in Learners, Judge(u) PROVE StoreInv'
<1> DEFINE c == learner[u]
<1>1. c.pc = "judge" /\ UNCHANGED <<knowledge, today, learnings>>
  BY DEF Judge
<1>2. CommandFits(c) /\ DOMAIN c = Fields /\ OldAreAhead(c) /\ c.project = "none"
  BY <1>1 DEF StoreInv, CommandFits
<1>3. CASE c.unread = {} /\ Step(u, [c EXCEPT !.pc = "done"])
  <2> DEFINE d == [c EXCEPT !.pc = "done"]
  <2>1. /\ DOMAIN d = Fields /\ d.pc = "done" /\ d.project = c.project
        /\ d.section = c.section /\ d.listing = c.listing /\ d.cutoff = c.cutoff
    BY <1>2, FieldNames
  <2> HIDE DEF d
  <2>2. OldAreAhead(d)
    BY <1>1, <1>2, <1>3, <2>1 DEF OldAreAhead
  <2>3. CommandFits(d)
    BY <1>2, <2>1, <2>2 DEF CommandFits
  <2>4. Step(u, d)
    BY <1>3 DEF d
  <2>5. QED
    BY <1>1, <2>3, <2>4, LearnerStep
<1>4. ASSUME NEW id \in c.unread,
             LET rest == [c EXCEPT !.unread = c.unread \ {id}] IN
             Step(u, IF \E f \in knowledge : f.id = id /\ f.date < c.cutoff
                     THEN [rest EXCEPT !.pc = "unlink", !.target = id]
                     ELSE rest)
      PROVE  StoreInv'
  <2> DEFINE old == \E f \in knowledge : f.id = id /\ f.date < c.cutoff
             rest == [c EXCEPT !.unread = c.unread \ {id}]
             removing == [rest EXCEPT !.pc = "unlink", !.target = id]
  <2>1. /\ DOMAIN rest = Fields /\ rest.pc = c.pc /\ rest.project = c.project
        /\ rest.section = c.section /\ rest.listing = c.listing
        /\ rest.cutoff = c.cutoff /\ rest.unread = c.unread \ {id}
    BY <1>2, FieldNames
  <2>2. Step(u, IF old THEN removing ELSE rest)
    BY <1>4
  <2> HIDE DEF rest
  <2>3. /\ DOMAIN removing = Fields /\ removing.pc = "unlink" /\ removing.target = id
        /\ removing.project = c.project /\ removing.section = c.section
        /\ removing.listing = c.listing /\ removing.cutoff = c.cutoff
        /\ removing.unread = c.unread \ {id}
    BY <2>1, FieldNames
  <2> HIDE DEF removing
  <2>4. CASE old
    <3>1. OldAreAhead(removing)
      BY <1>1, <1>2, <2>3 DEF OldAreAhead
    <3>2. CommandFits(removing)
      BY <1>2, <2>3, <3>1 DEF CommandFits
    <3>3. QED
      BY <1>1, <2>2, <2>4, <3>2, LearnerStep
  <2>5. CASE ~old
    <3>1. OldAreAhead(rest)
      BY <1>1, <1>2, <2>1, <2>5 DEF OldAreAhead
    <3>2. CommandFits(rest)
      BY <1>1, <1>2, <2>1, <3>1 DEF CommandFits
    <3>3. QED
      BY <1>1, <2>2, <2>5, <3>2, LearnerStep
  <2>6. QED
    BY <2>4, <2>5
<1>5. QED
  BY <1>3, <1>4 DEF Judge

LEMMA DeleteStarted == ASSUME StoreInv, NEW u \in Learners, Delete(u) PROVE StoreInv'
<1>1. PICK id : StartStoreCommand(u, [NoCommand EXCEPT !.pc = "unlink", !.target = id])
  BY Zenon DEF Delete
<1> DEFINE c == [NoCommand EXCEPT !.pc = "unlink", !.target = id]
<1>2. /\ DOMAIN c = Fields /\ c.pc = "unlink" /\ c.section = 1 /\ c.listing = {}
      /\ c.cutoff = 0 /\ c.project = "none"
  BY DEF Fields, NoCommand
<1>3. Step(u, c) /\ UNCHANGED <<knowledge, today, learnings>>
  BY <1>1 DEF StartStoreCommand
<1> HIDE DEF c
<1>4. CommandFits(c)
  BY <1>2, FreshFits DEF StoreInv
<1>5. QED
  BY <1>3, <1>4, LearnerStep

LEMMA FileUnlinked == ASSUME StoreInv, NEW u \in Learners, Unlink(u) PROVE StoreInv'
<1> DEFINE c == learner[u]
           gone == {f \in knowledge : f.id = c.target}
           withThem == {<<f.learning, f.source_project>> : f \in gone}
           d == [c EXCEPT !.pc = IF gone = {} THEN "failed" ELSE "judge", !.target = 0]
<1>1. /\ c.pc = "unlink" /\ today' = today /\ learnings' = learnings
      /\ knowledge' = knowledge \ gone
      /\ learner' = [v \in Learners |->
                       IF v = u THEN d
                       ELSE [learner[v] EXCEPT !.lost = learner[v].lost \cup withThem]]
  BY DEF Unlink
<1>2. CommandFits(c) /\ DOMAIN c = Fields /\ OldAreAhead(c) /\ c.project = "none"
  BY <1>1 DEF StoreInv, CommandFits
<1>3. /\ DOMAIN d = Fields /\ d.pc \in {"failed", "judge"} /\ d.project = c.project
      /\ d.section = c.section /\ d.listing = c.listing /\ d.cutoff = c.cutoff
      /\ d.unread = c.unread
  BY <1>2, FieldNames
<1>4. knowledge' \subseteq knowledge
      /\ (\A f \in knowledge : f \notin knowledge' => f.id = c.target
                              /\ <<f.learning, f.source_project>> \in withThem)
      /\ (\A f \in knowledge' : f.id # c.target)
  BY <1>1
<1>5. DOMAIN learner' = Learners /\ learner'[u] = d
  BY <1>1
<1>6. \A v \in Learners \ {u} :
        learner'[v] = [learner[v] EXCEPT !.lost = learner[v].lost \cup withThem]
  BY <1>1
<1> HIDE DEF gone, withThem, d
<1>7. (\A f \in knowledge : FileFits(f))' /\ OnlyRacesDuplicate'
  BY <1>1, <1>4 DEF StoreInv, FileFits, OnlyRacesDuplicate
<1>8. CommandFits(learner[u])'
  <2>1. OldAreAhead(learner[u])'
    BY <1>2, <1>3, <1>4, <1>5 DEF OldAreAhead
  <2>2. QED
    BY <1>1, <1>2, <1>3, <1>5, <2>1 DEF CommandFits
<1>9. ASSUME NEW v \in Learners \ {u} PROVE CommandFits(learner[v])'
  <2>1. PICK e : e = learner[v]
    OBVIOUS
  <2>2. PICK g : g = learner'[v]
    OBVIOUS
  <2>3. CommandFits(e) /\ DOMAIN e = Fields
    BY <2>1 DEF StoreInv, CommandFits
  <2>4. g = [e EXCEPT !.lost = e.lost \cup withThem]
    BY <1>6, <2>1, <2>2
  <2>5. /\ DOMAIN g = Fields /\ g.pc = e.pc /\ g.project = e.project
        /\ g.section = e.section /\ g.listing = e.listing /\ g.cutoff = e.cutoff
        /\ g.unread = e.unread /\ g.target = e.target /\ g.lost = e.lost \cup withThem
    BY <2>3, <2>4, FieldNames
  <2>6. e.pc = "compare" => ReadOthers(g)'
    BY <1>4, <2>3, <2>5 DEF CommandFits, ReadOthers, SectionOf
  <2>7. e.pc \in {"judge", "unlink", "done"} => OldAreAhead(g)'
    BY <1>4, <2>3, <2>5 DEF CommandFits, OldAreAhead
  <2>8. e.project # "none" => Stored(g)'
    BY <1>4, <2>3, <2>5 DEF CommandFits, Stored
  <2>9. CommandFits(g)'
    BY <1>1, <2>3, <2>5, <2>6, <2>7, <2>8 DEF CommandFits
  <2>10. QED
    BY <2>2, <2>9 DEF CommandFits, ReadOthers, OldAreAhead, Stored, SectionOf
<1>10. QED
  BY <1>1, <1>5, <1>7, <1>8, <1>9 DEF StoreInv

LEMMA DayPassed == ASSUME StoreInv, NextDay PROVE StoreInv'
<1>1. today' = today + 1 /\ UNCHANGED <<knowledge, learnings, learner>> /\ today \in Nat
  BY DEF NextDay, StoreInv
<1>2. (\A f \in knowledge : FileFits(f))' /\ OnlyRacesDuplicate'
  BY <1>1 DEF StoreInv, FileFits, OnlyRacesDuplicate
<1>3. ASSUME NEW u \in Learners PROVE CommandFits(learner[u])'
  <2>1. CommandFits(learner[u])
    BY DEF StoreInv
  <2>2. QED
    BY <1>1, <2>1 DEF CommandFits, ReadOthers, OldAreAhead, Stored, SectionOf
<1>4. QED
  BY <1>1, <1>2, <1>3 DEF StoreInv

(* ------------------------------ the theorem ----------------------------- *)

LEMMA StoreNextInv == StoreInv /\ [LearningsNext]_learningVars => StoreInv'
<1> SUFFICES ASSUME StoreInv, [LearningsNext]_learningVars PROVE StoreInv'
  OBVIOUS
<1>1. CASE UNCHANGED learningVars
  BY <1>1 DEF learningVars, StoreInv, FileFits, OnlyRacesDuplicate, CommandFits,
              ReadOthers, OldAreAhead, Stored, SectionOf
<1>2. CASE NextDay
  BY <1>2, DayPassed
<1>3. ASSUME NEW u \in Learners,
             \/ Copy(u) \/ ListForSection(u) \/ Compare(u) \/ StoreLearning(u)
             \/ Prune(u) \/ Judge(u) \/ Delete(u) \/ Unlink(u)
      PROVE  StoreInv'
  BY <1>3, CopyStarted, SectionListed, Compared, LearningStored,
     PruneStarted, FileJudged, DeleteStarted, FileUnlinked
<1>4. QED
  BY <1>1, <1>2, <1>3 DEF LearningsNext

(* For any projects, processes and days: only copies that race store a     *)
(* text twice, a copy leaves no section out that nobody removed since, and *)
(* a prune that reports its counts left nothing that was too old.          *)
THEOREM StoreHolds == LearningsSpec => []StoreIsFaithful
<1>1. StoreInv => StoreIsFaithful
  <2>1. SUFFICES ASSUME StoreInv PROVE CopiedSectionsAreStored /\ PruneIsThorough
    BY DEF StoreInv, StoreIsFaithful
  <2>2. CopiedSectionsAreStored
    BY <2>1 DEF StoreInv, CommandFits, Stored, CopiedSectionsAreStored
  <2>3. PruneIsThorough
    <3>1. SUFFICES ASSUME NEW u \in Learners, learner[u].pc = "done",
                          NEW f \in knowledge
                   PROVE  f.date >= learner[u].cutoff
      BY DEF PruneIsThorough
    <3>2. CommandFits(learner[u]) /\ FileFits(f) /\ today \in Nat
      BY <2>1 DEF StoreInv
    <3>3. ~(f.date < learner[u].cutoff) /\ learner[u].cutoff \in Int
      BY <3>1, <3>2 DEF CommandFits, OldAreAhead
    <3>4. f.date \in Int
      BY <3>2 DEF FileFits
    <3>5. QED
      BY <3>3, <3>4
  <2>4. QED
    BY <2>2, <2>3
<1>2. QED
  BY <1>1, StoreInitInv, StoreNextInv, PTL DEF LearningsSpec

-----------------------------------------------------------------------------
(***************************************************************************)
(* REQUIREMENTS.md and the todos under any number of processes and         *)
(* commands, any requirements of the phases and any todos: what the        *)
(* commands mark agrees, and no todo is lost.                              *)
(***************************************************************************)

MarkEntry == [box : Boxes, row : Rows]
Labels == {"idle", "lock", "read", "write", "copy", "unlink", "done", "failed"}
Kinds == {"none", "mark", "phase", "todo"}

Agrees(e) == /\ e.row = "Complete" => e.box # "open"
             /\ e.box = "ticked" => e.row # "Pending"

(* A text of REQUIREMENTS.md that any of the commands may have written.    *)
IsText(doc, names) ==
    doc \in [names -> MarkEntry] /\ \A r \in names : Agrees(doc[r])

(* A command's record has its fields, whatever the requirements in it.     *)
IsCommand(c) ==
    /\ c = [pc |-> c.pc, kind |-> c.kind, ids |-> c.ids, copy |-> c.copy,
            under |-> c.under]
    /\ c.pc \in Labels /\ c.kind \in Kinds

(* What each label says of the command at it.                              *)
LabelsFit(u) ==
    LET c == clerk[u] IN
    /\ c.pc \in {"lock", "read"} => c.kind = "phase"
    /\ c.pc = "write" => c.kind \in {"mark", "phase"}
    /\ c.pc = "write" => IsText(c.copy, DOMAIN document)
    /\ c.pc \in {"copy", "unlink"} => c.kind = "todo" /\ c.ids \subseteq Todos
    /\ c.pc = "unlink" => c.ids \subseteq finished
    /\ c.pc \in {"read", "write"} /\ c.kind = "phase" => planningLock = u

(* What phase complete has read still has every mark, unless a command     *)
(* without the lock wrote since.                                           *)
CopyHasMarks(u) ==
    LET c == clerk[u] IN
    c.pc = "write" /\ c.kind = "phase" /\ "mark" \notin c.under =>
      \A r \in DOMAIN document : Marked(document[r]) => Marked(c.copy[r])

TrackingInv ==
    /\ IsText(document, DOMAIN document)
    /\ DOMAIN clerk = Clerks /\ clerk = [u \in Clerks |-> clerk[u]]
    /\ \A u \in Clerks : IsCommand(clerk[u]) /\ LabelsFit(u) /\ CopyHasMarks(u)
    /\ PhaseSettlesRequirements /\ TodosAreKept

(* ------------------------------ the entries ----------------------------- *)

(* Ticking settles an entry, keeps its marks and the agreement of both.    *)
LEMMA TickFacts ==
  ASSUME NEW e \in MarkEntry, Agrees(e), NEW rows, rows \in {{"Pending"}, {"Pending", "InProgress"}}
  PROVE  /\ Tick(e, rows) \in MarkEntry /\ Agrees(Tick(e, rows))
         /\ Marked(e) => Marked(Tick(e, rows))
         /\ Tick(e, rows).box # "open" /\ Tick(e, rows).row \notin rows
BY DEF MarkEntry, Boxes, Rows, Agrees, Tick, Marked

(* The text that either command writes.                                    *)
LEMMA Completed ==
  ASSUME NEW names, NEW doc, IsText(doc, names), NEW ids
  PROVE  /\ IsText(MarkedComplete(doc, ids), names)
         /\ IsText(PhaseCompleted(doc, ids), names)
         /\ \A r \in names : Marked(doc[r]) => Marked(PhaseCompleted(doc, ids)[r])
         /\ \A r \in ids \cap names :
              /\ PhaseCompleted(doc, ids)[r].box # "open"
              /\ PhaseCompleted(doc, ids)[r].row \notin {"Pending", "InProgress"}
<1>1. DOMAIN doc = names /\ \A r \in names : doc[r] \in MarkEntry /\ Agrees(doc[r])
  BY DEF IsText
<1>2. ASSUME NEW r \in names
      PROVE  /\ MarkedComplete(doc, ids)[r] \in MarkEntry
             /\ Agrees(MarkedComplete(doc, ids)[r])
  BY <1>1, TickFacts DEF MarkedComplete
<1>3. ASSUME NEW r \in names
      PROVE  /\ PhaseCompleted(doc, ids)[r] \in MarkEntry
             /\ Agrees(PhaseCompleted(doc, ids)[r])
             /\ Marked(doc[r]) => Marked(PhaseCompleted(doc, ids)[r])
             /\ r \in ids => /\ PhaseCompleted(doc, ids)[r].box # "open"
                             /\ PhaseCompleted(doc, ids)[r].row \notin {"Pending", "InProgress"}
  BY <1>1, TickFacts DEF PhaseCompleted
<1>4. IsText(MarkedComplete(doc, ids), names)
  BY <1>1, <1>2 DEF IsText, MarkedComplete
<1>5. IsText(PhaseCompleted(doc, ids), names)
  BY <1>1, <1>3 DEF IsText, PhaseCompleted
<1>6. QED
  BY <1>3, <1>4, <1>5

LEMMA TrackingInitInv == TrackingInit => TrackingInv
<1> SUFFICES ASSUME TrackingInit PROVE TrackingInv
  OBVIOUS
<1>1. IsText(document, DOMAIN document)
  BY TrackingAssumption DEF TrackingInit, IsText, MarkEntry, Agrees
<1>2. clerk = [u \in Clerks |-> NoTracking("idle")]
  BY DEF TrackingInit
<1>3. \A u \in Clerks : IsCommand(clerk[u]) /\ LabelsFit(u) /\ CopyHasMarks(u)
  BY <1>2 DEF NoTracking, CommandAt, IsCommand, Labels, Kinds, LabelsFit, CopyHasMarks
<1>4. PhaseSettlesRequirements /\ TodosAreKept
  BY <1>2 DEF TrackingInit, NoTracking, CommandAt, PhaseSettlesRequirements, TodosAreKept
<1>5. QED
  BY <1>1, <1>2, <1>3, <1>4 DEF TrackingInv

(* ------------------------------- the steps ------------------------------ *)

(* A step of one command that leaves REQUIREMENTS.md alone: only what it   *)
(* makes of itself is left to check.                                       *)
LEMMA ClerkStep ==
  ASSUME TrackingInv, NEW u \in Clerks, NEW c,
         clerk' = [clerk EXCEPT ![u] = c], UNCHANGED document,
         IsCommand(c), LabelsFit(u)', CopyHasMarks(u)', TodosAreKept',
         finished \subseteq finished',
         \A v \in Clerks \ {u} : planningLock = v => planningLock' = v,
         c.kind = "phase" => c.pc # "done"
  PROVE  TrackingInv'
<1>1. DOMAIN clerk = Clerks /\ clerk'[u] = c
      /\ \A v \in Clerks \ {u} : clerk'[v] = clerk[v]
  BY DEF TrackingInv
<1>2. ASSUME NEW v \in Clerks \ {u}
      PROVE  IsCommand(clerk[v])' /\ LabelsFit(v)' /\ CopyHasMarks(v)'
  <2>1. clerk'[v] = clerk[v] /\ IsCommand(clerk[v]) /\ LabelsFit(v) /\ CopyHasMarks(v)
    BY <1>1 DEF TrackingInv
  <2>2. IsCommand(clerk[v])' /\ CopyHasMarks(v)'
    BY <2>1 DEF CopyHasMarks
  <2>3. LabelsFit(v)'
    BY <2>1 DEF LabelsFit
  <2>4. QED
    BY <2>2, <2>3
<1>3. IsCommand(clerk[u])'
  BY <1>1
<1>4. PhaseSettlesRequirements'
  BY <1>1 DEF TrackingInv, PhaseSettlesRequirements
<1>5. IsText(document, DOMAIN document)' /\ (clerk = [v \in Clerks |-> clerk[v]])'
  BY DEF TrackingInv
<1>6. QED
  BY <1>1, <1>2, <1>3, <1>4, <1>5 DEF TrackingInv

(* The same of a command that only moves on to another label.              *)
LEMMA MoveFacts ==
  ASSUME TrackingInv, NEW u \in Clerks, NEW from, NEW to \in Labels, Moves(u, from, to)
  PROVE  /\ clerk' = [clerk EXCEPT ![u] = [clerk[u] EXCEPT !.pc = to]]
         /\ IsCommand([clerk[u] EXCEPT !.pc = to])
         /\ clerk[u].pc = from /\ clerk'[u].pc = to
         /\ clerk'[u].kind = clerk[u].kind /\ clerk'[u].ids = clerk[u].ids
         /\ LabelsFit(u)
<1>1. IsCommand(clerk[u]) /\ LabelsFit(u) /\ DOMAIN clerk = Clerks
  BY DEF TrackingInv
<1>2. clerk' = [clerk EXCEPT ![u] = [clerk[u] EXCEPT !.pc = to]]
  BY DEF Moves
<1>3. IsCommand([clerk[u] EXCEPT !.pc = to])
  BY <1>1 DEF IsCommand
<1>4. QED
  BY <1>1, <1>2, <1>3 DEF Moves, IsCommand

LEMMA RequirementStarted ==
  ASSUME TrackingInv, StartRequirement PROVE TrackingInv'
<1>1. PICK r \in DOMAIN document :
        /\ document[r].row = "Pending"
        /\ document' = [document EXCEPT ![r].row = "InProgress"]
  BY DEF StartRequirement
<1>2. document \in [DOMAIN document -> MarkEntry] /\ \A s \in DOMAIN document : Agrees(document[s])
  BY DEF TrackingInv, IsText
<1>3. /\ DOMAIN document' = DOMAIN document
      /\ document'[r] = [box |-> document[r].box, row |-> "InProgress"]
      /\ \A s \in DOMAIN document \ {r} : document'[s] = document[s]
  BY <1>1, <1>2 DEF MarkEntry
<1>4. \A s \in DOMAIN document :
        /\ document'[s] \in MarkEntry /\ Agrees(document'[s])
        /\ Marked(document'[s]) = Marked(document[s])
  BY <1>1, <1>2, <1>3 DEF MarkEntry, Boxes, Rows, Agrees, Marked
<1>5. IsText(document, DOMAIN document)'
  BY <1>1, <1>3, <1>4 DEF IsText
<1>6. clerk' = clerk /\ UNCHANGED <<pending, finished, planningLock>>
  BY DEF StartRequirement
<1>7. ASSUME NEW u \in Clerks
      PROVE  IsCommand(clerk[u])' /\ LabelsFit(u)' /\ CopyHasMarks(u)'
  <2>1. IsCommand(clerk[u]) /\ LabelsFit(u) /\ CopyHasMarks(u)
    BY DEF TrackingInv
  <2>2. LabelsFit(u)'
    BY <1>3, <1>6, <2>1 DEF LabelsFit
  <2>3. CopyHasMarks(u)'
    BY <1>3, <1>4, <1>6, <2>1 DEF CopyHasMarks
  <2>4. QED
    BY <1>6, <2>1, <2>2, <2>3
<1>8. PhaseSettlesRequirements'
  <2>1. PhaseSettlesRequirements
    BY DEF TrackingInv
  <2>2. SUFFICES ASSUME NEW u \in Clerks, clerk[u].kind = "phase", clerk[u].pc = "done",
                        clerk[u].under = {}, NEW s \in clerk[u].ids \cap DOMAIN document
                 PROVE  document'[s].box # "open"
                        /\ document'[s].row \notin {"Pending", "InProgress"}
    BY <1>3, <1>6 DEF PhaseSettlesRequirements
  <2>3. document[s].box # "open" /\ document[s].row \notin {"Pending", "InProgress"}
    BY <2>1, <2>2 DEF PhaseSettlesRequirements
  <2>4. QED
    BY <1>1, <1>3, <2>3
<1>9. TodosAreKept' /\ DOMAIN clerk' = Clerks /\ (clerk = [v \in Clerks |-> clerk[v]])'
  BY <1>6 DEF TrackingInv, TodosAreKept
<1>10. QED
  BY <1>5, <1>7, <1>8, <1>9 DEF TrackingInv

LEMMA MarkStarted ==
  ASSUME TrackingInv, NEW u \in Clerks, RequirementsMarkComplete(u) PROVE TrackingInv'
<1>1. PICK ids, c : /\ StartTracking(u, c)
                   /\ \/ c = CommandAt("done", "mark", ids, <<>>)
                      \/ c = CommandAt("write", "mark", ids, document)
  BY Zenon DEF RequirementsMarkComplete
<1>2. clerk' = [clerk EXCEPT ![u] = c] /\ clerk'[u] = c
      /\ IsText(document, DOMAIN document) /\ TodosAreKept
  BY <1>1 DEF StartTracking, TrackingInv
<1>3. UNCHANGED <<document, pending, finished, planningLock>>
  BY DEF RequirementsMarkComplete
<1>4. c.kind = "mark" /\ c.pc \in {"done", "write"} /\ IsCommand(c)
      /\ (c.pc = "write" => c.copy = document)
  BY <1>1 DEF CommandAt, IsCommand, Labels, Kinds
<1>5. LabelsFit(u)'
  BY <1>2, <1>3, <1>4 DEF LabelsFit
<1>6. CopyHasMarks(u)' /\ TodosAreKept'
  BY <1>2, <1>3, <1>4 DEF CopyHasMarks, TodosAreKept
<1>7. QED
  BY <1>2, <1>3, <1>4, <1>5, <1>6, ClerkStep

LEMMA PhaseStarted ==
  ASSUME TrackingInv, NEW u \in Clerks, PhaseComplete(u) PROVE TrackingInv'
<1>1. PICK c : /\ StartTracking(u, c)
              /\ \E ids : c = CommandAt("lock", "phase", ids, <<>>)
  BY Zenon DEF PhaseComplete
<1>2. clerk' = [clerk EXCEPT ![u] = c] /\ clerk'[u] = c /\ TodosAreKept
  BY <1>1 DEF StartTracking, TrackingInv
<1>3. UNCHANGED <<document, pending, finished, planningLock>>
  BY DEF PhaseComplete
<1>4. c.kind = "phase" /\ c.pc = "lock" /\ IsCommand(c)
  BY <1>1 DEF CommandAt, IsCommand, Labels, Kinds
<1>5. LabelsFit(u)' /\ CopyHasMarks(u)' /\ TodosAreKept'
  BY <1>2, <1>3, <1>4 DEF LabelsFit, CopyHasMarks, TodosAreKept
<1>6. QED
  BY <1>2, <1>3, <1>4, <1>5, ClerkStep

LEMMA LockTaken ==
  ASSUME TrackingInv, NEW u \in Clerks, TakePlanningLock(u) PROVE TrackingInv'
<1> DEFINE c == [clerk[u] EXCEPT !.pc = "read"]
<1>1. Moves(u, "lock", "read") /\ UNCHANGED <<document, pending, finished>>
      /\ planningLock = Nobody /\ planningLock' = u
  BY DEF TakePlanningLock
<1>2. /\ clerk' = [clerk EXCEPT ![u] = c] /\ IsCommand(c)
      /\ clerk[u].pc = "lock" /\ clerk'[u].pc = "read"
      /\ clerk'[u].kind = clerk[u].kind /\ LabelsFit(u) /\ TodosAreKept
      /\ clerk'[u] = c
  <2>1. "read" \in Labels
    BY DEF Labels
  <2>2. /\ clerk' = [clerk EXCEPT ![u] = c] /\ IsCommand(c)
        /\ clerk[u].pc = "lock" /\ clerk'[u].pc = "read"
        /\ clerk'[u].kind = clerk[u].kind /\ LabelsFit(u)
    BY <1>1, <2>1, MoveFacts, Zenon
  <2>3. DOMAIN clerk = Clerks /\ TodosAreKept
    BY DEF TrackingInv
  <2>4. clerk'[u] = c
    BY <2>2, <2>3
  <2>5. QED
    BY <2>2, <2>3, <2>4
<1>3. LabelsFit(u)' /\ CopyHasMarks(u)' /\ TodosAreKept' /\ c.pc = "read"
  BY <1>1, <1>2 DEF LabelsFit, CopyHasMarks, TodosAreKept
<1>4. \A v \in Clerks : planningLock # v
  BY <1>1, TrackingAssumption
<1> HIDE DEF c
<1>5. QED
  BY <1>1, <1>2, <1>3, <1>4, ClerkStep

LEMMA DocumentRead ==
  ASSUME TrackingInv, NEW u \in Clerks, ReadRequirements(u) PROVE TrackingInv'
<1> DEFINE c == CommandAt("write", "phase", clerk[u].ids, document)
<1>1. clerk[u].pc = "read" /\ UNCHANGED <<document, pending, finished, planningLock>>
      /\ clerk' = [clerk EXCEPT ![u] = c]
  BY DEF ReadRequirements
<1>2. LabelsFit(u) /\ clerk'[u] = c /\ TodosAreKept /\ IsText(document, DOMAIN document)
  BY <1>1 DEF TrackingInv
<1>3. c.pc = "write" /\ c.copy = document /\ c.kind = "phase" /\ IsCommand(c)
  BY DEF CommandAt, IsCommand, Labels, Kinds
<1> HIDE DEF c
<1>4. LabelsFit(u)'
  BY <1>1, <1>2, <1>3 DEF LabelsFit
<1>5. CopyHasMarks(u)' /\ TodosAreKept'
  BY <1>1, <1>2, <1>3 DEF CopyHasMarks, TodosAreKept
<1>6. QED
  BY <1>1, <1>3, <1>4, <1>5, ClerkStep

(* What a write leaves in the document, and of every command.              *)
LEMMA WriteFacts ==
  ASSUME TrackingInv, NEW u \in Clerks, WriteRequirements(u)
  PROVE  /\ IsText(document', DOMAIN document)
         /\ clerk[u].kind = "phase" =>
              /\ "mark" \notin clerk[u].under =>
                   \A r \in DOMAIN document : Marked(document[r]) => Marked(document'[r])
              /\ \A r \in clerk[u].ids \cap DOMAIN document :
                   document'[r].box # "open" /\ document'[r].row \notin {"Pending", "InProgress"}
<1>1. clerk[u].pc = "write" /\ LabelsFit(u) /\ CopyHasMarks(u)
  BY DEF WriteRequirements, TrackingInv
<1>2. IsText(clerk[u].copy, DOMAIN document) /\ clerk[u].kind \in {"mark", "phase"}
  BY <1>1 DEF LabelsFit
<1>3. document' = IF clerk[u].kind = "mark" THEN MarkedComplete(clerk[u].copy, clerk[u].ids)
                  ELSE PhaseCompleted(clerk[u].copy, clerk[u].ids)
  BY DEF WriteRequirements
<1>4. CASE clerk[u].kind = "mark"
  BY <1>2, <1>3, <1>4, Completed
<1>5. CASE clerk[u].kind = "phase"
  <2>1. document' = PhaseCompleted(clerk[u].copy, clerk[u].ids)
    BY <1>3, <1>5
  <2>2. /\ IsText(document', DOMAIN document)
        /\ \A r \in DOMAIN document : Marked(clerk[u].copy[r]) => Marked(document'[r])
        /\ \A r \in clerk[u].ids \cap DOMAIN document :
             document'[r].box # "open" /\ document'[r].row \notin {"Pending", "InProgress"}
    BY <1>2, <2>1, Completed
  <2>3. "mark" \notin clerk[u].under =>
          \A r \in DOMAIN document : Marked(document[r]) => Marked(clerk[u].copy[r])
    BY <1>1, <1>5 DEF CopyHasMarks
  <2>4. QED
    BY <2>2, <2>3
<1>6. QED
  BY <1>2, <1>4, <1>5

LEMMA DocumentWritten ==
  ASSUME TrackingInv, NEW u \in Clerks, WriteRequirements(u) PROVE TrackingInv'
<1>1. /\ IsText(document', DOMAIN document)
      /\ clerk[u].kind = "phase" =>
           \A r \in clerk[u].ids \cap DOMAIN document :
             document'[r].box # "open" /\ document'[r].row \notin {"Pending", "InProgress"}
  BY WriteFacts
<1>2. DOMAIN document' = DOMAIN document
  BY <1>1 DEF IsText
<1>3. clerk[u].pc = "write" /\ LabelsFit(u) /\ UNCHANGED <<pending, finished>>
      /\ clerk[u].kind \in {"mark", "phase"} /\ IsCommand(clerk[u])
  BY DEF WriteRequirements, TrackingInv, LabelsFit
<1>4. /\ clerk' = [v \in Clerks |-> clerk'[v]] /\ DOMAIN clerk' = Clerks
      /\ clerk'[u] = [clerk[u] EXCEPT !.pc = "done", !.copy = <<>>]
      /\ \A v \in Clerks \ {u} :
           clerk'[v] = [clerk[v] EXCEPT !.under = clerk[v].under \cup {clerk[u].kind}]
  BY DEF WriteRequirements
<1>5. /\ clerk'[u].pc = "done" /\ clerk'[u].kind = clerk[u].kind
      /\ clerk'[u].ids = clerk[u].ids /\ IsCommand(clerk[u])'
  BY <1>3, <1>4 DEF IsCommand, Labels
<1>6. LabelsFit(u)' /\ CopyHasMarks(u)'
  BY <1>5 DEF LabelsFit, CopyHasMarks
<1>7. ASSUME NEW v \in Clerks \ {u}
      PROVE  /\ IsCommand(clerk[v])' /\ LabelsFit(v)' /\ CopyHasMarks(v)'
             /\ clerk'[v].under # {}
  <2>1. IsCommand(clerk[v]) /\ LabelsFit(v) /\ CopyHasMarks(v)
    BY DEF TrackingInv
  <2>2. /\ clerk'[v].pc = clerk[v].pc /\ clerk'[v].kind = clerk[v].kind
        /\ clerk'[v].ids = clerk[v].ids /\ clerk'[v].copy = clerk[v].copy
        /\ clerk'[v].under = clerk[v].under \cup {clerk[u].kind} /\ IsCommand(clerk[v])'
    BY <1>4, <2>1 DEF IsCommand
  <2>3. planningLock = v => planningLock' = v
    BY DEF WriteRequirements
  <2>4. LabelsFit(v)'
    BY <1>2, <1>3, <2>1, <2>2, <2>3 DEF LabelsFit
  <2>5. CopyHasMarks(v)'
    <3>1. CASE clerk[u].kind = "mark"
      BY <2>2, <3>1 DEF CopyHasMarks
    <3>2. CASE clerk[u].kind = "phase"
      <4>1. planningLock = u
        BY <1>3, <3>2 DEF LabelsFit
      <4>2. ~(clerk'[v].pc = "write" /\ clerk'[v].kind = "phase")
        BY <2>1, <2>2, <4>1 DEF LabelsFit
      <4>3. QED
        BY <4>2 DEF CopyHasMarks
    <3>3. QED
      BY <1>3, <3>1, <3>2
  <2>6. QED
    BY <2>2, <2>4, <2>5
<1>8. PhaseSettlesRequirements'
  BY <1>1, <1>2, <1>5, <1>7 DEF PhaseSettlesRequirements
<1>9. TodosAreKept'
  BY <1>3 DEF TrackingInv, TodosAreKept
<1>10. QED
  BY <1>1, <1>2, <1>4, <1>5, <1>6, <1>7, <1>8, <1>9 DEF TrackingInv

LEMMA TodoStarted ==
  ASSUME TrackingInv, NEW u \in Clerks, TodoComplete(u) PROVE TrackingInv'
<1>1. PICK c : /\ StartTracking(u, c)
              /\ \E t \in pending : c = CommandAt("copy", "todo", {t}, <<>>)
  BY Zenon DEF TodoComplete
<1>2. clerk' = [clerk EXCEPT ![u] = c] /\ clerk'[u] = c /\ TodosAreKept
  BY <1>1 DEF StartTracking, TrackingInv
<1>3. UNCHANGED <<document, pending, finished, planningLock>>
  BY DEF TodoComplete
<1>4. c.kind = "todo" /\ c.pc = "copy" /\ c.ids \subseteq Todos /\ IsCommand(c)
  BY <1>1, <1>2 DEF CommandAt, IsCommand, Labels, Kinds, TodosAreKept
<1>5. LabelsFit(u)' /\ CopyHasMarks(u)' /\ TodosAreKept'
  BY <1>2, <1>3, <1>4 DEF LabelsFit, CopyHasMarks, TodosAreKept
<1>6. QED
  BY <1>2, <1>3, <1>4, <1>5, ClerkStep

LEMMA TodoCopied ==
  ASSUME TrackingInv, NEW u \in Clerks, CopyTodo(u) PROVE TrackingInv'
<1> DEFINE gone == clerk[u].ids \cap pending = {}
           to == IF gone THEN "failed" ELSE "unlink"
           c == [clerk[u] EXCEPT !.pc = to]
<1>1. /\ Moves(u, "copy", to) /\ to \in Labels
      /\ UNCHANGED <<document, pending, planningLock>>
      /\ finished' = IF gone THEN finished ELSE finished \cup clerk[u].ids
  BY DEF CopyTodo, Labels
<1>2. to = "unlink" => clerk[u].ids \subseteq finished'
  BY <1>1
<1>3. to \in {"failed", "unlink"}
  OBVIOUS
<1>4. finished \subseteq finished' /\ finished' \subseteq finished \cup clerk[u].ids
  BY <1>1
<1> HIDE DEF to
<1>5. /\ clerk' = [clerk EXCEPT ![u] = c] /\ IsCommand(c)
      /\ clerk[u].pc = "copy" /\ clerk'[u].pc = to /\ clerk'[u] = c
      /\ clerk'[u].kind = clerk[u].kind /\ clerk'[u].ids = clerk[u].ids
      /\ LabelsFit(u) /\ TodosAreKept
  BY <1>1, MoveFacts DEF TrackingInv
<1>6. clerk[u].kind = "todo" /\ clerk[u].ids \subseteq Todos
  BY <1>5 DEF LabelsFit
<1>7. LabelsFit(u)' /\ CopyHasMarks(u)'
  BY <1>2, <1>3, <1>5, <1>6 DEF LabelsFit, CopyHasMarks
<1>8. TodosAreKept'
  BY <1>1, <1>4, <1>5, <1>6 DEF TodosAreKept
<1> HIDE DEF c
<1>9. QED
  BY <1>1, <1>4, <1>5, <1>6, <1>7, <1>8, ClerkStep

LEMMA TodoUnlinked ==
  ASSUME TrackingInv, NEW u \in Clerks, UnlinkTodo(u) PROVE TrackingInv'
<1> DEFINE to == IF clerk[u].ids \subseteq pending THEN "done" ELSE "failed"
           c == [clerk[u] EXCEPT !.pc = to]
<1>1. /\ Moves(u, "unlink", to) /\ to \in {"done", "failed"} /\ to \in Labels
      /\ UNCHANGED <<document, finished, planningLock>>
      /\ pending' = pending \ clerk[u].ids
  BY DEF UnlinkTodo, Labels
<1> HIDE DEF to
<1>2. /\ clerk' = [clerk EXCEPT ![u] = c] /\ IsCommand(c)
      /\ clerk[u].pc = "unlink" /\ clerk'[u].pc = to /\ clerk'[u] = c
      /\ clerk'[u].kind = clerk[u].kind /\ clerk'[u].ids = clerk[u].ids
      /\ LabelsFit(u) /\ TodosAreKept
  BY <1>1, MoveFacts DEF TrackingInv
<1>3. clerk[u].kind = "todo" /\ clerk[u].ids \subseteq finished
  BY <1>2 DEF LabelsFit
<1>4. LabelsFit(u)' /\ CopyHasMarks(u)' /\ TodosAreKept'
  BY <1>1, <1>2, <1>3 DEF LabelsFit, CopyHasMarks, TodosAreKept
<1> HIDE DEF c
<1>5. QED
  BY <1>1, <1>2, <1>3, <1>4, ClerkStep

LEMMA CommandEnded ==
  ASSUME TrackingInv, NEW u \in Clerks, EndTracking(u) PROVE TrackingInv'
<1> DEFINE c == NoTracking("failed")
<1>1. clerk' = [clerk EXCEPT ![u] = c] /\ UNCHANGED <<document, pending, finished>>
      /\ planningLock' = IF planningLock = u THEN Nobody ELSE planningLock
  BY Zenon DEF EndTracking
<1>2. clerk'[u] = c /\ TodosAreKept
  BY <1>1 DEF TrackingInv
<1>3. c.kind = "none" /\ c.pc = "failed" /\ IsCommand(c)
  BY DEF NoTracking, CommandAt, IsCommand, Labels, Kinds
<1> HIDE DEF c
<1>4. LabelsFit(u)' /\ CopyHasMarks(u)' /\ TodosAreKept'
  BY <1>1, <1>2, <1>3 DEF LabelsFit, CopyHasMarks, TodosAreKept
<1>5. QED
  BY <1>1, <1>3, <1>4, ClerkStep

(* ------------------------------ the theorems ---------------------------- *)

LEMMA TrackingNextInv == TrackingInv /\ [TrackingNext]_trackingVars => TrackingInv'
<1> SUFFICES ASSUME TrackingInv, [TrackingNext]_trackingVars PROVE TrackingInv'
  OBVIOUS
<1>1. CASE UNCHANGED trackingVars
  BY <1>1 DEF trackingVars, TrackingInv, IsText, LabelsFit, CopyHasMarks,
              PhaseSettlesRequirements, TodosAreKept
<1>2. CASE StartRequirement
  BY <1>2, RequirementStarted
<1>3. ASSUME NEW u \in Clerks,
             \/ RequirementsMarkComplete(u) \/ PhaseComplete(u) \/ TakePlanningLock(u)
             \/ ReadRequirements(u) \/ WriteRequirements(u)
             \/ TodoComplete(u) \/ CopyTodo(u) \/ UnlinkTodo(u) \/ EndTracking(u)
      PROVE  TrackingInv'
  BY <1>3, MarkStarted, PhaseStarted, LockTaken, DocumentRead, DocumentWritten,
     TodoStarted, TodoCopied, TodoUnlinked, CommandEnded
<1>4. QED
  BY <1>1, <1>2, <1>3 DEF TrackingNext

(* The inductive invariant of the commands on requirements and todos.      *)
THEOREM TrackingInvariant == TrackingSpec => []TrackingInv
<1>1. QED
  BY TrackingInitInv, TrackingNextInv, PTL DEF TrackingSpec

(* A step at which a command finishes writing is that command's write, and *)
(* only such a step writes the whole document.                             *)
LEMMA OneUnmarks ==
  TrackingInv /\ [TrackingNext]_trackingVars => OnlyUnlockedCommandsUnmark
<1> SUFFICES ASSUME TrackingInv, [TrackingNext]_trackingVars, NEW u \in Clerks,
                    clerk[u].pc = "write", clerk'[u].pc = "done",
                    NEW r \in DOMAIN document, Marked(document[r]), ~Marked(document'[r])
             PROVE  "mark" \in clerk[u].under \cup {clerk[u].kind}
  BY DEF OnlyUnlockedCommandsUnmark
<1>1. document' # document /\ clerk' # clerk
  BY ZenonT(20)
<1>2. PICK v \in Clerks : WriteRequirements(v)
  BY <1>1 DEF TrackingNext, trackingVars, StartRequirement, RequirementsMarkComplete,
              PhaseComplete, TakePlanningLock, ReadRequirements, TodoComplete, CopyTodo,
              UnlinkTodo, EndTracking
<1>3. v = u
  <2>1. SUFFICES ASSUME v # u PROVE FALSE
    OBVIOUS
  <2>2. clerk'[u] = [clerk[u] EXCEPT !.under = clerk[u].under \cup {clerk[v].kind}]
    BY <1>2, <2>1 DEF WriteRequirements
  <2>3. clerk'[u].pc = clerk[u].pc
    BY <2>2 DEF TrackingInv, IsCommand
  <2>4. QED
    BY <2>3
<1>4. clerk[u].kind \in {"mark", "phase"}
  BY DEF TrackingInv, LabelsFit
<1>5. QED
  BY <1>2, <1>3, <1>4, WriteFacts

(* For any processes, requirements and todos: the lock of phase complete   *)
(* keeps other phases' marks, box and row never contradict each other, a   *)
(* completed phase has settled its requirements, and every todo is in one  *)
(* of the two directories.                                                 *)
THEOREM MarksAndTodosHold == TrackingSpec => TrackingAgrees
<1>1. TrackingInv => MarksAgree /\ PhaseSettlesRequirements /\ TodosAreKept
  BY DEF TrackingInv, IsText, Agrees, MarksAgree
<1>2. TrackingInv /\ TrackingInv' /\ [TrackingNext]_trackingVars =>
        [/\ OnlyUnlockedCommandsUnmark
         /\ MarksAgree' /\ PhaseSettlesRequirements' /\ TodosAreKept']_trackingVars
  BY <1>1, OneUnmarks, PTL
<1>3. QED
  BY <1>2, TrackingInvariant, PTL DEF TrackingSpec, TrackingAgrees

-----------------------------------------------------------------------------
(***************************************************************************)
(* The configuration for any processes, values and first files: what       *)
(* config-set wrote stays but for writes without the lock, one load brings *)
(* a file up to date, and the spelling that is set is used.                *)
(***************************************************************************)

(* The files are there, and what a process is about to write is a file.    *)
FilesFit ==
    /\ present \subseteq Scopes
    /\ contents \in [Scopes -> Files]
    /\ repositories \in Values \cup {Unset}

IsTask(t) ==
    /\ t \in [step : {"rest", "rewrite", "create", "set", "setting"}, scope : Scopes,
              copy : Files, key : Keys, value : Values \cup {"rest", "set"}]
    /\ t.step \in {"set", "setting"} => t.value \in Values

TasksFit ==
    /\ setter \in [Scopes -> Processes \cup {"nobody"}]
    /\ lastSet \in [Scopes -> Files]
    /\ DOMAIN task = Processes
    /\ \A p \in Processes : IsTask(task[p])

(* Between the read and the write of config-set its process has the lock,  *)
(* and the copy has every value that no write without the lock took back.  *)
CopiesAreCurrent ==
    \A p \in Processes : task[p].step = "setting" =>
      LET s == task[p].scope IN
        /\ setter[s] = p
        /\ \A k \in Keys : lastSet[s][k] # Unset /\ <<s, k>> \notin clobbered
                             => task[p].copy[k] = lastSet[s][k]

ConfigInv == FilesFit /\ TasksFit /\ CopiesAreCurrent /\ SettingsStay

(* What a load makes of a file, setting by setting.                        *)
LEMMA KeysAreKeys ==
  ASSUME NEW setting \in Settings
  PROVE  /\ Flat(setting) \in Keys /\ Nested(setting) \in Keys
         /\ Canonical(setting) \in Keys /\ Flat(setting) # Nested(setting)
BY DEF Flat, Nested, Canonical, Keys, Spellings

LEMMA MovedFacts ==
  ASSUME NEW f \in Files, NEW setting \in Settings
  PROVE  /\ Moved(f, setting) \in Files
         /\ Moved(f, setting)[Flat(setting)] = Unset
         /\ Moved(f, setting)[Nested(setting)] =
              IF f[Nested(setting)] = Unset THEN f[Flat(setting)] ELSE f[Nested(setting)]
         /\ \A k \in Keys \ {Flat(setting), Nested(setting)} :
              Moved(f, setting)[k] = f[k]
<1>1. /\ Flat(setting) \in Keys /\ Nested(setting) \in Keys
      /\ Flat(setting) # Nested(setting)
  BY KeysAreKeys
<1>2. Moved(f, setting) =
        [k \in Keys |-> IF k = Flat(setting) THEN Unset
                        ELSE IF k = Nested(setting)
                        THEN (IF f[k] = Unset THEN f[Flat(setting)] ELSE f[k])
                        ELSE f[k]]
  BY <1>1 DEF Moved, Files
<1>3. QED
  BY <1>1, <1>2 DEF Files

LEMMA UpToDateFacts ==
  ASSUME NEW f \in Files, repositories \in Values \cup {Unset}
  PROVE  /\ UpToDate(f) \in Files
         /\ UpToDate(f)[Flat("branching")] = Unset
         /\ UpToDate(f)[Flat("sub_repos")] = Unset
         /\ UpToDate(f)[Nested("branching")] =
              IF f[Nested("branching")] = Unset THEN f[Flat("branching")]
              ELSE f[Nested("branching")]
         /\ UpToDate(f)[Nested("sub_repos")] =
              LET mine == IF f[Nested("sub_repos")] = Unset THEN f[Flat("sub_repos")]
                          ELSE f[Nested("sub_repos")]
              IN IF mine # Unset /\ repositories # Unset THEN repositories ELSE mine
         /\ \A setting \in {"research", "model_profile"} :
              /\ UpToDate(f)[Flat(setting)] = f[Flat(setting)]
              /\ UpToDate(f)[Nested(setting)] = f[Nested(setting)]
<1> DEFINE g == Moved(f, "sub_repos")
           h == Moved(g, "branching")
<1>1. \A s \in Settings : /\ Flat(s) \in Keys /\ Nested(s) \in Keys
  BY KeysAreKeys
<1>2. \A s, t \in Settings : /\ Flat(s) # Nested(t)
                             /\ s # t => Flat(s) # Flat(t) /\ Nested(s) # Nested(t)
  BY DEF Flat, Nested
<1>3. /\ "sub_repos" \in Settings /\ "branching" \in Settings
      /\ "research" \in Settings /\ "model_profile" \in Settings
  BY DEF Settings
<1>4. /\ g \in Files /\ g[Flat("sub_repos")] = Unset
      /\ g[Nested("sub_repos")] =
           IF f[Nested("sub_repos")] = Unset THEN f[Flat("sub_repos")]
           ELSE f[Nested("sub_repos")]
      /\ \A k \in Keys \ {Flat("sub_repos"), Nested("sub_repos")} : g[k] = f[k]
  BY <1>3, MovedFacts
<1>5. /\ h \in Files /\ h[Flat("branching")] = Unset
      /\ h[Nested("branching")] =
           IF g[Nested("branching")] = Unset THEN g[Flat("branching")]
           ELSE g[Nested("branching")]
      /\ \A k \in Keys \ {Flat("branching"), Nested("branching")} : h[k] = g[k]
  BY <1>3, <1>4, MovedFacts
<1>6. UpToDate(f) = [h EXCEPT ![Nested("sub_repos")] =
                       IF @ # Unset /\ repositories # Unset THEN repositories ELSE @]
  BY <1>1, <1>3, <1>5 DEF UpToDate, Synced, Files
<1> HIDE DEF g, h
<1>7. /\ UpToDate(f) \in Files
      /\ UpToDate(f)[Nested("sub_repos")] =
           IF h[Nested("sub_repos")] # Unset /\ repositories # Unset THEN repositories
           ELSE h[Nested("sub_repos")]
      /\ \A k \in Keys \ {Nested("sub_repos")} : UpToDate(f)[k] = h[k]
  BY <1>1, <1>3, <1>5, <1>6 DEF Files
<1>8. ASSUME NEW setting \in {"research", "model_profile"}
      PROVE  /\ UpToDate(f)[Flat(setting)] = f[Flat(setting)]
             /\ UpToDate(f)[Nested(setting)] = f[Nested(setting)]
  BY <1>1, <1>2, <1>3, <1>4, <1>5, <1>7
<1>9. QED
  BY <1>1, <1>2, <1>3, <1>4, <1>5, <1>7, <1>8

-----------------------------------------------------------------------------
(* The second load of a file finds nothing to write.                       *)
LEMMA LoadedOnce == FilesFit => OneLoadIsEnough
<1> SUFFICES ASSUME FilesFit, NEW s \in present
             PROVE  UpToDate(UpToDate(contents[s])) = UpToDate(contents[s])
  BY DEF OneLoadIsEnough
<1> DEFINE f == contents[s]
           g == UpToDate(f)
           h == UpToDate(g)
<1>1. f \in Files /\ repositories \in Values \cup {Unset}
  BY DEF FilesFit
<1>2. g \in Files /\ h \in Files
  BY <1>1, UpToDateFacts
<1>3. ASSUME NEW setting \in Settings
      PROVE  h[Flat(setting)] = g[Flat(setting)] /\ h[Nested(setting)] = g[Nested(setting)]
  <2>1. CASE setting = "branching"
    BY <1>1, <1>2, <2>1, UpToDateFacts
  <2>2. CASE setting = "sub_repos"
    BY <1>1, <1>2, <2>2, UpToDateFacts
  <2>3. CASE setting \in {"research", "model_profile"}
    BY <1>1, <1>2, <2>3, UpToDateFacts
  <2>4. QED
    BY <2>1, <2>2, <2>3 DEF Settings
<1>4. \A k \in Keys : h[k] = g[k]
  <2>1. \A k \in Keys : \E setting \in Settings : k = Flat(setting) \/ k = Nested(setting)
    BY DEF Keys, Spellings, Flat, Nested
  <2>2. QED
    BY <1>3, <2>1
<1>5. QED
  BY <1>2, <1>4 DEF Files

(* What config-set's spelling says is what the commands get.               *)
LEMMA SetIsUsed == FilesFit => WhatIsSetIsUsed
<1> SUFFICES ASSUME FilesFit, NEW s \in present, NEW setting \in Settings \ {"sub_repos"},
                    contents[s][Canonical(setting)] # Unset,
                    setting = "research" =>
                      \A other \in present : contents[other][Flat(setting)] = Unset
             PROVE  Effective(s, setting) = contents[s][Canonical(setting)]
  BY DEF WhatIsSetIsUsed
<1> DEFINE f == contents[s]
           g == UpToDate(f)
           r == RootUpToDate(contents["root"])
<1>1. /\ repositories \in Values \cup {Unset} /\ s \in Scopes /\ f \in Files
      /\ contents["root"] \in Files
  BY DEF FilesFit, Scopes
<1>2. g \in Files /\ r \in Files
  BY <1>1, UpToDateFacts, MovedFacts DEF RootUpToDate, Settings
<1>3. Flat(setting) \in Keys /\ Nested(setting) \in Keys /\ Canonical(setting) \in Keys
  BY KeysAreKeys
<1>4. Canonical(setting) = IF setting = "model_profile" THEN Flat(setting) ELSE Nested(setting)
  BY DEF Canonical, Flat, Nested
<1>5. g[Canonical(setting)] = f[Canonical(setting)]
  BY <1>1, <1>4, UpToDateFacts DEF Settings
<1>6. setting # "model_profile" => g[Flat(setting)] = Unset
  BY <1>1, UpToDateFacts DEF Settings
<1>7. ASSUME setting # "model_profile", "root" \in present PROVE r[Flat(setting)] = Unset
  <2>1. CASE setting = "branching"
    BY <1>1, <2>1, MovedFacts DEF RootUpToDate, Settings
  <2>2. CASE setting = "research"
    <3>1. Flat("research") \in Keys \ {Flat("branching"), Nested("branching")}
      BY DEF Flat, Nested, Keys, Settings, Spellings
    <3>2. r[Flat("research")] = contents["root"][Flat("research")]
      BY <1>1, <3>1, MovedFacts DEF RootUpToDate, Settings
    <3>3. QED
      BY <1>7, <2>2, <3>2
  <2>3. QED
    BY <1>7, <2>1, <2>2 DEF Settings
<1>8. Got(g, setting) = f[Canonical(setting)]
  BY <1>4, <1>5, <1>6 DEF Got
<1>9. ASSUME "root" \in present PROVE Got(Merged(r, g), setting) = f[Canonical(setting)]
  <2>1. Merged(r, g)[Canonical(setting)] = f[Canonical(setting)]
    BY <1>3, <1>5 DEF Merged
  <2>2. setting # "model_profile" => Merged(r, g)[Flat(setting)] = Unset
    BY <1>3, <1>6, <1>7, <1>9 DEF Merged
  <2>3. QED
    BY <1>4, <2>1, <2>2 DEF Got
<1>10. QED
  BY <1>8, <1>9 DEF Effective

-----------------------------------------------------------------------------
LEMMA NoSettingsFit == NoSettings \in Files
BY DEF NoSettings, Files

LEMMA RestingFits == IsTask(Resting)
<1>1. Canonical("research") \in Keys
  BY KeysAreKeys DEF Settings
<1>2. QED
  BY <1>1, NoSettingsFit, ConfigAssumption DEF IsTask, Resting, Scopes

LEMMA ConfigInitInv == ConfigInit => ConfigInv
<1> SUFFICES ASSUME ConfigInit PROVE ConfigInv
  OBVIOUS
<1>1. PICK l \in Layouts :
        /\ present = {s \in Scopes : l[s] # {}}
        /\ contents = [s \in Scopes |-> IF l[s] = {} THEN NoSettings
                                        ELSE CHOOSE f \in l[s] : TRUE]
  BY DEF ConfigInit
<1>2. ASSUME NEW s \in Scopes PROVE contents[s] \in Files
  <2>1. CASE l[s] = {}
    BY <1>1, <2>1, NoSettingsFit
  <2>2. CASE l[s] # {}
    <3>1. PICK f \in Files : l[s] = {f}
      BY <2>2, LayoutsAssumption
    <3>2. (CHOOSE g \in l[s] : TRUE) \in l[s]
      BY <3>1
    <3>3. QED
      BY <1>1, <2>2, <3>1, <3>2
  <2>3. QED
    BY <2>1, <2>2
<1>3. FilesFit
  BY <1>1, <1>2 DEF FilesFit, ConfigInit
<1>4. TasksFit
  BY RestingFits, NoSettingsFit DEF TasksFit, ConfigInit
<1>5. CopiesAreCurrent
  BY DEF CopiesAreCurrent, ConfigInit, Resting
<1>6. SettingsStay
  BY DEF SettingsStay, ConfigInit, NoSettings
<1>7. QED
  BY <1>3, <1>4, <1>5, <1>6 DEF ConfigInv

(* A process that is not between the read and the write of config-set goes *)
(* on, and the files and the locks stay.                                   *)
LEMMA ProcessGoesOn ==
  ASSUME ConfigInv, NEW p \in Processes, NEW t, IsTask(t), t.step # "setting",
         task' = [task EXCEPT ![p] = t],
         UNCHANGED <<present, contents, repositories, setter, lastSet, clobbered>>
  PROVE  ConfigInv'
<1>1. task' = [q \in Processes |-> IF q = p THEN t ELSE task[q]]
  BY DEF ConfigInv, TasksFit
<1>2. TasksFit'
  BY <1>1 DEF ConfigInv, TasksFit
<1>3. CopiesAreCurrent'
  BY <1>1 DEF ConfigInv, CopiesAreCurrent
<1>4. QED
  BY <1>2, <1>3 DEF ConfigInv, FilesFit, SettingsStay

LEMMA LoadInv ==
  ASSUME ConfigInv, NEW p \in Processes, NEW scope \in Scopes, Load(p, scope)
  PROVE  ConfigInv'
<1>1. PICK s \in (IF scope = "stream" THEN Scopes ELSE {"root"}) \cap present :
        LET new == IF s = scope THEN UpToDate(contents[s]) ELSE RootUpToDate(contents[s])
        IN Do(p, [Resting EXCEPT !.step = "rewrite", !.scope = s, !.copy = new])
  BY DEF Load
<1> DEFINE new == IF s = scope THEN UpToDate(contents[s]) ELSE RootUpToDate(contents[s])
           t == [Resting EXCEPT !.step = "rewrite", !.scope = s, !.copy = new]
<1>2. s \in Scopes /\ contents[s] \in Files /\ repositories \in Values \cup {Unset}
  BY DEF ConfigInv, FilesFit
<1>3. new \in Files
  BY <1>2, UpToDateFacts, MovedFacts DEF RootUpToDate, Settings
<1> HIDE DEF new
<1>4. IsTask(t) /\ t.step # "setting"
  BY <1>2, <1>3, RestingFits DEF IsTask, Resting
<1>5. task' = [task EXCEPT ![p] = t]
  BY <1>1 DEF Do, new
<1> HIDE DEF t
<1>6. QED
  BY <1>4, <1>5, ProcessGoesOn DEF Load

LEMMA MaterializedFits ==
  ASSUME NEW u \in UserDefaults PROVE Materialized(u) \in Files
<1>1. u \in Files
  BY NoSettingsFit DEF UserDefaults, Files
<1>2. QED
  BY <1>1, ConfigAssumption DEF Materialized, Files

LEMMA EnsureInv ==
  ASSUME ConfigInv, NEW p \in Processes, NEW scope \in Scopes, NEW next \in {"rest", "set"},
         EnsureConfig(p, scope, next)
  PROVE  ConfigInv'
<1>1. Canonical("model_profile") \in Keys
  BY KeysAreKeys DEF Settings
<1>2. PICK t : IsTask(t) /\ t.step # "setting" /\ task' = [task EXCEPT ![p] = t]
  <2>1. CASE scope \in present
    <3> DEFINE t == [Resting EXCEPT !.step = next, !.scope = scope,
                                    !.key = Canonical("model_profile")]
    <3>1. IsTask(t) /\ t.step # "setting"
      BY <1>1, RestingFits, ConfigAssumption DEF IsTask, Resting
    <3>2. QED
      BY <2>1, <3>1 DEF EnsureConfig, Do
  <2>2. CASE scope \notin present
    <3>1. PICK u \in UserDefaults :
            Do(p, [Resting EXCEPT !.step = "create", !.scope = scope,
                                  !.copy = Materialized(u),
                                  !.key = Canonical("model_profile"),
                                  !.value = IF next = "set" THEN "set" ELSE "rest"])
      BY <2>2 DEF EnsureConfig
    <3> DEFINE t == [Resting EXCEPT !.step = "create", !.scope = scope,
                                    !.copy = Materialized(u),
                                    !.key = Canonical("model_profile"),
                                    !.value = IF next = "set" THEN "set" ELSE "rest"]
    <3>2. Materialized(u) \in Files
      BY MaterializedFits
    <3>3. IsTask(t) /\ t.step # "setting"
      BY <1>1, <3>2, RestingFits DEF IsTask, Resting
    <3>4. QED
      BY <3>1, <3>3 DEF Do
  <2>3. QED
    BY <2>1, <2>2
<1>3. QED
  BY <1>2, ProcessGoesOn DEF EnsureConfig

LEMMA AskInv ==
  ASSUME ConfigInv, NEW p \in Processes, NEW scope \in Scopes,
         NEW setting \in Settings \ {"sub_repos"}, NEW v \in Values,
         AskToSet(p, scope, setting, v)
  PROVE  ConfigInv'
<1> DEFINE t == [Resting EXCEPT !.step = "set", !.scope = scope,
                                !.key = Canonical(setting), !.value = v]
<1>1. Canonical(setting) \in Keys
  BY KeysAreKeys
<1>2. IsTask(t) /\ t.step # "setting"
  BY <1>1, RestingFits DEF IsTask, Resting
<1>3. task' = [task EXCEPT ![p] = t]
  BY DEF AskToSet, Do
<1> HIDE DEF t
<1>4. QED
  BY <1>2, <1>3, ProcessGoesOn DEF AskToSet

(* A write without the lock: what it takes back is marked.                 *)
LEMMA UnlockedWriteInv ==
  ASSUME ConfigInv, NEW p \in Processes, NEW t, IsTask(t), t.step # "setting",
         task' = [task EXCEPT ![p] = t], present' \subseteq Scopes,
         NEW scope \in Scopes, NEW new \in Files,
         contents' = [contents EXCEPT ![scope] = new],
         clobbered' = clobbered \cup ({scope} \X TakenBack(scope, new)),
         UNCHANGED <<repositories, setter, lastSet>>
  PROVE  ConfigInv'
<1>1. task' = [q \in Processes |-> IF q = p THEN t ELSE task[q]]
  BY DEF ConfigInv, TasksFit
<1>2. contents' = [s \in Scopes |-> IF s = scope THEN new ELSE contents[s]]
  BY DEF ConfigInv, FilesFit
<1>3. FilesFit'
  BY <1>2 DEF ConfigInv, FilesFit
<1>4. TasksFit'
  BY <1>1 DEF ConfigInv, TasksFit
<1>5. CopiesAreCurrent'
  BY <1>1 DEF ConfigInv, CopiesAreCurrent
<1>6. SettingsStay'
  <2> SUFFICES ASSUME NEW s \in Scopes, NEW k \in Keys, lastSet[s][k] # Unset,
                      <<s, k>> \notin clobbered'
               PROVE  contents'[s][k] = lastSet[s][k]
    BY DEF SettingsStay
  <2>1. contents[s][k] = lastSet[s][k]
    BY DEF ConfigInv, SettingsStay
  <2>2. CASE s # scope
    BY <1>2, <2>1, <2>2
  <2>3. CASE s = scope
    <3>1. k \notin TakenBack(scope, new)
      BY <2>3
    <3>2. new[k] = contents[s][k]
      BY <2>1, <2>3, <3>1 DEF TakenBack
    <3>3. QED
      BY <1>2, <2>1, <2>3, <3>2
  <2>4. QED
    BY <2>2, <2>3
<1>7. QED
  BY <1>3, <1>4, <1>5, <1>6 DEF ConfigInv

LEMMA RewriteInv ==
  ASSUME ConfigInv, NEW p \in Processes, Rewrite(p) PROVE ConfigInv'
<1>1. IsTask(task[p])
  BY DEF ConfigInv, TasksFit
<1>2. task[p].scope \in Scopes /\ task[p].copy \in Files
  BY <1>1 DEF IsTask
<1>3. Resting.step # "setting"
  BY DEF Resting
<1>4. present' \subseteq Scopes
  BY DEF ConfigInv, FilesFit, Rewrite
<1>5. /\ task' = [task EXCEPT ![p] = Resting]
      /\ contents' = [contents EXCEPT ![task[p].scope] = task[p].copy]
      /\ clobbered' = clobbered \cup ({task[p].scope} \X TakenBack(task[p].scope, task[p].copy))
      /\ UNCHANGED <<repositories, setter, lastSet>>
  BY DEF Rewrite, Do
<1>6. QED
  BY <1>2, <1>3, <1>4, <1>5, RestingFits, UnlockedWriteInv

LEMMA CreateInv ==
  ASSUME ConfigInv, NEW p \in Processes, CreateConfig(p) PROVE ConfigInv'
<1>1. IsTask(task[p]) /\ task[p].step = "create"
  BY DEF ConfigInv, TasksFit, CreateConfig
<1>2. task[p].scope \in Scopes /\ task[p].copy \in Files
  BY <1>1 DEF IsTask
<1>3. PICK t : IsTask(t) /\ t.step # "setting" /\ task' = [task EXCEPT ![p] = t]
  <2>1. CASE task[p].value = "set"
    <3> DEFINE t == [task[p] EXCEPT !.step = "set", !.value = Fallback]
    <3>1. IsTask(t) /\ t.step # "setting"
      BY <1>1, ConfigAssumption DEF IsTask
    <3>2. QED
      BY <2>1, <3>1 DEF CreateConfig, Do
  <2>2. CASE task[p].value # "set"
    <3>1. IsTask(Resting) /\ Resting.step # "setting"
      BY RestingFits DEF Resting
    <3>2. task' = [task EXCEPT ![p] = Resting]
      BY <2>2 DEF CreateConfig, Do
    <3>3. QED
      BY <3>1, <3>2
  <2>3. QED
    BY <2>1, <2>2
<1>4. present' \subseteq Scopes
  BY <1>2 DEF ConfigInv, FilesFit, CreateConfig
<1>5. /\ contents' = [contents EXCEPT ![task[p].scope] = task[p].copy]
      /\ clobbered' = clobbered \cup ({task[p].scope} \X TakenBack(task[p].scope, task[p].copy))
      /\ UNCHANGED <<repositories, setter, lastSet>>
  BY DEF CreateConfig
<1>6. QED
  BY <1>2, <1>3, <1>4, <1>5, UnlockedWriteInv

LEMMA LockInv ==
  ASSUME ConfigInv, NEW p \in Processes, LockAndRead(p) PROVE ConfigInv'
<1> DEFINE s == task[p].scope
           t == [task[p] EXCEPT !.step = "setting", !.copy = contents[s]]
<1>1. IsTask(task[p]) /\ task[p].step = "set" /\ setter[s] = "nobody"
  BY DEF ConfigInv, TasksFit, LockAndRead, MayRead
<1>2. s \in Scopes /\ contents[s] \in Files
  BY <1>1 DEF IsTask, ConfigInv, FilesFit
<1>3. IsTask(t)
  BY <1>1, <1>2 DEF IsTask
<1>4. t.step = "setting" /\ t.scope = s /\ t.copy = contents[s]
  BY <1>1 DEF IsTask
<1>5. /\ task' = [q \in Processes |-> IF q = p THEN t ELSE task[q]]
      /\ setter' = [r \in Scopes |-> IF r = s THEN p ELSE setter[r]]
      /\ UNCHANGED <<present, contents, repositories, lastSet, clobbered>>
  BY DEF ConfigInv, TasksFit, LockAndRead, Do
<1> HIDE DEF t
<1>6. TasksFit'
  BY <1>3, <1>5 DEF ConfigInv, TasksFit
<1>7. CopiesAreCurrent'
  <2> SUFFICES ASSUME NEW q \in Processes, task'[q].step = "setting"
               PROVE  /\ setter'[task'[q].scope] = q
                      /\ \A k \in Keys : /\ lastSet[task'[q].scope][k] # Unset
                                         /\ <<task'[q].scope, k>> \notin clobbered
                           => task'[q].copy[k] = lastSet[task'[q].scope][k]
    BY <1>5 DEF CopiesAreCurrent
  <2>1. CASE q = p
    <3>1. task'[q] = t
      BY <1>5, <2>1
    <3>2. QED
      BY <1>2, <1>4, <1>5, <2>1, <3>1 DEF ConfigInv, SettingsStay
  <2>2. CASE q # p
    <3>1. task'[q] = task[q]
      BY <1>5, <2>2
    <3>2. /\ setter[task[q].scope] = q
          /\ \A k \in Keys : /\ lastSet[task[q].scope][k] # Unset
                             /\ <<task[q].scope, k>> \notin clobbered
               => task[q].copy[k] = lastSet[task[q].scope][k]
      BY <3>1 DEF ConfigInv, CopiesAreCurrent
    <3>3. task[q].scope # s /\ task[q].scope \in Scopes
      BY <1>1, <3>2, ConfigAssumption DEF ConfigInv, TasksFit, IsTask
    <3>4. QED
      BY <1>5, <3>1, <3>2, <3>3
  <2>3. QED
    BY <2>1, <2>2
<1>8. QED
  BY <1>5, <1>6, <1>7 DEF ConfigInv, FilesFit, SettingsStay

LEMMA WriteInv ==
  ASSUME ConfigInv, NEW p \in Processes, WriteAndUnlock(p) PROVE ConfigInv'
<1> DEFINE t == task[p]
           s == t.scope
           new == [t.copy EXCEPT ![t.key] = t.value]
<1>1. IsTask(t) /\ t.step = "setting"
  BY DEF ConfigInv, TasksFit, WriteAndUnlock
<1>2. s \in Scopes /\ t.copy \in Files /\ t.key \in Keys /\ t.value \in Values
  BY <1>1 DEF IsTask
<1>3. new = [k \in Keys |-> IF k = t.key THEN t.value ELSE t.copy[k]] /\ new \in Files
  BY <1>2 DEF Files
<1>4. /\ contents' = [contents EXCEPT ![s] = new]
      /\ present' = present \cup {s}
      /\ lastSet' = [lastSet EXCEPT ![s][t.key] = t.value]
      /\ clobbered' = clobbered \ {<<s, t.key>>}
      /\ setter' = [setter EXCEPT ![s] = "nobody"]
      /\ task' = [task EXCEPT ![p] = Resting]
      /\ repositories' = repositories
  BY DEF WriteAndUnlock, Do
<1>5. setter[s] = p /\ \A k \in Keys : lastSet[s][k] # Unset /\ <<s, k>> \notin clobbered
                                         => t.copy[k] = lastSet[s][k]
  BY <1>1 DEF ConfigInv, CopiesAreCurrent
<1> HIDE DEF t, s, new
<1>6. contents' = [r \in Scopes |-> IF r = s THEN new ELSE contents[r]]
  BY <1>4 DEF ConfigInv, FilesFit
<1>7. /\ lastSet' \in [Scopes -> Files]
      /\ \A r \in Scopes : \A k \in Keys :
           lastSet'[r][k] = IF r = s /\ k = t.key THEN t.value ELSE lastSet[r][k]
  BY <1>2, <1>4 DEF ConfigInv, TasksFit, Files
<1>8. /\ task' = [q \in Processes |-> IF q = p THEN Resting ELSE task[q]]
      /\ setter' = [r \in Scopes |-> IF r = s THEN "nobody" ELSE setter[r]]
  BY <1>4 DEF ConfigInv, TasksFit
<1>9. FilesFit'
  BY <1>2, <1>3, <1>4, <1>6 DEF ConfigInv, FilesFit
<1>10. TasksFit'
  BY <1>7, <1>8, RestingFits DEF ConfigInv, TasksFit
<1>11. CopiesAreCurrent'
  <2> SUFFICES ASSUME NEW q \in Processes, task'[q].step = "setting"
               PROVE  /\ setter'[task'[q].scope] = q
                      /\ \A k \in Keys : /\ lastSet'[task'[q].scope][k] # Unset
                                         /\ <<task'[q].scope, k>> \notin clobbered'
                           => task'[q].copy[k] = lastSet'[task'[q].scope][k]
    BY DEF CopiesAreCurrent
  <2>1. q # p /\ task'[q] = task[q]
    BY <1>8 DEF Resting
  <2>2. /\ setter[task[q].scope] = q
        /\ \A k \in Keys : /\ lastSet[task[q].scope][k] # Unset
                           /\ <<task[q].scope, k>> \notin clobbered
             => task[q].copy[k] = lastSet[task[q].scope][k]
    BY <2>1 DEF ConfigInv, CopiesAreCurrent
  <2>3. task[q].scope # s /\ task[q].scope \in Scopes
    BY <1>5, <2>1, <2>2 DEF ConfigInv, TasksFit, IsTask
  <2>4. QED
    BY <1>4, <1>7, <1>8, <2>1, <2>2, <2>3
<1>12. SettingsStay'
  <2> SUFFICES ASSUME NEW r \in Scopes, NEW k \in Keys, lastSet'[r][k] # Unset,
                      <<r, k>> \notin clobbered'
               PROVE  contents'[r][k] = lastSet'[r][k]
    BY DEF SettingsStay
  <2>1. CASE r # s
    BY <1>4, <1>6, <1>7, <2>1 DEF ConfigInv, SettingsStay
  <2>2. CASE r = s /\ k = t.key
    BY <1>3, <1>6, <1>7, <2>2
  <2>3. CASE r = s /\ k # t.key
    BY <1>3, <1>4, <1>5, <1>6, <1>7, <2>3
  <2>4. QED
    BY <2>1, <2>2, <2>3
<1>13. QED
  BY <1>9, <1>10, <1>11, <1>12 DEF ConfigInv

LEMMA RepositoriesInv ==
  ASSUME ConfigInv, NEW v \in Values \cup {Unset}, ChangeRepositories(v) PROVE ConfigInv'
BY DEF ConfigInv, ChangeRepositories, FilesFit, TasksFit, CopiesAreCurrent, SettingsStay

LEMMA ConfigNextInv == ConfigInv /\ [ConfigNext]_configVars => ConfigInv'
<1> SUFFICES ASSUME ConfigInv, [ConfigNext]_configVars PROVE ConfigInv'
  OBVIOUS
<1>1. CASE UNCHANGED configVars
  BY <1>1 DEF configVars, ConfigInv, FilesFit, TasksFit, CopiesAreCurrent, SettingsStay
<1>2. ASSUME NEW p \in Processes, NEW scope \in Scopes,
             \/ Load(p, scope)
             \/ \E next \in {"rest", "set"} : EnsureConfig(p, scope, next)
             \/ \E setting \in Settings \ {"sub_repos"}, v \in Values :
                   AskToSet(p, scope, setting, v)
      PROVE  ConfigInv'
  BY <1>2, LoadInv, EnsureInv, AskInv
<1>3. ASSUME NEW p \in Processes,
             Rewrite(p) \/ CreateConfig(p) \/ LockAndRead(p) \/ WriteAndUnlock(p)
      PROVE  ConfigInv'
  BY <1>3, RewriteInv, CreateInv, LockInv, WriteInv
<1>4. ASSUME NEW v \in Values \cup {Unset}, ChangeRepositories(v) PROVE ConfigInv'
  BY <1>4, RepositoriesInv
<1>5. QED
  BY <1>1, <1>2, <1>3, <1>4 DEF ConfigNext

(* For any processes, values, files to begin with and repositories: what   *)
(* config-set wrote stays unless a write without the lock took it back, a  *)
(* file is rewritten by one load at most, and the spelling that is set is  *)
(* the one that is used.                                                   *)
THEOREM SettingsAreKept == ConfigSpec => []SettingsHold
<1>1. ConfigInv => SettingsHold
  BY LoadedOnce, SetIsUsed DEF ConfigInv, SettingsHold
<1>2. QED
  BY <1>1, ConfigInitInv, ConfigNextInv, PTL DEF ConfigSpec

-----------------------------------------------------------------------------
(***************************************************************************)
(* Model routing for any catalog and configuration: the effort of an agent *)
(* is the one for its model, and further attempts only go up, boundedly.   *)
(***************************************************************************)

(* Every attempt so far got the model that the settings give it.           *)
RoutingInv ==
    /\ models \in ModelConfigs /\ known \in BOOLEAN
    /\ default \in Range(RoutingTiers) \cup {None}
    /\ attempts \in Seq({ResolveModelForTier(n) : n \in Nat})
    /\ \A i \in 1 .. Len(attempts) : attempts[i] = ResolveModelForTier(i - 1)

LEMMA RoutingInitInv == RoutingInit => RoutingInv
<1> SUFFICES ASSUME RoutingInit PROVE RoutingInv
  OBVIOUS
<1>1. default \in Range(RoutingTiers) \cup {None}
  BY RoutingAssumption DEF RoutingInit
<1>2. attempts = << >> /\ Len(attempts) = 0
  BY DEF RoutingInit
<1>3. QED
  BY <1>1, <1>2 DEF RoutingInit, RoutingInv

(* The settings and the agent stay: each attempt asks the same function.   *)
LEMMA RoutingNextInv == RoutingInv /\ [RoutingNext]_routingVars => RoutingInv'
<1> SUFFICES ASSUME RoutingInv, [RoutingNext]_routingVars PROVE RoutingInv'
  OBVIOUS
<1> DEFINE given == {ResolveModelForTier(n) : n \in Nat}
           ofAttempt(n) == ResolveModelForTier(n)
<1>1. /\ models' = models /\ known' = known /\ default' = default
      /\ \/ attempts' = attempts
         \/ attempts' = Append(attempts, ofAttempt(Len(attempts)))
  BY DEF RoutingNext, StartAgent, routingVars
<1>2. \A n : ResolveModelForTier(n)' = ofAttempt(n)
  <2>1. ResolveModel' = ResolveModel
    BY <1>1 DEF ResolveModel, OfUnknownAgent, Tier, OfProfile, Entry
  <2>2. ASSUME NEW n PROVE RoutedTier(n)' = RoutedTier(n)
    BY <1>1 DEF RoutedTier, Escalations
  <2>3. QED
    BY <1>1, <2>1, <2>2 DEF ResolveModelForTier
<1>3. attempts \in Seq(given) /\ \A i \in 1 .. Len(attempts) : attempts[i] = ofAttempt(i - 1)
  BY DEF RoutingInv
<1>4. given' = given
  BY <1>2
<1>5. \A n \in Nat : ofAttempt(n) \in given
  OBVIOUS
<1> HIDE DEF given, ofAttempt
<1>6. Len(attempts) \in Nat
  BY <1>3
<1>7. /\ attempts' \in Seq(given)
      /\ \A i \in 1 .. Len(attempts') : attempts'[i] = ofAttempt(i - 1)
  <2>1. CASE attempts' = attempts
    BY <1>3, <2>1
  <2>2. CASE attempts' = Append(attempts, ofAttempt(Len(attempts)))
    <3> DEFINE last == ofAttempt(Len(attempts))
    <3>1. last \in given
      BY <1>5, <1>6
    <3>2. /\ attempts' \in Seq(given) /\ Len(attempts') = Len(attempts) + 1
          /\ attempts'[Len(attempts) + 1] = last
          /\ \A i \in 1 .. Len(attempts) : attempts'[i] = attempts[i]
      BY <1>3, <1>6, <2>2, <3>1
    <3>3. ASSUME NEW i \in 1 .. Len(attempts') PROVE attempts'[i] = ofAttempt(i - 1)
      <4>1. CASE i \in 1 .. Len(attempts)
        BY <1>3, <3>2, <4>1
      <4>2. CASE i = Len(attempts) + 1
        <5>1. i - 1 = Len(attempts)
          BY <1>6, <4>2
        <5>2. QED
          BY <3>2, <4>2, <5>1
      <4>3. QED
        BY <1>6, <3>2, <4>1, <4>2
    <3>4. QED
      BY <3>2, <3>3
  <2>3. QED
    BY <1>1, <2>1, <2>2
<1>8. /\ attempts' \in Seq(given')
      /\ \A i \in 1 .. Len(attempts') : attempts'[i] = ResolveModelForTier(i - 1)'
  BY <1>2, <1>4, <1>7
<1>9. QED
  BY <1>1, <1>8 DEF RoutingInv, given

-----------------------------------------------------------------------------
(* An agent with an effort has a tier with a model, and gets that model.   *)
LEMMA EffortFits == RoutingInv => EffortFitsModel
<1> SUFFICES ASSUME RoutingInv, ResolveEffort # None
             PROVE  \E tier \in Aliases : /\ ResolveEffort = Entry(tier).effort
                                          /\ ResolveModel = Entry(tier).model
  BY DEF EffortFitsModel
<1>1. /\ models.runtime \in Effortful /\ models.override = None /\ known
      /\ Tier # "inherit" /\ ResolveEffort = Entry(Tier).effort
  BY DEF ResolveEffort
<1>2. OfProfile \in Aliases
  BY RoutingAssumption DEF OfProfile
<1>3. Tier \in Aliases
  BY <1>1, <1>2 DEF Tier
<1>4. models.runtime \in DOMAIN BuiltIn /\ models.runtime \notin {None, "claude"}
      /\ BuiltIn[models.runtime][Tier]["model"] # None
  BY <1>1, <1>3, RoutingAssumption
<1>5. Entry(Tier)["model"] # None
  BY <1>4 DEF Entry
<1>6. ResolveModel = Entry(Tier).model
  BY <1>1, <1>3, <1>4, <1>5 DEF ResolveModel
<1>7. QED
  BY <1>1, <1>3, <1>6

(* More attempts never mean fewer escalations, nor more than are allowed.  *)
LEMMA EscalationsGrow ==
  ASSUME RoutingInv, NEW m \in Nat, NEW n \in Nat, m <= n
  PROVE  LET allowed == IF models.routing.max < 0 THEN 1 ELSE models.routing.max
         IN /\ Escalations(m) \in Nat /\ Escalations(n) \in Nat
            /\ Escalations(m) <= Escalations(n)
            /\ (~models.routing.escalates \/ m >= allowed) =>
                 Escalations(m) = Escalations(n)
<1>1. models.routing.max \in Int
  BY RoutingAssumption DEF RoutingInv
<1>2. QED
  BY <1>1 DEF Escalations, Smaller

(* The place of the default tier, and of those that are reached from it.   *)
LEMMA RoutedPlace ==
  ASSUME RoutingInv, default # None, NEW n \in Nat
  PROVE  /\ Place(default) \in 1 .. 3
         /\ Smaller(Place(default) + Escalations(n), 3) \in 1 .. 3
<1>1. RoutingTiers = [i \in 1 .. 3 |-> IF i = 1 THEN "light"
                                       ELSE IF i = 2 THEN "standard" ELSE "heavy"]
  BY DEF RoutingTiers
<1>2. \E i \in 1 .. 3 : RoutingTiers[i] = default
  BY <1>1 DEF RoutingInv, Range
<1>3. Place(default) \in 1 .. 3
  BY <1>2 DEF Place
<1>4. Escalations(n) \in Nat
  BY EscalationsGrow
<1>5. QED
  BY <1>3, <1>4 DEF Smaller

LEMMA EscalationBounded == RoutingInv => EscalationIsBounded
<1> DEFINE allowed == IF models.routing.max < 0 THEN 1 ELSE models.routing.max
<1> SUFFICES ASSUME RoutingInv, NEW j \in DOMAIN attempts, NEW i \in 1 .. j - 1,
                    attempts[i] # attempts[j]
             PROVE  /\ models.routing.enabled /\ models.routing.escalates
                    /\ models.override = None /\ i - 1 < allowed
                    /\ (\A tier \in Range(RoutingTiers) : models.routing.models[tier] # None) =>
                         \E m, n \in 1 .. 3 :
                            /\ m < n
                            /\ attempts[i] = models.routing.models[RoutingTiers[m]]
                            /\ attempts[j] = models.routing.models[RoutingTiers[n]]
  BY DEF EscalationIsBounded
<1>1. /\ i \in Nat /\ j \in Nat /\ i - 1 \in Nat /\ j - 1 \in Nat /\ i - 1 <= j - 1
      /\ i \in 1 .. Len(attempts) /\ j \in 1 .. Len(attempts)
  BY DEF RoutingInv
<1>2. /\ attempts[i] = ResolveModelForTier(i - 1)
      /\ attempts[j] = ResolveModelForTier(j - 1)
  BY <1>1 DEF RoutingInv
<1>3. models.override = None /\ models.routing.enabled /\ default # None
  BY <1>2 DEF ResolveModelForTier
<1>4. RoutedTier(i - 1) # RoutedTier(j - 1)
  BY <1>2 DEF ResolveModelForTier
<1>5. Escalations(i - 1) # Escalations(j - 1)
  BY <1>4 DEF RoutedTier
<1>6. models.routing.max \in Int
  BY RoutingAssumption DEF RoutingInv
<1>7. models.routing.escalates /\ ~(i - 1 >= allowed)
  BY <1>1, <1>5, EscalationsGrow
<1>8. ASSUME \A tier \in Range(RoutingTiers) : models.routing.models[tier] # None
      PROVE  \E m, n \in 1 .. 3 : /\ m < n
                                  /\ attempts[i] = models.routing.models[RoutingTiers[m]]
                                  /\ attempts[j] = models.routing.models[RoutingTiers[n]]
  <2> DEFINE m == Smaller(Place(default) + Escalations(i - 1), 3)
             n == Smaller(Place(default) + Escalations(j - 1), 3)
  <2>1. m \in 1 .. 3 /\ n \in 1 .. 3
    BY <1>1, <1>3, RoutedPlace
  <2>2. m # n
    BY <1>4 DEF RoutedTier
  <2>3. m <= n
    <3>1. Place(default) \in 1 .. 3
      BY <1>3, RoutedPlace
    <3>2. /\ Escalations(i - 1) \in Nat /\ Escalations(j - 1) \in Nat
          /\ Escalations(i - 1) <= Escalations(j - 1)
      BY <1>1, EscalationsGrow
    <3>3. QED
      BY <3>1, <3>2 DEF Smaller
  <2>4. \A k \in 1 .. 3 : RoutingTiers[k] \in Range(RoutingTiers)
    BY DEF RoutingTiers, Range
  <2>5. /\ attempts[i] = models.routing.models[RoutingTiers[m]]
        /\ attempts[j] = models.routing.models[RoutingTiers[n]]
    BY <1>2, <1>3, <1>8, <2>1, <2>4 DEF ResolveModelForTier, RoutedTier
  <2> HIDE DEF m, n
  <2>6. QED
    BY <2>1, <2>2, <2>3, <2>5
<1>9. QED
  BY <1>1, <1>3, <1>6, <1>7, <1>8

(* For any catalog and configurations: an agent is never given the effort  *)
(* that is meant for another model than its own, and further attempts get  *)
(* another model only upwards, and as often as max_escalations says.       *)
THEOREM RoutingHolds == RoutingSpec => []RoutingIsSound
<1>1. RoutingInv => RoutingIsSound
  BY EffortFits, EscalationBounded DEF RoutingIsSound
<1>2. QED
  BY <1>1, RoutingInitInv, RoutingNextInv, PTL DEF RoutingSpec

-----------------------------------------------------------------------------
(***************************************************************************)
(* The cleanup of worktrees for any manifest of agents that go on working  *)
(* meanwhile: it does to no work what its checks did not look at.          *)
(***************************************************************************)

CleanupTypes ==
    /\ at \in {"idle", "branch", "base", "deletions", "status", "merge", "remove", "delete"}
    /\ entry \in DOMAIN Manifest
    /\ tip \in [Agents -> Nat] /\ head \in [Agents -> Nat]

(* What the checks that the command has passed still say of the agent it   *)
(* is at, except for what that agent did since.                            *)
ChecksHold ==
    /\ at \in {"deletions", "status", "merge"} => Agent \notin strayed
    /\ at \in {"status", "merge"} => (Agent \in deleting => Agent \in lateDeletion)
    /\ at \in {"merge", "remove", "delete"} => (Agent \in dirty => Agent \in late)

(* What is not merged when the branch goes was committed after the merge.  *)
MergeHolds ==
    at \in {"remove", "delete"} => (tip[Agent] > head[Agent] => Agent \in late)

CleanupInv == CleanupTypes /\ ChecksHold /\ MergeHolds /\ OnlyLateWorkIsLost

LEMMA StepsInOrder ==
  /\ Steps = [i \in 1 .. 7 |->
                IF i = 1 THEN "branch" ELSE IF i = 2 THEN "base" ELSE IF i = 3 THEN "deletions"
                ELSE IF i = 4 THEN "status" ELSE IF i = 5 THEN "merge"
                ELSE IF i = 6 THEN "remove" ELSE "delete"]
  /\ Len(Steps) = 7
BY DEF Steps

LEMMA NextSteps ==
  /\ After("branch") = "base" /\ After("base") = "deletions"
  /\ After("deletions") = "status" /\ After("status") = "merge"
<1> DEFINE Follows(step, next) ==
             \E i \in DOMAIN Steps : Steps[i] = step /\ i < Len(Steps) /\ Steps[i + 1] = next
<1>1. \A i \in 1 .. 7 : Steps[i] \in Range(Steps)
  BY StepsInOrder DEF Range
<1>2. ASSUME NEW k \in 1 .. 6 PROVE After(Steps[k]) = Steps[k + 1]
  <2>1. Follows(Steps[k], Steps[k + 1]) /\ Steps[k + 1] \in Range(Steps)
    BY <1>1, StepsInOrder
  <2>2. \A next : Follows(Steps[k], next) => next = Steps[k + 1]
    BY StepsInOrder
  <2> HIDE DEF Follows
  <2>3. After(Steps[k]) = CHOOSE next \in Range(Steps) : Follows(Steps[k], next)
    BY DEF After, Follows
  <2>4. QED
    BY <2>1, <2>2, <2>3
<1>3. QED
  BY <1>2, StepsInOrder

LEMMA ReachedSteps ==
  /\ Reached("merge") <=> at \in {"merge", "remove", "delete"}
  /\ Reached("status") <=> at \in {"status", "merge", "remove", "delete"}
<1>1. ASSUME NEW k \in 1 .. 7
      PROVE  Reached(Steps[k]) <=> \E j \in 1 .. 7 : Steps[j] = at /\ k <= j
  BY StepsInOrder DEF Reached
<1>2. QED
  BY <1>1, StepsInOrder

LEMMA ManifestAgents ==
  /\ \A i \in DOMAIN Manifest : Manifest[i] \in Agents
  /\ DOMAIN Manifest = 1 .. Len(Manifest) /\ Len(Manifest) \in Nat /\ 1 \in DOMAIN Manifest
BY WorktreesAssumption DEF Agents, Range

LEMMA CleanupInitInv == CleanupInit => CleanupInv
<1> SUFFICES ASSUME CleanupInit PROVE CleanupInv
  OBVIOUS
<1>1. CleanupTypes
  BY ManifestAgents DEF CleanupInit, CleanupTypes
<1>2. QED
  BY <1>1 DEF CleanupInit, CleanupInv, ChecksHold, MergeHolds, OnlyLateWorkIsLost

-----------------------------------------------------------------------------
(* An agent works: what it does after a check is late.                     *)
LEMMA EditCleanup ==
  ASSUME CleanupInv, NEW a \in Agents, Edit(a) PROVE CleanupInv'
<1>1. /\ dirty' = dirty \cup {a}
      /\ late' = IF PastCheck(a, "merge") THEN late \cup {a} ELSE late
      /\ UNCHANGED <<strayed, tip, deleting, lateDeletion, head, at, entry, lost>>
  BY DEF Edit
<1>2. PastCheck(a, "merge") <=> Agent = a /\ at \in {"merge", "remove", "delete"}
  BY ReachedSteps DEF PastCheck, Agent
<1>3. Agent' = Agent
  BY <1>1 DEF Agent
<1>4. ChecksHold'
  BY <1>1, <1>2, <1>3 DEF CleanupInv, ChecksHold
<1>5. MergeHolds'
  BY <1>1, <1>3 DEF CleanupInv, MergeHolds
<1>6. QED
  BY <1>1, <1>4, <1>5 DEF CleanupInv, CleanupTypes, OnlyLateWorkIsLost

LEMMA CommitCleanup ==
  ASSUME CleanupInv, NEW a \in Agents, CommitWork(a) PROVE CleanupInv'
<1>1. /\ a \in dirty /\ tip' = [tip EXCEPT ![a] = @ + 1] /\ dirty' = dirty \ {a}
      /\ \/ deleting' = deleting /\ lateDeletion' = lateDeletion
         \/ /\ deleting' = deleting \cup {a}
            /\ lateDeletion' = IF PastCheck(a, "status") THEN lateDeletion \cup {a}
                               ELSE lateDeletion
      /\ UNCHANGED <<strayed, late, head, at, entry, lost>>
  BY DEF CommitWork
<1>2. PastCheck(a, "status") <=> Agent = a /\ at \in {"status", "merge", "remove", "delete"}
  BY ReachedSteps DEF PastCheck, Agent
<1>3. Agent' = Agent /\ Agent \in Agents
  BY <1>1, ManifestAgents DEF Agent, CleanupInv, CleanupTypes
<1>4. CleanupTypes'
  BY <1>1 DEF CleanupInv, CleanupTypes
<1>5. ChecksHold'
  BY <1>1, <1>2, <1>3 DEF CleanupInv, ChecksHold
<1>6. MergeHolds'
  BY <1>1, <1>3 DEF CleanupInv, CleanupTypes, ChecksHold, MergeHolds
<1>7. QED
  BY <1>1, <1>4, <1>5, <1>6 DEF CleanupInv, OnlyLateWorkIsLost

LEMMA LeaveCleanup ==
  ASSUME CleanupInv, NEW a \in Agents, LeaveBranch(a) PROVE CleanupInv'
BY DEF LeaveBranch, CleanupInv, CleanupTypes, ChecksHold, MergeHolds, OnlyLateWorkIsLost, Agent

-----------------------------------------------------------------------------
(* The command stops: nothing has to be said of a check any more.          *)
LEMMA CommandStops ==
  ASSUME CleanupInv, at' \in {"idle", "branch"}, entry' \in DOMAIN Manifest,
         tip' \in [Agents -> Nat], head' \in [Agents -> Nat],
         lost' \subseteq late'
  PROVE  CleanupInv'
BY DEF CleanupInv, CleanupTypes, ChecksHold, MergeHolds, OnlyLateWorkIsLost

LEMMA BeginCleanup == ASSUME CleanupInv, Begin PROVE CleanupInv'
<1>1. UNCHANGED <<tip, head, lost, late>>
  BY DEF Begin, agentVars
<1>2. QED
  BY <1>1, CommandStops, ManifestAgents
     DEF Begin, CleanupInv, CleanupTypes, OnlyLateWorkIsLost

LEMMA CheckCleanup == ASSUME CleanupInv, Check PROVE CleanupInv'
<1>1. UNCHANGED <<strayed, tip, dirty, deleting, late, lateDeletion, head, lost>>
  BY DEF Check, agentVars
<1>2. CASE CheckPasses(Agent) /\ at' = After(at) /\ entry' = entry
  <2>1. Agent' = Agent
    BY <1>2 DEF Agent
  <2>2. CASE at = "branch"
    <3>1. at' = "base"
      BY <1>2, <2>2, NextSteps
    <3>2. QED
      BY <1>1, <1>2, <3>1
         DEF CleanupInv, CleanupTypes, ChecksHold, MergeHolds, OnlyLateWorkIsLost
  <2>3. CASE at = "base"
    <3>1. at' = "deletions" /\ Agent \notin strayed
      BY <1>2, <2>3, NextSteps DEF CheckPasses, ForkedAtBase
    <3>2. QED
      BY <1>1, <1>2, <2>1, <3>1
         DEF CleanupInv, CleanupTypes, ChecksHold, MergeHolds, OnlyLateWorkIsLost
  <2>4. CASE at = "deletions"
    <3>1. at' = "status" /\ Agent \notin deleting
      BY <1>2, <2>4, NextSteps DEF CheckPasses, Deletes
    <3>2. QED
      BY <1>1, <1>2, <2>1, <2>4, <3>1
         DEF CleanupInv, CleanupTypes, ChecksHold, MergeHolds, OnlyLateWorkIsLost
  <2>5. CASE at = "status"
    <3>1. at' = "merge" /\ Agent \notin dirty
      BY <1>2, <2>5, NextSteps DEF CheckPasses, Clean
    <3>2. QED
      BY <1>1, <1>2, <2>1, <2>5, <3>1
         DEF CleanupInv, CleanupTypes, ChecksHold, MergeHolds, OnlyLateWorkIsLost
  <2>6. QED
    BY <2>2, <2>3, <2>4, <2>5 DEF Check
<1>3. CASE at' = "idle" /\ entry' = entry
  BY <1>1, <1>3, CommandStops DEF CleanupInv, CleanupTypes, OnlyLateWorkIsLost
<1>4. QED
  BY <1>2, <1>3 DEF Check, Block

LEMMA MergeCleanup == ASSUME CleanupInv, Merge PROVE CleanupInv'
<1>1. /\ at = "merge" /\ Agent \in Agents
      /\ UNCHANGED <<strayed, tip, dirty, deleting, late, lateDeletion, lost, entry>>
  BY ManifestAgents DEF Merge, agentVars, Block, CleanupInv, CleanupTypes, Agent
<1>2. MergedInto(Agent) \in [Agents -> Nat] /\ MergedInto(Agent)[Agent] = tip[Agent]
  BY <1>1 DEF MergedInto, CleanupInv, CleanupTypes
<1>3. CASE head' = MergedInto(Agent) /\ at' = "remove"
  <2>1. Agent' = Agent
    BY <1>1 DEF Agent
  <2>2. ~(tip'[Agent] > head'[Agent])
    BY <1>1, <1>2, <1>3 DEF CleanupInv, CleanupTypes
  <2>3. QED
    BY <1>1, <1>2, <1>3, <2>1, <2>2
       DEF CleanupInv, CleanupTypes, ChecksHold, MergeHolds, OnlyLateWorkIsLost
<1>4. CASE at' = "idle" /\ head' \in {head, MergedInto(Agent)}
  BY <1>1, <1>2, <1>4, CommandStops DEF CleanupInv, CleanupTypes, OnlyLateWorkIsLost
<1>5. QED
  BY <1>3, <1>4 DEF Merge, Block

LEMMA RemoveCleanup == ASSUME CleanupInv, RemoveWorktree PROVE CleanupInv'
<1>1. /\ at = "remove" /\ at' \in {"delete", "idle"}
      /\ lost' = IF Agent \in dirty \ worktrees' THEN lost \cup {Agent} ELSE lost
      /\ UNCHANGED <<strayed, tip, dirty, deleting, late, lateDeletion, head, entry>>
  BY DEF RemoveWorktree, agentVars, Block
<1>2. Agent' = Agent
  BY <1>1 DEF Agent
<1>3. OnlyLateWorkIsLost'
  BY <1>1 DEF CleanupInv, ChecksHold, OnlyLateWorkIsLost
<1>4. QED
  BY <1>1, <1>2, <1>3 DEF CleanupInv, CleanupTypes, ChecksHold, MergeHolds

LEMMA DeleteCleanup == ASSUME CleanupInv, DeleteBranch PROVE CleanupInv'
<1>1. /\ at = "delete" /\ NextEntry
      /\ lost' = IF tip[Agent] > head[Agent] /\ Agent \notin branches'
                 THEN lost \cup {Agent} ELSE lost
      /\ UNCHANGED <<tip, late, head>>
  BY DEF DeleteBranch, agentVars
<1>2. lost' \subseteq late'
  BY <1>1 DEF CleanupInv, MergeHolds, OnlyLateWorkIsLost
<1>3. at' \in {"idle", "branch"} /\ entry' \in DOMAIN Manifest
  BY <1>1, ManifestAgents DEF NextEntry, CleanupInv, CleanupTypes
<1>4. QED
  BY <1>1, <1>2, <1>3, CommandStops DEF CleanupInv, CleanupTypes

LEMMA KillCleanup == ASSUME CleanupInv, Kill PROVE CleanupInv'
<1>1. at' = "idle" /\ UNCHANGED <<entry, tip, head, lost, late>>
  BY DEF Kill, agentVars
<1>2. QED
  BY <1>1, CommandStops DEF CleanupInv, CleanupTypes, OnlyLateWorkIsLost

LEMMA RerunCleanup ==
  ASSUME CleanupInv, NEW a \in Agents, ResolveAndRerun(a) PROVE CleanupInv'
<1>1. tip' \in [Agents -> Nat]
  BY DEF ResolveAndRerun, CleanupInv, CleanupTypes
<1>2. head' \in [Agents -> Nat]
  BY <1>1 DEF ResolveAndRerun, CleanupInv, CleanupTypes
<1>3. /\ at' = "branch" /\ entry' \in DOMAIN Manifest /\ UNCHANGED <<lost, late>>
  BY ManifestAgents DEF ResolveAndRerun
<1>4. QED
  BY <1>1, <1>2, <1>3, CommandStops DEF CleanupInv, OnlyLateWorkIsLost

LEMMA CleanupNextInv == CleanupInv /\ [CleanupNext]_cleanupVars => CleanupInv'
<1> SUFFICES ASSUME CleanupInv, [CleanupNext]_cleanupVars PROVE CleanupInv'
  OBVIOUS
<1>1. CASE UNCHANGED cleanupVars
  BY <1>1 DEF cleanupVars, agentVars, CleanupInv, CleanupTypes, ChecksHold, MergeHolds,
              OnlyLateWorkIsLost, Agent
<1>2. CASE Begin \/ Check \/ Merge \/ RemoveWorktree \/ DeleteBranch \/ Kill
  BY <1>2, BeginCleanup, CheckCleanup, MergeCleanup, RemoveCleanup, DeleteCleanup, KillCleanup
<1>3. ASSUME NEW a \in Agents,
             Edit(a) \/ CommitWork(a) \/ LeaveBranch(a) \/ ResolveAndRerun(a)
      PROVE  CleanupInv'
  BY <1>3, EditCleanup, CommitCleanup, LeaveCleanup, RerunCleanup
<1>4. QED
  BY <1>1, <1>2, <1>3 DEF CleanupNext

-----------------------------------------------------------------------------
(* The main branch only moves in a merge, by the command or by hand.       *)
LEMMA MergesAreChecked ==
  CleanupInv /\ [CleanupNext]_cleanupVars => OnlyCheckedWorkIsMerged
<1> SUFFICES ASSUME CleanupInv, [CleanupNext]_cleanupVars,
                    NEW a \in Agents \ byHand', head'[a] > head[a]
             PROVE  a \notin strayed /\ (a \in deleting => a \in lateDeletion)
  BY DEF OnlyCheckedWorkIsMerged
<1>1. head \in [Agents -> Nat] /\ head' # head
  BY DEF CleanupInv, CleanupTypes
<1>2. CASE Merge
  <2>1. at = "merge" /\ head' \in {head, MergedInto(Agent)}
    BY <1>2 DEF Merge
  <2>2. a = Agent
    BY <1>1, <2>1 DEF MergedInto
  <2>3. QED
    BY <2>1, <2>2 DEF CleanupInv, ChecksHold
<1>3. ASSUME NEW b \in Agents, ResolveAndRerun(b) PROVE FALSE
  <2>1. head' = [head EXCEPT ![b] = tip'[b]] /\ byHand' = byHand \cup {b}
    BY <1>1, <1>3 DEF ResolveAndRerun
  <2>2. a # b
    BY <2>1
  <2>3. QED
    BY <1>1, <2>1, <2>2
<1>4. \/ Merge
      \/ \E b \in Agents : ResolveAndRerun(b)
  BY <1>1 DEF CleanupNext, cleanupVars, Begin, Check, RemoveWorktree, DeleteBranch, Kill,
              Edit, CommitWork, LeaveBranch
<1>5. QED
  BY <1>2, <1>3, <1>4

(* For any manifest, edits, reruns and faults of git: neither the merge    *)
(* nor the deletions of a cleanup do what its checks did not look at.      *)
THEOREM CleanupHolds == CleanupSpec => CleanupIsSafe
<1>1. CleanupInv /\ CleanupInv' /\ [CleanupNext]_cleanupVars =>
        [OnlyCheckedWorkIsMerged /\ OnlyLateWorkIsLost']_cleanupVars
  BY MergesAreChecked DEF CleanupInv
<1>2. QED
  BY <1>1, CleanupInitInv, CleanupNextInv, PTL DEF CleanupSpec, CleanupIsSafe

-----------------------------------------------------------------------------
(***************************************************************************)
(* The commits of documents for any agents, documents, repositories and    *)
(* branches, interleaved in any way: no text is lost before a commit.      *)
(***************************************************************************)

CommitTypes ==
    /\ work \in [Documents -> Int] /\ index \in [Documents -> Int]
    /\ stored \in [Documents -> SUBSET Int] /\ superseded \in [Documents -> SUBSET Int]
    /\ tips \in [Branches -> [Documents -> Int]] /\ onBranch \in [Repos -> Branches]
    /\ texts \in Int
    /\ DOMAIN committer = Committers

(* What is at the tip of a branch, if it exists, is in a commit; and the   *)
(* branches that are checked out exist.                                    *)
TipsAreStored ==
    /\ \A b \in Branches : tips[b] = NoBranchYet
                           \/ \A d \in Documents : tips[b][d] \in {0} \cup stored[d]
    /\ \A r \in Repos : \A d \in Documents : Tip(r)[d] \in {0} \cup stored[d]

(* A command stages documents of its repository only, and none that is     *)
(* still on the way has a result.                                          *)
IsACommit(c) ==
    /\ c \in [pc : {"idle", "branch", "stage", "done"}, repo : Repos,
              mode : {"files", "everything", "subrepo"}, amend : BOOLEAN,
              files : SUBSET Documents, todo : SUBSET Documents,
              staged : [Documents -> Int],
              result : {"none", "committed", "nothing", "failed"}]
    /\ c.todo \subseteq DocsOf(c.repo)
    /\ c.pc = "branch" => c.files \subseteq PlanningDocs
    /\ IF c.mode = "subrepo" THEN c.repo # "root" /\ c.files \cap PlanningDocs = {}
                             ELSE c.repo = "root"
    /\ c.pc # "done" => c.result = "none"
    /\ \A d \in Documents : c.staged[d] # 0 => d \in DocsOf(c.repo)

(* What it staged is in the index, or replaced there, or in a commit.      *)
StagedTextsStay ==
    \A p \in Committers : \A d \in Documents :
        committer[p].staged[d] \in {0, index[d]} \cup stored[d] \cup superseded[d]

CommitInv ==
    /\ CommitTypes /\ TipsAreStored
    /\ \A p \in Committers : IsACommit(committer[p])
    /\ StagedTextsStay /\ StagedTextsAreStored

LEMMA QuietCommand ==
  /\ IsACommit(Quiet) /\ Quiet.staged = NothingStaged /\ Quiet.result = "none"
  /\ "root" \in Repos
BY DEF IsACommit, Quiet, NothingStaged, Repos, DocsOf

LEMMA CommitsInitInv == CommitsInit => CommitInv
<1> SUFFICES ASSUME CommitsInit PROVE CommitInv
  OBVIOUS
<1>1. PICK earlier \in {work, NoBranchYet,
                        [d \in Documents |-> IF d \in PlanningDocs THEN 0 ELSE 1]} :
        tips = [b \in Branches |-> IF b \in Repos \cup {"main"} THEN work ELSE earlier]
  BY DEF CommitsInit
<1>2. work \in [Documents -> Int] /\ earlier \in [Documents -> Int]
  BY <1>1 DEF CommitsInit, NoBranchYet
<1>3. onBranch \in [Repos -> Branches]
  BY DEF CommitsInit, Branches
<1>4. CommitTypes
  BY <1>1, <1>2, <1>3 DEF CommitsInit, CommitTypes
<1>5. TipsAreStored
  <2>1. \A d \in Documents : /\ work[d] \in {0} \cup stored[d]
                             /\ earlier = NoBranchYet \/ earlier[d] \in {0} \cup stored[d]
    BY DEF CommitsInit
  <2>2. \A r \in Repos : Tip(r) = work
    BY <1>1, <1>3 DEF CommitsInit, Tip
  <2>3. QED
    BY <1>1, <2>1, <2>2 DEF TipsAreStored
<1>6. \A p \in Committers : committer[p] = Quiet
  BY DEF CommitsInit
<1>7. QED
  BY <1>4, <1>5, <1>6, QuietCommand
     DEF CommitInv, StagedTextsStay, StagedTextsAreStored, NothingStaged

-----------------------------------------------------------------------------
(* A command goes on, and git does nothing.                                *)
LEMMA CommandGoesOn ==
  ASSUME CommitInv, NEW p \in Committers, NEW c, IsACommit(c), c.result = "none",
         \A d \in Documents : c.staged[d] \in {0, committer[p].staged[d]},
         committer' = [committer EXCEPT ![p] = c], UNCHANGED <<repoVars, texts>>
  PROVE  CommitInv'
<1>1. /\ committer' = [q \in Committers |-> IF q = p THEN c ELSE committer[q]]
      /\ UNCHANGED <<work, index, tips, onBranch, stored, superseded, texts>>
  BY DEF CommitInv, CommitTypes, repoVars
<1>2. CommitTypes' /\ TipsAreStored'
  BY <1>1 DEF CommitInv, CommitTypes, TipsAreStored, Tip
<1>3. \A q \in Committers : IsACommit(committer'[q])
  BY <1>1 DEF CommitInv
<1>4. StagedTextsStay'
  BY <1>1 DEF CommitInv, StagedTextsStay
<1>5. StagedTextsAreStored'
  BY <1>1 DEF CommitInv, StagedTextsAreStored
<1>6. \A q \in Committers : IsACommit(committer[q])'
  BY <1>3 DEF IsACommit
<1>7. QED
  BY <1>2, <1>4, <1>5, <1>6 DEF CommitInv

(* What a record has to be like for a command that starts.                 *)
LEMMA StartedCommand ==
  ASSUME NEW c,
         c \in [pc : {"idle", "branch", "stage", "done"}, repo : Repos,
               mode : {"files", "everything", "subrepo"}, amend : BOOLEAN,
               files : SUBSET Documents, todo : SUBSET Documents,
               staged : [Documents -> Int],
               result : {"none", "committed", "nothing", "failed"}],
         c.repo = "root", c.mode # "subrepo", c.result = "none", c.staged = NothingStaged,
         c.files \subseteq PlanningDocs, c.todo \subseteq PlanningDocs
  PROVE  IsACommit(c)
<1>1. DocsOf("root") = PlanningDocs /\ \A d \in Documents : NothingStaged[d] = 0
  BY DEF PlanningDocs, DocsOf, NothingStaged
<1>2. QED
  BY <1>1 DEF IsACommit

LEMMA StartCommitInv ==
  ASSUME CommitInv, NEW p \in Committers, StartCommit(p) PROVE CommitInv'
<1>1. PICK mode \in {"files", "everything"}, files \in SUBSET PlanningDocs,
           amend \in BOOLEAN :
        Proceed(p, [Quiet EXCEPT !.pc = IF strategy = "none" \/ mode = "everything"
                                        THEN "stage" ELSE "branch",
                                 !.mode = mode, !.amend = amend, !.files = files,
                                 !.todo = IF files = {} THEN PlanningDocs ELSE files])
  BY ZenonT(30) DEF StartCommit
<1> DEFINE pc == IF strategy = "none" \/ mode = "everything" THEN "stage" ELSE "branch"
           todo == IF files = {} THEN PlanningDocs ELSE files
<1>2. pc \in {"stage", "branch"} /\ todo \in SUBSET PlanningDocs
  OBVIOUS
<1>3. PICK c : /\ c = [Quiet EXCEPT !.pc = pc, !.mode = mode, !.amend = amend,
                                    !.files = files, !.todo = todo]
               /\ committer' = [committer EXCEPT ![p] = c]
  BY <1>1 DEF Proceed
<1> HIDE DEF pc, todo
<1>4. c = [pc |-> pc, mode |-> mode, files |-> files, todo |-> todo, repo |-> "root",
           amend |-> amend, staged |-> NothingStaged, result |-> "none"]
  BY <1>3 DEF Quiet
<1>5. PlanningDocs \subseteq Documents /\ NothingStaged \in [Documents -> Int]
      /\ "root" \in Repos
  BY QuietCommand DEF PlanningDocs, NothingStaged
<1>6. c \in [pc : {"idle", "branch", "stage", "done"}, repo : Repos,
            mode : {"files", "everything", "subrepo"}, amend : BOOLEAN,
            files : SUBSET Documents, todo : SUBSET Documents,
            staged : [Documents -> Int], result : {"none", "committed", "nothing", "failed"}]
  BY <1>2, <1>4, <1>5
<1>7. /\ c.repo = "root" /\ c.mode # "subrepo" /\ c.result = "none"
      /\ c.staged = NothingStaged
      /\ c.files \subseteq PlanningDocs /\ c.todo \subseteq PlanningDocs
  BY <1>2, <1>4
<1>8. IsACommit(c)
  BY <1>6, <1>7, StartedCommand
<1>9. QED
  BY <1>3, <1>7, <1>8, CommandGoesOn DEF StartCommit, NothingStaged

LEMMA BeginRepoInv ==
  ASSUME CommitInv, NEW p \in Committers, NEW r \in Repos \ {"root"},
         NEW files \in SUBSET (Documents \ PlanningDocs),
         BeginRepo(p, r, files), UNCHANGED <<repoVars, texts>>
  PROVE  CommitInv'
<1> DEFINE c == [Quiet EXCEPT !.pc = "stage", !.mode = "subrepo", !.repo = r,
                              !.files = files, !.todo = {d \in files : RepoOf[d] = r}]
<1>1. IsACommit(c) /\ c.result = "none" /\ c.staged = NothingStaged
  BY QuietCommand DEF IsACommit, Quiet, NothingStaged, DocsOf
<1>2. committer' = [committer EXCEPT ![p] = c]
  BY DEF BeginRepo, Proceed
<1> HIDE DEF c
<1>3. QED
  BY <1>1, <1>2, CommandGoesOn DEF NothingStaged

LEMMA StartSubrepoInv ==
  ASSUME CommitInv, NEW p \in Committers, StartSubrepoCommit(p) PROVE CommitInv'
<1>1. PICK files \in SUBSET (Documents \ PlanningDocs), r \in Repos :
        /\ \E d \in files : RepoOf[d] = r
        /\ BeginRepo(p, r, files)
  BY DEF StartSubrepoCommit
<1>2. r # "root"
  BY <1>1 DEF PlanningDocs
<1>3. QED
  BY <1>1, <1>2, BeginRepoInv DEF StartSubrepoCommit

LEMMA NextRepoInv ==
  ASSUME CommitInv, NEW p \in Committers, NextRepo(p) PROVE CommitInv'
<1> DEFINE rest == {d \in committer[p].files : RepoOf[d] # committer[p].repo}
<1>1. PICK d \in rest : BeginRepo(p, RepoOf[d], rest)
  BY DEF NextRepo
<1>2. rest \subseteq Documents \ PlanningDocs
  BY DEF NextRepo, CommitInv, IsACommit
<1>3. RepoOf[d] \in Repos \ {"root"}
  BY <1>2 DEF PlanningDocs, Repos
<1>4. QED
  BY <1>1, <1>2, <1>3, BeginRepoInv DEF NextRepo

LEMMA EndCommitInv ==
  ASSUME CommitInv, NEW p \in Committers, EndCommit(p) PROVE CommitInv'
BY QuietCommand, CommandGoesOn DEF EndCommit, Proceed, NothingStaged

-----------------------------------------------------------------------------
(* What a switch of branches replaces is what the tip had.                 *)
LEMMA SwitchFacts ==
  ASSUME CommitInv, NEW branch \in Branches, Checkout(branch), NEW d \in Documents
  PROVE  /\ index'[d] # index[d] => index[d] \in {0} \cup stored[d]
         /\ work'[d] # work[d] => /\ work[d] \in {0} \cup stored[d]
                                  /\ \/ onBranch' # onBranch
                                     \/ onBranch["root"] = branch
         /\ index'[d] # index[d] => onBranch' = [onBranch EXCEPT !["root"] = branch]
<1>1. Tip("root")[d] \in {0} \cup stored[d]
  BY QuietCommand DEF CommitInv, TipsAreStored
<1>2. CASE InTheWay(branch) # {}
  BY <1>2 DEF Checkout
<1>3. CASE InTheWay(branch) = {}
  <2>1. /\ onBranch' = [onBranch EXCEPT !["root"] = branch]
        /\ work' = SwitchedTo(branch, work) /\ index' = SwitchedTo(branch, index)
    BY <1>3 DEF Checkout
  <2>2. onBranch'["root"] = branch
    BY <2>1, QuietCommand DEF CommitInv, CommitTypes
  <2>3. ASSUME index'[d] # index[d] \/ work'[d] # work[d]
        PROVE  index[d] = Tip("root")[d] /\ work[d] = Tip("root")[d]
    <3>1. d \in PlanningDocs /\ Tip("root")[d] # tips[branch][d]
      BY <2>1, <2>3 DEF SwitchedTo, CommitInv, CommitTypes
    <3>2. QED
      BY <1>3, <3>1 DEF InTheWay
  <2>4. QED
    BY <1>1, <2>1, <2>2, <2>3
<1>4. QED
  BY <1>2, <1>3

(* A command reaches git add, having made or checked out a branch, or not. *)
LEMMA EnsureFacts ==
  ASSUME CommitInv, NEW p \in Committers, EnsureBranch(p)
  PROVE  \E branch \in Branches :
           \/ UNCHANGED <<onBranch, work, index, tips>>
           \/ /\ tips[branch] = NoBranchYet
              /\ tips' = [tips EXCEPT ![branch] = Tip("root")]
              /\ onBranch' = [onBranch EXCEPT !["root"] = branch]
              /\ UNCHANGED <<work, index>>
           \/ onBranch["root"] # branch /\ tips[branch] # NoBranchYet /\ Checkout(branch)
<1>1. PICK d \in committer[p].files :
        LET branch == BranchOf[d] IN
        IF onBranch["root"] = branch THEN UNCHANGED <<onBranch, work, index, tips>>
        ELSE IF tips[branch] = NoBranchYet
        THEN /\ tips' = [tips EXCEPT ![branch] = Tip("root")]
             /\ onBranch' = [onBranch EXCEPT !["root"] = branch]
             /\ UNCHANGED <<work, index>>
        ELSE Checkout(branch)
  BY DEF EnsureBranch
<1>2. BranchOf[d] \in Branches
  BY DEF EnsureBranch, Does, CommitInv, IsACommit, Branches
<1>3. QED
  BY <1>1, <1>2

LEMMA EnsureInvariant ==
  ASSUME CommitInv, NEW p \in Committers, EnsureBranch(p) PROVE CommitInv'
<1>0. PICK branch \in Branches :
        \/ UNCHANGED <<onBranch, work, index, tips>>
        \/ /\ tips[branch] = NoBranchYet
           /\ tips' = [tips EXCEPT ![branch] = Tip("root")]
           /\ onBranch' = [onBranch EXCEPT !["root"] = branch]
           /\ UNCHANGED <<work, index>>
        \/ onBranch["root"] # branch /\ tips[branch] # NoBranchYet /\ Checkout(branch)
  BY EnsureFacts
<1> DEFINE c == [committer[p] EXCEPT !.pc = "stage"]
<1>1. /\ committer' = [q \in Committers |-> IF q = p THEN c ELSE committer[q]]
      /\ committer[p].pc = "branch"
      /\ UNCHANGED <<texts, stored, superseded>>
  BY DEF EnsureBranch, Proceed, Does, CommitInv, CommitTypes
<1>2. IsACommit(c) /\ c.staged = committer[p].staged /\ c.result = "none"
  BY <1>1 DEF CommitInv, IsACommit
<1>3. \A q \in Committers : /\ IsACommit(committer'[q])
                            /\ committer'[q].staged = committer[q].staged
                            /\ committer'[q].result = committer[q].result
  BY <1>1, <1>2 DEF CommitInv, IsACommit
<1> HIDE DEF c
<1>4. ASSUME NEW b \in Branches PROVE SwitchedTo(b, work) \in [Documents -> Int]
                                      /\ SwitchedTo(b, index) \in [Documents -> Int]
  BY DEF SwitchedTo, CommitInv, CommitTypes
<1>5. Tip("root") \in [Documents -> Int]
  BY QuietCommand DEF Tip, CommitInv, CommitTypes
<1>6. CommitTypes'
  <2>1. /\ work' \in [Documents -> Int] /\ index' \in [Documents -> Int]
        /\ tips' \in [Branches -> [Documents -> Int]] /\ onBranch' \in [Repos -> Branches]
    BY <1>0, <1>4, <1>5 DEF Checkout, CommitInv, CommitTypes
  <2>2. QED
    BY <1>1, <2>1 DEF CommitInv, CommitTypes
<1>7. TipsAreStored'
  <2>1. \A d \in Documents : Tip("root")[d] \in {0} \cup stored[d]
    BY QuietCommand DEF CommitInv, TipsAreStored
  <2>2. ASSUME NEW b \in Branches
        PROVE  tips'[b] = NoBranchYet \/ \A d \in Documents : tips'[b][d] \in {0} \cup stored[d]
    BY <1>0, <2>1 DEF Checkout, CommitInv, CommitTypes, TipsAreStored
  <2>3. ASSUME NEW r \in Repos, NEW d \in Documents
        PROVE  tips'[onBranch'[r]][d] \in {0} \cup stored[d]
    <3>1. tips[onBranch[r]][d] \in {0} \cup stored[d] /\ onBranch[r] \in Branches
      BY DEF CommitInv, CommitTypes, TipsAreStored, Tip
    <3>2. CASE UNCHANGED <<onBranch, tips>>
      BY <3>1, <3>2
    <3>3. CASE /\ tips' = [tips EXCEPT ![branch] = Tip("root")]
               /\ onBranch' = [onBranch EXCEPT !["root"] = branch]
      BY <2>1, <3>1, <3>3 DEF CommitInv, CommitTypes
    <3>4. CASE /\ tips[branch] # NoBranchYet /\ tips' = tips
               /\ onBranch' = [onBranch EXCEPT !["root"] = branch]
      <4>1. tips[branch][d] \in {0} \cup stored[d]
        BY <3>4 DEF CommitInv, TipsAreStored
      <4>2. QED
        BY <3>1, <3>4, <4>1 DEF CommitInv, CommitTypes
    <3>5. QED
      BY <1>0, <3>2, <3>3, <3>4 DEF Checkout
  <2>4. QED
    BY <1>1, <2>2, <2>3 DEF TipsAreStored, Tip, NoBranchYet
<1>8. StagedTextsStay'
  <2>1. ASSUME NEW d \in Documents, index'[d] # index[d]
        PROVE  index[d] \in {0} \cup stored[d]
    BY <1>0, <2>1, SwitchFacts
  <2>2. QED
    BY <1>1, <1>3, <2>1 DEF CommitInv, StagedTextsStay
<1>9. StagedTextsAreStored'
  BY <1>1, <1>3 DEF CommitInv, StagedTextsAreStored
<1>10. \A q \in Committers : IsACommit(committer[q])'
  BY <1>3 DEF IsACommit
<1>11. QED
  BY <1>6, <1>7, <1>8, <1>9, <1>10 DEF CommitInv

-----------------------------------------------------------------------------
(* git add of documents of the command's repository.                       *)
LEMMA AddInv ==
  ASSUME CommitInv, NEW p \in Committers, committer[p].pc = "stage",
         NEW docs \in SUBSET DocsOf(committer[p].repo), Add(p, docs),
         UNCHANGED <<work, tips, onBranch, texts, stored>>
  PROVE  CommitInv'
<1> DEFINE c == [committer[p] EXCEPT
                   !.staged = [d \in Documents |-> IF d \in docs THEN work[d] ELSE @[d]],
                   !.todo = @ \ docs]
<1>1. /\ index' = [d \in Documents |-> IF d \in docs THEN work[d] ELSE index[d]]
      /\ superseded' = [d \in Documents |->
                          IF d \in docs /\ index[d] # work[d]
                          THEN superseded[d] \cup {index[d]} ELSE superseded[d]]
  BY DEF Add
<1>2. committer' = [q \in Committers |-> IF q = p THEN c ELSE committer[q]]
  BY DEF Add, CommitInv, CommitTypes, IsACommit
<1>3. /\ IsACommit(c) /\ c.result = "none"
      /\ \A d \in Documents : c.staged[d] = IF d \in docs THEN work[d] ELSE committer[p].staged[d]
  <2>1. IsACommit(committer[p]) /\ work \in [Documents -> Int]
    BY DEF CommitInv, CommitTypes
  <2>2. docs \subseteq Documents
    BY DEF DocsOf
  <2>3. QED
    BY <2>1, <2>2 DEF IsACommit
<1> HIDE DEF c
<1>4. CommitTypes'
  BY <1>1, <1>2 DEF CommitInv, CommitTypes
<1>5. TipsAreStored'
  BY DEF CommitInv, TipsAreStored, Tip
<1>6. \A q \in Committers : IsACommit(committer[q])'
  BY <1>2, <1>3 DEF CommitInv, IsACommit
<1>7. StagedTextsStay'
  <2> SUFFICES ASSUME NEW q \in Committers, NEW d \in Documents
               PROVE  committer'[q].staged[d]
                        \in {0, index'[d]} \cup stored[d] \cup superseded'[d]
    BY DEF StagedTextsStay
  <2>1. committer[q].staged[d] \in {0, index[d]} \cup stored[d] \cup superseded[d]
    BY DEF CommitInv, StagedTextsStay
  <2>2. /\ superseded[d] \subseteq superseded'[d]
        /\ index[d] = index'[d] \/ index[d] \in superseded'[d]
    BY <1>1
  <2>3. \/ committer'[q].staged[d] = committer[q].staged[d]
        \/ committer'[q].staged[d] = index'[d]
    BY <1>1, <1>2, <1>3
  <2>4. QED
    BY <2>1, <2>2, <2>3
<1>8. StagedTextsAreStored'
  BY <1>1, <1>2, <1>3 DEF CommitInv, StagedTextsAreStored
<1>9. QED
  BY <1>4, <1>5, <1>6, <1>7, <1>8 DEF CommitInv

LEMMA StageSkipped ==
  ASSUME CommitInv, NEW p \in Committers, committer[p].pc = "stage",
         NEW todo \in SUBSET committer[p].todo,
         committer' = [committer EXCEPT ![p].todo = todo], UNCHANGED <<repoVars, texts>>
  PROVE  CommitInv'
<1> DEFINE c == [committer[p] EXCEPT !.todo = todo]
<1>1. IsACommit(c) /\ c.result = "none" /\ c.staged = committer[p].staged
  BY DEF CommitInv, IsACommit
<1>2. committer' = [committer EXCEPT ![p] = c]
  BY DEF CommitInv, CommitTypes
<1> HIDE DEF c
<1>3. QED
  BY <1>1, <1>2, CommandGoesOn

LEMMA StageFileInv ==
  ASSUME CommitInv, NEW p \in Committers, StageFile(p) PROVE CommitInv'
<1>1. PICK d \in committer[p].todo :
        IF work[d] = 0 /\ committer[p].mode = "files"
        THEN /\ committer' = [committer EXCEPT ![p].todo = @ \ {d}]
             /\ UNCHANGED <<index, superseded>>
        ELSE Add(p, {d})
  BY DEF StageFile
<1>2. /\ committer[p].pc = "stage" /\ {d} \in SUBSET DocsOf(committer[p].repo)
      /\ UNCHANGED <<work, tips, onBranch, texts, stored>>
  BY DEF StageFile, Does, CommitInv, IsACommit
<1>3. CASE committer' = [committer EXCEPT ![p].todo = @ \ {d}] /\ UNCHANGED <<index, superseded>>
  <2>1. committer' = [committer EXCEPT ![p].todo = committer[p].todo \ {d}]
    BY <1>3 DEF CommitInv, CommitTypes
  <2>2. UNCHANGED repoVars
    BY <1>2, <1>3 DEF repoVars
  <2>3. committer[p].todo \ {d} \in SUBSET committer[p].todo
    OBVIOUS
  <2>4. QED
    BY <1>2, <2>1, <2>2, <2>3, StageSkipped
<1>4. CASE Add(p, {d})
  BY <1>2, <1>4, AddInv
<1>5. QED
  BY <1>1, <1>3, <1>4

LEMMA StageEverythingInv ==
  ASSUME CommitInv, NEW p \in Committers, StageEverything(p) PROVE CommitInv'
<1>1. /\ committer[p].pc = "stage" /\ UNCHANGED <<work, tips, onBranch, texts, stored>>
      /\ committer[p].repo = "root"
  BY DEF StageEverything, Does, CommitInv, IsACommit
<1>2. CASE Add(p, PlanningDocs)
  <2>1. PlanningDocs \in SUBSET DocsOf(committer[p].repo)
    BY <1>1 DEF PlanningDocs, DocsOf
  <2>2. QED
    BY <1>1, <1>2, <2>1, AddInv
<1>3. CASE committer' = [committer EXCEPT ![p].todo = {}] /\ UNCHANGED <<index, superseded>>
  <2>1. {} \in SUBSET committer[p].todo /\ UNCHANGED repoVars
    BY <1>1, <1>3 DEF repoVars
  <2>2. QED
    BY <1>1, <1>3, <2>1, StageSkipped
<1>4. QED
  BY <1>2, <1>3 DEF StageEverything

LEMMA GitCommitInv ==
  ASSUME CommitInv, NEW p \in Committers, GitCommit(p) PROVE CommitInv'
<1> DEFINE r == committer[p].repo
           ended(result) == [committer[p] EXCEPT !.pc = "done", !.result = result]
<1>1. /\ committer[p].pc = "stage" /\ r \in Repos
      /\ UNCHANGED <<work, index, onBranch, texts, superseded>>
  BY DEF GitCommit, Does, CommitInv, IsACommit
<1>2. PICK result \in {"committed", "nothing", "failed"} :
        /\ committer' = [q \in Committers |-> IF q = p THEN ended(result) ELSE committer[q]]
        /\ IF result = "committed"
             THEN /\ tips' = [tips EXCEPT ![onBranch[r]] = Recorded(r)]
                  /\ stored' = [d \in Documents |->
                                  IF d \in DocsOf(r) THEN stored[d] \cup {Recorded(r)[d]}
                                  ELSE stored[d]]
             ELSE UNCHANGED <<tips, stored>>
        /\ result = "nothing" => DirtyIn(r) = {}
  BY ZenonT(20) DEF GitCommit, Proceed, CommitInv, CommitTypes
<1>3. /\ IsACommit(ended(result)) /\ ended(result).staged = committer[p].staged
      /\ ended(result).result = result
  BY <1>1 DEF CommitInv, IsACommit
<1> HIDE DEF ended
<1>4. Tip(r) \in [Documents -> Int] /\ \A d \in Documents : Tip(r)[d] \in {0} \cup stored[d]
  BY <1>1 DEF CommitInv, CommitTypes, TipsAreStored, Tip
<1>5. /\ Recorded(r) \in [Documents -> Int]
      /\ \A d \in Documents : Recorded(r)[d] = IF d \in DocsOf(r) THEN index[d] ELSE Tip(r)[d]
  BY <1>4 DEF Recorded, CommitInv, CommitTypes
<1> HIDE DEF r
<1>6. /\ stored' \in [Documents -> SUBSET Int]
      /\ \A d \in Documents : stored[d] \subseteq stored'[d]
      /\ result = "committed" => \A d \in DocsOf(r) : index[d] \in stored'[d]
  <2>1. DocsOf(r) \subseteq Documents
    BY DEF DocsOf
  <2>2. QED
    BY <1>2, <1>5, <2>1 DEF CommitInv, CommitTypes
<1>7. CommitTypes'
  BY <1>1, <1>2, <1>5, <1>6 DEF CommitInv, CommitTypes
<1>8. TipsAreStored'
  <2>1. ASSUME NEW b \in Branches, tips'[b] # tips[b]
        PROVE  \A d \in Documents : tips'[b][d] \in {0} \cup stored'[d]
    <3>1. result = "committed" /\ tips'[b] = Recorded(r)
      BY <1>2, <2>1 DEF CommitInv, CommitTypes
    <3>2. QED
      BY <1>4, <1>5, <1>6, <3>1
  <2>2. ASSUME NEW b \in Branches
        PROVE  tips'[b] = NoBranchYet \/ \A d \in Documents : tips'[b][d] \in {0} \cup stored'[d]
    BY <1>6, <2>1 DEF CommitInv, TipsAreStored
  <2>3. ASSUME NEW s \in Repos, NEW d \in Documents
        PROVE  tips'[onBranch[s]][d] \in {0} \cup stored'[d]
    <3>1. tips[onBranch[s]][d] \in {0} \cup stored[d] /\ onBranch[s] \in Branches
      BY DEF CommitInv, CommitTypes, TipsAreStored, Tip
    <3>2. QED
      BY <1>6, <2>1, <3>1
  <2>4. QED
    BY <1>1, <2>2, <2>3 DEF TipsAreStored, Tip, NoBranchYet
<1>9. \A q \in Committers : IsACommit(committer[q])'
  BY <1>2, <1>3 DEF CommitInv, IsACommit
<1>10. \A q \in Committers : committer'[q].staged = committer[q].staged
  BY <1>2, <1>3
<1>11. StagedTextsStay'
  BY <1>1, <1>6, <1>10 DEF CommitInv, StagedTextsStay
<1>12. StagedTextsAreStored'
  <2> SUFFICES ASSUME NEW q \in Committers, committer'[q].result \in {"committed", "nothing"},
                      NEW d \in Documents
               PROVE  committer'[q].staged[d] \in {0} \cup stored'[d] \cup superseded[d]
    BY <1>1 DEF StagedTextsAreStored
  <2>1. CASE q # p
    BY <1>2, <1>6, <2>1 DEF CommitInv, StagedTextsAreStored
  <2>2. CASE q = p
    <3>1. result \in {"committed", "nothing"}
      BY <1>2, <1>3, <2>2
    <3>2. committer[p].staged[d] \in {0, index[d]} \cup stored[d] \cup superseded[d]
      BY DEF CommitInv, StagedTextsStay
    <3>3. committer[p].staged[d] # 0 => d \in DocsOf(r)
      BY DEF CommitInv, IsACommit, r
    <3>4. d \in DocsOf(r) => index[d] \in {0} \cup stored'[d]
      BY <1>2, <1>4, <1>6, <3>1 DEF DirtyIn
    <3>5. QED
      BY <1>6, <1>10, <2>2, <3>2, <3>3, <3>4
  <2>3. QED
    BY <2>1, <2>2
<1>13. QED
  BY <1>7, <1>8, <1>9, <1>11, <1>12 DEF CommitInv

LEMMA DocumentInv ==
  ASSUME CommitInv, NEW d \in Documents, WriteDocument(d) \/ RemoveDocument(d)
  PROVE  CommitInv'
<1>1. work' \in [Documents -> Int] /\ texts' \in Int
  BY DEF WriteDocument, RemoveDocument, CommitInv, CommitTypes
<1>2. UNCHANGED <<index, tips, onBranch, stored, superseded, committer>>
  BY DEF WriteDocument, RemoveDocument
<1>3. QED
  BY <1>1, <1>2 DEF CommitInv, CommitTypes, TipsAreStored, Tip, StagedTextsStay,
                    StagedTextsAreStored, IsACommit

LEMMA CommitsNextInv == CommitInv /\ [CommitsNext]_commitVars => CommitInv'
<1> SUFFICES ASSUME CommitInv, [CommitsNext]_commitVars PROVE CommitInv'
  OBVIOUS
<1>1. CASE UNCHANGED commitVars
  BY <1>1 DEF commitVars, CommitInv, CommitTypes, TipsAreStored, Tip, StagedTextsStay,
              StagedTextsAreStored, IsACommit
<1>2. ASSUME NEW p \in Committers,
             \/ StartCommit(p) \/ EnsureBranch(p) \/ StageFile(p) \/ StageEverything(p)
             \/ GitCommit(p) \/ StartSubrepoCommit(p) \/ NextRepo(p) \/ EndCommit(p)
      PROVE  CommitInv'
  BY <1>2, StartCommitInv, EnsureInvariant, StageFileInv, StageEverythingInv, GitCommitInv,
     StartSubrepoInv, NextRepoInv, EndCommitInv
<1>3. ASSUME NEW d \in Documents, WriteDocument(d) \/ RemoveDocument(d) PROVE CommitInv'
  BY <1>3, DocumentInv
<1>4. QED
  BY <1>1, <1>2, <1>3 DEF CommitsNext

-----------------------------------------------------------------------------
(* The files on disk change by hand, and where a branch is checked out.    *)
LEMMA EditsStay == CommitInv /\ [CommitsNext]_commitVars => EditsStayOnDisk
<1> SUFFICES ASSUME CommitInv, [CommitsNext]_commitVars,
                    NEW d \in Documents, work'[d] # work[d]
             PROVE  \/ texts' # texts \/ (work'[d] = 0 /\ onBranch' = onBranch)
                    \/ work[d] \in {0} \cup stored[d]
  BY DEF EditsStayOnDisk
<1>1. work' # work
  OBVIOUS
<1>2. CASE \E e \in Documents : WriteDocument(e)
  BY <1>2 DEF WriteDocument, CommitInv, CommitTypes
<1>3. CASE \E e \in Documents : RemoveDocument(e)
  BY <1>3 DEF RemoveDocument, CommitInv, CommitTypes
<1>4. CASE \E p \in Committers : EnsureBranch(p)
  <2>1. PICK branch \in Branches : onBranch["root"] # branch /\ Checkout(branch)
    BY <1>1, <1>4, EnsureFacts
  <2>2. QED
    BY <2>1, SwitchFacts
<1>5. QED
  BY <1>1, <1>2, <1>3, <1>4
     DEF CommitsNext, commitVars, repoVars, StartCommit, StageFile, StageEverything, GitCommit,
         StartSubrepoCommit, NextRepo, EndCommit

(* The index changes in git add, and where a branch is checked out.        *)
LEMMA DeletionsAreOfEverything ==
  CommitInv /\ [CommitsNext]_commitVars => OnlyEverythingDeletes
<1> SUFFICES ASSUME CommitInv, [CommitsNext]_commitVars, NEW d \in PlanningDocs,
                    index[d] # 0, index'[d] = 0, onBranch' = onBranch
             PROVE  \E p \in Committers : committer[p].mode = "everything"
  BY DEF OnlyEverythingDeletes
<1>1. index' # index /\ d \in Documents
  BY DEF PlanningDocs
<1>2. ASSUME NEW p \in Committers, EnsureBranch(p) PROVE FALSE
  <2>1. PICK branch \in Branches : onBranch["root"] # branch /\ Checkout(branch)
    BY <1>1, <1>2, EnsureFacts
  <2>2. onBranch' = [onBranch EXCEPT !["root"] = branch]
    BY <1>1, <2>1, SwitchFacts
  <2>3. QED
    BY <2>1, <2>2, QuietCommand DEF CommitInv, CommitTypes
<1>3. ASSUME NEW p \in Committers, StageFile(p) PROVE FALSE
  <2>1. PICK e \in committer[p].todo :
          IF work[e] = 0 /\ committer[p].mode = "files"
          THEN UNCHANGED index ELSE Add(p, {e})
    BY <1>3 DEF StageFile
  <2>2. e = d /\ work[e] = 0 /\ committer[p].mode # "files"
    BY <1>1, <2>1 DEF Add, CommitInv, CommitTypes
  <2>3. committer[p].mode = "subrepo" /\ IsACommit(committer[p])
    BY <1>3, <2>2 DEF StageFile, CommitInv, IsACommit
  <2>4. QED
    BY <2>2, <2>3 DEF IsACommit, DocsOf, PlanningDocs
<1>4. CASE \E p \in Committers : StageEverything(p)
  BY <1>4 DEF StageEverything
<1>5. QED
  BY <1>1, <1>2, <1>3, <1>4
     DEF CommitsNext, commitVars, repoVars, StartCommit, GitCommit, StartSubrepoCommit,
         NextRepo, EndCommit, WriteDocument, RemoveDocument

(* For any agents, documents, repositories and branches: what a command    *)
(* said it committed is in a commit, and no switch of branches and no      *)
(* commit of named files takes a text away.                                *)
THEOREM CommitsKeepTexts == CommitsSpec => NoTextIsLost
<1>1. CommitInv /\ CommitInv' /\ [CommitsNext]_commitVars =>
        [EditsStayOnDisk /\ OnlyEverythingDeletes /\ StagedTextsAreStored']_commitVars
  BY EditsStay, DeletionsAreOfEverything DEF CommitInv
<1>2. QED
  BY <1>1, CommitsInitInv, CommitsNextInv, PTL DEF CommitsSpec, NoTextIsLost

-----------------------------------------------------------------------------
(***************************************************************************)
(* The repairs of validate health for any damage: no repair takes anything *)
(* away, and two of them leave nothing that a repair is for.               *)
(***************************************************************************)

(* After one repair only the key that the defaults lack can be missing.    *)
OneIsLeft ==
    /\ repairsInRow = 1 => Repairable \subseteq {"W016"}
    /\ repairsInRow > 0 => Unregistered = {}

HealthInv ==
    /\ config \in Configs /\ repairsInRow \in 0 .. 2
    /\ archive \subseteq Versions
    /\ OneIsLeft /\ TwoRepairsSuffice

(* The checks that a repair exists for, one by one.                        *)
LEMMA RepairableCodes ==
  /\ "E004" \in Repairable <=> stateFile = "missing"
  /\ "W003" \in Repairable <=> config = {}
  /\ "E005" \in Repairable <=> "broken" \in config
  /\ "W008" \in Repairable <=> LacksKey("nyquist_validation")
  /\ "W016" \in Repairable <=> LacksKey("ai_integration_phase")
  /\ "W018" \in Repairable <=> Unregistered # {}
  /\ Repairable \subseteq {"E004", "W003", "E005", "W008", "W016", "W018"}
BY DEF Repairable, Codes

LEMMA KnownConfigs ==
  ASSUME config \in Configs
  PROVE  /\ config = {} \/ config = {"broken"} \/ "json" \in config
         /\ config \subseteq ConfigParts \cup {"broken"}
         /\ "json" \in config => "broken" \notin config
         /\ config \cap WorkflowKeys # {} => "workflow" \in config
BY DEF Configs, ConfigParts, WorkflowKeys

LEMMA RepairedConfigs ==
  ASSUME config \in Configs, NEW done \in SUBSET Repairable
  PROVE  /\ RepairedConfig(done) \in Configs
         /\ "json" \in config => config \subseteq RepairedConfig(done)
<1>1. CASE done \cap {"W003", "E005"} # {}
  <2>1. config = {} \/ "broken" \in config
    BY <1>1, RepairableCodes
  <2>2. "json" \notin config
    BY <2>1, KnownConfigs
  <2>3. RepairedConfig(done) = DefaultConfig
    BY <1>1 DEF RepairedConfig
  <2>4. DefaultConfig \in Configs
    BY DEF DefaultConfig, Configs, ConfigParts, WorkflowKeys
  <2>5. QED
    BY <2>2, <2>3, <2>4
<1>2. CASE done \cap {"W003", "E005"} = {}
  <2> DEFINE wanted == (IF "W008" \in done THEN {"nyquist_validation"} ELSE {})
                      \cup (IF "W016" \in done THEN {"ai_integration_phase"} ELSE {})
  <2>1. RepairedConfig(done) = config \cup wanted /\ wanted \subseteq WorkflowKeys
    BY <1>2 DEF RepairedConfig, WorkflowKeys
  <2>2. wanted # {} => "workflow" \in config
    BY RepairableCodes DEF LacksKey
  <2> HIDE DEF wanted
  <2>3. CASE wanted = {}
    BY <2>1, <2>3
  <2>4. CASE wanted # {}
    <3>1. "json" \in config /\ config \subseteq ConfigParts /\ "workflow" \in config
      BY <2>2, <2>4, KnownConfigs DEF ConfigParts, WorkflowKeys
    <3>2. QED
      BY <2>1, <3>1 DEF Configs, ConfigParts
  <2>5. QED
    BY <2>3, <2>4
<1>3. QED
  BY <1>1, <1>2

LEMMA VersionsArePrefixes == \A v \in Versions : IsPrefix(v, v)
BY HealthAssumption DEF IsPrefix

LEMMA HealthInitInv == HealthInit => HealthInv
<1> SUFFICES ASSUME HealthInit PROVE HealthInv
  OBVIOUS
<1>1. config \in Configs
  BY DEF HealthInit, Configs, ConfigParts, WorkflowKeys
<1>2. QED
  BY <1>1 DEF HealthInit, HealthInv, OneIsLeft, TwoRepairsSuffice

(* What a repair in which nothing threw leaves to be repaired.             *)
LEMMA RepairedAll ==
  ASSUME HealthInv, archive' = archive,
         stateFile' = IF "E004" \in Repairable THEN "minimal" ELSE stateFile,
         config' = RepairedConfig(Repairable),
         registry' = registry \cup Unregistered
  PROVE  /\ Repairable' \subseteq {"W016"} /\ Unregistered' = {}
         /\ Repairable \subseteq {"W016"} => Repairable' = {}
<1>1. Unregistered' = {}
  <2> SUFFICES ASSUME NEW v \in archive PROVE \E r \in registry' : IsPrefix(v, r)
    BY DEF Unregistered, Registered
  <2>1. CASE v \in Unregistered
    BY <2>1, VersionsArePrefixes DEF HealthInv
  <2>2. CASE v \notin Unregistered
    BY <2>2 DEF Unregistered, Registered
  <2>3. QED
    BY <2>1, <2>2
<1>2. "E004" \notin Repairable'
  BY RepairableCodes DEF Repairable, Codes
<1>3. config' \in Configs
  BY RepairedConfigs DEF HealthInv
<1>4. /\ config' # {} /\ "broken" \notin config'
      /\ "workflow" \in config' => "nyquist_validation" \in config'
  <2>1. CASE Repairable \cap {"W003", "E005"} # {}
    BY <2>1 DEF RepairedConfig, DefaultConfig
  <2>2. CASE Repairable \cap {"W003", "E005"} = {}
    <3>1. config # {} /\ "broken" \notin config
      BY <2>2, RepairableCodes
    <3>2. config' = config \cup (IF "W008" \in Repairable THEN {"nyquist_validation"} ELSE {})
                        \cup (IF "W016" \in Repairable THEN {"ai_integration_phase"} ELSE {})
      BY <2>2 DEF RepairedConfig
    <3>3. QED
      BY <3>1, <3>2, RepairableCodes DEF LacksKey
  <2>3. QED
    BY <2>1, <2>2
<1>5. /\ "W003" \in Repairable' <=> config' = {}
      /\ "E005" \in Repairable' <=> "broken" \in config'
      /\ "W008" \in Repairable' <=> LacksKey("nyquist_validation")'
      /\ "W016" \in Repairable' <=> LacksKey("ai_integration_phase")'
      /\ "W018" \in Repairable' <=> Unregistered' # {}
      /\ Repairable' \subseteq {"E004", "W003", "E005", "W008", "W016", "W018"}
  BY DEF Repairable, Codes
<1>6. Repairable' \subseteq {"W016"}
  BY <1>1, <1>2, <1>4, <1>5 DEF LacksKey
<1>7. ASSUME Repairable \subseteq {"W016"} PROVE "W016" \notin Repairable'
  <2>1. config' = config \cup (IF "W016" \in Repairable THEN {"ai_integration_phase"} ELSE {})
    BY <1>7 DEF RepairedConfig
  <2>2. "workflow" \in config' => "workflow" \in config
    BY <2>1
  <2>3. QED
    BY <1>5, <2>1, <2>2, RepairableCodes DEF LacksKey
<1>8. QED
  BY <1>1, <1>6, <1>7

LEMMA RepairFacts ==
  ASSUME HealthInv, Repair
  PROVE  /\ stateFile # "missing" => stateFile' = stateFile
         /\ "json" \in config => config \subseteq config'
         /\ registry \subseteq registry'
         /\ HealthInv'
<1>1. PICK failed \in SUBSET Repairable :
       LET done == Repairable \ failed
       IN /\ stateFile' = IF "E004" \in done THEN "minimal" ELSE stateFile
          /\ config' = RepairedConfig(done)
          /\ \/ /\ "W018" \in done /\ registry' = registry \cup Unregistered
             \/ /\ "W018" \in failed
                /\ \E some \in SUBSET Unregistered : registry' = registry \cup some
             \/ /\ "W018" \notin Repairable /\ UNCHANGED registry
          /\ repairsInRow' = IF failed # {} THEN 0
                             ELSE IF repairsInRow < 2 THEN repairsInRow + 1 ELSE 2
          /\ archive' = archive
  BY DEF Repair
<1>2. /\ config' \in Configs
      /\ "json" \in config => config \subseteq config'
  BY <1>1, RepairedConfigs DEF HealthInv
<1>3. stateFile # "missing" => stateFile' = stateFile
  BY <1>1, RepairableCodes
<1>4. registry \subseteq registry'
  BY <1>1
<1>5. repairsInRow' \in 0 .. 2
  BY <1>1 DEF HealthInv
<1>6. ASSUME failed # {} PROVE HealthInv'
  BY <1>1, <1>2, <1>5, <1>6 DEF HealthInv, OneIsLeft, TwoRepairsSuffice
<1>7. ASSUME failed = {} PROVE HealthInv'
  <2>1. /\ stateFile' = IF "E004" \in Repairable THEN "minimal" ELSE stateFile
        /\ config' = RepairedConfig(Repairable)
        /\ repairsInRow' = IF repairsInRow < 2 THEN repairsInRow + 1 ELSE 2
    <3>1. Repairable \ failed = Repairable
      BY <1>7
    <3>2. QED
      BY <1>1, <1>7, <3>1
  <2>2. registry' = registry \cup Unregistered
    BY <1>1, <1>7, RepairableCodes
  <2>3. /\ Repairable' \subseteq {"W016"} /\ Unregistered' = {}
        /\ Repairable \subseteq {"W016"} => Repairable' = {}
    BY <1>1, <2>1, <2>2, RepairedAll
  <2>4. repairsInRow' = 2 => Repairable' = {}
    BY <2>1, <2>3 DEF HealthInv, OneIsLeft, TwoRepairsSuffice
  <2>5. QED
    BY <1>1, <1>2, <1>3, <1>4, <1>5, <2>3, <2>4 DEF HealthInv, OneIsLeft, TwoRepairsSuffice
<1>8. QED
  BY <1>2, <1>3, <1>4, <1>6, <1>7

LEMMA HealthNextInv == HealthInv /\ [HealthNext]_healthVars => HealthInv'
<1> SUFFICES ASSUME HealthInv, [HealthNext]_healthVars PROVE HealthInv'
  OBVIOUS
<1>1. CASE UNCHANGED <<stateFile, config, archive, registry, repairsInRow>> /\ planning' = planning
  <2>1. Unregistered' = Unregistered
    BY <1>1 DEF Unregistered, Registered
  <2>2. Repairable' = Repairable
    BY <1>1, <2>1 DEF Repairable, Codes, LacksKey
  <2>3. QED
    BY <1>1, <2>1, <2>2 DEF HealthInv, OneIsLeft, TwoRepairsSuffice
<1>2. CASE Repair
  BY <1>2, RepairFacts
<1>3. CASE LoseOrRestore
  <2>1. repairsInRow' = 0 /\ archive' = archive
    BY <1>3 DEF LoseOrRestore, EditFiles
  <2>2. config' \in Configs
    BY <1>3 DEF LoseOrRestore, HealthInv
  <2>3. QED
    BY <2>1, <2>2 DEF HealthInv, OneIsLeft, TwoRepairsSuffice
<1>4. ASSUME NEW v \in Versions, ArchiveMilestone(v) PROVE HealthInv'
  BY <1>4 DEF ArchiveMilestone, EditFiles, HealthInv, OneIsLeft, TwoRepairsSuffice
<1>5. QED
  BY <1>1, <1>2, <1>3, <1>4 DEF HealthNext, ReportHealth, healthVars

(* A milestone that is not missing has a heading that begins with it.      *)
LEMMA PrefixesAreMissed == HealthInv => OnlyPrefixesAreMissed
BY DEF HealthInv, OneIsLeft, Unregistered, Registered, OnlyPrefixesAreMissed

(* For any versions, damage and faults: no repair takes anything away, two *)
(* in a row leave nothing that a repair is for, and only an archived       *)
(* milestone that begins another one's version is missed.                  *)
THEOREM RepairsHold == HealthSpec => RepairsConverge
<1>1. HealthInv /\ [HealthNext]_healthVars => RepairsKeepWhatIsThere
  BY RepairFacts DEF RepairsKeepWhatIsThere
<1>2. HealthInv /\ HealthInv' /\ [HealthNext]_healthVars =>
        [/\ RepairsKeepWhatIsThere
         /\ TwoRepairsSuffice' /\ OnlyPrefixesAreMissed']_healthVars
  BY <1>1, PrefixesAreMissed, PTL DEF HealthInv
<1>3. QED
  BY <1>2, HealthInitInv, HealthNextInv, PTL DEF HealthSpec, RepairsConverge

-----------------------------------------------------------------------------
(***************************************************************************)
(* The values of the variables of each part, for any constants.            *)
(***************************************************************************)

(* ---------------------------- local patches ---------------------------- *)

(* The lines that a file may have in either release, with the user's.      *)
LinesOf(f) == OldRelease[f] \cup NewRelease[f] \cup UserLines[f]

PatchesFit ==
    \A f \in PatchedFiles :
       /\ {installed[f], backup[f]} \subseteq (SUBSET LinesOf(f)) \cup {NoCopy}
       /\ added[f] \subseteq UserLines[f]

LEMMA CustomizeFits ==
  ASSUME PatchesInv, PatchesFit, NEW f \in PatchedFiles, Customize(f)
  PROVE  PatchesFit'
<1>1. /\ DOMAIN installed = PatchedFiles /\ DOMAIN added = PatchedFiles
      /\ installed[f] # NoCopy
  BY DEF PatchesInv, PatchesTypes, OnFiles, AddedIsInstalled, Customize, NoCopy
<1>2. installed[f] \subseteq LinesOf(f)
  BY <1>1 DEF PatchesFit
<1>3. PICK l :
        /\ backup' = backup
        /\ \/ /\ l \in UserLines[f]
              /\ installed' = [installed EXCEPT ![f] = @ \cup {l}]
              /\ added' = [added EXCEPT ![f] = @ \cup {l}]
           \/ /\ installed' = [installed EXCEPT ![f] = @ \ {l}]
              /\ added' = [added EXCEPT ![f] = @ \ {l}]
  BY DEF Customize
<1>4. installed'[f] \subseteq LinesOf(f) /\ added'[f] \subseteq UserLines[f]
  BY <1>1, <1>2, <1>3 DEF PatchesFit, LinesOf
<1>5. \A g \in PatchedFiles \ {f} : installed'[g] = installed[g] /\ added'[g] = added[g]
  BY <1>1, <1>3
<1>6. QED
  BY <1>3, <1>4, <1>5 DEF PatchesFit

LEMMA PatchesStepFits ==
  ASSUME PatchesInv, PatchesFit, [PatchesNext]_patchVars PROVE PatchesFit'
<1>1. CASE UNCHANGED patchVars
  BY <1>1 DEF PatchesFit, patchVars
<1>2. ASSUME NEW f \in PatchedFiles, Customize(f) PROVE PatchesFit'
  BY <1>2, CustomizeFits
<1>3. ASSUME NEW f \in PatchedFiles, MergeBack(f) PROVE PatchesFit'
  <2>1. PICK merged \in (SUBSET (NewRelease[f] \cup backup[f])) \cup {NoCopy} :
          installed' = [installed EXCEPT ![f] = merged]
    BY <1>3 DEF MergeBack
  <2>2. backup' = backup /\ added' = added /\ backup[f] # NoCopy
    BY <1>3 DEF MergeBack
  <2>3. backup[f] \subseteq LinesOf(f) /\ DOMAIN installed = PatchedFiles
    BY <2>2 DEF PatchesFit, PatchesInv, PatchesTypes, OnFiles
  <2>4. merged \in (SUBSET LinesOf(f)) \cup {NoCopy}
    BY <2>1, <2>3 DEF LinesOf
  <2>5. \A g \in PatchedFiles : installed'[g] = IF g = f THEN merged ELSE installed[g]
    BY <2>1, <2>3
  <2>6. QED
    BY <2>2, <2>4, <2>5 DEF PatchesFit
<1>4. CASE Update
  BY <1>4 DEF Update, PatchesFit, LinesOf
<1>5. CASE Verify
  BY <1>5 DEF Verify, PatchesFit
<1>6. CASE Cleanup
  BY <1>6 DEF Cleanup, PatchesFit
<1>7. QED
  BY <1>1, <1>2, <1>3, <1>4, <1>5, <1>6 DEF PatchesNext

(* Backups and merges hold nothing but lines of the releases and the       *)
(* user's, a baseline is the old release as it was.                        *)
THEOREM PatchesTyped == PatchesSpec => []PatchesTypeOK
<1>1. PatchesInit => PatchesFit
  BY PatchesAssumption DEF PatchesInit, PatchesFit, LinesOf
<1>2. PatchesInv /\ PatchesFit /\ [PatchesNext]_patchVars => PatchesInv' /\ PatchesFit'
  BY PatchesNextInv, PatchesStepFits
<1>3. PatchesInv /\ PatchesFit => PatchesTypeOK
  BY DEF PatchesInv, PatchesTypes, PatchesFit, LinesOf, PatchesTypeOK
<1>4. QED
  BY <1>1, <1>2, <1>3, PatchesInitInv, PTL DEF PatchesSpec

(* ------------------------------- learnings ------------------------------ *)

(* The file that a learning is kept in comes from a section of a project,  *)
(* and lists files that had been written before it.                        *)
OfSections(f) ==
    /\ f.listing \subseteq 1..learnings
    /\ f.source_project \in Projects /\ f.learning \in Bodies

CommandTyped(c) ==
    /\ c.pc \in {"idle", "list", "compare", "judge", "unlink", "done", "failed"}
    /\ c.project \in Projects \cup {"none"}
    /\ c.pc \in {"list", "compare"} => c.project \in Projects
    /\ c.pc = "compare" => c.section <= Len(LearningsOf[c.project])
    /\ c.unread \subseteq 1..learnings /\ c.target \in 0..learnings

LearningsFit ==
    /\ \A f \in knowledge : OfSections(f)
    /\ today \in 0..MaxDays /\ storeCommands \in 0..MaxStoreCommands
    /\ \A u \in Learners : CommandTyped(learner[u])

(* A step of one command that leaves the files alone.                      *)
LEMMA LearnerFits ==
  ASSUME StoreInv, LearningsFit, NEW u \in Learners, NEW c, Step(u, c), CommandTyped(c),
         UNCHANGED <<knowledge, today, learnings>>, storeCommands' \in 0..MaxStoreCommands
  PROVE  LearningsFit'
<1>1. learner'[u] = c /\ \A v \in Learners \ {u} : learner'[v] = learner[v]
  BY DEF StoreInv, Step
<1>2. \A v \in Learners : CommandTyped(learner'[v])
  BY <1>1 DEF LearningsFit
<1>3. QED
  BY <1>2 DEF LearningsFit, OfSections, CommandTyped

(* A command that starts is counted.                                       *)
LEMMA StartFits ==
  ASSUME StoreInv, LearningsFit, NEW u \in Learners, NEW c,
         StartStoreCommand(u, c), CommandTyped(c)
  PROVE  LearningsFit'
<1>1. storeCommands' \in 0..MaxStoreCommands
  BY LearningsAssumption DEF StartStoreCommand, LearningsFit
<1>2. QED
  BY <1>1, LearnerFits DEF StartStoreCommand

LEMMA ListedIds == ASSUME StoreInv PROVE Ids \subseteq 1..learnings
BY DEF StoreInv, FileFits, Ids

LEMMA CopyFits ==
  ASSUME StoreInv, LearningsFit, NEW u \in Learners,
         \/ Copy(u) \/ ListForSection(u) \/ Compare(u) \/ StoreLearning(u)
  PROVE  LearningsFit'
<1> DEFINE c == learner[u]
<1>1. CommandTyped(c) /\ DOMAIN c = Fields /\ c.section \in Nat \ {0} /\ learnings \in Nat
  BY DEF StoreInv, CommandFits, LearningsFit
<1>2. CASE Copy(u)
  <2>1. PICK p \in Projects :
          StartStoreCommand(u, [NoCommand EXCEPT !.pc = "list", !.project = p])
    BY <1>2 DEF Copy
  <2>2. CommandTyped([NoCommand EXCEPT !.pc = "list", !.project = p])
    BY <1>1 DEF NoCommand, CommandTyped
  <2>3. QED
    BY <2>1, <2>2, StartFits
<1>3. CASE ListForSection(u)
  <2> DEFINE ended == [c EXCEPT !.pc = "done"]
             comparing == [c EXCEPT !.pc = "compare", !.listing = Ids, !.unread = Ids]
  <2>1. /\ c.pc = "list" /\ UNCHANGED <<knowledge, today, learnings, storeCommands>>
        /\ \/ Step(u, ended)
           \/ Step(u, comparing) /\ ~(c.section > Len(LearningsOf[c.project]))
    BY <1>3 DEF ListForSection
  <2>2. /\ ended.pc = "done" /\ ended.project = c.project /\ ended.unread = c.unread
        /\ ended.target = c.target
    BY <1>1, FieldNames
  <2>3. /\ comparing.pc = "compare" /\ comparing.project = c.project
        /\ comparing.section = c.section /\ comparing.unread = Ids
        /\ comparing.target = c.target
    BY <1>1, FieldNames
  <2> HIDE DEF ended, comparing
  <2>4. CommandTyped(ended)
    BY <1>1, <2>2 DEF CommandTyped
  <2>5. ~(c.section > Len(LearningsOf[c.project])) => CommandTyped(comparing)
    <3>1. SUFFICES ASSUME ~(c.section > Len(LearningsOf[c.project]))
                   PROVE  CommandTyped(comparing)
      OBVIOUS
    <3>2. c.project \in Projects
      BY <1>1, <2>1 DEF CommandTyped
    <3>3. Len(LearningsOf[c.project]) \in Nat
      BY <3>2, LearningsAssumption
    <3>4. c.section <= Len(LearningsOf[c.project])
      BY <1>1, <3>1, <3>3
    <3>5. QED
      BY <1>1, <2>3, <3>2, <3>4, ListedIds DEF CommandTyped
  <2>6. storeCommands' \in 0..MaxStoreCommands
    BY <2>1 DEF LearningsFit
  <2>7. QED
    BY <2>1, <2>4, <2>5, <2>6, LearnerFits
<1> DEFINE next == NextSection(c)
<1>4. /\ next.pc = "list" /\ next.project = c.project /\ next.unread = {}
      /\ next.target = c.target
  BY <1>1, FieldNames DEF NextSection
<1> HIDE DEF next
<1>5. c.pc = "compare" => CommandTyped(next)
  BY <1>1, <1>4 DEF CommandTyped
<1>6. CASE Compare(u)
  <2>1. PICK id : \/ Step(u, next)
                  \/ Step(u, [c EXCEPT !.unread = c.unread \ {id}])
    BY <1>6 DEF Compare, next
  <2> DEFINE rest == [c EXCEPT !.unread = c.unread \ {id}]
  <2>2. /\ rest.pc = c.pc /\ rest.project = c.project /\ rest.section = c.section
        /\ rest.unread = c.unread \ {id} /\ rest.target = c.target
    BY <1>1, FieldNames
  <2>3. Step(u, next) \/ Step(u, rest)
    BY <2>1
  <2> HIDE DEF rest
  <2>4. CommandTyped(rest)
    BY <1>1, <2>2 DEF CommandTyped
  <2>5. /\ c.pc = "compare" /\ UNCHANGED <<knowledge, today, learnings, storeCommands>>
        /\ storeCommands' \in 0..MaxStoreCommands
    BY <1>6 DEF Compare, LearningsFit
  <2>6. QED
    BY <1>5, <2>3, <2>4, <2>5, LearnerFits
<1>7. CASE StoreLearning(u)
  <2> PICK new : new = [id |-> learnings + 1, source_project |-> c.project,
                        learning |-> SectionOf(c), date |-> today,
                        content_hash |-> ContentHash(SectionOf(c), c.project),
                        listing |-> c.listing]
    OBVIOUS
  <2>1. /\ c.pc = "compare" /\ Step(u, next) /\ learnings' = learnings + 1
        /\ knowledge' = knowledge \cup {new} /\ UNCHANGED <<today, storeCommands>>
    BY <1>7 DEF StoreLearning, next
  <2>2. c.project \in Projects /\ c.section <= Len(LearningsOf[c.project])
    BY <1>1, <2>1 DEF CommandTyped
  <2>3. SectionOf(c) \in Bodies
    <3>1. DOMAIN LearningsOf[c.project] = 1..Len(LearningsOf[c.project])
      BY <2>2, LearningsAssumption
    <3>2. c.section \in DOMAIN LearningsOf[c.project]
      BY <1>1, <2>2, <3>1
    <3>3. QED
      BY <2>2, <3>2 DEF SectionOf, Bodies
  <2>4. c.listing \subseteq 1..learnings
    BY DEF StoreInv, CommandFits
  <2>5. 1..learnings \subseteq 1..learnings' /\ 0..learnings \subseteq 0..learnings'
    BY <1>1, <2>1
  <2>6. OfSections(new)'
    BY <2>1, <2>2, <2>3, <2>4, <2>5 DEF OfSections
  <2>7. \A f \in knowledge : OfSections(f)'
    BY <2>5 DEF LearningsFit, OfSections
  <2>8. \A v \in Learners : CommandTyped(learner'[v])
    <3>1. \A v \in Learners \ {u} : learner'[v] = learner[v]
      BY <2>1 DEF Step
    <3>2. learner'[u] = next
      BY <2>1 DEF Step, StoreInv
    <3>3. QED
      BY <1>5, <2>1, <3>1, <3>2 DEF LearningsFit
  <2>9. \A v \in Learners : CommandTyped(learner[v])'
    BY <2>5, <2>8 DEF CommandTyped
  <2>10. QED
    BY <2>1, <2>6, <2>7, <2>9 DEF LearningsFit
<1>8. QED
  BY <1>2, <1>3, <1>6, <1>7

LEMMA PruneFits ==
  ASSUME StoreInv, LearningsFit, NEW u \in Learners,
         \/ Prune(u) \/ Judge(u) \/ Delete(u) \/ Unlink(u)
  PROVE  LearningsFit'
<1> DEFINE c == learner[u]
<1>1. CommandTyped(c) /\ DOMAIN c = Fields /\ learnings \in Nat
  BY DEF StoreInv, CommandFits, LearningsFit
<1>2. CASE Prune(u)
  <2>1. PICK days : StartStoreCommand(u, [NoCommand EXCEPT !.pc = "judge", !.unread = Ids,
                                                           !.cutoff = today - days])
    BY <1>2 DEF Prune
  <2>2. CommandTyped([NoCommand EXCEPT !.pc = "judge", !.unread = Ids,
                                       !.cutoff = today - days])
    BY <1>1, ListedIds DEF NoCommand, CommandTyped
  <2>3. QED
    BY <2>1, <2>2, StartFits
<1>3. CASE Delete(u)
  <2>1. PICK id \in Ids :
          StartStoreCommand(u, [NoCommand EXCEPT !.pc = "unlink", !.target = id])
    BY <1>3 DEF Delete
  <2>2. id \in 0..learnings
    BY <1>1, ListedIds
  <2>3. CommandTyped([NoCommand EXCEPT !.pc = "unlink", !.target = id])
    BY <1>1, <2>2 DEF NoCommand, CommandTyped
  <2>4. QED
    BY <2>1, <2>3, StartFits
<1>4. CASE Judge(u)
  <2> DEFINE ended == [c EXCEPT !.pc = "done"]
             rest(id) == [c EXCEPT !.unread = c.unread \ {id}]
             removing(id) == [rest(id) EXCEPT !.pc = "unlink", !.target = id]
  <2>1. PICK id : \/ Step(u, ended)
                  \/ id \in c.unread /\ (Step(u, rest(id)) \/ Step(u, removing(id)))
    BY <1>4 DEF Judge
  <2>2. /\ ended.pc = "done" /\ ended.project = c.project
        /\ ended.unread = c.unread /\ ended.target = c.target
    BY <1>1, FieldNames
  <2>3. /\ rest(id).pc = c.pc /\ rest(id).project = c.project /\ rest(id).section = c.section
        /\ rest(id).unread = c.unread \ {id} /\ rest(id).target = c.target
        /\ DOMAIN rest(id) = Fields
    BY <1>1, FieldNames
  <2> HIDE DEF rest, ended
  <2>4. /\ removing(id).pc = "unlink" /\ removing(id).project = c.project
        /\ removing(id).unread = c.unread \ {id} /\ removing(id).target = id
    BY <2>3, FieldNames
  <2> HIDE DEF removing
  <2>5. CommandTyped(ended) /\ CommandTyped(rest(id))
        /\ (id \in c.unread => CommandTyped(removing(id)))
    BY <1>1, <2>2, <2>3, <2>4 DEF CommandTyped
  <2>6. /\ UNCHANGED <<knowledge, today, learnings, storeCommands>>
        /\ storeCommands' \in 0..MaxStoreCommands
    BY <1>4 DEF Judge, LearningsFit
  <2>7. QED
    BY <2>1, <2>5, <2>6, LearnerFits
<1>5. CASE Unlink(u)
  <2> DEFINE d(pc) == [c EXCEPT !.pc = pc, !.target = 0]
             found(v, gone) == [learner[v] EXCEPT !.lost = learner[v].lost \cup gone]
  <2>1. PICK gone, pc :
          pc \in {"failed", "judge"} /\
          learner' = [v \in Learners |-> IF v = u THEN d(pc) ELSE found(v, gone)]
    <3> DEFINE unlinked == {f \in knowledge : f.id = c.target}
               dropped == {<<f.learning, f.source_project>> : f \in unlinked}
               pc == IF unlinked = {} THEN "failed" ELSE "judge"
    <3>1. learner' = [v \in Learners |-> IF v = u THEN d(pc) ELSE found(v, dropped)]
      BY <1>5 DEF Unlink
    <3>2. pc \in {"failed", "judge"}
      OBVIOUS
    <3> HIDE DEF unlinked, dropped, pc, d, found
    <3>3. QED
      BY <3>1, <3>2
  <2>2. /\ d(pc).pc = pc /\ d(pc).project = c.project /\ d(pc).unread = c.unread
        /\ d(pc).target = 0
    BY <1>1, FieldNames
  <2>3. ASSUME NEW v \in Learners
        PROVE  /\ found(v, gone).pc = learner[v].pc
               /\ found(v, gone).project = learner[v].project
               /\ found(v, gone).section = learner[v].section
               /\ found(v, gone).unread = learner[v].unread
               /\ found(v, gone).target = learner[v].target
    <3>1. DOMAIN learner[v] = Fields
      BY DEF StoreInv, CommandFits
    <3>2. QED
      BY <3>1, FieldNames
  <2> HIDE DEF d, found
  <2>4. \A v \in Learners : CommandTyped(learner'[v])
    BY <1>1, <2>1, <2>2, <2>3 DEF LearningsFit, CommandTyped
  <2>5. UNCHANGED <<today, learnings, storeCommands>> /\ knowledge' \subseteq knowledge
    BY <1>5 DEF Unlink
  <2>6. QED
    BY <2>4, <2>5 DEF LearningsFit, OfSections, CommandTyped
<1>6. QED
  BY <1>2, <1>3, <1>4, <1>5

(* Every file of the store is of a section of a project's LEARNINGS.md,    *)
(* has an id and a date that were there when it was written, and a command *)
(* knows of no file that never was.                                        *)
THEOREM LearningsTyped == LearningsSpec => []LearningsTypeOK
<1>1. LearningsInit => LearningsFit
  BY LearningsAssumption DEF LearningsInit, LearningsFit, CommandTyped, NoCommand
<1>2. StoreInv /\ LearningsFit /\ [LearningsNext]_learningVars => LearningsFit'
  <2> SUFFICES ASSUME StoreInv, LearningsFit, [LearningsNext]_learningVars
               PROVE  LearningsFit'
    OBVIOUS
  <2>1. CASE UNCHANGED learningVars
    BY <2>1 DEF learningVars, LearningsFit, OfSections, CommandTyped
  <2>2. CASE NextDay
    <3>1. today' \in 0..MaxDays /\ UNCHANGED <<knowledge, learnings, storeCommands, learner>>
      BY <2>2, LearningsAssumption DEF NextDay, LearningsFit
    <3>2. QED
      BY <3>1 DEF LearningsFit, OfSections, CommandTyped
  <2>3. QED
    BY <2>1, <2>2, CopyFits, PruneFits DEF LearningsNext
<1>3. StoreInv /\ LearningsFit => LearningsTypeOK
  BY DEF StoreInv, FileFits, LearningsFit, OfSections, CommandTyped, LearningsTypeOK
<1>4. QED
  BY <1>1, <1>2, <1>3, StoreInitInv, StoreNextInv, PTL DEF LearningsSpec

(* ------------------------- requirements and todos ----------------------- *)

TodosFit ==
    /\ pending \cup finished \subseteq Todos /\ planningLock \in Clerks \cup {Nobody}
    /\ trackingCommands \in 0..MaxTrackingCommands

LEMMA TodosStepFits ==
  ASSUME TrackingInv, TodosFit, [TrackingNext]_trackingVars PROVE TodosFit'
<1>1. CASE UNCHANGED trackingVars
  BY <1>1 DEF TodosFit, trackingVars
<1>2. CASE StartRequirement
  BY <1>2 DEF TodosFit, StartRequirement
<1>3. ASSUME NEW u \in Clerks, NEW c, StartTracking(u, c),
             UNCHANGED <<pending, finished, planningLock>>
      PROVE  TodosFit'
  BY <1>3, TrackingAssumption DEF StartTracking, TodosFit
<1>4. ASSUME NEW u \in Clerks,
             \/ RequirementsMarkComplete(u) \/ PhaseComplete(u) \/ TodoComplete(u)
      PROVE  TodosFit'
  <2>1. \E c : StartTracking(u, c)
    BY <1>4, Zenon DEF RequirementsMarkComplete, PhaseComplete, TodoComplete
  <2>2. UNCHANGED <<pending, finished, planningLock>>
    BY <1>4, Zenon DEF RequirementsMarkComplete, PhaseComplete, TodoComplete
  <2>3. QED
    BY <1>3, <2>1, <2>2
<1>5. ASSUME NEW u \in Clerks,
             \/ TakePlanningLock(u) \/ ReadRequirements(u) \/ WriteRequirements(u)
             \/ UnlinkTodo(u) \/ EndTracking(u)
      PROVE  TodosFit'
  <2>1. /\ finished' = finished /\ pending' \subseteq pending
        /\ trackingCommands' = trackingCommands /\ planningLock' \in {planningLock, u, Nobody}
    BY <1>5 DEF TakePlanningLock, ReadRequirements, WriteRequirements, UnlinkTodo, EndTracking
  <2>2. QED
    BY <2>1 DEF TodosFit
<1>6. ASSUME NEW u \in Clerks, CopyTodo(u) PROVE TodosFit'
  <2>1. clerk[u].ids \subseteq Todos
    BY <1>6 DEF CopyTodo, Moves, TrackingInv, LabelsFit
  <2>2. QED
    BY <1>6, <2>1 DEF CopyTodo, TodosFit
<1>7. QED
  BY <1>1, <1>2, <1>4, <1>5, <1>6 DEF TrackingNext

(* Whatever the commands do, REQUIREMENTS.md keeps entries that the next   *)
(* command can read, and there are no todos but those there were.          *)
THEOREM TrackingTyped == TrackingSpec => []TrackingTypeOK
<1>1. TrackingInit => TodosFit
  BY TrackingAssumption DEF TrackingInit, TodosFit
<1>2. TrackingInv /\ TodosFit /\ [TrackingNext]_trackingVars => TodosFit'
  BY TodosStepFits
<1>3. TrackingInv /\ TodosFit => TrackingTypeOK
  <2> SUFFICES ASSUME TrackingInv, TodosFit PROVE TrackingTypeOK
    OBVIOUS
  <2>1. \A r \in DOMAIN document : document[r] \in [box : Boxes, row : Rows]
    BY DEF TrackingInv, IsText, MarkEntry
  <2>2. \A u \in Clerks : clerk[u].pc \in Labels
    BY DEF TrackingInv, IsCommand
  <2>3. QED
    BY <2>1, <2>2 DEF TodosFit, Labels, TrackingTypeOK
<1>4. QED
  BY <1>1, <1>2, <1>3, TrackingInitInv, TrackingNextInv, PTL DEF TrackingSpec

(* ----------------------------- configuration ---------------------------- *)

(* A scope without a file has nothing in it, and a load rewrites a file    *)
(* that is there.                                                          *)
AbsentAreEmpty ==
    /\ \A s \in Scopes \ present : contents[s] = NoSettings
    /\ \A p \in Processes : task[p].step = "rewrite" => task[p].scope \in present

LEMMA ConfigStepFits ==
  ASSUME ConfigInv, AbsentAreEmpty, [ConfigNext]_configVars PROVE AbsentAreEmpty'
<1>0. /\ present \subseteq Scopes /\ DOMAIN contents = Scopes /\ DOMAIN task = Processes
      /\ \A p \in Processes : IsTask(task[p])
  BY DEF ConfigInv, FilesFit, TasksFit
<1>1. CASE UNCHANGED configVars
  BY <1>1 DEF AbsentAreEmpty, configVars
<1>2. ASSUME NEW p \in Processes, NEW t, Do(p, t), UNCHANGED <<present, contents>>,
             t.step = "rewrite" => t.scope \in present
      PROVE  AbsentAreEmpty'
  BY <1>0, <1>2 DEF Do, AbsentAreEmpty
<1>3. ASSUME NEW p \in Processes, NEW s \in Scopes, Load(p, s) PROVE AbsentAreEmpty'
  <2>1. PICK r, new : /\ r \in present
                      /\ Do(p, [Resting EXCEPT !.step = "rewrite", !.scope = r, !.copy = new])
    BY <1>3, Zenon DEF Load
  <2>2. UNCHANGED <<present, contents>>
    BY <1>3 DEF Load
  <2>3. [Resting EXCEPT !.step = "rewrite", !.scope = r, !.copy = new].scope = r
    BY DEF Resting
  <2>4. QED
    BY <1>2, <2>1, <2>2, <2>3
<1>4. ASSUME NEW p \in Processes, NEW s \in Scopes, NEW next \in {"rest", "set"},
             EnsureConfig(p, s, next)
      PROVE  AbsentAreEmpty'
  <2> DEFINE found == [Resting EXCEPT !.step = next, !.scope = s,
                                      !.key = Canonical("model_profile")]
             new(u) == [Resting EXCEPT !.step = "create", !.scope = s,
                                       !.copy = Materialized(u),
                                       !.key = Canonical("model_profile"),
                                       !.value = IF next = "set" THEN "set" ELSE "rest"]
  <2>1. found.step = next /\ \A u : new(u).step = "create"
    BY DEF Resting
  <2>2. PICK u : Do(p, found) \/ Do(p, new(u))
    BY <1>4, Zenon DEF EnsureConfig
  <2>3. UNCHANGED <<present, contents>>
    BY <1>4 DEF EnsureConfig
  <2> HIDE DEF found, new
  <2>4. QED
    BY <1>2, <2>1, <2>2, <2>3
<1>5. ASSUME NEW p \in Processes, NEW s \in Scopes, NEW setting, NEW v,
             AskToSet(p, s, setting, v)
      PROVE  AbsentAreEmpty'
  <2> DEFINE t == [Resting EXCEPT !.step = "set", !.scope = s,
                                  !.key = Canonical(setting), !.value = v]
  <2>1. t.step = "set" /\ Do(p, t) /\ UNCHANGED <<present, contents>>
    BY <1>5 DEF AskToSet, Resting
  <2> HIDE DEF t
  <2>2. QED
    BY <1>2, <2>1
<1>6. ASSUME NEW p \in Processes, LockAndRead(p) PROVE AbsentAreEmpty'
  <2> DEFINE t == [task[p] EXCEPT !.step = "setting", !.copy = contents[task[p].scope]]
  <2>1. Do(p, t) /\ UNCHANGED <<present, contents>>
    BY <1>6 DEF LockAndRead
  <2>2. t.step = "setting"
    BY <1>0 DEF IsTask
  <2> HIDE DEF t
  <2>3. QED
    BY <1>2, <2>1, <2>2
<1>7. ASSUME NEW p \in Processes, Rewrite(p) \/ CreateConfig(p) \/ WriteAndUnlock(p)
      PROVE  AbsentAreEmpty'
  <2> DEFINE asked == [task[p] EXCEPT !.step = "set", !.value = Fallback]
  <2>1. PICK new : contents' = [contents EXCEPT ![task[p].scope] = new]
    BY <1>7 DEF Rewrite, CreateConfig, WriteAndUnlock
  <2>2. present' \in {present, present \cup {task[p].scope}} /\ task[p].scope \in present'
    BY <1>7 DEF Rewrite, CreateConfig, WriteAndUnlock, AbsentAreEmpty
  <2>3. Do(p, Resting) \/ Do(p, asked)
    BY <1>7 DEF Rewrite, CreateConfig, WriteAndUnlock
  <2>4. Resting.step = "rest" /\ asked.step = "set"
    BY <1>0 DEF IsTask, Resting
  <2> HIDE DEF asked
  <2>5. PICK t : Do(p, t) /\ t.step # "rewrite"
    BY <2>3, <2>4
  <2>6. \A q \in Processes : task'[q].step = "rewrite" => task'[q].scope \in present'
    BY <1>0, <2>2, <2>5 DEF Do, AbsentAreEmpty
  <2>7. \A s \in Scopes \ present' : contents'[s] = NoSettings
    BY <1>0, <2>1, <2>2 DEF AbsentAreEmpty
  <2>8. QED
    BY <2>6, <2>7 DEF AbsentAreEmpty
<1>8. ASSUME NEW v, ChangeRepositories(v) PROVE AbsentAreEmpty'
  BY <1>8 DEF ChangeRepositories, AbsentAreEmpty
<1>9. QED
  BY <1>1, <1>3, <1>4, <1>5, <1>6, <1>7, <1>8 DEF ConfigNext

(* The files stay files of settings, one that is absent has none of them,  *)
(* and the lock of a scope is held by a process or by nobody.              *)
THEOREM ConfigTyped == ConfigSpec => []ConfigTypeOK
<1>1. ConfigInit => AbsentAreEmpty
  BY DEF ConfigInit, AbsentAreEmpty, Resting
<1>2. ConfigInv /\ AbsentAreEmpty /\ [ConfigNext]_configVars => AbsentAreEmpty'
  BY ConfigStepFits
<1>3. ConfigInv /\ AbsentAreEmpty => ConfigTypeOK
  BY DEF ConfigInv, FilesFit, TasksFit, AbsentAreEmpty, ConfigTypeOK
<1>4. QED
  BY <1>1, <1>2, <1>3, ConfigInitInv, ConfigNextInv, PTL DEF ConfigSpec

(* ----------------------------- model routing ---------------------------- *)

(* Whatever is configured, there is a model to ask for.                    *)
LEMMA ModelsAreNamed ==
  ASSUME NEW n PROVE ResolveModelForTier(n) # None
<1>1. Aliases = {"opus", "sonnet", "haiku"} /\ None = "none"
  BY DEF Aliases, None
<1>2. OfProfile \in Aliases
  BY RoutingAssumption DEF OfProfile
<1>3. known => Tier \in Aliases \cup {"inherit"}
  BY <1>2 DEF Tier
<1>4. known /\ Tier # "inherit" => BuiltIn["claude"][Tier].model # None
  BY <1>3, RoutingAssumption
<1>5. OfUnknownAgent \in {"opus", "haiku", "inherit", "sonnet"}
  BY DEF OfUnknownAgent
<1>6. ResolveModel # None
  BY <1>1, <1>3, <1>4, <1>5 DEF ResolveModel
<1>7. QED
  BY <1>6 DEF ResolveModelForTier

RoutingFit == default \in DefaultTiers \cup {None} /\ Len(attempts) <= MaxAttempts

(* Every attempt at any work is given a model, under any configuration and *)
(* catalog, for an agent that the catalog has and for one that it has not. *)
THEOREM RoutingTyped == RoutingSpec => []RoutingTypeOK
<1>1. RoutingInit => RoutingFit
  BY RoutingAssumption DEF RoutingInit, RoutingFit
<1>2. RoutingInv /\ RoutingFit /\ [RoutingNext]_routingVars => RoutingFit'
  <2> SUFFICES ASSUME RoutingInv, RoutingFit, [RoutingNext]_routingVars PROVE RoutingFit'
    OBVIOUS
  <2>1. Len(attempts) \in Nat /\ MaxAttempts \in Nat
    BY RoutingAssumption DEF RoutingInv
  <2>2. CASE UNCHANGED routingVars
    BY <2>2 DEF routingVars, RoutingFit
  <2>3. CASE StartAgent
    <3>1. PICK model : attempts' = Append(attempts, model)
      BY <2>3 DEF StartAgent
    <3>2. Len(attempts') = Len(attempts) + 1
      BY <3>1 DEF RoutingInv
    <3>3. QED
      BY <2>1, <2>3, <3>2 DEF StartAgent, RoutingFit
  <2>4. QED
    BY <2>2, <2>3 DEF RoutingNext
<1>3. RoutingInv /\ RoutingFit => RoutingTypeOK
  <2> SUFFICES ASSUME RoutingInv, RoutingFit, NEW i \in DOMAIN attempts
               PROVE  attempts[i] # None
    BY DEF RoutingInv, RoutingFit, RoutingTypeOK
  <2>1. i \in 1 .. Len(attempts)
    BY DEF RoutingInv
  <2>2. QED
    BY <2>1, ModelsAreNamed DEF RoutingInv
<1>4. QED
  BY <1>1, <1>2, <1>3, RoutingInitInv, RoutingNextInv, PTL DEF RoutingSpec

(* --------------------------- worktree cleanup --------------------------- *)

EntryStates == {"pending", "blocked", "warning", "merged_removed"}

(* The main branch has no more of a branch than there is.                  *)
CleanupFit ==
    /\ worktrees \subseteq Agents /\ branches \subseteq Agents
    /\ \A a \in Agents : head[a] <= tip[a]
    /\ status \in [Agents -> EntryStates]

LEMMA CleanupStepFits ==
  ASSUME CleanupInv, CleanupFit, [CleanupNext]_cleanupVars PROVE CleanupFit'
<1>0. /\ tip \in [Agents -> Nat] /\ head \in [Agents -> Nat] /\ Agent \in Agents
      /\ status \in [Agents -> EntryStates]
  BY ManifestAgents DEF CleanupInv, CleanupTypes, CleanupFit, Agent
<1>1. CASE UNCHANGED cleanupVars
  BY <1>1 DEF CleanupFit, cleanupVars, agentVars
<1>2. ASSUME NEW s \in EntryStates, NEW r, Report(s, r)
      PROVE  status' \in [Agents -> EntryStates]
  BY <1>0, <1>2 DEF Report
<1>3. CASE Begin
  BY <1>3 DEF Begin, CleanupFit, agentVars
<1>4. CASE Check
  <2>1. UNCHANGED <<worktrees, branches, head, tip>>
    BY <1>4 DEF Check, agentVars
  <2>2. UNCHANGED status \/ \E r : Report("blocked", r)
    BY <1>4 DEF Check, Block
  <2>3. QED
    BY <1>2, <2>1, <2>2 DEF CleanupFit, EntryStates
<1>5. CASE Merge
  <2>1. UNCHANGED <<worktrees, branches, tip>> /\ head' \in {head, MergedInto(Agent)}
    BY <1>5 DEF Merge, agentVars
  <2>2. UNCHANGED status \/ \E r : Report("blocked", r)
    BY <1>5 DEF Merge, Block
  <2>3. \A a \in Agents : head'[a] <= tip'[a]
    BY <1>0, <2>1 DEF MergedInto, CleanupFit
  <2>4. QED
    BY <1>2, <2>1, <2>2, <2>3 DEF CleanupFit, EntryStates
<1>6. CASE RemoveWorktree
  <2>1. UNCHANGED <<branches, head, tip>> /\ worktrees' \subseteq worktrees
    BY <1>6 DEF RemoveWorktree, agentVars
  <2>2. UNCHANGED status \/ \E r : Report("blocked", r)
    BY <1>6 DEF RemoveWorktree, Block
  <2>3. QED
    BY <1>2, <2>1, <2>2 DEF CleanupFit, EntryStates
<1>7. CASE DeleteBranch
  <2>1. UNCHANGED <<worktrees, head, tip>> /\ branches' \subseteq branches
    BY <1>7 DEF DeleteBranch, agentVars
  <2>2. Report("merged_removed", "ok") \/ Report("warning", "branch_delete_failed")
    BY <1>7 DEF DeleteBranch
  <2>3. QED
    BY <1>2, <2>1, <2>2 DEF CleanupFit, EntryStates
<1>8. CASE Kill
  BY <1>8 DEF Kill, CleanupFit, agentVars, EntryStates
<1>9. ASSUME NEW a \in Agents, Edit(a) \/ LeaveBranch(a) PROVE CleanupFit'
  BY <1>9 DEF Edit, LeaveBranch, CleanupFit
<1>10. ASSUME NEW a \in Agents, CommitWork(a) PROVE CleanupFit'
  <2>1. UNCHANGED <<worktrees, branches, head, status>> /\ tip' = [tip EXCEPT ![a] = tip[a] + 1]
    BY <1>10 DEF CommitWork
  <2>2. QED
    BY <1>0, <2>1 DEF CleanupFit
<1>11. ASSUME NEW a \in Agents, ResolveAndRerun(a) PROVE CleanupFit'
  <2>1. /\ UNCHANGED <<worktrees, branches>>
        /\ tip' \in {tip, [tip EXCEPT ![a] = tip[a] + 1]}
        /\ head' \in {head, [head EXCEPT ![a] = tip'[a]]}
        /\ status' = [b \in Agents |-> "pending"]
    BY <1>0, <1>11 DEF ResolveAndRerun
  <2>2. \A b \in Agents : head'[b] <= tip'[b]
    BY <1>0, <2>1 DEF CleanupFit
  <2>3. QED
    BY <2>1, <2>2 DEF CleanupFit, EntryStates
<1>12. QED
  BY <1>1, <1>3, <1>4, <1>5, <1>6, <1>7, <1>8, <1>9, <1>10, <1>11 DEF CleanupNext

(* The command is at one of its steps for an entry of the manifest, and    *)
(* the main branch never has more of a branch than was committed there.    *)
THEOREM CleanupTyped == CleanupSpec => []CleanupTypeOK
<1>1. CleanupInit => CleanupFit
  BY DEF CleanupInit, CleanupFit, EntryStates
<1>2. CleanupInv /\ CleanupFit /\ [CleanupNext]_cleanupVars => CleanupFit'
  BY CleanupStepFits
<1>3. CleanupInv /\ CleanupFit => CleanupTypeOK
  <2>1. {"branch", "base", "deletions", "status", "merge", "remove", "delete"}
          \subseteq Range(Steps)
    BY StepsInOrder DEF Range
  <2>2. QED
    BY <2>1 DEF CleanupInv, CleanupTypes, CleanupFit, CleanupTypeOK, EntryStates
<1>4. QED
  BY <1>1, <1>2, <1>3, CleanupInitInv, CleanupNextInv, PTL DEF CleanupSpec

(* ---------------------------- validate health --------------------------- *)

HealthFit ==
    /\ stateFile \in {"missing", "written", "minimal"}
    /\ registry \subseteq archive \cup Versions
    /\ healthStatus \in {"none", "broken", "degraded", "healthy"}

(* A repair leaves files that the next one can check, and the registry has *)
(* headings of milestones only.                                            *)
THEOREM HealthTyped == HealthSpec => []HealthTypeOK
<1>1. HealthInit => HealthFit
  BY DEF HealthInit, HealthFit
<1>2. HealthInv /\ HealthFit /\ [HealthNext]_healthVars => HealthFit'
  <2> SUFFICES ASSUME HealthInv, HealthFit, [HealthNext]_healthVars PROVE HealthFit'
    OBVIOUS
  <2>1. Status \in {"broken", "degraded", "healthy"} /\ Unregistered \subseteq archive
    BY DEF Status, Unregistered
  <2>2. CASE UNCHANGED healthVars
    BY <2>2 DEF healthVars, HealthFit
  <2>3. CASE Repair
    <3>1. /\ stateFile' \in {"minimal", stateFile} /\ archive' = archive
          /\ healthStatus' = Status /\ registry' \subseteq registry \cup Unregistered
      BY <2>3 DEF Repair
    <3>2. QED
      BY <2>1, <3>1 DEF HealthFit
  <2>4. CASE ReportHealth
    BY <2>1, <2>4 DEF ReportHealth, HealthFit
  <2>5. CASE LoseOrRestore
    BY <2>5 DEF LoseOrRestore, HealthFit
  <2>6. ASSUME NEW v \in Versions, ArchiveMilestone(v) PROVE HealthFit'
    BY <2>6 DEF ArchiveMilestone, HealthFit
  <2>7. QED
    BY <2>2, <2>3, <2>4, <2>5, <2>6 DEF HealthNext
<1>3. HealthInv /\ HealthFit => HealthTypeOK
  BY DEF HealthInv, HealthFit, HealthTypeOK
<1>4. QED
  BY <1>1, <1>2, <1>3, HealthInitInv, HealthNextInv, PTL DEF HealthSpec

(* ------------------------------- documents ------------------------------ *)

Written == 0 .. MaxTexts

(* Every place holds a text that was written, or says that there is none.  *)
TextsFit ==
    /\ {work, index} \subseteq [Documents -> Written]
    /\ \A b \in Branches : tips[b] \in [Documents -> Written] \cup {NoBranchYet}
    /\ \A d \in Documents : stored[d] \cup superseded[d] \subseteq Written
    /\ texts \in 1 .. MaxTexts /\ commits \in 0 .. MaxCommits
    /\ strategy \in {"none", "phase"}

(* The command of a repository is to stage files that it was given.        *)
FilesOf(c) == c.mode = "subrepo" => c.todo \subseteq c.files
SameFiles(c, d) == c.mode = d.mode /\ c.files = d.files
CommandsFit == \A p \in Committers : FilesOf(committer[p])

LEMMA TipsFit ==
  ASSUME CommitInv, TextsFit, NEW r \in Repos
  PROVE  Tip(r) \in [Documents -> Written]
<1>1. \A d \in Documents : Tip(r)[d] \in Written
  BY CommitsAssumption DEF CommitInv, TipsAreStored, TextsFit, Written
<1>2. onBranch[r] \in Branches
  BY DEF CommitInv, CommitTypes
<1>3. Tip(r) \in [Documents -> Int]
  BY <1>2 DEF CommitInv, CommitTypes, Tip
<1>4. QED
  BY <1>1, <1>3

(* A step of git that touches the texts of documents only.                 *)
LEMMA TextsMove ==
  ASSUME CommitInv, TextsFit,
         {work', index'} \subseteq [Documents -> Written],
         \A b \in Branches : tips'[b] \in [Documents -> Written] \cup {NoBranchYet},
         \A d \in Documents : stored'[d] \cup superseded'[d] \subseteq Written,
         commits' \in 0 .. MaxCommits, UNCHANGED <<texts, strategy>>
  PROVE  TextsFit'
BY DEF TextsFit, NoBranchYet

LEMMA GitStepFits ==
  ASSUME CommitInv, TextsFit, NEW p \in Committers,
         \/ EnsureBranch(p) \/ StageFile(p) \/ StageEverything(p) \/ GitCommit(p)
  PROVE  TextsFit'
<1>1. /\ work \in [Documents -> Written] /\ index \in [Documents -> Written]
      /\ commits' = commits /\ texts' = texts /\ strategy' = strategy
      /\ DOMAIN tips = Branches /\ "root" \in Repos
  BY QuietCommand DEF TextsFit, CommitInv, CommitTypes, EnsureBranch, StageFile,
                      StageEverything, GitCommit
<1>2. CASE EnsureBranch(p)
  <2>1. PICK branch \in Branches :
          \/ UNCHANGED <<onBranch, work, index, tips>>
          \/ /\ tips[branch] = NoBranchYet
             /\ tips' = [tips EXCEPT ![branch] = Tip("root")]
             /\ onBranch' = [onBranch EXCEPT !["root"] = branch]
             /\ UNCHANGED <<work, index>>
          \/ onBranch["root"] # branch /\ tips[branch] # NoBranchYet /\ Checkout(branch)
    BY <1>2, EnsureFacts
  <2>2. UNCHANGED <<stored, superseded>>
    BY <1>2 DEF EnsureBranch
  <2>3. \A b \in Branches : tips'[b] \in [Documents -> Written] \cup {NoBranchYet}
    BY <1>1, <2>1, TipsFit DEF TextsFit, Checkout
  <2>4. tips[branch] # NoBranchYet =>
          SwitchedTo(branch, work) \in [Documents -> Written]
          /\ SwitchedTo(branch, index) \in [Documents -> Written]
    BY <1>1 DEF TextsFit, SwitchedTo
  <2>5. {work', index'} \subseteq [Documents -> Written]
    BY <1>1, <2>1, <2>4 DEF Checkout
  <2>6. QED
    BY <1>1, <2>2, <2>3, <2>5, TextsMove DEF TextsFit
<1>3. CASE StageFile(p) \/ StageEverything(p)
  <2>1. UNCHANGED <<work, tips, stored>>
        /\ (UNCHANGED <<index, superseded>> \/ \E docs : Add(p, docs))
    BY <1>3, Zenon DEF StageFile, StageEverything
  <2>2. CASE UNCHANGED <<index, superseded>>
    BY <1>1, <2>1, <2>2, TextsMove DEF TextsFit
  <2>3. ASSUME NEW docs, Add(p, docs) PROVE TextsFit'
    <3>1. index' \in [Documents -> Written]
      BY <1>1, <2>3 DEF Add
    <3>2. \A d \in Documents : superseded'[d] \subseteq superseded[d] \cup {index[d]}
      BY <2>3 DEF Add
    <3>3. QED
      BY <1>1, <2>1, <3>1, <3>2, TextsMove DEF TextsFit
  <2>4. QED
    BY <2>1, <2>2, <2>3
<1>4. CASE GitCommit(p)
  <2> DEFINE r == committer[p].repo
  <2>1. r \in Repos /\ UNCHANGED <<work, index, superseded>>
    BY <1>4 DEF GitCommit, CommitInv, IsACommit
  <2>2. Recorded(r) \in [Documents -> Written]
    BY <1>1, <2>1, TipsFit DEF Recorded
  <2>3. \/ UNCHANGED <<tips, stored>>
        \/ /\ tips' = [tips EXCEPT ![onBranch[r]] = Recorded(r)]
           /\ stored' = [d \in Documents |->
                IF d \in DocsOf(r) THEN stored[d] \cup {Recorded(r)[d]} ELSE stored[d]]
    BY <1>4 DEF GitCommit
  <2> HIDE DEF r
  <2>4. \A b \in Branches : tips'[b] \in [Documents -> Written] \cup {NoBranchYet}
    BY <1>1, <2>2, <2>3 DEF TextsFit
  <2>5. \A d \in Documents : stored'[d] \subseteq Written
    BY <2>2, <2>3 DEF TextsFit
  <2>6. QED
    BY <1>1, <2>1, <2>4, <2>5, TextsMove DEF TextsFit
<1>5. QED
  BY <1>2, <1>3, <1>4

(* A document is written, removed, or a command begins or ends.            *)
LEMMA OtherStepFits ==
  ASSUME CommitInv, TextsFit,
         \/ \E p \in Committers : \/ StartCommit(p) \/ StartSubrepoCommit(p)
                                  \/ NextRepo(p) \/ EndCommit(p)
         \/ \E d \in Documents : WriteDocument(d) \/ RemoveDocument(d)
  PROVE  TextsFit'
<1>1. ASSUME NEW p \in Committers,
             \/ StartCommit(p) \/ StartSubrepoCommit(p) \/ NextRepo(p) \/ EndCommit(p)
      PROVE  TextsFit'
  <2>1. UNCHANGED <<repoVars, texts, strategy>>
        /\ (commits' = commits \/ (commits < MaxCommits /\ commits' = commits + 1))
    BY <1>1, Zenon DEF StartCommit, StartSubrepoCommit, NextRepo, EndCommit
  <2>2. commits' \in 0 .. MaxCommits
    BY <2>1, CommitsAssumption DEF TextsFit
  <2>3. QED
    BY <2>1, <2>2 DEF TextsFit, repoVars, NoBranchYet
<1>2. ASSUME NEW d \in Documents, WriteDocument(d) PROVE TextsFit'
  <2>1. texts' \in 1 .. MaxTexts /\ work' = [work EXCEPT ![d] = texts + 1]
        /\ texts + 1 \in Written
    BY <1>2, CommitsAssumption DEF WriteDocument, TextsFit, Written
  <2>2. work' \in [Documents -> Written]
    BY <2>1 DEF TextsFit
  <2>3. QED
    BY <1>2, <2>1, <2>2 DEF WriteDocument, TextsFit, NoBranchYet
<1>3. ASSUME NEW d \in Documents, RemoveDocument(d) PROVE TextsFit'
  <2>1. work' = [work EXCEPT ![d] = 0] /\ 0 \in Written
    BY <1>3, CommitsAssumption DEF RemoveDocument, Written
  <2>2. work' \in [Documents -> Written]
    BY <2>1 DEF TextsFit
  <2>3. QED
    BY <1>3, <2>2 DEF RemoveDocument, TextsFit, NoBranchYet
<1>4. QED
  BY <1>1, <1>2, <1>3

(* What a step makes of a command.                                         *)
LEMMA CommandsStepFit ==
  ASSUME CommitInv, CommandsFit, [CommitsNext]_commitVars PROVE CommandsFit'
<1>1. \A p \in Committers : IsACommit(committer[p]) /\ DOMAIN committer = Committers
  BY DEF CommitInv, CommitTypes
<1>2. CASE UNCHANGED committer
  BY <1>2 DEF CommandsFit
<1>3. ASSUME NEW p \in Committers, NEW c, committer' = [committer EXCEPT ![p] = c], FilesOf(c)
      PROVE  CommandsFit'
  BY <1>1, <1>3 DEF CommandsFit
<1>4. ASSUME NEW p \in Committers, StartCommit(p) PROVE CommandsFit'
  <2>1. PICK mode \in {"files", "everything"} : \E files, todo, pc, amend :
          Proceed(p, [Quiet EXCEPT !.pc = pc, !.mode = mode, !.amend = amend,
                                   !.files = files, !.todo = todo])
    BY <1>4, Zenon DEF StartCommit
  <2>2. PICK files, todo, pc, amend :
          Proceed(p, [Quiet EXCEPT !.pc = pc, !.mode = mode, !.amend = amend,
                                   !.files = files, !.todo = todo])
    BY <2>1
  <2>3. [Quiet EXCEPT !.pc = pc, !.mode = mode, !.amend = amend,
                      !.files = files, !.todo = todo].mode # "subrepo"
    BY DEF Quiet
  <2>4. QED
    BY <1>3, <2>2, <2>3 DEF Proceed, FilesOf
<1>5. ASSUME NEW p \in Committers, StartSubrepoCommit(p) \/ NextRepo(p) PROVE CommandsFit'
  <2>1. PICK r, files : BeginRepo(p, r, files)
    BY <1>5, Zenon DEF StartSubrepoCommit, NextRepo
  <2> DEFINE c == [Quiet EXCEPT !.pc = "stage", !.mode = "subrepo", !.repo = r,
                                !.files = files, !.todo = {d \in files : RepoOf[d] = r}]
  <2>2. FilesOf(c)
    BY DEF FilesOf, Quiet
  <2>3. committer' = [committer EXCEPT ![p] = c]
    BY <2>1 DEF BeginRepo, Proceed
  <2> HIDE DEF c
  <2>4. QED
    BY <1>3, <2>2, <2>3
<1>6. ASSUME NEW p \in Committers, EndCommit(p) PROVE CommandsFit'
  BY <1>3, <1>6 DEF EndCommit, Proceed, FilesOf, Quiet
<1>7. \A p \in Committers : \A c :
        /\ committer' = [committer EXCEPT ![p] = c]
        /\ SameFiles(c, committer[p]) /\ c.todo \subseteq committer[p].todo
        => CommandsFit'
  BY <1>3 DEF CommandsFit, FilesOf, SameFiles
<1>8. ASSUME NEW p \in Committers, EnsureBranch(p) PROVE CommandsFit'
  <2>1. PICK c : c = [committer[p] EXCEPT !.pc = "stage"]
    OBVIOUS
  <2>2. SameFiles(c, committer[p]) /\ c.todo = committer[p].todo
    BY <1>1, <2>1 DEF IsACommit, SameFiles
  <2>3. committer' = [committer EXCEPT ![p] = c]
    BY <1>8, <2>1 DEF EnsureBranch, Proceed
  <2>4. QED
    BY <1>7, <2>2, <2>3
<1>9. ASSUME NEW p \in Committers, GitCommit(p) PROVE CommandsFit'
  <2>1. PICK result : committer' = [committer EXCEPT ![p] =
                                      [committer[p] EXCEPT !.pc = "done", !.result = result]]
    BY <1>9 DEF GitCommit, Proceed
  <2>2. PICK c : c = [committer[p] EXCEPT !.pc = "done", !.result = result]
    OBVIOUS
  <2>3. SameFiles(c, committer[p]) /\ c.todo = committer[p].todo
    BY <1>1, <2>2 DEF IsACommit, SameFiles
  <2>4. QED
    BY <1>7, <2>1, <2>2, <2>3
<1>10. ASSUME NEW p \in Committers, NEW todo, todo \subseteq committer[p].todo,
              committer' = [committer EXCEPT ![p].todo = todo]
       PROVE  CommandsFit'
  <2>1. PICK c : c = [committer[p] EXCEPT !.todo = todo]
    OBVIOUS
  <2>2. SameFiles(c, committer[p]) /\ c.todo = todo
    BY <1>1, <2>1 DEF IsACommit, SameFiles
  <2>3. committer' = [committer EXCEPT ![p] = c]
    BY <1>10, <2>1
  <2>4. QED
    BY <1>7, <1>10, <2>2, <2>3
<1>11. ASSUME NEW p \in Committers, NEW docs, Add(p, docs) PROVE CommandsFit'
  <2>1. PICK staged : staged = [d \in Documents |-> IF d \in docs THEN work[d]
                                                   ELSE committer[p].staged[d]]
    OBVIOUS
  <2>2. PICK c : c = [committer[p] EXCEPT !.staged = staged, !.todo = committer[p].todo \ docs]
    OBVIOUS
  <2>3. SameFiles(c, committer[p]) /\ c.todo \subseteq committer[p].todo
    BY <1>1, <2>2 DEF IsACommit, SameFiles
  <2>4. committer' = [committer EXCEPT ![p] = c]
    BY <1>1, <1>11, <2>1, <2>2 DEF Add, IsACommit
  <2>5. QED
    BY <1>7, <2>3, <2>4
<1>12. ASSUME NEW p \in Committers, StageFile(p) \/ StageEverything(p) PROVE CommandsFit'
  <2>1. \/ \E docs : Add(p, docs)
        \/ \E docs : committer' = [committer EXCEPT ![p].todo = committer[p].todo \ docs]
        \/ committer' = [committer EXCEPT ![p].todo = {}]
    BY <1>12 DEF StageFile, StageEverything
  <2>2. QED
    BY <1>10, <1>11, <2>1
<1>13. ASSUME NEW d \in Documents, WriteDocument(d) \/ RemoveDocument(d) PROVE CommandsFit'
  BY <1>2, <1>13 DEF WriteDocument, RemoveDocument
<1>14. QED
  BY <1>2, <1>4, <1>5, <1>6, <1>8, <1>9, <1>12, <1>13 DEF CommitsNext, commitVars

(* Every text on disk, staged or in a commit is one that was written, a    *)
(* branch has a commit or does not exist, and a command is left with files *)
(* that it was given or that are of .planning.                             *)
THEOREM CommitsTyped == CommitsSpec => []CommitsTypeOK
<1>1. CommitsInit => TextsFit /\ CommandsFit
  <2> SUFFICES ASSUME CommitsInit PROVE TextsFit /\ CommandsFit
    OBVIOUS
  <2>1. /\ work \in [Documents -> Written] /\ index = work
        /\ \A d \in Documents : stored[d] \cup superseded[d] \subseteq Written
        /\ texts \in 1 .. MaxTexts /\ commits \in 0 .. MaxCommits
    BY CommitsAssumption DEF CommitsInit, Written
  <2>2. PICK earlier \in {work, NoBranchYet,
                          [d \in Documents |-> IF d \in PlanningDocs THEN 0 ELSE 1]} :
          tips = [b \in Branches |-> IF b \in Repos \cup {"main"} THEN work ELSE earlier]
    BY DEF CommitsInit
  <2>3. [d \in Documents |-> IF d \in PlanningDocs THEN 0 ELSE 1] \in [Documents -> Written]
    BY CommitsAssumption DEF Written
  <2>4. \A b \in Branches : tips[b] \in [Documents -> Written] \cup {NoBranchYet}
    BY <2>1, <2>2, <2>3
  <2>5. CommandsFit
    BY DEF CommitsInit, CommandsFit, FilesOf, Quiet
  <2>6. QED
    BY <2>1, <2>4, <2>5 DEF CommitsInit, TextsFit
<1>2. CommitInv /\ TextsFit /\ CommandsFit /\ [CommitsNext]_commitVars => TextsFit' /\ CommandsFit'
  <2> SUFFICES ASSUME CommitInv, TextsFit, CommandsFit, [CommitsNext]_commitVars
               PROVE  TextsFit'
    BY CommandsStepFit
  <2>1. CASE UNCHANGED commitVars
    BY <2>1 DEF commitVars, TextsFit, NoBranchYet
  <2>2. QED
    BY <2>1, GitStepFits, OtherStepFits DEF CommitsNext
<1>3. CommitInv /\ TextsFit /\ CommandsFit => CommitsTypeOK
  <2> SUFFICES ASSUME CommitInv, TextsFit, CommandsFit PROVE CommitsTypeOK
    OBVIOUS
  <2>1. ASSUME NEW p \in Committers
        PROVE  /\ committer[p].pc \in {"idle", "branch", "stage", "done"}
               /\ committer[p].result \in {"none", "committed", "nothing", "failed"}
               /\ committer[p].todo \subseteq committer[p].files \cup PlanningDocs
    <3>1. IsACommit(committer[p]) /\ FilesOf(committer[p])
      BY DEF CommitInv, CommandsFit
    <3>2. QED
      BY <3>1 DEF IsACommit, FilesOf, DocsOf, PlanningDocs
  <2>2. onBranch \in [Repos -> Branches]
    BY DEF CommitInv, CommitTypes
  <2>3. QED
    BY <2>1, <2>2 DEF TextsFit, Written, CommitsTypeOK
<1>4. QED
  BY <1>1, <1>2, <1>3, CommitsInitInv, CommitsNextInv, PTL DEF CommitsSpec
=============================================================================
