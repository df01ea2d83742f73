---------------------------- MODULE LocalPatches ----------------------------
(***************************************************************************)
(* A user's own changes to the installed files over an update: the backup  *)
(* that the installer makes, the merge that an agent does by hand, and the *)
(* verifier that must pass before the backups may go                       *)
(* (verify-reapply-patches.cjs, the gate of reapply-patches.md).           *)
(*                                                                         *)
(* A file is the set of its lines.  The verifier asks whether a line is    *)
(* part of the text, so a longer line with it inside will do.              *)
(***************************************************************************)
EXTENDS FiniteSets, Integers

CONSTANTS PatchedFiles,
          OldRelease, NewRelease, \* the lines that each release ships of a file
          UserLines,              \* the lines that a user may add to a file
          Significant,            \* the lines that isSignificantLine accepts
          Inside                  \* the pairs of a line and one that has it inside

NoCopy == {"absent"}
Lines == NoCopy \cup UNION {OldRelease[f] \cup NewRelease[f] \cup UserLines[f] :
                             f \in PatchedFiles}

(* A line that a release has of its own is not the user's.                 *)
ASSUME PatchesAssumption ==
    /\ {OldRelease, NewRelease, UserLines} \subseteq [PatchedFiles -> SUBSET Lines]
    /\ \A f \in PatchedFiles :
         /\ UserLines[f] \cap OldRelease[f] = {}
         /\ "absent" \notin OldRelease[f] \cup NewRelease[f] \cup UserLines[f]

VARIABLES
    installed,  \* the files in the configuration directory
    backup,     \* gsd-local-patches
    pristine,   \* gsd-pristine
    added,      \* history: the lines that the user added to each file
    reapply     \* how far the update and the workflow are

patchVars == <<installed, backup, pristine, added, reapply>>

PatchesInit ==
    /\ installed = OldRelease
    /\ backup = [f \in PatchedFiles |-> NoCopy]
    /\ \E kept \in SUBSET PatchedFiles :
         pristine = [f \in PatchedFiles |-> IF f \in kept THEN OldRelease[f] ELSE NoCopy]
    /\ added = [f \in PatchedFiles |-> {}]
    /\ reapply = "before"

(* --------------------- the user, the installer, the agent -------------- *)

Customize(f) ==
    /\ reapply = "before"
    /\ \/ \E l \in UserLines[f] \ installed[f] :
            /\ installed' = [installed EXCEPT ![f] = @ \cup {l}]
            /\ added' = [added EXCEPT ![f] = @ \cup {l}]
       \/ \E l \in installed[f] :
            /\ installed' = [installed EXCEPT ![f] = @ \ {l}]
            /\ added' = [added EXCEPT ![f] = @ \ {l}]
    /\ UNCHANGED <<backup, pristine, reapply>>

(* What differs from the release that it was installed from is backed up.  *)
Update ==
    /\ reapply = "before" /\ reapply' = "merge"
    /\ backup' = [f \in PatchedFiles |->
                    IF installed[f] # OldRelease[f] THEN installed[f] ELSE NoCopy]
    /\ installed' = NewRelease
    /\ UNCHANGED <<pristine, added>>

(* The merge may keep and drop anything, or leave no file at all.          *)
MergeBack(f) ==
    /\ reapply = "merge" /\ backup[f] # NoCopy
    /\ \E merged \in (SUBSET (NewRelease[f] \cup backup[f])) \cup {NoCopy} :
         installed' = [installed EXCEPT ![f] = merged]
    /\ UNCHANGED <<backup, pristine, added, reapply>>

(* ------------------------------ the verifier --------------------------- *)

(* An empty baseline counts as none.                                       *)
HasBaseline(f) == pristine[f] \notin {NoCopy, {}}

ComputeUserAddedLines(f) ==
    IF HasBaseline(f) THEN (backup[f] \cap Significant) \ pristine[f]
    ELSE backup[f] \cap Significant

Includes(text, l) == \E m \in text : m = l \/ <<l, m>> \in Inside

(* Mutant: one line of the user's that is there vouches for the others. *)
VerifyFile_AnyLine(f) ==
    LET lines == ComputeUserAddedLines(f) IN
    \/ backup[f] = NoCopy
    \/ /\ installed[f] # NoCopy
       /\ \/ lines = {}
          \/ \E l \in lines : Includes(installed[f], l)

VerifyFile(f) ==
    \/ backup[f] = NoCopy
    \/ /\ installed[f] # NoCopy
       /\ \A l \in ComputeUserAddedLines(f) : Includes(installed[f], l)

(* Exit code 0 lets the workflow go on; on any other the files are merged  *)
(* again.                                                                  *)
Verify ==
    /\ reapply = "merge"
    /\ reapply' = IF \A f \in PatchedFiles : VerifyFile(f) THEN "verified" ELSE "merge"
    /\ UNCHANGED <<installed, backup, pristine, added>>

Cleanup ==
    /\ reapply = "verified" /\ reapply' = "clean"
    /\ backup' = [f \in PatchedFiles |-> NoCopy]
    /\ UNCHANGED <<installed, pristine, added>>

PatchesNext == (\E f \in PatchedFiles : Customize(f) \/ MergeBack(f)) \/ Update \/ Verify \/ Cleanup

PatchesSpec == PatchesInit /\ [][PatchesNext]_patchVars

(* ------------------------------ properties ----------------------------- *)

PatchesTypeOK ==
    /\ reapply \in {"before", "merge", "verified", "clean"}
    /\ \A f \in PatchedFiles :
         LET lines == OldRelease[f] \cup NewRelease[f] \cup UserLines[f] IN
         /\ {installed[f], backup[f]} \subseteq (SUBSET lines) \cup {NoCopy}
         /\ pristine[f] \in {OldRelease[f], NoCopy} /\ added[f] \subseteq UserLines[f]

(* The backups only go when every significant line that the user had added *)
(* to the old release is in the files again, or in a line of the new one   *)
(* (#2969, content "silently dropped"), with or without a baseline.        *)
BackupsOutliveLoss ==
    reapply = "clean" =>
      \A f \in PatchedFiles : \A l \in added[f] \cap Significant :
         installed[f] # NoCopy /\ Includes(installed[f], l)

(* With a baseline the gate stops for nothing but a line of the user's: a  *)
(* line that the new release dropped or changed is no reason to merge      *)
(* again.  (Without one it is: "over-broad but safe".)                     *)
HaltsAreDeserved ==
    reapply = "merge" =>
      \A f \in PatchedFiles :
         HasBaseline(f) /\ installed[f] # NoCopy /\ ~VerifyFile(f) =>
           \E l \in added[f] : ~Includes(installed[f], l)

(* The gate lets no loss pass and stops nothing else.                      *)
GateIsRight == BackupsOutliveLoss /\ HaltsAreDeserved
=============================================================================
