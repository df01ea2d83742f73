-------------------------- MODULE WorktreeCleanup --------------------------
(***************************************************************************)
(* worktree cleanup-wave of gsd-tools (worktree-safety.cjs): the branches  *)
(* of the agents of a wave are checked and merged one after the other, and *)
(* their worktrees and branches deleted, one git command per step, while   *)
(* agents may still be at work.  An operator sees what was reported,       *)
(* resolves it, and runs the command again with the same manifest.         *)
(*                                                                         *)
(* A branch is the number of commits its agent made since it was forked;   *)
(* git is external: a command does what is asked of it, or fails, or runs  *)
(* into its 10 s timeout after it did it.                                  *)
(***************************************************************************)
EXTENDS Integers, FiniteSets, Sequences, SequencesExt

CONSTANTS Manifest,     \* the agents of the wave, in the order of the manifest
          MaxEdits,     \* bound on what the agents do
          MaxReruns,    \* bound on the times the command is run again
          MaxGitFaults  \* bound on git commands that fail or time out

Agents == Range(Manifest)

ASSUME WorktreesAssumption ==
    /\ Manifest \in Seq(Agents) /\ Manifest # <<>> /\ IsInjective(Manifest)
    /\ MaxEdits \in Nat /\ MaxReruns \in Nat /\ MaxGitFaults \in Nat

VARIABLES
    strayed,    \* the agents that work elsewhere than from the expected base
    branches, worktrees,      \* the agents that have one
    checkedOut, \* the worktrees that are on their branch
    tip,        \* the commits of each branch
    head,       \* how many of them the main branch has
    dirty,      \* the worktrees with changes that are not committed
    deleting,   \* the branches that delete files
    at, entry,  \* the next git command, and the place in the manifest
    status, reason,           \* of each entry of the last run
    edits, reruns, gitFaults,
    late, lateDeletion,       \* history: agents that edited, or committed a
                              \* deletion, after the check for it
    byHand,                   \* history: the operator merged the branch
    cleaned, lost             \* history: merged and removed; work that is gone

agentVars == <<strayed, checkedOut, tip, dirty, deleting, edits, late, lateDeletion>>
cleanupVars == <<agentVars, branches, worktrees, head, at, entry, status, reason,
                 reruns, gitFaults, byHand, cleaned, lost>>

CleanupInit ==
    /\ strayed \in SUBSET Agents /\ dirty \in SUBSET Agents
    /\ branches = Agents /\ worktrees = Agents /\ checkedOut = Agents
    /\ tip \in [Agents -> 0 .. 1] /\ head = [a \in Agents |-> 0]
    /\ deleting \in SUBSET {a \in Agents : tip[a] > 0}
    /\ at = "idle" /\ entry = 1
    /\ status = [a \in Agents |-> "pending"] /\ reason = [a \in Agents |-> "ok"]
    /\ edits = 0 /\ reruns = 0 /\ gitFaults = 0
    /\ late = {} /\ lateDeletion = {}
    /\ byHand = {} /\ cleaned = {} /\ lost = {}

(* ------------------------------ the agents ----------------------------- *)

Steps == <<"branch", "base", "deletions", "status", "merge", "remove", "delete">>
Reached(step) == \E i, j \in DOMAIN Steps : Steps[i] = step /\ Steps[j] = at /\ i <= j

(* The command is at step, or a later one, of the entry of a. *)
PastCheck(a, step) == Manifest[entry] = a /\ Reached(step)

Edit(a) ==
    /\ a \in worktrees \ dirty /\ edits < MaxEdits
    /\ edits' = edits + 1
    /\ dirty' = dirty \cup {a}
    /\ late' = IF PastCheck(a, "merge") THEN late \cup {a} ELSE late
    /\ UNCHANGED <<strayed, checkedOut, tip, deleting, lateDeletion, branches, worktrees,
                   head, at, entry, status, reason, reruns, gitFaults, byHand,
                   cleaned, lost>>

CommitWork(a) ==
    /\ a \in dirty \cap worktrees \cap checkedOut
    /\ tip' = [tip EXCEPT ![a] = @ + 1]
    /\ dirty' = dirty \ {a}
    /\ \/ UNCHANGED <<deleting, lateDeletion>>
       \/ /\ deleting' = deleting \cup {a}
          /\ lateDeletion' = IF PastCheck(a, "status") THEN lateDeletion \cup {a}
                             ELSE lateDeletion
    /\ UNCHANGED <<strayed, checkedOut, edits, late, branches, worktrees, head, at,
                   entry, status, reason, reruns, gitFaults, byHand, cleaned, lost>>

(* It checks out something else, a detached HEAD in a bisect, say. *)
LeaveBranch(a) ==
    /\ a \in worktrees \cap checkedOut /\ edits < MaxEdits
    /\ edits' = edits + 1
    /\ checkedOut' = checkedOut \ {a}
    /\ UNCHANGED <<strayed, tip, dirty, deleting, late, lateDeletion, branches,
                   worktrees, head, at, entry, status, reason, reruns, gitFaults,
                   byHand, cleaned, lost>>

(* ----------------------------- the command ----------------------------- *)

Agent == Manifest[entry]

Begin ==
    /\ at = "idle" /\ \A a \in Agents : status[a] = "pending"
    /\ at' = "branch" /\ entry' = 1
    /\ UNCHANGED <<agentVars, branches, worktrees, head, status, reason, reruns,
                   gitFaults, byHand, cleaned, lost>>

Report(s, r) == status' = [status EXCEPT ![Agent] = s] /\ reason' = [reason EXCEPT ![Agent] = r]

(* The entry is reported, and the others stay as they are. *)
Block(r) ==
    /\ Report("blocked", r)
    /\ at' = "idle" /\ UNCHANGED entry

(* git fails, or does its work and is killed by the timeout. *)
GitFault == gitFaults < MaxGitFaults /\ gitFaults' = gitFaults + 1

(* Mutant: untracked files are not asked for. *)
Clean_TrackedOnly(a) == TRUE

Clean(a) == a \notin dirty

Deletes(a) == a \in deleting

(* merge-base HEAD branch *)
ForkedAtBase(a) == a \notin strayed /\ head[a] = 0

(* What each check asks, and the reason it blocks with *)
CheckPasses(a) ==
    CASE at = "branch" -> a \in worktrees \cap checkedOut
      [] at = "base" -> a \in branches /\ ForkedAtBase(a)
      [] at = "deletions" -> a \in branches /\ ~Deletes(a)
      [] at = "status" -> a \in worktrees /\ Clean(a)

ReasonAt(a) ==
    CASE at = "branch" -> "branch_mismatch"
      [] at = "base" -> "base_mismatch"
      [] at = "deletions" -> IF a \in branches /\ Deletes(a) THEN "branch_contains_deletions"
                             ELSE "deletion_check_failed"
      [] at = "status" -> "worktree_dirty"

After(step) == CHOOSE next \in Range(Steps) :
    \E i \in DOMAIN Steps : Steps[i] = step /\ i < Len(Steps) /\ Steps[i + 1] = next

(* branchCheck, mergeBase, deletions, worktreeStatus *)
Check ==
    /\ at \in {"branch", "base", "deletions", "status"}
    /\ \/ /\ CheckPasses(Agent)
          /\ at' = After(at)
          /\ UNCHANGED <<entry, status, reason, gitFaults>>
       \/ /\ ~CheckPasses(Agent)
          /\ Block(ReasonAt(Agent))
          /\ UNCHANGED gitFaults
       \/ GitFault /\ Block(IF at = "deletions" THEN "deletion_check_failed"
                            ELSE ReasonAt(Agent))
    /\ UNCHANGED <<agentVars, branches, worktrees, head, reruns, byHand, cleaned, lost>>

MergedInto(a) == [head EXCEPT ![a] = tip[a]]

(* A conflict is a fault that leaves HEAD as it is. *)
Merge ==
    /\ at = "merge"
    /\ \/ /\ head' = MergedInto(Agent)
          /\ at' = "remove"
          /\ UNCHANGED <<entry, status, reason, gitFaults>>
       \/ GitFault /\ Block("merge_failed") /\ head' \in {head, MergedInto(Agent)}
    /\ UNCHANGED <<agentVars, branches, worktrees, reruns, byHand, cleaned, lost>>

(* remove --force: the changes that are not committed go as well. *)
RemoveWorktree ==
    /\ at = "remove"
    /\ \/ /\ worktrees' = worktrees \ {Agent}
          /\ at' = "delete"
          /\ UNCHANGED <<entry, status, reason, gitFaults>>
       \/ /\ GitFault /\ Block("worktree_remove_failed")
          /\ worktrees' \in {worktrees, worktrees \ {Agent}}
    /\ lost' = IF Agent \in dirty \ worktrees' THEN lost \cup {Agent} ELSE lost
    /\ UNCHANGED <<agentVars, branches, head, reruns, byHand, cleaned>>

NextEntry == IF entry < Len(Manifest) THEN at' = "branch" /\ entry' = entry + 1
             ELSE at' = "idle" /\ UNCHANGED entry

(* branch -D, merged or not; a failure is a warning and the loop goes on. *)
DeleteBranch ==
    /\ at = "delete"
    /\ \/ /\ branches' = branches \ {Agent}
          /\ Report("merged_removed", "ok")
          /\ UNCHANGED gitFaults
       \/ /\ GitFault /\ Report("warning", "branch_delete_failed")
          /\ branches' \in {branches, branches \ {Agent}}
    /\ lost' = IF tip[Agent] > head[Agent] /\ Agent \notin branches'
                 THEN lost \cup {Agent} ELSE lost
    /\ cleaned' = cleaned \cup {Agent}
    /\ NextEntry
    /\ UNCHANGED <<agentVars, worktrees, head, reruns, byHand>>

(* The command is killed, and reports nothing. *)
Kill ==
    /\ at # "idle" /\ GitFault
    /\ at' = "idle"
    /\ status' = [a \in Agents |-> "pending"] /\ reason' = [a \in Agents |-> "ok"]
    /\ UNCHANGED <<agentVars, branches, worktrees, head, entry, reruns, byHand,
                   cleaned, lost>>

(* ----------------------------- the operator ---------------------------- *)

Blocked == {a \in Agents : status[a] = "blocked"}

(* The entry that was reported is put in order, a merge is completed by    *)
(* hand, and the same command is run again.                                *)
ResolveAndRerun(a) ==
    /\ at = "idle" /\ a \in Blocked /\ reruns < MaxReruns
    /\ reruns' = reruns + 1
    /\ IF a \in worktrees
         THEN /\ checkedOut' = checkedOut \cup {a}
              /\ deleting' = deleting \ {a} /\ dirty' = dirty \ {a}
              /\ tip' = [tip EXCEPT ![a] = IF a \in dirty THEN @ + 1 ELSE @]
         ELSE UNCHANGED <<checkedOut, deleting, dirty, tip>>
    /\ IF reason[a] = "merge_failed"
         THEN head' = [head EXCEPT ![a] = tip'[a]] /\ byHand' = byHand \cup {a}
         ELSE UNCHANGED <<head, byHand>>
    /\ strayed' = IF head[a] = 0 THEN strayed \ {a} ELSE strayed
    /\ status' = [b \in Agents |-> "pending"] /\ reason' = [b \in Agents |-> "ok"]
    /\ at' = "branch" /\ entry' = 1
    /\ UNCHANGED <<edits, late, lateDeletion, branches, worktrees, gitFaults, cleaned, lost>>

CleanupNext ==
    \/ Begin \/ Check \/ Merge \/ RemoveWorktree \/ DeleteBranch \/ Kill
    \/ \E a \in Agents : Edit(a) \/ CommitWork(a) \/ LeaveBranch(a) \/ ResolveAndRerun(a)

CleanupSpec == CleanupInit /\ [][CleanupNext]_cleanupVars

(* ------------------------------ properties ----------------------------- *)

CleanupTypeOK ==
    /\ worktrees \subseteq Agents /\ branches \subseteq Agents
    /\ \A a \in Agents : head[a] \in 0 .. tip[a]
    /\ at \in Range(Steps) \cup {"idle"} /\ entry \in DOMAIN Manifest
    /\ status \in [Agents -> {"pending", "blocked", "warning", "merged_removed"}]

(* --force and -D throw nothing away that was there when the worktree was  *)
(* checked: work is only lost if an agent edits after that (the order of   *)
(* the checks, the merge and the two deletions).                           *)
OnlyLateWorkIsLost == lost \subseteq late

(* What the command merges was forked from the expected base and deletes   *)
(* no file, unless the agent committed the deletion after the check.       *)
OnlyCheckedWorkIsMerged ==
    \A a \in Agents \ byHand' : head'[a] > head[a] =>
       a \notin strayed /\ (a \in deleting => a \in lateDeletion)

(* Neither the merge nor the deletions do what nobody has checked.         *)
CleanupIsSafe == [][OnlyCheckedWorkIsMerged /\ OnlyLateWorkIsLost']_cleanupVars

(* "If the helper reports a blocked cleanup, resolve the reported manifest *)
(* entry and rerun the same command" (workflows/execute-phase.md): a rerun *)
(* passes the entries that an earlier run has merged and removed.  The     *)
(* code takes their missing worktree for a branch_mismatch and stops.      *)
CleanedEntriesDoNotBlock == Blocked \cap cleaned = {}

=============================================================================
