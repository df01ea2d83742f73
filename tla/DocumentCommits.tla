-------------------------- MODULE DocumentCommits --------------------------
(***************************************************************************)
(* How planning documents are committed: cmdCommit and cmdCommitToSubrepo  *)
(* in commands.cjs.  Several agents run them in one working directory, and *)
(* they share its index and its branch: each command is a sequence of git  *)
(* invocations, and between any two of them another agent's may come.      *)
(*                                                                         *)
(* A text of a document is a number, given once; 0 is no document.  The    *)
(* documents of the project are in the repository "root", the others in    *)
(* the sub-repository of their name.                                       *)
(***************************************************************************)
EXTENDS FiniteSets, Integers

CONSTANTS Committers,  \* the agents
          RepoOf,      \* the repository of each document
          BranchOf,    \* the branch that the strategy gives each document
          MaxTexts,    \* how many texts are written
          MaxCommits   \* how many commands are run

Documents == DOMAIN RepoOf
PlanningDocs == {d \in Documents : RepoOf[d] = "root"}
Repos == {RepoOf[d] : d \in Documents} \cup {"root"}
Branches == {BranchOf[d] : d \in PlanningDocs} \cup {"main"} \cup (Repos \ {"root"})

ASSUME CommitsAssumption ==
    /\ IsFiniteSet(Documents) /\ DOMAIN BranchOf = PlanningDocs
    /\ MaxTexts \in Nat \ {0} /\ MaxCommits \in Nat

VARIABLES
    work, index,   \* the text of each document, on disk and staged
    tips,          \* the texts at the tip of each branch; none before it exists
    onBranch,      \* the branch that is checked out in each repository
    texts,         \* how many texts there are
    stored,        \* the texts of each document that are in a commit
    superseded,    \* the texts that were staged and then replaced in the index
    strategy,      \* branching_strategy
    commits,       \* how many commands were started
    committer      \* the command that each agent runs, or ran last

commitVars == <<work, index, tips, onBranch, texts, stored, superseded, strategy, commits,
                committer>>
repoVars == <<work, index, tips, onBranch, stored, superseded>>

NoBranchYet == [d \in Documents |-> -1]
NothingStaged == [d \in Documents |-> 0]
Quiet == [pc |-> "idle", mode |-> "files", files |-> {}, todo |-> {}, repo |-> "root",
          amend |-> FALSE, staged |-> NothingStaged, result |-> "none"]

CommitsInit ==
    /\ work = [d \in Documents |-> 1]
    /\ index = work
    /\ \E earlier \in {work, NoBranchYet, [d \in Documents |-> IF d \in PlanningDocs THEN 0 ELSE 1]} :
         tips = [b \in Branches |-> IF b \in Repos \cup {"main"} THEN work ELSE earlier]
    /\ onBranch = [r \in Repos |-> IF r = "root" THEN "main" ELSE r]
    /\ texts = 1
    /\ stored = [d \in Documents |-> {1}]
    /\ superseded = [d \in Documents |-> {}]
    /\ strategy \in {"none", "phase"}
    /\ commits = 0
    /\ committer = [p \in Committers |-> Quiet]

Tip(r) == tips[onBranch[r]]
DocsOf(r) == {d \in Documents : RepoOf[d] = r}
DirtyIn(r) == {d \in DocsOf(r) : index[d] # Tip(r)[d]}
Does(p, step) == committer[p].pc = step
Proceed(p, changes) == committer' = [committer EXCEPT ![p] = changes]

(* ------------------------------- cmdCommit ----------------------------- *)

(* commit_docs is set and .planning is not ignored: otherwise the command  *)
(* returns at once.  No files means all of .planning.                      *)
StartCommit(p) ==
    /\ Does(p, "idle") /\ commits < MaxCommits
    /\ commits' = commits + 1
    /\ \E mode \in {"files", "everything"}, files \in SUBSET PlanningDocs, amend \in BOOLEAN :
         /\ (mode = "files") = (files # {})
         /\ Proceed(p, [Quiet EXCEPT !.pc = IF strategy = "none" \/ mode = "everything"
                                            THEN "stage" ELSE "branch",
                                     !.mode = mode, !.amend = amend, !.files = files,
                                     !.todo = IF files = {} THEN PlanningDocs ELSE files])
    /\ UNCHANGED <<repoVars, texts, strategy>>

(* Where a document is the same in both trees git keeps what is on disk    *)
(* and staged; where it differs a change of one's own stands in the way.   *)
InTheWay(branch) ==
    {d \in PlanningDocs : /\ Tip("root")[d] # tips[branch][d]
                          /\ ~(index[d] = Tip("root")[d] /\ work[d] = index[d])}
SwitchedTo(branch, where) ==
    [d \in Documents |-> IF d \in PlanningDocs /\ Tip("root")[d] # tips[branch][d]
                         THEN tips[branch][d] ELSE where[d]]

Checkout(branch) ==
    \/ /\ InTheWay(branch) = {}
       /\ onBranch' = [onBranch EXCEPT !["root"] = branch]
       /\ work' = SwitchedTo(branch, work)
       /\ index' = SwitchedTo(branch, index)
       /\ UNCHANGED tips
    \/ /\ InTheWay(branch) # {}
       /\ UNCHANGED <<onBranch, work, index, tips>>

(* The branch of the first file's phase is made, or else checked out; that *)
(* git refuses is not noticed.                                             *)
EnsureBranch(p) ==
    /\ Does(p, "branch")
    /\ \E d \in committer[p].files :
         LET branch == BranchOf[d] IN
         IF onBranch["root"] = branch THEN UNCHANGED <<onBranch, work, index, tips>>
         ELSE IF tips[branch] = NoBranchYet
         THEN /\ tips' = [tips EXCEPT ![branch] = Tip("root")]
              /\ onBranch' = [onBranch EXCEPT !["root"] = branch]
              /\ UNCHANGED <<work, index>>
         ELSE Checkout(branch)
    /\ Proceed(p, [committer[p] EXCEPT !.pc = "stage"])
    /\ UNCHANGED <<texts, stored, superseded, strategy, commits>>

(* git add: the index takes what is on disk, a deletion too. *)
Add(p, docs) ==
    /\ index' = [d \in Documents |-> IF d \in docs THEN work[d] ELSE index[d]]
    /\ superseded' = [d \in Documents |->
                        IF d \in docs /\ index[d] # work[d]
                        THEN superseded[d] \cup {index[d]} ELSE superseded[d]]
    /\ committer' = [committer EXCEPT
                       ![p].staged = [d \in Documents |->
                                        IF d \in docs THEN work[d] ELSE @[d]],
                       ![p].todo = @ \ docs]

(* One git add for each file of --files; of those that are not there       *)
(* cmdCommit stages nothing, cmdCommitToSubrepo the deletion.              *)
StageFile(p) ==
    /\ Does(p, "stage") /\ committer[p].mode # "everything"
    /\ \E d \in committer[p].todo :
         IF work[d] = 0 /\ committer[p].mode = "files"
         THEN /\ committer' = [committer EXCEPT ![p].todo = @ \ {d}]
              /\ UNCHANGED <<index, superseded>>
         ELSE Add(p, {d})
    /\ UNCHANGED <<work, tips, onBranch, texts, stored, strategy, commits>>

(* Without --files all of .planning is added; when the directory is gone,  *)
(* git rm refuses to take it out without -r.                               *)
StageEverything(p) ==
    /\ Does(p, "stage") /\ committer[p].mode = "everything" /\ committer[p].todo # {}
    /\ \/ Add(p, PlanningDocs)
       \/ /\ \A d \in PlanningDocs : work[d] = 0
          /\ committer' = [committer EXCEPT ![p].todo = {}]
          /\ UNCHANGED <<index, superseded>>
    /\ UNCHANGED <<work, tips, onBranch, texts, stored, strategy, commits>>

(* Mutant: the commit takes what is on disk, as commit -a does. *)
Recorded_AsOnDisk(r) == [d \in Documents |-> IF d \in DocsOf(r) THEN work[d] ELSE Tip(r)[d]]

(* The commit takes the whole index, whoever staged what is in it. *)
Recorded(r) == [d \in Documents |-> IF d \in DocsOf(r) THEN index[d] ELSE Tip(r)[d]]

GitCommit(p) ==
    LET r == committer[p].repo IN
    /\ Does(p, "stage") /\ committer[p].todo = {}
    /\ \/ /\ DirtyIn(r) # {} \/ committer[p].amend
          /\ tips' = [tips EXCEPT ![onBranch[r]] = Recorded(r)]
          /\ stored' = [d \in Documents |->
                          IF d \in DocsOf(r) THEN stored[d] \cup {Recorded(r)[d]} ELSE stored[d]]
          /\ Proceed(p, [committer[p] EXCEPT !.pc = "done", !.result = "committed"])
       \/ (* Git says "nothing to commit" of a clean directory only. *)
          /\ DirtyIn(r) = {} /\ ~committer[p].amend
          /\ \A d \in DocsOf(r) : work[d] = index[d]
          /\ Proceed(p, [committer[p] EXCEPT !.pc = "done", !.result = "nothing"])
          /\ UNCHANGED <<tips, stored>>
       \/ (* A hook refuses, the index is locked, or git takes too long. *)
          /\ Proceed(p, [committer[p] EXCEPT !.pc = "done", !.result = "failed"])
          /\ UNCHANGED <<tips, stored>>
    /\ UNCHANGED <<work, index, onBranch, texts, superseded, strategy, commits>>

(* -------------------------- cmdCommitToSubrepo ------------------------- *)

(* The files are grouped by repository, one commit follows another, and a  *)
(* repository that fails does not keep the next from its own.              *)
BeginRepo(p, r, files) ==
    Proceed(p, [Quiet EXCEPT !.pc = "stage", !.mode = "subrepo", !.repo = r,
                             !.files = files, !.todo = {d \in files : RepoOf[d] = r}])

StartSubrepoCommit(p) ==
    /\ Does(p, "idle") /\ commits < MaxCommits
    /\ commits' = commits + 1
    /\ \E files \in SUBSET (Documents \ PlanningDocs), r \in Repos :
         /\ \E d \in files : RepoOf[d] = r
         /\ BeginRepo(p, r, files)
    /\ UNCHANGED <<repoVars, texts, strategy>>

NextRepo(p) ==
    LET rest == {d \in committer[p].files : RepoOf[d] # committer[p].repo} IN
    /\ Does(p, "done") /\ committer[p].mode = "subrepo"
    /\ \E d \in rest : BeginRepo(p, RepoOf[d], rest)
    /\ UNCHANGED <<repoVars, texts, strategy, commits>>

EndCommit(p) ==
    /\ Does(p, "done")
    /\ committer[p].mode = "subrepo" => \A d \in committer[p].files : RepoOf[d] = committer[p].repo
    /\ Proceed(p, Quiet)
    /\ UNCHANGED <<repoVars, texts, strategy, commits>>

(* ------------------------------ the agents ----------------------------- *)

WriteDocument(d) ==
    /\ texts < MaxTexts
    /\ texts' = texts + 1
    /\ work' = [work EXCEPT ![d] = texts + 1]
    /\ UNCHANGED <<index, tips, onBranch, stored, superseded, strategy, commits, committer>>

(* A document is absent for a while, or for good. *)
RemoveDocument(d) ==
    /\ work[d] # 0
    /\ work' = [work EXCEPT ![d] = 0]
    /\ UNCHANGED <<index, tips, onBranch, texts, stored, superseded, strategy, commits, committer>>

CommitsNext ==
    \/ \E p \in Committers :
         \/ StartCommit(p) \/ EnsureBranch(p) \/ StageFile(p) \/ StageEverything(p)
         \/ GitCommit(p) \/ StartSubrepoCommit(p) \/ NextRepo(p) \/ EndCommit(p)
    \/ \E d \in Documents : WriteDocument(d) \/ RemoveDocument(d)

CommitsSpec == CommitsInit /\ [][CommitsNext]_commitVars

(* ------------------------------ properties ----------------------------- *)

(* The values that the variables of the commits take. *)
CommitsTypeOK ==
    /\ {work, index} \cup {tips[b] : b \in Branches} \subseteq
         [Documents -> 0 .. MaxTexts] \cup {NoBranchYet}
    /\ onBranch \in [Repos -> Branches]
    /\ texts \in 1 .. MaxTexts /\ commits \in 0 .. MaxCommits
    /\ \A d \in Documents : stored[d] \cup superseded[d] \subseteq 0 .. MaxTexts
    /\ strategy \in {"none", "phase"}
    /\ \A p \in Committers :
         /\ committer[p].pc \in {"idle", "branch", "stage", "done"}
         /\ committer[p].result \in {"none", "committed", "nothing", "failed"}
         /\ committer[p].todo \subseteq committer[p].files \cup PlanningDocs

(* A command that reports "committed", or that there was nothing to        *)
(* commit, leaves every text that it staged in some commit, its own or the *)
(* one with which another agent took the shared index, unless someone      *)
(* staged a newer text of that document in between.                        *)
StagedTextsAreStored ==
    \A p \in Committers : committer[p].result \in {"committed", "nothing"} =>
        \A d \in Documents : committer[p].staged[d] \in {0} \cup stored[d] \cup superseded[d]

(* No command takes a text from the disk that is in no commit: whatever    *)
(* branches the agents switch to, the edits of the others stay.  (A file   *)
(* that is away may come back.)                                            *)
EditsStayOnDisk ==
    \A d \in Documents : work'[d] # work[d] =>
      \/ texts' # texts \/ (work'[d] = 0 /\ onBranch' = onBranch)
      \/ work[d] \in {0} \cup stored[d]

(* A document leaves the index of a branch, and so the next commit, only   *)
(* because it was away when someone staged all of .planning: a commit of   *)
(* named files never stages that a document is gone (#2014).               *)
OnlyEverythingDeletes ==
    \A d \in PlanningDocs :
      index[d] # 0 /\ index'[d] = 0 /\ onBranch' = onBranch =>
          \E p \in Committers : committer[p].mode = "everything"

(* Of agents that share a checkout none loses another one's text.          *)
NoTextIsLost ==
    [][EditsStayOnDisk /\ OnlyEverythingDeletes /\ StagedTextsAreStored']_commitVars
=============================================================================
