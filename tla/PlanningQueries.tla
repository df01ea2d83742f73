-------------------------- MODULE PlanningQueries --------------------------
(***************************************************************************)
(* What the commands that only look at a project say of it: init manager   *)
(* (which phases to discuss, plan or execute next), init progress and      *)
(* stats (how far the milestone is), roadmap analyze and the cross check   *)
(* of directories in validate health.  Each reads ROADMAP.md and the       *)
(* directories in its own way; the properties compare them.                *)
(***************************************************************************)
EXTENDS PlanningProject

Spelled(s) == Ref(s.num, s.padded)

InSequence(s) == ~InBacklog(s.num)

(* ------------------- roadmap analyze and init manager ------------------ *)

(* The status of a phase by the files of its directory d. *)
FilesStatus(d) ==
    CASE Complete(d) -> "complete"
      [] ~Complete(d) /\ d.summaries > 0 -> "partial"
      [] d.summaries = 0 /\ d.plans > 0 -> "planned"
      [] d.plans = 0 /\ d.files = "context" -> "discussed"
      [] OTHER -> "empty"

(* A phase that the ROADMAP has checked is complete, whatever is on disk;  *)
(* of two directories with the number readdir decides.                     *)
DiskStatuses(s) ==
    IF s.box = "checked" THEN {"complete"}
    ELSE IF DirsOf(s.num) = {} THEN {"no_directory"}
    ELSE {FilesStatus(d) : d \in DirsOf(s.num)}

DiskStatus(s) == CHOOSE status \in DiskStatuses(s) : TRUE

(* Dependencies are compared as they are spelled. *)
DepsSatisfied(s) ==
    \A ref \in s.on :
        \E t \in Sections : Spelled(t) = ref /\ DiskStatus(t) = "complete"

Action(s) ==
    CASE DiskStatus(s) = "planned" /\ DepsSatisfied(s) -> "execute"
      [] DiskStatus(s) = "discussed" -> "plan"
      [] DiskStatus(s) \in {"empty", "no_directory"} /\ DepsSatisfied(s) -> "discuss"
      [] OTHER -> "none"

(* reaches(): the dependencies of a phase, and those of the phases that    *)
(* they name, and so on; no chain of different phases is longer.           *)
Reached(ref) ==
    LET dependencies(refs) == UNION {s.on : s \in {t \in Sections : Spelled(t) \in refs}}
        after[k \in 0 .. Len(roadmap)] ==
          IF k = 0 THEN {ref} ELSE after[k - 1] \cup dependencies(after[k - 1])
    IN dependencies(after[Len(roadmap)])

Related(s, t) == Spelled(t) \in Reached(Spelled(s)) \/ Spelled(s) \in Reached(Spelled(t))

(* What is not executed in parallel with the phases in execution: those    *)
(* that are partly done, and the planned ones whose files are young.       *)
RecommendedActions(young) ==
    LET executing == {s \in Sections : DiskStatus(s) = "partial"
                        \/ (DiskStatus(s) = "planned" /\ s \in young)}
        planning == {s \in Sections : DiskStatus(s) = "discussed" /\ s \in young}
        rivals(s) == CASE Action(s) = "execute" -> executing
                       [] Action(s) = "plan" -> planning
                       [] OTHER -> {}
    IN {s \in Sections : /\ InSequence(s) /\ Action(s) # "none"
                         /\ \A t \in rivals(s) : ~Related(s, t)}

AllComplete ==
    /\ \E s \in Sections : InSequence(s)
    /\ \A s \in Sections : InSequence(s) => DiskStatus(s) = "complete"

(* roadmap analyze: the first phase with work in it and the first without. *)
AnalyzedCurrent == {s \in Sections : DiskStatus(s) \in {"planned", "partial"}}
AnalyzedNext ==
    {s \in Sections : DiskStatus(s) \in {"empty", "no_directory", "discussed"}}

(* ------------------------ init progress and stats ---------------------- *)

(* init progress trusts the directory of a phase, and the ROADMAP only for *)
(* a phase that has none.                                                  *)
InProgress == {d \in MilestoneDirs : d.plans > 0 /\ ~Complete(d)}
Pending == {d \in MilestoneDirs : d.plans = 0}

NotStartedSections ==
    {s \in Sections : DirsOf(s.num) = {} /\ s.box # "checked"}

ProgressHasNext == Pending # {} \/ (InProgress = {} /\ NotStartedSections # {})

StatsTotal == Cardinality(SectionNums \cup {d.num : d \in MilestoneDirs})
StatsComplete == Cardinality({d.num : d \in {e \in MilestoneDirs : Complete(e)}})

(* ---------------------------- validate health -------------------------- *)

DiskNums == {d.num : d \in dirs \cup vault}

(* A directory without section (W007).  Of a decimal phase the integer is  *)
(* looked for as well, which hides the crash of a phase insert.            *)
UnlistedDirs ==
    {n \in DiskNums : n \notin SectionNums /\ <<n[1], 0>> \notin SectionNums}

(* ----------------------------- state validate -------------------------- *)

(* The directories whose names start with the padded Current Phase, with   *)
(* the decimal phases after it; a decimal phase is padded wrong, and none  *)
(* is found.                                                               *)
ValidatedDirs ==
    IF doc.compound \/ doc.phase = Unknown \/ doc.phase[2] # 0 THEN {}
    ELSE {d \in dirs : d.num[1] = doc.phase[1]}

PlanCountDrift(d) == doc.total > 0 /\ d.plans # doc.total

StatusDrift(d) ==
    d.plans > 0 /\ d.summaries >= d.plans /\ doc.status = "Executing Phase"

StateIsValid == \A d \in ValidatedDirs : ~PlanCountDrift(d) /\ ~StatusDrift(d)

(* ------------------------------ properties ----------------------------- *)

(* The manager always has something to offer until every phase of the      *)
(* sequence is complete, unless a phase is in the middle of its execution; *)
(* while files are young it may hold everything back for five minutes.     *)
(* The dependencies it waits for are written by phase add and insert and   *)
(* renumbered by phase remove; the exceptions are in Blocking.             *)
WorkIsOffered ==
    torn \cap Blocking = {} =>
        \/ AllComplete
        \/ ~\E s \in Sections : InSequence(s)
        \/ \E s \in Sections : DiskStatus(s) = "partial"
        \/ RecommendedActions({}) # {}

(* When init progress finds neither a current nor a next phase, roadmap    *)
(* analyze finds none, and init manager calls the milestone complete.      *)
DoneIsDone ==
    (torn \cap Splitting = {} /\ \E s \in Sections : InSequence(s))
        => (InProgress = {} /\ ~ProgressHasNext
              => AllComplete /\ AnalyzedCurrent = {} /\ AnalyzedNext = {})

(* A write of STATE.md that brings the progress to 100 percent finds every *)
(* phase of the ROADMAP complete on disk (#3242, computeProgressPercent),  *)
(* and stats counts as many complete phases as there are.  The fraction is *)
(* rounded, which makes 100 percent of 199 phases out of 200.              *)
HundredPercentMeansDone ==
    fm'.percent = 100 /\ fm.percent # 100 /\ fm'.phases < 200 =>
       /\ \A n \in SectionNums' : \E d \in dirs \cup dirs' : d.num = n /\ Complete(d)
       /\ dirs' = dirs => StatsComplete' = StatsTotal'

(* A phase add that crashes between its two writes leaves a directory that *)
(* validate health reports, because the number is new on both sides.       *)
CrashedAddIsReported ==
    \A d \in dirs' \ dirs :
       d.num[2] = 0 /\ "crash" \in torn' \ torn => d.num \in UnlistedDirs'

(* What state sync has brought up to date, state validate does not call a  *)
(* drift of the plan count, as long as both look at the same phase: sync   *)
(* follows the files, validate the field Current Phase.                    *)
SyncedPlansAreValid ==
    Sync /\ UNCHANGED registryVars =>
       \A d \in dirs : ValidatedDirs' = {d} /\ SyncPhase = {d}
                      => (StateIsValid \/ StatusDrift(d))'

(* There is a next step as long as there is work, and none afterwards.     *)
NextStepIsKnown == WorkIsOffered /\ DoneIsDone

(* What the commands report of progress, of the last phase and of what is  *)
(* wrong with the files is what the directories show.                      *)
ReportsAreTrue ==
    [][/\ HundredPercentMeansDone /\ LastPhaseIsLast
       /\ CrashedAddIsReported /\ SyncedPlansAreValid]_vars
=============================================================================
