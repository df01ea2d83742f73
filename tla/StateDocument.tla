--------------------------- MODULE StateDocument ---------------------------
(***************************************************************************)
(* STATE.md of a GSD project: the fields of its body, the frontmatter that *)
(* every write derives from them and from the disk, the list of decisions  *)
(* and STATE-ARCHIVE.md.                                                   *)
(*                                                                         *)
(* The body has one of two forms.  In the separate form the fields Current *)
(* Phase, Current Plan, Total Plans in Phase, Total Phases and Completed   *)
(* Phases are lines of their own; in the compound form of the template     *)
(* there are only "Phase: X of Y" and "Plan: A of B".                      *)
(***************************************************************************)
EXTENDS PhaseRegistry

VARIABLES
    doc,      \* the body
    fm,       \* the frontmatter
    notes,    \* the decisions in STATE.md, by their phase
    attic,    \* the decisions in STATE-ARCHIVE.md
    said,     \* history: every decision that was added
    cut       \* history: what a prune that crashed had only removed

docVars == <<doc, fm, notes, attic, said, cut>>
listVars == <<notes, attic, said, cut>>

Unknown == <<0, 0>>      \* a phase field that names no phase
NotStarted == 0          \* plan "Not started", and a missing total

Statuses == {"Ready to plan", "Ready to execute", "Executing Phase",
             "Phase complete - ready for verification", "Phase complete",
             "Milestone complete", "v1.0 milestone complete",
             "Defining requirements", "Paused"}

(* ---------------------------- frontmatter ------------------------------ *)

Round(a, b) == (200 * a + b) \div (2 * b)      \* Math.round(a / b * 100)

AtMost(cap, n) == IF n < cap THEN n ELSE cap

NoPercent == -1

(* The smaller of the plan and phase fractions. *)
ComputeProgressPercent(donePlans, totalPlans, donePhases, totalPhases) ==
    LET plan == Round(donePlans, totalPlans)
        phase == Round(donePhases, totalPhases)
    IN CASE totalPlans = 0 /\ totalPhases = 0 -> NoPercent
         [] totalPlans = 0 /\ totalPhases > 0 -> AtMost(100, phase)
         [] totalPlans > 0 /\ totalPhases = 0 -> AtMost(100, plan)
         [] OTHER -> AtMost(100, AtMost(phase, plan))

(* The plans of the directories of S, and the summaries. *)
PlansIn(S) == Cardinality(UNION {{d} \X (1 .. d.plans) : d \in S})
SummariesIn(S) == Cardinality(UNION {{d} \X (1 .. d.summaries) : d \in S})
CompleteIn(S) == Cardinality({d \in S : Complete(d)})

(* One directory for each number: the one that was modified last. *)
Kept(S) ==
    {K \in SUBSET S : /\ \A d \in S : \E e \in K : e.num = d.num
                      /\ \A d, e \in K : d.num = e.num => d = e}

NormalizeStatus(status) ==
    CASE status = "Paused" -> "paused"
      [] status \in {"Executing Phase", "Ready to execute"} -> "executing"
      [] status = "Ready to plan" -> "planning"
      [] status = "Phase complete - ready for verification" -> "verifying"
      [] status \in {"Phase complete", "Milestone complete",
                        "v1.0 milestone complete"} -> "completed"
      [] OTHER -> status

(* buildStateFrontmatter over the registry as it is when the file is       *)
(* written, with the directories kept.                                     *)
Frontmatter(body, kept) ==
    LET total == IF SectionNums = {} \/ Cardinality(kept) > Cardinality(SectionNums)
                   THEN Cardinality(kept) ELSE Cardinality(SectionNums)
        percent == ComputeProgressPercent(SummariesIn(kept), PlansIn(kept),
                                          CompleteIn(kept), total)
    IN [status |-> NormalizeStatus(body.status),
        phase |-> IF body.compound THEN Unknown ELSE body.phase,
        phases |-> total, done |-> CompleteIn(kept),
        percent |-> IF percent = NoPercent THEN body.progress ELSE percent]

(* A command writes ROADMAP.md and the directories before STATE.md.        *)
WriteState(body) ==
    /\ doc' = body
    /\ \E K \in Kept(MilestoneDirs') : fm' = Frontmatter(doc, K)'

(* ------------------------------ commands ------------------------------- *)

(* The pattern "Executing Phase N\b" also finds N in "Executing Phase N.d". *)
AlreadyExecuting(n) ==
    /\ doc.status = "Executing Phase"
    /\ doc.of = n \/ (n[2] = 0 /\ doc.of[1] = n[1])

BeginPhase(n) ==
    \E d \in FindPhase(n) :
        /\ WriteState(
             IF AlreadyExecuting(n) THEN [doc EXCEPT !.of = n]
             ELSE [doc EXCEPT !.status = "Executing Phase", !.of = n,
                              !.phase = n, !.padded = TRUE,
                              !.phases = IF doc.compound THEN 0 ELSE @,
                              !.plan = 1,
                              !.total = IF d.plans > 0 \/ doc.compound
                                          THEN d.plans ELSE @])
        /\ UNCHANGED listVars

(* A plan or total that is no number leaves the body as it is. *)
AdvancePlan ==
    /\ WriteState(
         CASE doc.plan = NotStarted \/ doc.total = 0 -> doc
           [] doc.plan # NotStarted /\ doc.total > 0 /\ doc.plan >= doc.total ->
                [doc EXCEPT !.status = "Phase complete - ready for verification"]
           [] OTHER ->
                [doc EXCEPT !.plan = @ + 1, !.status = "Ready to execute"])
    /\ UNCHANGED listVars

(* The workflow plan-phase runs it for the plans that it has written. *)
PlannedPhase(n) ==
    \E d \in FindPhase(n) :
        /\ d.plans > 0
        /\ WriteState([doc EXCEPT !.status = "Ready to execute",
                                  !.total = IF doc.compound THEN @ ELSE d.plans])
        /\ UNCHANGED listVars

(* The field Current Phase, if there is one, must spell the phase as the   *)
(* command does: padded, as the directory is.                              *)
Superseded(n) ==
    /\ ~doc.compound
    /\ doc.phase # Unknown
    /\ doc.phase # n \/ ~doc.padded

CompletePhase(n) ==
    /\ ~Superseded(n)
    /\ WriteState([doc EXCEPT !.status = "Phase complete", !.of = n,
                              !.phase = IF doc.compound THEN n ELSE @,
                              !.phases = IF doc.compound THEN 0 ELSE @])
    /\ UNCHANGED listVars

(* The last directory with an open plan, or the first complete one; sync   *)
(* looks at every directory, of the milestone or not.                      *)
SyncPhase ==
    LET withPlans == {d \in dirs : d.plans > 0}
        open == {d \in withPlans : d.summaries < d.plans}
    IN IF open # {} THEN {d \in open : \A e \in open : ~Less(d.num, e.num)}
       ELSE {d \in withPlans : \A e \in withPlans : ~Less(e.num, d.num)}

Sync ==
    LET all == IF Cardinality(dirs) > Cardinality(SectionNums)
                 THEN Cardinality(dirs) ELSE Cardinality(SectionNums)
        percent == ComputeProgressPercent(SummariesIn(dirs), PlansIn(dirs),
                                          CompleteIn(dirs), all)
        synced == [doc EXCEPT !.progress = IF percent = NoPercent THEN 0 ELSE percent]
    IN /\ \/ /\ doc.compound \/ doc.total = 0 \/ SyncPhase = {}
             /\ WriteState(synced)
          \/ /\ ~doc.compound /\ doc.total > 0
             /\ \E d \in SyncPhase : WriteState([synced EXCEPT !.total = d.plans])
       /\ UNCHANGED listVars

UpdateProgress ==
    LET plans == PlansIn(MilestoneDirs)
    IN /\ WriteState([doc EXCEPT !.progress =
                        IF plans = 0 THEN 0
                        ELSE AtMost(100, Round(SummariesIn(MilestoneDirs), plans))])
       /\ UNCHANGED listVars

(* state update Status: the progress of the old frontmatter is kept. *)
UpdateStatus(status) ==
    LET body == [doc EXCEPT !.status = status]
    IN /\ doc' = body
       /\ \E K \in Kept(MilestoneDirs) :
             fm' = [Frontmatter(body, K) EXCEPT !.phases = fm.phases,
                                                !.done = fm.done,
                                                !.percent = fm.percent]
       /\ UNCHANGED listVars

(* Only the section Current Position is rewritten: the fields of the       *)
(* separate form stay as they are.                                         *)
MilestoneSwitch ==
    /\ doc' = IF doc.compound
                THEN [doc EXCEPT !.phase = Unknown, !.plan = NotStarted,
                                 !.total = 0, !.phases = 0,
                                 !.status = "Defining requirements"]
                ELSE doc
    /\ fm' = [status |-> "planning", phase |-> Unknown, phases |-> 0,
              done |-> 0, percent |-> 0]
    /\ UNCHANGED listVars

AddDecision(int) ==
    /\ notes' = notes \cup {int}
    /\ said' = said \cup {int}
    /\ WriteState(doc)
    /\ UNCHANGED <<attic, cut>>

Cutoff(body, keep) == IF body.compound THEN 0 ELSE body.phase[1] - keep

Old(body, keep) == {n \in notes : n <= Cutoff(body, keep)}

(* STATE.md is written first, and the archive after it. *)
Prune(keep, whole) ==
    /\ Cutoff(doc, keep) > 0
    /\ notes' = notes \ Old(doc, keep)
    /\ attic' = IF whole THEN attic \cup Old(doc, keep) ELSE attic
    /\ cut' = IF whole THEN cut ELSE cut \cup Old(doc, keep)
    /\ WriteState(doc)
    /\ UNCHANGED said

(* ------------- the STATE.md part of phase and milestone commands ------- *)

(* readModifyWriteStateMd of phase complete: next is what it transitions   *)
(* to; completing a phase again counts it again.                           *)
Transition(n, next) ==
    LET counted == ~doc.compound /\ doc.completed >= 0
        moved == [doc EXCEPT
            !.phase = IF next = NoNext THEN n ELSE next.num,
            !.padded = IF next = NoNext THEN TRUE ELSE next.padded,
            !.status = IF next = NoNext THEN "Milestone complete" ELSE "Ready to plan",
            !.of = Unknown,
            !.plan = NotStarted,
            !.total = IF doc.compound THEN 0 ELSE @,
            !.completed = IF counted THEN @ + 1 ELSE @]
    IN IF counted /\ doc.phases > 0
         THEN [moved EXCEPT !.progress = Round(moved.completed, doc.phases)]
         ELSE moved

OnePhaseLess == [doc EXCEPT !.phases = IF @ = 0 THEN 0 ELSE @ - 1]

(* milestone complete closes Status and the Current Position; only then    *)
(* are the directories archived.                                           *)
CloseMilestone ==
    LET closed == [doc EXCEPT !.status = "v1.0 milestone complete", !.of = Unknown,
                              !.phase = IF doc.compound THEN Unknown ELSE @,
                              !.plan = IF doc.compound THEN NotStarted ELSE @,
                              !.total = IF doc.compound THEN 0 ELSE @,
                              !.phases = IF doc.compound THEN 0 ELSE @]
    IN
    /\ doc' = closed
    /\ \E K \in Kept(MilestoneDirs) : fm' = Frontmatter(closed, K)
    /\ UNCHANGED listVars

(* ------------------------------ properties ----------------------------- *)

FmStatuses == {"paused", "executing", "planning", "verifying", "completed",
               "Defining requirements"}

BodyType == [compound : BOOLEAN, phase : Nums, padded : BOOLEAN,
             plan : Nat, total : Nat, status : Statuses, of : Nums,
             completed : Nat, phases : Nat, progress : Nat]

DocTypeOK ==
    /\ doc \in BodyType
    /\ fm \in [status : FmStatuses, phase : Nums, phases : Nat, done : Nat,
               percent : Nat]
    /\ \A ints \in {notes, attic, said, cut} : ints \subseteq Nat

=============================================================================
