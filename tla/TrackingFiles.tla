---------------------------- MODULE TrackingFiles ----------------------------
(***************************************************************************)
(* Two records that several commands keep: the checkboxes and the table of *)
(* REQUIREMENTS.md, which requirements mark-complete writes without a lock *)
(* and phase complete under the planning lock; and the todos, files that   *)
(* todo complete moves from pending/ to completed/.                        *)
(*                                                                         *)
(* The planning lock excludes here; PlanningLocks has the cases where it   *)
(* does not.                                                               *)
(***************************************************************************)
EXTENDS FiniteSets, Integers

CONSTANTS Clerks,           \* the processes that run commands
          Entries,          \* REQUIREMENTS.md as it may be at first
          RequirementsOf,   \* the Requirements line of each phase's section
          Todos,
          MaxTrackingCommands

Nobody == "nobody"

Boxes == {"none", "open", "ticked"}
Rows == {"none", "Pending", "InProgress", "Complete"}

(* The checkbox and the row of a requirement, either of which may be       *)
(* missing, start out in agreement.                                        *)
ASSUME TrackingAssumption ==
    /\ Nobody \notin Clerks /\ MaxTrackingCommands \in Nat
    /\ \A doc \in Entries :
         /\ doc \in [DOMAIN doc -> [box : Boxes, row : Rows]]
         /\ \A r \in DOMAIN doc : /\ doc[r].row = "Complete" => doc[r].box # "open"
                                  /\ doc[r].box = "ticked" => doc[r].row # "Pending"

VARIABLES
    document,         \* REQUIREMENTS.md
    pending, finished,\* the two directories of todos
    planningLock,     \* who holds it
    trackingCommands, \* how many commands were started
    clerk             \* the command that each process runs, or ran last

trackingVars == <<document, pending, finished, planningLock, trackingCommands, clerk>>

(* A command at a label: what it is about, what it has read, and the kinds *)
(* of the commands that have written REQUIREMENTS.md since.                *)
CommandAt(pc, kind, ids, copy) ==
    [pc |-> pc, kind |-> kind, ids |-> ids, copy |-> copy, under |-> {}]

NoTracking(pc) == CommandAt(pc, "none", {}, <<>>)

TrackingInit ==
    /\ document \in Entries
    /\ pending = Todos /\ finished = {}
    /\ planningLock = Nobody /\ trackingCommands = 0
    /\ clerk = [u \in Clerks |-> NoTracking("idle")]

StartTracking(u, command) ==
    /\ clerk[u].pc \in {"idle", "done", "failed"} /\ trackingCommands < MaxTrackingCommands
    /\ trackingCommands' = trackingCommands + 1
    /\ clerk' = [clerk EXCEPT ![u] = command]

Moves(u, from, to) == clerk[u].pc = from /\ clerk' = [clerk EXCEPT ![u].pc = to]

(* ---------------------------- REQUIREMENTS.md -------------------------- *)

(* An executor notes in the table that it works on a requirement.          *)
StartRequirement ==
    /\ \E r \in DOMAIN document :
         /\ document[r].row = "Pending"
         /\ document' = [document EXCEPT ![r].row = "InProgress"]
    /\ UNCHANGED <<pending, finished, planningLock, trackingCommands, clerk>>

Tick(e, rows) ==
    [box |-> IF e.box = "open" THEN "ticked" ELSE e.box,
     row |-> IF e.row \in rows THEN "Complete" ELSE e.row]

(* Mutant: the table is only looked at where there was no checkbox to tick. *)
MarkedComplete_BoxOrRow(doc, ids) ==
    [r \in DOMAIN doc |->
       IF r \notin ids THEN doc[r]
       ELSE IF doc[r].box = "open" THEN [doc[r] EXCEPT !.box = "ticked"]
       ELSE Tick(doc[r], {"Pending"})]

MarkedComplete(doc, ids) ==
    [r \in DOMAIN doc |-> IF r \in ids THEN Tick(doc[r], {"Pending"}) ELSE doc[r]]

PhaseCompleted(doc, ids) ==
    [r \in DOMAIN doc |->
       IF r \in ids THEN Tick(doc[r], {"Pending", "InProgress"}) ELSE doc[r]]

(* requirements mark-complete reads at once, and writes if that changed    *)
(* anything.                                                               *)
RequirementsMarkComplete(u) ==
    /\ \E ids \in (SUBSET DOMAIN document) \ {{}} :
         StartTracking(u, IF MarkedComplete(document, ids) = document
                          THEN CommandAt("done", "mark", ids, <<>>)
                          ELSE CommandAt("write", "mark", ids, document))
    /\ UNCHANGED <<document, pending, finished, planningLock>>

PhaseComplete(u) ==
    /\ \E phase \in DOMAIN RequirementsOf :
         StartTracking(u, CommandAt("lock", "phase", RequirementsOf[phase], <<>>))
    /\ UNCHANGED <<document, pending, finished, planningLock>>

TakePlanningLock(u) ==
    /\ planningLock = Nobody
    /\ Moves(u, "lock", "read")
    /\ planningLock' = u
    /\ UNCHANGED <<document, pending, finished, trackingCommands>>

(* The section's own Requirements line is read, and then the document.     *)
ReadRequirements(u) ==
    /\ clerk[u].pc = "read"
    /\ clerk' = [clerk EXCEPT ![u] = CommandAt("write", "phase", clerk[u].ids, document)]
    /\ UNCHANGED <<document, pending, finished, planningLock, trackingCommands>>

WriteRequirements(u) ==
    LET c == clerk[u] IN
    /\ c.pc = "write"
    /\ document' = IF c.kind = "mark" THEN MarkedComplete(c.copy, c.ids)
                   ELSE PhaseCompleted(c.copy, c.ids)
    /\ clerk' = [v \in Clerks |->
                   IF v = u THEN [c EXCEPT !.pc = "done", !.copy = <<>>]
                   ELSE [clerk[v] EXCEPT !.under = @ \cup {c.kind}]]
    /\ planningLock' = IF planningLock = u THEN Nobody ELSE planningLock
    /\ UNCHANGED <<pending, finished, trackingCommands>>

(* --------------------------------- todos ------------------------------- *)

TodoComplete(u) ==
    /\ \E t \in pending :
         StartTracking(u, CommandAt("copy", "todo", {t}, <<>>))
    /\ UNCHANGED <<document, pending, finished, planningLock>>

(* Reading a file that is gone throws, and so does removing it.            *)
CopyTodo(u) ==
    LET gone == clerk[u].ids \cap pending = {} IN
    /\ Moves(u, "copy", IF gone THEN "failed" ELSE "unlink")
    /\ finished' = IF gone THEN finished ELSE finished \cup clerk[u].ids
    /\ UNCHANGED <<document, pending, planningLock, trackingCommands>>

UnlinkTodo(u) ==
    /\ Moves(u, "unlink", IF clerk[u].ids \subseteq pending THEN "done" ELSE "failed")
    /\ pending' = pending \ clerk[u].ids
    /\ UNCHANGED <<document, finished, planningLock, trackingCommands>>

(* A process that ends on its own account gives up the lock.               *)
EndTracking(u) ==
    /\ clerk[u].pc \notin {"idle", "done", "failed"}
    /\ clerk' = [clerk EXCEPT ![u] = NoTracking("failed")]
    /\ planningLock' = IF planningLock = u THEN Nobody ELSE planningLock
    /\ UNCHANGED <<document, pending, finished, trackingCommands>>

TrackingNext ==
    \/ StartRequirement
    \/ \E u \in Clerks :
         \/ RequirementsMarkComplete(u) \/ PhaseComplete(u) \/ TakePlanningLock(u)
         \/ ReadRequirements(u) \/ WriteRequirements(u)
         \/ TodoComplete(u) \/ CopyTodo(u) \/ UnlinkTodo(u) \/ EndTracking(u)

TrackingSpec == TrackingInit /\ [][TrackingNext]_trackingVars

(* ------------------------------ properties ----------------------------- *)

TrackingTypeOK ==
    /\ \A r \in DOMAIN document : document[r] \in [box : Boxes, row : Rows]
    /\ pending \cup finished \subseteq Todos /\ planningLock \in Clerks \cup {Nobody}
    /\ trackingCommands \in 0..MaxTrackingCommands
    /\ \A u \in Clerks :
         clerk[u].pc \in {"idle", "lock", "read", "write", "copy", "unlink", "done", "failed"}

Marked(e) == e.box = "ticked" \/ e.row = "Complete"

(* The lock of phase complete keeps what other phase completions marked;   *)
(* a mark is only ever lost where a requirements mark-complete, which      *)
(* takes no lock, read or wrote between the two.                           *)
OnlyUnlockedCommandsUnmark ==
    \A u \in Clerks :
      /\ clerk[u].pc = "write" /\ clerk'[u].pc = "done"
      /\ \E r \in DOMAIN document : Marked(document[r]) /\ ~Marked(document'[r])
      => "mark" \in clerk[u].under \cup {clerk[u].kind}

(* The checkbox and the table of a requirement do not contradict each      *)
(* other, whichever commands overlap: no row is complete above an open     *)
(* box, and a ticked one is at most still in progress in the table.        *)
MarksAgree ==
    \A r \in DOMAIN document :
       /\ document[r].row = "Complete" => document[r].box # "open"
       /\ document[r].box = "ticked" => document[r].row # "Pending"

(* A completed phase leaves none of its requirements open or in progress,  *)
(* neither those that a mark-complete had only half marked before, unless  *)
(* a command that wrote meanwhile put its older copy back.                 *)
PhaseSettlesRequirements ==
    \A u \in Clerks :
       clerk[u].kind = "phase" /\ clerk[u].pc = "done" /\ clerk[u].under = {} =>
         \A r \in clerk[u].ids \cap DOMAIN document :
            document[r].box # "open" /\ document[r].row \notin {"Pending", "InProgress"}

(* However many processes complete it, and wherever one of them ends, a    *)
(* todo is in one directory or the other.                                  *)
TodosAreKept == pending \cup finished = Todos

(* Requirements and todos keep what the commands that overlap made of them.*)
TrackingAgrees ==
    [][/\ OnlyUnlockedCommandsUnmark
       /\ MarksAgree' /\ PhaseSettlesRequirements' /\ TodosAreKept']_trackingVars
=============================================================================
