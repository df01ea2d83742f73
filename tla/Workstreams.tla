---------------------------- MODULE Workstreams ----------------------------
(***************************************************************************)
(* The workstreams of gsd-tools (workstream.cjs, planning-workspace.cjs):  *)
(* sessions side by side create, migrate to, select, write to and complete *)
(* workstreams.  None of these commands takes a lock, so each check of the *)
(* file system, and each rename, is a step of its own.                     *)
(*                                                                         *)
(* A directory holds pieces <<file, text>>, at most one of a file.         *)
(***************************************************************************)
EXTENDS Integers, FiniteSets, Sequences, SequencesExt

CONSTANTS Sessions,      \* sessions that run one command after another
          Scoped,        \* the ones with a session key, so a pointer of their own
          Names,         \* names of workstreams (slugs)
          Texts,         \* the texts that commands write
          MaxCommands,   \* bound on the commands that are started
          MaxFaults      \* bound on renames that throw and crashes

ASSUME WorkstreamsAssumption ==
    /\ Scoped \subseteq Sessions /\ "shared" \notin Sessions
    /\ "none" \notin Names /\ MaxCommands \in Nat /\ MaxFaults \in Nat

ToMove == <<"ROADMAP.md", "STATE.md">>     \* migrateToWorkstreams also moves
Items == Range(ToMove)                     \* REQUIREMENTS.md and phases

Base == <<"base", "", 0>>                  \* .planning
Root == <<"root", "", 0>>                  \* .planning/workstreams
Stream(n) == <<"stream", n, 0>>
Archive(n, k) == <<"archive", n, k>>       \* milestones/ws-n-today-k

Streams == {Stream(n) : n \in Names}
Archives == {Archive(n, k) : n \in Names, k \in 0 .. MaxCommands}
Dirs == {Base} \cup Streams \cup Archives

VARIABLES
    there,       \* the directories that exist
    holds,       \* the pieces in each directory
    pointer,     \* the active workstream: of a session, or shared
    job,         \* the command that a session runs
    started, faults,
    written,     \* history: the pieces that were written
    undone,      \* history: pieces that an undo of commands which
                 \* overlapped, or which failed as well, has lost
    was          \* history: what a command found, if no other ran since

workstreamVars == <<there, holds, pointer, job, started, faults, written, undone, was>>

Idle == [step |-> "idle", name |-> "none", from |-> Base, to |-> Base,
         left |-> <<>>, moved |-> {}, active |-> FALSE]

Nothing == <<>>

WorkstreamsInit ==
    /\ there = {Base}
    /\ \E S \in SUBSET Items :
          holds = [d \in Dirs |-> IF d = Base THEN {<<i, "old">> : i \in S} ELSE {}]
    /\ pointer = [p \in Sessions \cup {"shared"} |-> "none"]
    /\ job = [s \in Sessions |-> Idle]
    /\ started = 0 /\ faults = 0
    /\ written = holds[Base] /\ undone = {}
    /\ was = [s \in Sessions |-> Nothing]

(* --------------------------- the file system --------------------------- *)

FilesIn(d) == {piece[1] : piece \in holds[d]}
PieceOf(d, i) == {piece \in holds[d] : piece[1] = i}

(* mkdir -p: a workstream brings its parent along. *)
Ensure(dirs) == there \cup dirs \cup (IF dirs \cap Streams # {} THEN {Root} ELSE {})

(* rmdir of an empty directory; the root is empty without workstreams. *)
WithoutEmptyRoot(dirs) == IF dirs \cap Streams = {} THEN dirs \ {Root} ELSE dirs

(* rename, which replaces a file of that name *)
Renamed(S, from, to) ==
    [holds EXCEPT ![from] = {piece \in @ : piece[1] \notin S},
                  ![to] = {piece \in @ : piece[1] \notin S}
                            \cup {piece \in holds[from] : piece[1] \in S}]

(* ------------------------- the active workstream ----------------------- *)

Slot(s) == IF s \in Scoped THEN s ELSE "shared"

(* get() clears a pointer to a workstream that is gone. *)
ActiveIn(s) == IF \E n \in Names : pointer[Slot(s)] = n /\ Stream(n) \in there
                 THEN pointer[Slot(s)] ELSE "none"

Point(s, n) == pointer' = [pointer EXCEPT ![Slot(s)] = n]

(* ------------------------------ commands ------------------------------- *)

Go(s, record) == job' = [job EXCEPT ![s] = record]
Finished(s) == Go(s, Idle)

(* Another session's step makes what a command found void. *)
Alone(s) == was' = [q \in Sessions |-> IF q = s THEN was[s] ELSE Nothing]

Start(s) ==
    /\ job[s].step = "idle" /\ started < MaxCommands
    /\ started' = started + 1
    /\ was' = [q \in Sessions |->
                 IF q = s THEN <<there, holds, ActiveIn(s)>> ELSE Nothing]

(* workstream create: the workstream is there if it has a STATE.md; flat   *)
(* work goes to a workstream of its own, unless --no-migrate is given.     *)
Create(s, n) ==
    /\ Start(s)
    /\ Point(s, ActiveIn(s))
    /\ \/ /\ Stream(n) \in there /\ "STATE.md" \in FilesIn(Stream(n))
          /\ UNCHANGED <<there, job>>
       \/ /\ ~(Stream(n) \in there /\ "STATE.md" \in FilesIn(Stream(n)))
          /\ \/ /\ Root \notin there /\ holds[Base] # {}
                /\ \E m \in Names :
                     Go(s, [Idle EXCEPT !.step = "migrate", !.name = n,
                                        !.from = Base, !.to = Stream(m)])
                /\ UNCHANGED there
             \/ /\ Root \notin there => holds[Base] = {}
                /\ there' = there \cup {Root}
                /\ Go(s, [Idle EXCEPT !.step = "make", !.name = n])
             \/ /\ Root \notin there
                /\ Go(s, [Idle EXCEPT !.step = "make", !.name = n])
                /\ UNCHANGED there
    /\ UNCHANGED <<holds, faults, written, undone>>

(* migrateToWorkstreams, from its check of the mode on *)
BeginMigration(s) ==
    /\ job[s].step = "migrate"
    /\ IF Root \in there
         THEN Finished(s) /\ UNCHANGED there
         ELSE /\ there' = Ensure({job[s].to})
              /\ Go(s, [job[s] EXCEPT !.step = "move", !.left = ToMove])
    /\ Alone(s)
    /\ UNCHANGED <<holds, pointer, started, faults, written, undone>>

Migrating(s) == job[s].from = Base

(* The rest of create: the directory, a STATE.md if none is there, and the *)
(* pointer.                                                                *)
MakeStream(s) ==
    /\ job[s].step = "make"
    /\ LET d == Stream(job[s].name)
       IN /\ there' = Ensure({d})
          /\ holds' = IF "STATE.md" \in FilesIn(d) THEN holds
                      ELSE [holds EXCEPT ![d] = @ \cup {<<"STATE.md", "blank">>}]
    /\ Point(s, job[s].name)
    /\ Finished(s) /\ Alone(s)
    /\ UNCHANGED <<started, faults, written, undone>>

(* The first path with no archive of this name and day. *)
FreeArchive(n) ==
    LET free == {k \in 0 .. MaxCommands : Archive(n, k) \notin there}
    IN Archive(n, CHOOSE k \in free : \A l \in free : k <= l)

(* workstream complete, up to the choice of the archive *)
Complete(s, n) ==
    /\ Start(s)
    /\ IF Stream(n) \in there
         THEN /\ Point(s, IF ActiveIn(s) = n THEN "none" ELSE ActiveIn(s))
              /\ Go(s, [Idle EXCEPT !.step = "archive", !.name = n,
                                    !.from = Stream(n), !.to = FreeArchive(n),
                                    !.active = (ActiveIn(s) = n)])
         ELSE Point(s, ActiveIn(s)) /\ UNCHANGED job
    /\ UNCHANGED <<there, holds, faults, written, undone>>

(* The archive is made, if it is not there yet, and the workstream listed. *)
BeginArchive(s) ==
    /\ job[s].step = "archive"
    /\ there' = Ensure({job[s].to})
    /\ Go(s, [job[s] EXCEPT !.step = "move", !.left = SetToSeq(FilesIn(job[s].from))])
    /\ Alone(s)
    /\ UNCHANGED <<holds, pointer, started, faults, written, undone>>

(* A rename; a migration asks first whether the file is there. *)
MoveOne(s) ==
    LET j == job[s]
        i == Head(j.left)
        rest == [j EXCEPT !.left = Tail(@)]
    IN /\ j.step = "move" /\ j.left # <<>>
       /\ \/ /\ i \in FilesIn(j.from) /\ j.to \in there
             /\ holds' = Renamed({i}, j.from, j.to)
             /\ undone' = undone \cup PieceOf(j.to, i)
             /\ Go(s, [rest EXCEPT !.moved = @ \cup {i}])
          \/ /\ i \notin FilesIn(j.from) /\ Migrating(s)
             /\ Go(s, rest)
             /\ UNCHANGED <<holds, undone>>
       /\ Alone(s)
       /\ UNCHANGED <<there, pointer, started, faults, written>>

(* A rename throws if the file or the directory is gone, or by itself. *)
Throws(s, byItself) ==
    LET j == job[s]
    IN /\ j.step = "move" /\ j.left # <<>>
       /\ IF byItself THEN Head(j.left) \in FilesIn(j.from)
          ELSE IF Head(j.left) \in FilesIn(j.from) THEN j.to \notin there ELSE ~Migrating(s)

(* Mutant: the pointer is not set again. *)
PointBack_Forgotten(s) == UNCHANGED pointer

PointBack(s) == IF job[s].active THEN Point(s, job[s].name) ELSE UNCHANGED pointer

CanGoBack(s) ==
    IF job[s].from \in there THEN job[s].moved \cap FilesIn(job[s].to) ELSE {}

(* The catch: what was moved goes back, as far as it can; the new          *)
(* directory is deleted with what is left in it; the pointer is set again, *)
(* and that makes the workstream again if it is gone.                      *)
Undo(s) ==
    LET j == job[s]
        can == CanGoBack(s)
        dirs == there \ {j.to}
    IN \E back \in SUBSET can, byItself \in BOOLEAN :
         /\ Throws(s, byItself)
         /\ faults' = faults + (IF byItself THEN 1 ELSE 0) + (IF back # can THEN 1 ELSE 0)
         /\ faults' <= MaxFaults
         /\ holds' = [Renamed(back, j.to, j.from) EXCEPT ![j.to] = {}]
         /\ undone' = undone \cup (UNION {PieceOf(j.from, i) : i \in back})
                        \cup {piece \in holds[j.to] : piece[1] \notin back}
         /\ there' = IF j.active THEN dirs \cup {Root, j.from}
                     ELSE IF Migrating(s) THEN WithoutEmptyRoot(dirs) ELSE dirs
         /\ PointBack(s)
         /\ Finished(s) /\ Alone(s)
         /\ UNCHANGED <<started, written>>

(* All is moved: a migration goes on to make the new workstream, complete  *)
(* removes the directory, if it is empty, and the root after the last one. *)
MoveDone(s) ==
    LET j == job[s]
    IN /\ j.step = "move" /\ j.left = <<>>
       /\ IF Migrating(s)
            THEN /\ Go(s, [j EXCEPT !.step = "make"])
                 /\ UNCHANGED there
            ELSE /\ Finished(s)
                 /\ there' = WithoutEmptyRoot(
                               IF holds[j.from] = {} THEN there \ {j.from} ELSE there)
       /\ Alone(s)
       /\ UNCHANGED <<holds, pointer, started, faults, written, undone>>

(* workstream set <name>, up to its check; and set --clear *)
Select(s, n) ==
    /\ Start(s)
    /\ IF Stream(n) \in there
         THEN Go(s, [Idle EXCEPT !.step = "set", !.name = n]) ELSE UNCHANGED job
    /\ Point(s, ActiveIn(s))
    /\ UNCHANGED <<there, holds, faults, written, undone>>

Clear(s) ==
    /\ Start(s)
    /\ Point(s, "none")
    /\ UNCHANGED <<there, holds, job, faults, written, undone>>

(* set() makes the directory of the workstream it points to. *)
SetPointer(s) ==
    /\ job[s].step = "set"
    /\ there' = Ensure({Stream(job[s].name)})
    /\ Point(s, job[s].name)
    /\ Finished(s) /\ Alone(s)
    /\ UNCHANGED <<holds, started, faults, written, undone>>

(* Any other command resolves its directory once, when it starts: --ws or  *)
(* GSD_WORKSTREAM, the pointer, or .planning itself.                       *)
Work(s) ==
    /\ Start(s)
    /\ Point(s, ActiveIn(s))
    /\ \E n \in Names \cup {ActiveIn(s)} :
         Go(s, [Idle EXCEPT !.step = "write",
                            !.to = IF n = "none" THEN Base ELSE Stream(n)])
    /\ UNCHANGED <<there, holds, faults, written, undone>>

(* It writes a file that is not there, and makes the directory for it. *)
Write(s, i, t) ==
    LET d == job[s].to
    IN /\ job[s].step = "write"
       /\ i \notin FilesIn(d) /\ \A piece \in written : piece[2] # t
       /\ there' = Ensure({d})
       /\ holds' = [holds EXCEPT ![d] = @ \cup {<<i, t>>}]
       /\ written' = written \cup {<<i, t>>}
       /\ Finished(s) /\ Alone(s)
       /\ UNCHANGED <<pointer, started, faults, undone>>

(* The process is killed: its command is not resumed. *)
Killed(s) ==
    /\ job[s].step # "idle" /\ faults < MaxFaults
    /\ faults' = faults + 1
    /\ Finished(s) /\ Alone(s)
    /\ UNCHANGED <<there, holds, pointer, started, written, undone>>

WorkstreamsNext == \E s \in Sessions :
    \/ \E n \in Names : Create(s, n) \/ Complete(s, n) \/ Select(s, n)
    \/ Clear(s) \/ Work(s)
    \/ BeginMigration(s) \/ MakeStream(s) \/ BeginArchive(s)
    \/ MoveOne(s) \/ Undo(s) \/ MoveDone(s) \/ SetPointer(s)
    \/ \E i \in Items, t \in Texts : Write(s, i, t)
    \/ Killed(s)

WorkstreamsSpec == WorkstreamsInit /\ [][WorkstreamsNext]_workstreamVars

(* ------------------------------ properties ----------------------------- *)

WorkstreamsTypeOK ==
    /\ there \subseteq Dirs \cup {Root}
    /\ \A d \in Dirs : /\ holds[d] \subseteq Items \X (Texts \cup {"old", "blank"})
                       /\ Cardinality(holds[d]) = Cardinality(FilesIn(d))
                       /\ holds[d] # {} => d \in there
    /\ there \cap Streams # {} => Root \in there
    /\ pointer \in [Sessions \cup {"shared"} -> Names \cup {"none"}]

(* What was written is in the planning directory, a workstream or an       *)
(* archive, wherever a command is killed; it can only be lost in the undo  *)
(* of a rename that threw while commands overlapped.                       *)
WorkIsKept == \A piece \in written \ undone : \E d \in there \cap Dirs : piece \in holds[d]

(* Only an undo loses work, and only if the command overlapped another one *)
(* or a rename back threw as well.                                         *)
LossNeedsTwoFaults ==
    undone' # undone => \/ \A s \in Sessions : was'[s] = Nothing
                        \/ faults' > faults + 1

(* A migration or a complete that fails, with no other command meanwhile,  *)
(* leaves the directories, the files and the pointer as it found them.     *)
FailureLeavesNoTrace ==
    \A s \in Sessions :
      was[s] # Nothing /\ Undo(s) =>
         \/ <<there', holds', pointer'[Slot(s)]>> = was[s]
         \/ faults' > faults + 1

(* Nothing that was written is lost to a migration or a complete that      *)
(* fails or is killed, short of a second fault.                            *)
WorkSurvives ==
    [][LossNeedsTwoFaults /\ FailureLeavesNoTrace /\ WorkIsKept']_workstreamVars
=============================================================================
