--------------------------- MODULE PlanningLocks ---------------------------
(***************************************************************************)
(* Concurrent gsd-tools invocations on the files of one .planning/         *)
(* directory.  STATE.md is guarded by STATE.md.lock (acquireStateLock in   *)
(* state.cjs), ROADMAP.md by .planning/.lock (withPlanningLock in          *)
(* planning-workspace.cjs).  The content of a file is abstracted to the    *)
(* set of commands whose edit it contains; a command reads the file, adds  *)
(* its edit and writes the whole file back, which rename(2) makes atomic.  *)
(*                                                                         *)
(* A command is a sequence of sections, one locked file each.  Both locks  *)
(* are files made with O_EXCL and removed by path, whoever made them.      *)
(***************************************************************************)
EXTENDS Integers, FiniteSets, Sequences

CONSTANTS Cmds,          \* the running invocations
          Kind,          \* what each invocation is, see Sections
          MaxTries,      \* maxRetries of acquireStateLock
          SlowHolders,   \* a section may take longer than a waiter's patience
          MaxCrashes     \* bound on invocations killed without exit handlers

KindNames == {"rmw", "direct", "roadmap", "complete"}

ASSUME LocksAssumption ==
    /\ "nobody" \notin Cmds
    /\ Kind \in [Cmds -> KindNames]
    /\ MaxTries \in Nat \ {0}
    /\ SlowHolders \in BOOLEAN
    /\ MaxCrashes \in Nat

Files == {"ROADMAP", "STATE"}

(* Mutant: STATE.md is read before its lock is taken. *)
RmwState_ReadsBefore == [file |-> "STATE", readsInside |-> FALSE]

(* readModifyWriteStateMd reads under the lock; writeStateMd gets a text   *)
(* its caller read before; phase.complete edits ROADMAP.md, then STATE.md. *)
RmwState == [file |-> "STATE",   readsInside |-> TRUE]
DirectState == [file |-> "STATE",   readsInside |-> FALSE]
RmwRoadmap == [file |-> "ROADMAP", readsInside |-> TRUE]

Sections(kind) ==
    CASE kind = "rmw"      -> <<RmwState>>
      [] kind = "direct"   -> <<DirectState>>
      [] kind = "roadmap"  -> <<RmwRoadmap>>
      [] kind = "complete" -> <<RmwRoadmap, RmwState>>

NoLock == [by |-> "nobody", old |-> FALSE]

VARIABLES
    lock,      \* the lock file of each file
    content,   \* the commands whose edit each file contains
    pc, sec,   \* where each command is, and in which of its sections
    copy,      \* the text a command has read
    tries,     \* i in acquireStateLock
    waitsFor,  \* the lock a command found when it last failed to make its own
    broken     \* files whose lock was removed under its holder, or ignored

vars == <<lock, content, pc, sec, copy, tries, waitsFor, broken>>

Section(c) == Sections(Kind[c])[sec[c]]
File(c) == Section(c).file

Starting(section) == IF section.readsInside THEN "open" ELSE "read"
Locked(c) == IF Section(c).readsInside THEN "read" ELSE "write"

Ended == {"done", "failed", "dead"}

InSection(c, f) ==
    /\ pc[c] \in {"read", "write", "release"}
    /\ File(c) = f
    /\ pc[c] = "read" => Section(c).readsInside

Init ==
    /\ lock = [f \in Files |-> NoLock]
    /\ content = [f \in Files |-> {}]
    /\ sec = [c \in Cmds |-> 1]
    /\ pc = [c \in Cmds |-> Starting(Sections(Kind[c])[1])]
    /\ copy = [c \in Cmds |-> {}]
    /\ tries = [c \in Cmds |-> 0]
    /\ waitsFor = [c \in Cmds |-> NoLock]
    /\ broken = {}

Goto(c, label) == pc' = [pc EXCEPT ![c] = label]

(* ------------------------------ the locks ------------------------------ *)

(* Mutant: the create is not exclusive. *)
Open_Shared(c) ==
    /\ pc[c] = "open"
    /\ lock' = [lock EXCEPT ![File(c)] = [by |-> c, old |-> FALSE]]
    /\ Goto(c, Locked(c))
    /\ UNCHANGED <<content, sec, copy, tries, waitsFor, broken>>

(* The O_EXCL create: it makes the lock, or fails with EEXIST. *)
Open(c) ==
    /\ pc[c] = "open"
    /\ IF lock[File(c)] = NoLock
         THEN /\ lock' = [lock EXCEPT ![File(c)] = [by |-> c, old |-> FALSE]]
              /\ Goto(c, Locked(c))
              /\ UNCHANGED waitsFor
         ELSE /\ waitsFor' = [waitsFor EXCEPT ![c] = lock[File(c)]]
              /\ Goto(c, "stat")
              /\ UNCHANGED lock
    /\ UNCHANGED <<content, sec, copy, tries, broken>>

(* Removing the lock of a command that is in its section breaks the lock. *)
Robbed(f) ==
    IF lock[f] # NoLock /\ InSection(lock[f].by, f) THEN {f} ELSE {}

LastTry(c) == tries[c] = MaxTries - 1

(* statSync of the state lock: too old, still fresh, or gone already. *)
StatState(c) ==
    /\ pc[c] = "stat" /\ File(c) = "STATE"
    /\ Goto(c, IF lock["STATE"].old THEN "unlinkOld"
               ELSE IF LastTry(c) THEN "unlinkLast" ELSE "sleep")
    /\ UNCHANGED <<lock, content, sec, copy, tries, waitsFor, broken>>

(* statSync of the planning lock: a lock that is gone is tried again. *)
StatPlanning(c) ==
    /\ pc[c] = "stat" /\ File(c) = "ROADMAP"
    /\ Goto(c, IF lock["ROADMAP"].old THEN "unlinkOld"
               ELSE IF lock["ROADMAP"] = NoLock THEN "open" ELSE "sleep")
    /\ UNCHANGED <<lock, content, sec, copy, tries, waitsFor, broken>>

(* A stale lock is removed by path: whatever is there by now goes.  For    *)
(* the state lock this used up a try, and the loop may be over; if the     *)
(* lock is gone already, the unlink throws and the command sleeps.         *)
UnlinkOld(c) ==
    /\ pc[c] = "unlinkOld"
    /\ lock' = [lock EXCEPT ![File(c)] = NoLock]
    /\ \/ /\ File(c) = "STATE" /\ LastTry(c)
          /\ tries' = [tries EXCEPT ![c] = @ + 1]
          /\ broken' = broken \cup {"STATE"}
          /\ Goto(c, Locked(c))
       \/ /\ File(c) = "STATE" /\ ~LastTry(c) /\ lock["STATE"] # NoLock
          /\ tries' = [tries EXCEPT ![c] = @ + 1]
          /\ broken' = broken \cup Robbed("STATE")
          /\ Goto(c, "open")
       \/ /\ File(c) = "STATE" /\ ~LastTry(c) /\ lock["STATE"] = NoLock
          /\ Goto(c, "sleep")
          /\ UNCHANGED <<tries, broken>>
       \/ /\ File(c) = "ROADMAP"
          /\ broken' = broken \cup Robbed("ROADMAP")
          /\ Goto(c, "open")
          /\ UNCHANGED tries
    /\ UNCHANGED <<content, sec, copy, waitsFor>>

(* The tenth try removes the lock and goes on without making one. *)
UnlinkLast(c) ==
    /\ pc[c] = "unlinkLast"
    /\ lock' = [lock EXCEPT !["STATE"] = NoLock]
    /\ tries' = [tries EXCEPT ![c] = @ + 1]
    /\ broken' = broken \cup {"STATE"}
    /\ Goto(c, Locked(c))
    /\ UNCHANGED <<content, sec, copy, waitsFor>>

(* In a section after its tries were used up: it made no lock of its own. *)
WithoutLock(c) == tries[c] = MaxTries

(* What a sleeping command waits for is over before it wakes, if holders   *)
(* are quick: a section takes milliseconds, a waiter sleeps 100 or 200 ms. *)
HolderGone(c) ==
    \/ SlowHolders
    \/ waitsFor[c] = NoLock
    \/ pc[waitsFor[c].by] = "dead"
    \/ ~InSection(waitsFor[c].by, File(c))

Wake(c) ==
    /\ pc[c] = "sleep"
    /\ HolderGone(c)
    /\ tries' = IF File(c) = "STATE" THEN [tries EXCEPT ![c] = @ + 1]
                                     ELSE tries
    /\ Goto(c, "open")
    /\ UNCHANGED <<lock, content, sec, copy, waitsFor, broken>>

(* Mutant: the waiting has no end. *)
TimeOut_Never(c) == pc[c] = "sleep" /\ UNCHANGED vars

(* Ten seconds of waiting for the planning lock end in its removal ... *)
TimeOut(c) ==
    /\ pc[c] = "sleep" /\ File(c) = "ROADMAP"
    /\ SlowHolders \/ pc[waitsFor[c].by] = "dead"
    /\ lock' = [lock EXCEPT !["ROADMAP"] = NoLock]
    /\ broken' = broken \cup Robbed("ROADMAP")
    /\ Goto(c, "reopen")
    /\ UNCHANGED <<content, sec, copy, tries, waitsFor>>

(* ... and one more create, whose EEXIST ends the command. *)
Reopen(c) ==
    /\ pc[c] = "reopen"
    /\ IF lock["ROADMAP"] = NoLock
         THEN /\ lock' = [lock EXCEPT !["ROADMAP"] =
                                          [by |-> c, old |-> FALSE]]
              /\ Goto(c, Locked(c))
         ELSE /\ Goto(c, "failed")
              /\ UNCHANGED lock
    /\ UNCHANGED <<content, sec, copy, tries, waitsFor, broken>>

(* ------------------------------ the files ------------------------------ *)

Read(c) ==
    /\ pc[c] = "read"
    /\ copy' = [copy EXCEPT ![c] = content[File(c)]]
    /\ Goto(c, IF Section(c).readsInside THEN "write" ELSE "open")
    /\ UNCHANGED <<lock, content, sec, tries, waitsFor, broken>>

Write(c) ==
    /\ pc[c] = "write"
    /\ content' = [content EXCEPT ![File(c)] = copy[c] \cup {c}]
    /\ Goto(c, "release")
    /\ UNCHANGED <<lock, sec, copy, tries, waitsFor, broken>>

(* The finally block removes the lock file, made by this command or not. *)
Release(c) ==
    /\ pc[c] = "release"
    /\ lock' = [lock EXCEPT ![File(c)] = NoLock]
    /\ tries' = [tries EXCEPT ![c] = 0]
    /\ waitsFor' = [waitsFor EXCEPT ![c] = NoLock]
    /\ IF sec[c] < Len(Sections(Kind[c]))
         THEN /\ sec' = [sec EXCEPT ![c] = @ + 1]
              /\ Goto(c, Starting(Sections(Kind[c])[sec[c] + 1]))
         ELSE Goto(c, "done") /\ UNCHANGED sec
    /\ UNCHANGED <<content, copy, broken>>

(* Mutant: no exit handler removes the lock. *)
Fail_KeepsLock(c) ==
    /\ pc[c] = "write" /\ Section(c).readsInside
    /\ Goto(c, "failed")
    /\ UNCHANGED <<lock, content, sec, copy, tries, waitsFor, broken>>

(* error() in a section: process.exit(1) skips the finally block, and the  *)
(* exit handlers remove the lock that the command made.                    *)
Fail(c) ==
    /\ pc[c] = "write" /\ Section(c).readsInside
    /\ lock' = IF WithoutLock(c) THEN lock
                                 ELSE [lock EXCEPT ![File(c)] = NoLock]
    /\ Goto(c, "failed")
    /\ UNCHANGED <<content, sec, copy, tries, waitsFor, broken>>

(* ---------------------------- environment ------------------------------ *)

(* SIGKILL or power loss: no exit handler, a lock stays behind. *)
Crash(c) ==
    /\ pc[c] \notin Ended
    /\ Cardinality({d \in Cmds : pc[d] = "dead"}) < MaxCrashes
    /\ Goto(c, "dead")
    /\ UNCHANGED <<lock, content, sec, copy, tries, waitsFor, broken>>

(* A lock older than 10 (30) seconds: its holder is dead, or slow. *)
Age(f) ==
    /\ lock[f] # NoLock /\ ~lock[f].old
    /\ SlowHolders \/ pc[lock[f].by] = "dead"
    /\ lock' = [lock EXCEPT ![f].old = TRUE]
    /\ UNCHANGED <<content, pc, sec, copy, tries, waitsFor, broken>>

Step(c) ==
    \/ Open(c) \/ StatState(c) \/ StatPlanning(c) \/ UnlinkOld(c)
    \/ UnlinkLast(c) \/ Wake(c) \/ TimeOut(c) \/ Reopen(c)
    \/ Read(c) \/ Write(c) \/ Release(c)

Next ==
    \/ \E c \in Cmds : Step(c) \/ Fail(c) \/ Crash(c)
    \/ \E f \in Files : Age(f)

(* Every invocation keeps running, and the ten seconds a waiter allows     *)
(* itself pass, however often it wakes in between.                         *)
Fairness ==
    \A c \in Cmds : WF_vars(Step(c)) /\ SF_vars(TimeOut(c))

Spec == Init /\ [][Next]_vars /\ Fairness

(* ------------------------------ properties ----------------------------- *)

Lock == [by : Cmds, old : BOOLEAN] \cup {NoLock}

Labels == {"open", "stat", "unlinkOld", "unlinkLast", "sleep", "reopen",
           "read", "write", "release"} \cup Ended

(* Types of the locks, files and commands. *)
TypeOK ==
    /\ lock \in [Files -> Lock]
    /\ content \in [Files -> SUBSET Cmds]
    /\ pc \in [Cmds -> Labels]
    /\ sec \in [Cmds -> {1, 2}]
    /\ \A c \in Cmds : sec[c] \in 1 .. Len(Sections(Kind[c]))
    /\ copy \in [Cmds -> SUBSET Cmds]
    /\ tries \in [Cmds -> 0 .. MaxTries]
    /\ waitsFor \in [Cmds -> Lock]
    /\ broken \in SUBSET Files

(* Two commands are in a section of the same file only after some waiter   *)
(* removed a holder's lock, or gave up (withPlanningLock, acquireStateLock). *)
MutualExclusion ==
    \A f \in Files : \A c, d \in Cmds :
        InSection(c, f) /\ InSection(d, f) /\ c # d => f \in broken

(* Where a command has been: the files it has written and left. *)
Wrote(c, f) ==
    \E i \in 1 .. Len(Sections(Kind[c])) :
        /\ Sections(Kind[c])[i].file = f
        /\ \/ i < sec[c]
           \/ i = sec[c] /\ pc[c] \in {"release", "done"}

(* The commands that wrote a text which they had read before they held the *)
(* lock, and before c wrote its edit.                                      *)
OverwrittenBy(c, f) ==
    {d \in Cmds : /\ Kind[d] = "direct"
                  /\ Wrote(d, f) \/ pc[d] = "dead"
                  /\ c \notin copy[d] \cup {d}}

(* No update is lost (state.cjs:966, "prevent parallel agents from         *)
(* overwriting each other's changes", and readModifyWriteStateMd): an edit *)
(* that was written stays, unless a lock was removed under its holder, or  *)
(* a caller of writeStateMd that had read the older text wrote it back.    *)
NoLostUpdate ==
    \A f \in Files : \A c \in Cmds :
        Wrote(c, f) /\ f \notin broken /\ OverwrittenBy(c, f) = {}
        => c \in content[f]

(* With quick holders and no crash no lock is ever removed by a waiter:    *)
(* ten tries are enough for fewer commands than that (state.cjs:922).      *)
QuickHoldersAreSafe ==
    /\ ~SlowHolders
    /\ \A c \in Cmds : pc[c] # "dead"
    /\ Cardinality(Cmds) <= MaxTries
    => broken = {}

(* A lock file that nobody will remove belongs to a crashed command: one   *)
(* that ends by itself, failing or not, leaves none behind (#1916).        *)
OnlyCrashesLeaveLocks ==
    \A f \in Files :
        lock[f] # NoLock => pc[lock[f].by] \notin {"done", "failed"}
                            \/ f \in broken

(* A lock goes when its section ends, and not before.                      *)
LocksFitSections == QuickHoldersAreSafe /\ OnlyCrashesLeaveLocks

(* Every command ends, also when the holder it waits for has crashed. *)
EveryCommandEnds == \A c \in Cmds : <>(pc[c] \in Ended)

=============================================================================
