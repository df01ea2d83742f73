-------------------------- MODULE LockFilesProofs --------------------------
(***************************************************************************)
(* The two parts of gsd-tools that keep others out with a lock file.       *)
(*                                                                         *)
(* For any set of commands of any kind, any patience of the waiters and    *)
(* any number of crashes: the locks of the planning files exclude, and no  *)
(* update is lost, up to the two exceptions that the properties name. And  *)
(* for any finite set of commands that hold a lock only briefly and are no *)
(* more than the tries of a waiter: nobody breaks a lock but for a crash.  *)
(*                                                                         *)
(* For any set of runs of the installer, of texts that the user types and  *)
(* of crashes and exceptions: the migrations happen whole and once, or not *)
(* at all, and no text of the user's is lost.                              *)
(***************************************************************************)
EXTENDS PlanningLocks, InstallerMigrations, FiniteSetTheorems, SequenceTheorems,
        TLAPS

(* ------------------------- the inductive invariant --------------------- *)

(* The labels at which a command has no lock and still has tries left.     *)
Trying == {"open", "stat", "unlinkOld", "unlinkLast", "sleep", "reopen"}

(* A command only goes on without a lock after it removed that of STATE.md. *)
TriesFit ==
    \A c \in Cmds :
        /\ pc[c] = "unlinkLast" => LastTry(c) /\ File(c) = "STATE"
        /\ pc[c] = "reopen" => File(c) = "ROADMAP"
        /\ pc[c] \in Trying => tries[c] < MaxTries
        /\ pc[c] = "read" /\ ~Section(c).readsInside => tries[c] < MaxTries
        /\ pc[c] = "sleep" /\ File(c) = "STATE" => ~LastTry(c)
        /\ \A f \in Files : InSection(c, f) /\ WithoutLock(c) => f \in broken

(* Whoever is in a section holds its lock, unless it was broken.           *)
Held ==
    \A f \in Files \ broken : \A c \in Cmds :
        InSection(c, f) => lock[f] # NoLock /\ lock[f].by = c

(* Whose lock it is is in the section, or dead, unless it was broken.      *)
Manned ==
    \A f \in Files \ broken : \A c \in Cmds :
        lock[f] # NoLock /\ lock[f].by = c => InSection(c, f) \/ pc[c] = "dead"

(* What was read under a lock that was not broken is still what is there.  *)
Fresh ==
    \A c \in Cmds :
        pc[c] = "write" /\ Section(c).readsInside /\ File(c) \notin broken
            => copy[c] = content[File(c)]

LocksInv == TypeOK /\ TriesFit /\ Held /\ Manned /\ Fresh /\ NoLostUpdate

(* ------------------------------ sections ------------------------------- *)

(* Every kind of command has its one or two sections.                      *)
LEMMA SectionsOfKinds ==
  /\ Len(Sections("rmw")) = 1 /\ Sections("rmw")[1] = RmwState
  /\ Len(Sections("direct")) = 1 /\ Sections("direct")[1] = DirectState
  /\ Len(Sections("roadmap")) = 1 /\ Sections("roadmap")[1] = RmwRoadmap
  /\ Len(Sections("complete")) = 2 /\ Sections("complete")[1] = RmwRoadmap
  /\ Sections("complete")[2] = RmwState
<1>1. /\ Sections("rmw") = <<RmwState>> /\ Sections("direct") = <<DirectState>>
      /\ Sections("roadmap") = <<RmwRoadmap>>
      /\ Sections("complete") = <<RmwRoadmap, RmwState>>
  BY DEF Sections
<1>2. QED
  BY <1>1

(* The three sections are files with their lock taken before or after the  *)
(* read.                                                                   *)
LEMMA SectionValues ==
  /\ \A s \in {RmwState, DirectState, RmwRoadmap} :
        s.file \in Files /\ s.readsInside \in BOOLEAN
  /\ RmwState.readsInside /\ RmwRoadmap.readsInside /\ ~DirectState.readsInside
<1>1. RmwState.readsInside /\ RmwRoadmap.readsInside /\ ~DirectState.readsInside
  BY DEF RmwState, DirectState, RmwRoadmap
<1>2. /\ RmwState.file \in Files /\ RmwRoadmap.file \in Files
      /\ DirectState.file \in Files
  BY DEF RmwState, DirectState, RmwRoadmap, Files
<1>3. /\ RmwState.readsInside \in BOOLEAN /\ RmwRoadmap.readsInside \in BOOLEAN
      /\ DirectState.readsInside \in BOOLEAN
  BY DEF RmwState, DirectState, RmwRoadmap
<1>4. QED
  BY <1>1, <1>2, <1>3, Zenon

LEMMA SectionFacts ==
  ASSUME NEW kind \in KindNames, NEW i \in 1 .. Len(Sections(kind))
  PROVE  /\ Sections(kind)[i] \in {RmwState, DirectState, RmwRoadmap}
         /\ kind = "direct" => i = 1 /\ Len(Sections(kind)) = 1
         /\ kind = "direct" => Sections(kind)[i] = DirectState
         /\ kind # "direct" => Sections(kind)[i] \in {RmwState, RmwRoadmap}
         /\ Len(Sections(kind)) \in {1, 2}
<1> USE SectionsOfKinds
<1>1. CASE kind = "rmw"
  <2>1. Len(Sections(kind)) = 1
    BY <1>1
  <2>2. i = 1
    BY <2>1
  <2>3. QED
    BY <1>1, <2>1, <2>2
<1>2. CASE kind = "direct"
  <2>1. Len(Sections(kind)) = 1
    BY <1>2
  <2>2. i = 1
    BY <2>1
  <2>3. QED
    BY <1>2, <2>1, <2>2
<1>3. CASE kind = "roadmap"
  <2>1. Len(Sections(kind)) = 1
    BY <1>3
  <2>2. i = 1
    BY <2>1
  <2>3. QED
    BY <1>3, <2>1, <2>2
<1>4. CASE kind = "complete"
  <2>1. Len(Sections(kind)) = 2
    BY <1>4
  <2>2. i = 1 \/ i = 2
    BY <2>1
  <2>3. QED
    BY <1>4, <2>1, <2>2
<1>5. QED
  BY <1>1, <1>2, <1>3, <1>4 DEF KindNames

(* What a command is in is one of these sections.                          *)
LEMMA OwnSection ==
  ASSUME TypeOK, NEW c \in Cmds
  PROVE  /\ File(c) \in Files
         /\ Section(c).readsInside \in BOOLEAN
         /\ Kind[c] = "direct" => sec[c] = 1 /\ Len(Sections(Kind[c])) = 1
         /\ Kind[c] = "direct" <=> ~Section(c).readsInside
         /\ Len(Sections(Kind[c])) \in {1, 2} /\ sec[c] \in 1 .. Len(Sections(Kind[c]))
<1>1. Kind[c] \in KindNames
  BY LocksAssumption
<1>2. sec[c] \in 1 .. Len(Sections(Kind[c]))
  BY DEF TypeOK
<1>3. QED
  BY <1>1, <1>2, SectionFacts, SectionValues DEF File, Section

(* --------------------------------- types -------------------------------- *)

LEMMA StartingLabel ==
  ASSUME NEW kind \in KindNames, NEW i \in 1 .. Len(Sections(kind))
  PROVE  Starting(Sections(kind)[i]) \in {"open", "read"}
BY DEF Starting

(* Of at most two, the one with another after it is the first.             *)
LEMMA FirstOfTwo ==
  ASSUME NEW m \in {1, 2}, NEW n \in {1, 2}, m < n
  PROVE  m = 1 /\ n = 2
OBVIOUS

LEMMA TypeInit == Init => TypeOK
<1> SUFFICES ASSUME Init PROVE TypeOK
  OBVIOUS
<1>1. \A c \in Cmds : 1 \in 1 .. Len(Sections(Kind[c]))
  <2> TAKE c \in Cmds
  <2>1. Kind[c] \in KindNames
    BY LocksAssumption
  <2>2. QED
    BY <2>1, SectionsOfKinds DEF KindNames
<1>2. pc \in [Cmds -> Labels]
  <2>1. \A c \in Cmds : Starting(Sections(Kind[c])[1]) \in {"open", "read"}
    BY <1>1, StartingLabel, LocksAssumption
  <2>2. QED
    BY <2>1 DEF Init, Labels
<1>3. QED
  BY <1>1, <1>2, LocksAssumption DEF Init, TypeOK, Lock, NoLock

LEMMA TypeStep ==
  ASSUME TypeOK, TriesFit, [Next]_vars
  PROVE  TypeOK'
<1> USE LocksAssumption DEF Labels, Ended, Goto, Locked
<1>0. /\ NoLock \in Lock
      /\ \A d \in Cmds : [by |-> d, old |-> FALSE] \in Lock
      /\ \A l \in Lock : l # NoLock => [l EXCEPT !.old = TRUE] \in Lock
  BY DEF Lock, NoLock
<1>a. \A c \in Cmds : /\ File(c) \in Files
                      /\ Kind[c] \in KindNames
                      /\ Len(Sections(Kind[c])) \in {1, 2}
                      /\ sec[c] \in 1 .. Len(Sections(Kind[c]))
  BY OwnSection, LocksAssumption
<1>1. ASSUME NEW c \in Cmds, Open(c)
       PROVE  TypeOK'
  <2>1. CASE lock[File(c)] = NoLock
    <3>1. /\ lock' = [lock EXCEPT ![File(c)] = [by |-> c, old |-> FALSE]]
          /\ pc' = [pc EXCEPT ![c] = Locked(c)]
          /\ UNCHANGED <<content, sec, copy, tries, waitsFor, broken>>
      BY <1>1, <2>1 DEF Open
    <3>2. lock' \in [Files -> Lock]
      BY <1>0, <3>1 DEF TypeOK
    <3>3. pc' \in [Cmds -> Labels]
      BY <3>1 DEF TypeOK
    <3>4. QED
      BY <3>1, <3>2, <3>3 DEF TypeOK
  <2>2. CASE lock[File(c)] # NoLock
    <3>1. /\ waitsFor' = [waitsFor EXCEPT ![c] = lock[File(c)]]
          /\ pc' = [pc EXCEPT ![c] = "stat"]
          /\ UNCHANGED <<lock, content, sec, copy, tries, broken>>
      BY <1>1, <2>2 DEF Open
    <3>2. waitsFor' \in [Cmds -> Lock]
      BY <1>a, <3>1 DEF TypeOK
    <3>3. pc' \in [Cmds -> Labels]
      BY <3>1 DEF TypeOK
    <3>4. QED
      BY <3>1, <3>2, <3>3 DEF TypeOK
  <2>3. QED
    BY <2>1, <2>2
<1>2. ASSUME NEW c \in Cmds, StatState(c)
       PROVE  TypeOK'
  BY <1>2, <1>a DEF TypeOK, StatState
<1>3. ASSUME NEW c \in Cmds, StatPlanning(c)
       PROVE  TypeOK'
  BY <1>3, <1>a DEF TypeOK, StatPlanning
<1>4. ASSUME NEW c \in Cmds, UnlinkOld(c)
       PROVE  TypeOK'
  <2>1. tries' \in [Cmds -> 0 .. MaxTries]
    BY <1>4 DEF TypeOK, UnlinkOld, TriesFit, Trying
  <2>2. broken' \in SUBSET Files
    BY <1>4 DEF TypeOK, UnlinkOld, Robbed, Files
  <2>3. lock' \in [Files -> Lock]
    BY <1>0, <1>4 DEF TypeOK, UnlinkOld
  <2>4. QED
    <3>1. UNCHANGED <<content, sec, copy, waitsFor>>
      BY <1>4 DEF UnlinkOld
    <3>2. \E label \in {"read", "write", "open", "sleep"} :
            pc' = [pc EXCEPT ![c] = label]
      BY <1>4 DEF UnlinkOld, Goto, Locked
    <3>3. pc' \in [Cmds -> Labels]
      BY <3>2 DEF TypeOK, Labels
    <3>4. QED
      BY <2>1, <2>2, <2>3, <3>1, <3>3 DEF TypeOK
<1>5. ASSUME NEW c \in Cmds, UnlinkLast(c)
       PROVE  TypeOK'
  BY <1>0, <1>5, <1>a DEF TypeOK, UnlinkLast, Files, TriesFit, Trying
<1>6. ASSUME NEW c \in Cmds, Wake(c)
       PROVE  TypeOK'
  BY <1>6, <1>a DEF TypeOK, Wake, TriesFit, Trying
<1>7. ASSUME NEW c \in Cmds, TimeOut(c)
       PROVE  TypeOK'
  BY <1>0, <1>7, <1>a DEF TypeOK, TimeOut, Robbed, Files
<1>8. ASSUME NEW c \in Cmds, Reopen(c)
       PROVE  TypeOK'
  <2>1. CASE lock["ROADMAP"] = NoLock
    <3>1. lock' = [lock EXCEPT !["ROADMAP"] = [by |-> c, old |-> FALSE]]
      BY <1>8, <2>1 DEF Reopen
    <3>2. lock' \in [Files -> Lock]
      BY <1>0, <3>1 DEF TypeOK
    <3>3. QED
      BY <1>8, <2>1, <3>2 DEF TypeOK, Reopen
  <2>2. CASE lock["ROADMAP"] # NoLock
    BY <1>8, <2>2 DEF TypeOK, Reopen
  <2>3. QED
    BY <2>1, <2>2
<1>9. ASSUME NEW c \in Cmds, Read(c)
       PROVE  TypeOK'
  BY <1>9, <1>a DEF TypeOK, Read
<1>10. ASSUME NEW c \in Cmds, Write(c)
       PROVE  TypeOK'
  BY <1>10, <1>a DEF TypeOK, Write
<1>11. ASSUME NEW c \in Cmds, Release(c)
       PROVE  TypeOK'
  <2>0. /\ lock' = [lock EXCEPT ![File(c)] = NoLock]
        /\ tries' = [tries EXCEPT ![c] = 0]
        /\ waitsFor' = [waitsFor EXCEPT ![c] = NoLock]
        /\ UNCHANGED <<content, copy, broken>>
    BY <1>11 DEF Release
  <2>a. tries' \in [Cmds -> 0 .. MaxTries]
    BY <2>0 DEF TypeOK
  <2>b. lock' \in [Files -> Lock] /\ waitsFor' \in [Cmds -> Lock]
    BY <1>0, <2>0 DEF TypeOK
  <2>1. /\ lock' \in [Files -> Lock] /\ waitsFor' \in [Cmds -> Lock]
        /\ tries' \in [Cmds -> 0 .. MaxTries]
    BY <2>a, <2>b
  <2>2. CASE sec[c] < Len(Sections(Kind[c]))
    <3>1. /\ sec' = [sec EXCEPT ![c] = sec[c] + 1]
          /\ pc' = [pc EXCEPT ![c] = Starting(Sections(Kind[c])[sec[c] + 1])]
      BY <1>11, <2>2 DEF Release
    <3>2. Len(Sections(Kind[c])) \in {1, 2} /\ sec[c] \in {1, 2}
      BY <1>a DEF TypeOK
    <3>3. sec[c] = 1 /\ Len(Sections(Kind[c])) = 2
      BY <2>2, <3>2, FirstOfTwo, Zenon
    <3>4. Starting(Sections(Kind[c])[2]) \in Labels
      BY <1>a, <3>3, StartingLabel, SMTT(30)
    <3>5. sec' = [sec EXCEPT ![c] = 2] /\ pc' = [pc EXCEPT ![c] = Starting(Sections(Kind[c])[2])]
      BY <3>1, <3>3
    <3>6. \A d \in Cmds : sec'[d] \in 1 .. Len(Sections(Kind[d]))
      <4> TAKE d \in Cmds
      <4>1. CASE d = c
        <5>1. sec'[d] = 2
          BY <3>5, <4>1 DEF TypeOK
        <5>2. Len(Sections(Kind[d])) = 2 /\ 2 \in 1 .. 2
          BY <3>3, <4>1
        <5>3. QED
          BY <5>1, <5>2, Zenon
      <4>2. CASE d # c
        BY <3>5, <4>2 DEF TypeOK
      <4>3. QED
        BY <4>1, <4>2
    <3>7. QED
      BY <2>0, <2>1, <3>4, <3>5, <3>6 DEF TypeOK
  <2>3. CASE ~(sec[c] < Len(Sections(Kind[c])))
    BY <1>11, <2>0, <2>1, <2>3 DEF TypeOK, Release
  <2>4. QED
    BY <2>2, <2>3
<1>12. ASSUME NEW c \in Cmds, Fail(c)
       PROVE  TypeOK'
  BY <1>0, <1>12, <1>a DEF TypeOK, Fail
<1>13. ASSUME NEW c \in Cmds, Crash(c)
       PROVE  TypeOK'
  BY <1>13, <1>a DEF TypeOK, Crash
<1>14. ASSUME NEW f \in Files, Age(f)
       PROVE  TypeOK'
  BY <1>0, <1>14 DEF TypeOK, Age
<1>15. CASE UNCHANGED vars
  BY <1>15 DEF TypeOK, vars
<1>16. QED
  BY <1>1, <1>2, <1>3, <1>4, <1>5, <1>6, <1>7, <1>8, <1>9, <1>10, <1>11, <1>12,
     <1>13, <1>14, <1>15 DEF Next, Step

(* ------------------------- what a step may touch ------------------------ *)

CommandStep(c) == Step(c) \/ Fail(c) \/ Crash(c)

(* A command moves itself only.                                            *)
LEMMA MovesItself ==
  ASSUME TypeOK, NEW c \in Cmds, CommandStep(c), NEW d \in Cmds, d # c
  PROVE  /\ pc'[d] = pc[d] /\ sec'[d] = sec[d]
         /\ copy'[d] = copy[d] /\ tries'[d] = tries[d]
<1> USE DEF Goto, TypeOK
<1>1. CASE Open(c)
  BY <1>1 DEF Open
<1>2. CASE StatState(c) \/ StatPlanning(c)
  BY <1>2 DEF StatState, StatPlanning
<1>3. CASE UnlinkOld(c)
  BY <1>3 DEF UnlinkOld
<1>4. CASE UnlinkLast(c) \/ Wake(c)
  BY <1>4 DEF UnlinkLast, Wake
<1>5. CASE TimeOut(c) \/ Reopen(c)
  BY <1>5 DEF TimeOut, Reopen
<1>6. CASE Read(c) \/ Write(c)
  BY <1>6 DEF Read, Write
<1>7. CASE Release(c)
  BY <1>7 DEF Release
<1>8. CASE Fail(c) \/ Crash(c)
  BY <1>8 DEF Fail, Crash
<1>9. QED
  BY <1>1, <1>2, <1>3, <1>4, <1>5, <1>6, <1>7, <1>8 DEF CommandStep, Step

(* What follows from where a command is stays with it.                     *)
LEMMA SamePlace ==
  ASSUME NEW d, pc'[d] = pc[d], sec'[d] = sec[d]
  PROVE  /\ Section(d)' = Section(d) /\ File(d)' = File(d)
         /\ Locked(d)' = Locked(d)
         /\ \A f : InSection(d, f)' <=> InSection(d, f)
         /\ \A f : Wrote(d, f)' <=> Wrote(d, f)
<1>1. Section(d)' = Section(d) /\ File(d)' = File(d) /\ Locked(d)' = Locked(d)
  BY DEF Section, File, Locked
<1>2. QED
  BY <1>1 DEF InSection, Wrote

(* ------------------------------- the locks ------------------------------ *)

(* The four things a step of c may do to the lock of f.                    *)
Enters(c, f) == /\ lock[f] = NoLock /\ lock'[f] = [by |-> c, old |-> FALSE]
                /\ InSection(c, f)'
Leaves(c, f) == InSection(c, f) /\ lock'[f] = NoLock /\ ~InSection(c, f)'
Removes(c, f) == /\ lock'[f] = NoLock
                 /\ lock[f] # NoLock => ~InSection(lock[f].by, f)
                 /\ ~InSection(c, f) /\ ~InSection(c, f)'
Stays(c, f) == /\ lock'[f] = lock[f]
               /\ \/ InSection(c, f)' <=> InSection(c, f)
                  \/ pc'[c] = "dead"

(* The lock of another file is not touched.                                *)
LEMMA OtherLocks ==
  ASSUME TypeOK, TriesFit, NEW c \in Cmds, CommandStep(c),
         NEW f \in Files, f # File(c)
  PROVE  /\ lock'[f] = lock[f] /\ ~InSection(c, f)
         /\ ~InSection(c, f)'
<1>1. ~InSection(c, f)
  BY DEF InSection
<1> USE DEF TypeOK, Goto
<1>2. CASE Release(c)
  <2>1. lock' = [lock EXCEPT ![File(c)] = NoLock]
    BY <1>2 DEF Release
  <2>2. CASE sec[c] < Len(Sections(Kind[c]))
    <3>1. /\ sec' = [sec EXCEPT ![c] = sec[c] + 1]
          /\ pc' = [pc EXCEPT ![c] = Starting(Sections(Kind[c])[sec[c] + 1])]
      BY <1>2, <2>2 DEF Release
    <3>2. Section(c)' = Sections(Kind[c])[sec[c] + 1]
      BY <3>1 DEF Section
    <3>3. pc'[c] = Starting(Section(c)')
      BY <3>1, <3>2
    <3>4. ~InSection(c, f)'
      BY <3>3 DEF InSection, Starting
    <3>5. QED
      BY <1>1, <2>1, <3>4
  <2>3. CASE ~(sec[c] < Len(Sections(Kind[c])))
    <3>1. pc'[c] = "done"
      BY <1>2, <2>3 DEF Release
    <3>2. QED
      BY <1>1, <2>1, <3>1 DEF InSection
  <2>4. QED
    BY <2>2, <2>3
<1>3. CASE ~Release(c)
  <2>1. sec' = sec
    BY <1>3 DEF CommandStep, Step, Open, StatState, StatPlanning, UnlinkOld,
                UnlinkLast, Wake, TimeOut, Reopen, Read, Write, Fail, Crash
  <2>2. File(c)' = File(c)
    BY <2>1 DEF File, Section
  <2>3. ~InSection(c, f)'
    BY <2>2 DEF InSection
  <2>4. lock'[f] = lock[f]
    <3>1. CASE Open(c) \/ Reopen(c)
      BY <3>1 DEF Open, Reopen, TriesFit
    <3>2. CASE StatState(c) \/ StatPlanning(c) \/ Wake(c) \/ Read(c) \/ Write(c)
                \/ Crash(c)
      BY <3>2 DEF StatState, StatPlanning, Wake, Read, Write, Crash
    <3>3. CASE UnlinkOld(c) \/ TimeOut(c) \/ Fail(c)
      BY <3>3 DEF UnlinkOld, TimeOut, Fail
    <3>4. CASE UnlinkLast(c)
      BY <3>4 DEF UnlinkLast, TriesFit
    <3>5. QED
      BY <1>3, <3>1, <3>2, <3>3, <3>4 DEF CommandStep, Step
  <2>5. QED
    BY <1>1, <2>3, <2>4
<1>4. QED
  BY <1>2, <1>3

(* The lock of the command's own file, unless it is or was broken.         *)
LEMMA OwnLock ==
  ASSUME TypeOK, TriesFit, NEW c \in Cmds, CommandStep(c), NEW f \in Files,
         f = File(c), f \notin broken'
  PROVE  Enters(c, f) \/ Leaves(c, f) \/ Removes(c, f) \/ Stays(c, f)
<1>a. /\ Section(c).readsInside \in BOOLEAN
      /\ Locked(c) = IF Section(c).readsInside THEN "read" ELSE "write"
  BY OwnSection DEF Locked
<1>b. ASSUME sec' = sec
      PROVE  File(c)' = f /\ Section(c)' = Section(c)
  BY <1>b DEF File, Section
<1>c. ASSUME sec' = sec, pc'[c] = Locked(c)
      PROVE  InSection(c, f)'
  <2>1. File(c)' = f /\ Section(c)' = Section(c)
    BY <1>b, <1>c
  <2>2. CASE Section(c).readsInside
    BY <1>a, <1>c, <2>1, <2>2 DEF InSection
  <2>3. CASE ~Section(c).readsInside
    BY <1>a, <1>c, <2>1, <2>3 DEF InSection
  <2>4. QED
    BY <2>2, <2>3
<1>d. ASSUME pc[c] \in Trying PROVE ~InSection(c, f)
  BY <1>d DEF Trying, InSection
<1>e. ASSUME pc'[c] \in Trying \/ pc'[c] \in Ended PROVE ~InSection(c, f)'
  BY <1>e DEF Trying, Ended, InSection
<1> USE DEF TypeOK, Goto
<1>1. CASE Open(c)
  <2>1. CASE lock[f] = NoLock
    <3>1. lock' = [lock EXCEPT ![f] = [by |-> c, old |-> FALSE]]
          /\ pc'[c] = Locked(c) /\ sec' = sec
      BY <1>1, <2>1 DEF Open
    <3>2. QED
      BY <1>c, <2>1, <3>1 DEF Enters
  <2>2. CASE lock[f] # NoLock
    <3>1. lock' = lock /\ pc'[c] = "stat" /\ pc[c] = "open"
      BY <1>1, <2>2 DEF Open
    <3>2. QED
      BY <1>d, <1>e, <3>1 DEF Stays, Trying
  <2>3. QED
    BY <2>1, <2>2
<1>2. CASE StatState(c)
  <2>1. lock' = lock /\ pc[c] = "stat" /\ pc'[c] \in {"unlinkOld", "unlinkLast", "sleep"}
    BY <1>2 DEF StatState
  <2>2. QED
    BY <1>d, <1>e, <2>1 DEF Stays, Trying
<1>3. CASE StatPlanning(c)
  <2>1. lock' = lock /\ pc[c] = "stat" /\ pc'[c] \in {"unlinkOld", "open", "sleep"}
    BY <1>3 DEF StatPlanning
  <2>2. QED
    BY <1>d, <1>e, <2>1 DEF Stays, Trying
<1>4. CASE UnlinkOld(c)
  <2>1. lock' = [lock EXCEPT ![f] = NoLock] /\ pc[c] = "unlinkOld"
    BY <1>4 DEF UnlinkOld
  <2>2. pc'[c] \in {"open", "sleep"}
    BY <1>4 DEF UnlinkOld
  <2>3. lock[f] # NoLock => ~InSection(lock[f].by, f)
    BY <1>4 DEF UnlinkOld, Robbed
  <2>4. QED
    BY <1>d, <1>e, <2>1, <2>2, <2>3 DEF Removes, Trying
<1>5. CASE UnlinkLast(c)
  BY <1>5 DEF UnlinkLast, TriesFit
<1>6. CASE Wake(c)
  <2>1. lock' = lock /\ pc[c] = "sleep" /\ pc'[c] = "open"
    BY <1>6 DEF Wake
  <2>2. QED
    BY <1>d, <1>e, <2>1 DEF Stays, Trying
<1>7. CASE TimeOut(c)
  <2>1. /\ lock' = [lock EXCEPT ![f] = NoLock] /\ pc[c] = "sleep"
        /\ pc'[c] = "reopen" /\ broken' = broken \cup Robbed(f)
    BY <1>7 DEF TimeOut
  <2>2. lock[f] # NoLock => ~InSection(lock[f].by, f)
    BY <2>1 DEF Robbed
  <2>3. QED
    BY <1>d, <1>e, <2>1, <2>2 DEF Removes, Trying
<1>8. CASE Reopen(c)
  <2>0. f = "ROADMAP"
    BY <1>8 DEF Reopen, TriesFit
  <2>1. CASE lock[f] = NoLock
    <3>1. lock' = [lock EXCEPT ![f] = [by |-> c, old |-> FALSE]]
          /\ pc'[c] = Locked(c) /\ sec' = sec
      BY <1>8, <2>0, <2>1 DEF Reopen
    <3>2. QED
      BY <1>c, <2>1, <3>1 DEF Enters
  <2>2. CASE lock[f] # NoLock
    <3>1. lock' = lock /\ pc'[c] = "failed" /\ pc[c] = "reopen"
      BY <1>8, <2>0, <2>2 DEF Reopen
    <3>2. QED
      BY <1>d, <1>e, <3>1 DEF Stays, Trying, Ended
  <2>3. QED
    BY <2>1, <2>2
<1>9. CASE Read(c)
  <2>1. lock' = lock /\ sec' = sec /\ pc[c] = "read"
        /\ pc'[c] = IF Section(c).readsInside THEN "write" ELSE "open"
    BY <1>9 DEF Read
  <2>2. File(c)' = f /\ Section(c)' = Section(c)
    BY <1>b, <2>1
  <2>3. InSection(c, f) <=> Section(c).readsInside
    BY <2>1 DEF InSection
  <2>4. InSection(c, f)' <=> Section(c).readsInside
    <3>1. CASE Section(c).readsInside
      BY <2>1, <2>2, <3>1 DEF InSection
    <3>2. CASE ~Section(c).readsInside
      BY <2>1, <2>2, <3>2 DEF InSection
    <3>3. QED
      BY <3>1, <3>2
  <2>5. QED
    BY <2>1, <2>3, <2>4 DEF Stays
<1>10. CASE Write(c)
  <2>1. lock' = lock /\ sec' = sec /\ pc[c] = "write" /\ pc'[c] = "release"
    BY <1>10 DEF Write
  <2>2. File(c)' = f
    BY <1>b, <2>1
  <2>3. InSection(c, f) /\ InSection(c, f)'
    BY <2>1, <2>2 DEF InSection
  <2>4. QED
    BY <2>1, <2>3 DEF Stays
<1>11. CASE Release(c)
  <2>1. lock' = [lock EXCEPT ![f] = NoLock] /\ InSection(c, f)
    BY <1>11 DEF Release, InSection
  <2>2. ~InSection(c, f)'
    <3>1. CASE sec[c] < Len(Sections(Kind[c]))
      <4>1. /\ sec' = [sec EXCEPT ![c] = sec[c] + 1]
            /\ pc' = [pc EXCEPT ![c] = Starting(Sections(Kind[c])[sec[c] + 1])]
        BY <1>11, <3>1 DEF Release
      <4>2. Section(c)' = Sections(Kind[c])[sec[c] + 1]
        BY <4>1 DEF Section
      <4>3. pc'[c] = Starting(Section(c)')
        BY <4>1, <4>2
      <4>4. QED
        BY <4>3 DEF InSection, Starting
    <3>2. CASE ~(sec[c] < Len(Sections(Kind[c])))
      <4>1. pc'[c] = "done"
        BY <1>11, <3>2 DEF Release
      <4>2. QED
        BY <4>1 DEF InSection
    <3>3. QED
      BY <3>1, <3>2
  <2>3. QED
    BY <2>1, <2>2 DEF Leaves
<1>12. CASE Fail(c)
  <2>1. pc[c] = "write" /\ pc'[c] = "failed" /\ broken' = broken
    BY <1>12 DEF Fail
  <2>2. InSection(c, f)
    BY <2>1 DEF InSection
  <2>3. ~WithoutLock(c)
    BY <2>1, <2>2 DEF TriesFit
  <2>4. lock' = [lock EXCEPT ![f] = NoLock]
    BY <1>12, <2>3 DEF Fail
  <2>5. QED
    BY <1>e, <2>1, <2>2, <2>4 DEF Leaves, Ended
<1>13. CASE Crash(c)
  <2>1. lock' = lock /\ pc'[c] = "dead"
    BY <1>13 DEF Crash
  <2>2. QED
    BY <2>1 DEF Stays
<1>14. QED
  BY <1>1, <1>2, <1>3, <1>4, <1>5, <1>6, <1>7, <1>8, <1>9, <1>10, <1>11, <1>12,
     <1>13 DEF CommandStep, Step

(* Together: what a step does to any lock that is not broken.              *)
LEMMA LockEffects ==
  ASSUME TypeOK, TriesFit, NEW c \in Cmds, CommandStep(c), NEW f \in Files,
         f \notin broken'
  PROVE  Enters(c, f) \/ Leaves(c, f) \/ Removes(c, f) \/ Stays(c, f)
<1>1. CASE f = File(c)
  BY <1>1, OwnLock
<1>2. CASE f # File(c)
  BY <1>2, OtherLocks DEF Stays
<1>3. QED
  BY <1>1, <1>2

(* What is broken stays so.                                                *)
LEMMA BrokenGrows ==
  ASSUME NEW c, CommandStep(c) PROVE broken \subseteq broken'
BY DEF CommandStep, Step, Open, StatState, StatPlanning, UnlinkOld, UnlinkLast,
       Wake, TimeOut, Reopen, Read, Write, Release, Fail, Crash

(* Nobody but the holder is in a section, so an entering, a leaving and a  *)
(* removal leave no one behind without a lock.                             *)
LEMMA HeldStep ==
  ASSUME TypeOK, TriesFit, Held, NEW c \in Cmds, CommandStep(c)
  PROVE  Held'
<1> SUFFICES ASSUME NEW f \in Files, f \notin broken', NEW d \in Cmds, InSection(d, f)'
             PROVE  lock'[f] # NoLock /\ lock'[f].by = d
  BY DEF Held
<1>0. f \notin broken
  BY BrokenGrows
<1>1. \A e \in Cmds : InSection(e, f) => lock[f] # NoLock /\ lock[f].by = e
  BY <1>0 DEF Held
<1>2. d # c => (InSection(d, f)' <=> InSection(d, f))
  BY MovesItself, SamePlace
<1>3. CASE Enters(c, f)
  <2>1. d = c
    BY <1>1, <1>2, <1>3 DEF Enters
  <2>2. c # "nobody"
    BY LocksAssumption
  <2>3. QED
    BY <1>3, <2>1, <2>2 DEF Enters, NoLock
<1>4. CASE Leaves(c, f)
  BY <1>1, <1>2, <1>4 DEF Leaves
<1>5. CASE Removes(c, f)
  BY <1>1, <1>2, <1>5 DEF Removes
<1>6. CASE Stays(c, f)
  BY <1>1, <1>2, <1>6 DEF Stays, InSection
<1>7. QED
  BY <1>3, <1>4, <1>5, <1>6, LockEffects

(* The owner of a lock that stays is still in its section, or has died.    *)
LEMMA MannedStep ==
  ASSUME TypeOK, TriesFit, Held, Manned, NEW c \in Cmds, CommandStep(c)
  PROVE  Manned'
<1> SUFFICES ASSUME NEW f \in Files, f \notin broken', NEW d \in Cmds,
                    lock'[f] # NoLock, lock'[f].by = d
             PROVE  InSection(d, f)' \/ pc'[d] = "dead"
  BY DEF Manned
<1>0. f \notin broken
  BY BrokenGrows
<1>1. CASE Enters(c, f)
  BY <1>1 DEF Enters
<1>2. CASE Leaves(c, f) \/ Removes(c, f)
  BY <1>2 DEF Leaves, Removes
<1>3. CASE Stays(c, f)
  <2>1. lock[f] # NoLock /\ lock[f].by = d
    BY <1>3 DEF Stays
  <2>2. InSection(d, f) \/ pc[d] = "dead"
    BY <1>0, <2>1 DEF Manned
  <2>3. CASE d # c
    <3>1. pc'[d] = pc[d] /\ (InSection(d, f)' <=> InSection(d, f))
      BY <2>3, MovesItself, SamePlace
    <3>2. QED
      BY <2>2, <3>1
  <2>4. CASE d = c
    <3>1. pc[c] # "dead"
      BY DEF CommandStep, Step, Open, StatState, StatPlanning, UnlinkOld,
             UnlinkLast, Wake, TimeOut, Reopen, Read, Write, Release, Fail, Crash,
             Ended
    <3>2. QED
      BY <1>3, <2>2, <2>4, <3>1 DEF Stays
  <2>5. QED
    BY <2>3, <2>4
<1>4. QED
  BY <1>1, <1>2, <1>3, LockEffects

(* In an unbroken file no two commands are in a section.                   *)
LEMMA Exclusion ==
  ASSUME Held, NEW f \in Files, f \notin broken,
         NEW c \in Cmds, InSection(c, f), NEW d \in Cmds, InSection(d, f)
  PROVE  c = d
BY DEF Held

(* ------------------------------- the tries ------------------------------ *)

TriesFitOf(c) ==
    /\ pc[c] = "unlinkLast" => LastTry(c) /\ File(c) = "STATE"
    /\ pc[c] = "reopen" => File(c) = "ROADMAP"
    /\ pc[c] \in Trying => tries[c] < MaxTries
    /\ pc[c] = "read" /\ ~Section(c).readsInside => tries[c] < MaxTries
    /\ pc[c] = "sleep" /\ File(c) = "STATE" => ~LastTry(c)
    /\ \A f \in Files : InSection(c, f) /\ WithoutLock(c) => f \in broken

(* The tries of the command that moves.                                    *)
LEMMA OwnTries ==
  ASSUME TypeOK, TriesFit, NEW c \in Cmds, CommandStep(c)
  PROVE  TriesFitOf(c)'
<1>0. TriesFitOf(c)
  BY DEF TriesFit, TriesFitOf
<1>a. /\ tries[c] \in 0 .. MaxTries /\ MaxTries \in Nat \ {0}
      /\ File(c) \in Files /\ Section(c).readsInside \in BOOLEAN
      /\ broken \subseteq broken'
  BY LocksAssumption, OwnSection, BrokenGrows DEF TypeOK
<1>b. ASSUME sec' = sec PROVE File(c)' = File(c) /\ Section(c)' = Section(c)
  BY <1>b DEF File, Section
<1>c. Locked(c) \in {"read", "write"} /\ (Locked(c) = "read" => Section(c).readsInside)
  BY <1>a DEF Locked
<1>d. ASSUME tries'[c] < MaxTries, tries'[c] \in Nat PROVE ~WithoutLock(c)'
  BY <1>a, <1>d DEF WithoutLock
<1> USE DEF Goto
<1>1. CASE Open(c)
  <2>1. /\ sec' = sec /\ tries' = tries /\ pc[c] = "open"
        /\ pc'[c] \in {"stat", Locked(c)}
    BY <1>1 DEF Open, TypeOK
  <2>2. tries'[c] < MaxTries
    BY <1>0, <2>1 DEF TriesFitOf, Trying
  <2>3. ~WithoutLock(c)'
    BY <1>a, <1>d, <2>1, <2>2
  <2>4. QED
    BY <1>c, <2>1, <2>2, <2>3 DEF TriesFitOf
<1>2. CASE StatState(c)
  <2>1. /\ sec' = sec /\ tries' = tries /\ pc[c] = "stat" /\ File(c) = "STATE"
        /\ pc'[c] \in {"unlinkOld", "unlinkLast", "sleep"}
        /\ pc'[c] = "unlinkLast" => LastTry(c)
        /\ pc'[c] = "sleep" => ~LastTry(c)
    BY <1>2 DEF StatState, TypeOK
  <2>2. tries'[c] < MaxTries
    BY <1>0, <2>1 DEF TriesFitOf, Trying
  <2>3. ~WithoutLock(c)'
    BY <1>a, <1>d, <2>1, <2>2
  <2>4. LastTry(c)' <=> LastTry(c)
    BY <2>1 DEF LastTry
  <2>5. File(c)' = "STATE"
    BY <1>b, <2>1
  <2>6. QED
    BY <2>1, <2>2, <2>3, <2>4, <2>5 DEF TriesFitOf
<1>3. CASE StatPlanning(c)
  <2>1. /\ sec' = sec /\ tries' = tries /\ pc[c] = "stat" /\ File(c) = "ROADMAP"
        /\ pc'[c] \in {"unlinkOld", "open", "sleep"}
    BY <1>3 DEF StatPlanning, TypeOK
  <2>2. tries'[c] < MaxTries
    BY <1>0, <2>1 DEF TriesFitOf, Trying
  <2>3. ~WithoutLock(c)'
    BY <1>a, <1>d, <2>1, <2>2
  <2>4. File(c)' = "ROADMAP"
    BY <1>b, <2>1
  <2>5. QED
    BY <2>1, <2>2, <2>3, <2>4 DEF TriesFitOf
<1>4. CASE UnlinkOld(c)
  <2>1. sec' = sec /\ pc[c] = "unlinkOld"
    BY <1>4 DEF UnlinkOld
  <2>2. tries[c] < MaxTries /\ File(c)' = File(c)
    BY <1>0, <1>b, <2>1 DEF TriesFitOf, Trying
  <2>3. CASE File(c) = "STATE" /\ LastTry(c)
    <3>1. pc'[c] = Locked(c) /\ "STATE" \in broken'
      BY <1>4, <2>3 DEF UnlinkOld, TypeOK
    <3>2. \A f \in Files : InSection(c, f)' => f \in broken'
      BY <2>2, <2>3, <3>1 DEF InSection
    <3>3. QED
      BY <1>b, <1>c, <2>1, <3>1, <3>2 DEF TriesFitOf, Trying
  <2>4. CASE File(c) = "STATE" /\ ~LastTry(c)
    <3>1. /\ tries'[c] < MaxTries /\ tries'[c] \in Nat
          /\ pc'[c] \in {"open", "sleep"}
          /\ pc'[c] = "sleep" => tries'[c] = tries[c]
      BY <1>4, <1>a, <2>2, <2>4 DEF UnlinkOld, TypeOK, LastTry
    <3>2. QED
      BY <1>d, <2>4, <3>1 DEF TriesFitOf, LastTry
  <2>5. CASE File(c) = "ROADMAP"
    <3>1. tries'[c] = tries[c] /\ pc'[c] = "open"
      BY <1>4, <2>5 DEF UnlinkOld, TypeOK
    <3>2. QED
      BY <1>a, <1>d, <2>2, <3>1 DEF TriesFitOf
  <2>6. QED
    BY <1>a, <2>3, <2>4, <2>5 DEF Files
<1>5. CASE UnlinkLast(c)
  <2>1. /\ sec' = sec /\ pc'[c] = Locked(c) /\ "STATE" \in broken'
        /\ File(c) = "STATE"
    BY <1>0, <1>5 DEF UnlinkLast, TypeOK, TriesFitOf
  <2>2. \A f \in Files : InSection(c, f)' => f \in broken'
    BY <1>b, <2>1 DEF InSection
  <2>3. QED
    BY <1>b, <1>c, <2>1, <2>2 DEF TriesFitOf, Trying
<1>6. CASE Wake(c)
  <2>1. /\ sec' = sec /\ pc[c] = "sleep" /\ pc'[c] = "open"
    BY <1>6 DEF Wake, TypeOK
  <2>2. tries[c] < MaxTries /\ (File(c) = "STATE" => ~LastTry(c))
    BY <1>0, <2>1 DEF TriesFitOf, Trying
  <2>3. tries'[c] = IF File(c) = "STATE" THEN tries[c] + 1 ELSE tries[c]
    BY <1>6 DEF Wake, TypeOK
  <2>4. tries'[c] < MaxTries /\ tries'[c] \in Nat
    BY <1>a, <2>2, <2>3 DEF LastTry
  <2>5. QED
    BY <1>d, <2>1, <2>4 DEF TriesFitOf
<1>7. CASE TimeOut(c)
  <2>1. /\ sec' = sec /\ tries' = tries /\ pc[c] = "sleep" /\ pc'[c] = "reopen"
        /\ File(c) = "ROADMAP"
    BY <1>7 DEF TimeOut, TypeOK
  <2>2. tries'[c] < MaxTries
    BY <1>0, <2>1 DEF TriesFitOf, Trying
  <2>3. QED
    BY <1>a, <1>b, <1>d, <2>1, <2>2 DEF TriesFitOf
<1>8. CASE Reopen(c)
  <2>1. /\ sec' = sec /\ tries' = tries /\ pc[c] = "reopen"
        /\ pc'[c] \in {"failed", Locked(c)}
    BY <1>8 DEF Reopen, TypeOK
  <2>2. tries'[c] < MaxTries
    BY <1>0, <2>1 DEF TriesFitOf, Trying
  <2>3. ~WithoutLock(c)'
    BY <1>a, <1>d, <2>1, <2>2
  <2>4. QED
    BY <1>c, <2>1, <2>2, <2>3 DEF TriesFitOf, Trying
<1>9. CASE Read(c)
  <2>1. /\ sec' = sec /\ tries' = tries /\ broken' = broken /\ pc[c] = "read"
        /\ pc'[c] = IF Section(c).readsInside THEN "write" ELSE "open"
    BY <1>9 DEF Read, TypeOK
  <2>2. CASE Section(c).readsInside
    <3>1. \A f \in Files : InSection(c, f)' => InSection(c, f)
      BY <1>b, <2>1, <2>2 DEF InSection
    <3>2. WithoutLock(c)' <=> WithoutLock(c)
      BY <2>1 DEF WithoutLock
    <3>3. QED
      BY <1>0, <2>1, <2>2, <3>1, <3>2 DEF TriesFitOf, Trying
  <2>3. CASE ~Section(c).readsInside
    <3>1. tries'[c] < MaxTries
      BY <1>0, <2>1, <2>3 DEF TriesFitOf
    <3>2. QED
      BY <1>a, <1>d, <2>1, <2>3, <3>1 DEF TriesFitOf
  <2>4. QED
    BY <2>2, <2>3
<1>10. CASE Write(c)
  <2>1. /\ sec' = sec /\ tries' = tries /\ broken' = broken /\ pc[c] = "write"
        /\ pc'[c] = "release"
    BY <1>10 DEF Write, TypeOK
  <2>2. \A f \in Files : InSection(c, f)' => InSection(c, f)
    BY <1>b, <2>1 DEF InSection
  <2>3. WithoutLock(c)' <=> WithoutLock(c)
    BY <2>1 DEF WithoutLock
  <2>4. QED
    BY <1>0, <2>1, <2>2, <2>3 DEF TriesFitOf, Trying
<1>11. CASE Release(c)
  <2>1. tries'[c] = 0
    BY <1>11 DEF Release, TypeOK
  <2>2. pc'[c] \in {"open", "read", "done"}
    BY <1>11 DEF Release, TypeOK, Starting
  <2>3. ~WithoutLock(c)'
    BY <1>a, <1>d, <2>1
  <2>4. QED
    BY <1>a, <2>1, <2>2, <2>3 DEF TriesFitOf
<1>12. CASE Fail(c) \/ Crash(c)
  <2>1. pc'[c] \in {"failed", "dead"}
    BY <1>12 DEF Fail, Crash, TypeOK
  <2>2. QED
    BY <2>1 DEF TriesFitOf, Trying, InSection
<1>13. QED
  BY <1>1, <1>2, <1>3, <1>4, <1>5, <1>6, <1>7, <1>8, <1>9, <1>10, <1>11, <1>12
     DEF CommandStep, Step

LEMMA TriesStep ==
  ASSUME TypeOK, TriesFit, NEW c \in Cmds, CommandStep(c)
  PROVE  TriesFit'
<1>1. \A d \in Cmds : TriesFitOf(d)'
  <2> TAKE d \in Cmds
  <2>1. CASE d = c
    BY <2>1, OwnTries
  <2>2. CASE d # c
    <3>1. pc'[d] = pc[d] /\ sec'[d] = sec[d] /\ tries'[d] = tries[d]
      BY <2>2, MovesItself
    <3>2. /\ File(d)' = File(d) /\ Section(d)' = Section(d)
          /\ \A f : InSection(d, f)' <=> InSection(d, f)
          /\ LastTry(d)' <=> LastTry(d)
          /\ WithoutLock(d)' <=> WithoutLock(d)
      BY <3>1, SamePlace DEF LastTry, WithoutLock
    <3>3. TriesFitOf(d) /\ broken \subseteq broken'
      BY BrokenGrows DEF TriesFit, TriesFitOf
    <3>4. QED
      BY <3>1, <3>2, <3>3 DEF TriesFitOf
  <2>3. QED
    BY <2>1, <2>2
<1>2. QED
  BY <1>1 DEF TriesFit, TriesFitOf

(* ------------------------------- the files ------------------------------ *)

(* Only Write changes a file.                                              *)
LEMMA OnlyWrites ==
  ASSUME NEW c, CommandStep(c), ~Write(c) PROVE content' = content
BY DEF CommandStep, Step, Open, StatState, StatPlanning, UnlinkOld, UnlinkLast,
       Wake, TimeOut, Reopen, Read, Release, Fail, Crash

(* Only a read brings a command that reads inside to its write.            *)
LEMMA ComesFromRead ==
  ASSUME TypeOK, NEW c \in Cmds, CommandStep(c), ~Read(c),
         pc'[c] = "write", Section(c)'.readsInside
  PROVE  FALSE
<1> USE DEF TypeOK, Goto
<1>1. CASE Release(c)
  BY <1>1 DEF Release, Starting
<1>2. CASE StatState(c) \/ StatPlanning(c) \/ Wake(c) \/ TimeOut(c) \/ Write(c)
            \/ Fail(c) \/ Crash(c)
  BY <1>2 DEF StatState, StatPlanning, Wake, TimeOut, Write, Fail, Crash
<1>3. CASE Open(c) \/ UnlinkOld(c) \/ UnlinkLast(c) \/ Reopen(c)
  <2>1. sec' = sec /\ pc'[c] \in {"stat", "open", "sleep", "failed", Locked(c)}
    BY <1>3 DEF Open, UnlinkOld, UnlinkLast, Reopen
  <2>2. Section(c)' = Section(c)
    BY <2>1 DEF Section
  <2>3. QED
    BY <2>1, <2>2 DEF Locked
<1>4. QED
  BY <1>1, <1>2, <1>3 DEF CommandStep, Step

(* The text in hand of whoever holds an unbroken lock is that of the file: *)
(* the write of another would have to be in the same section.              *)
LEMMA FreshStep ==
  ASSUME TypeOK, Held, Fresh, NEW c \in Cmds, CommandStep(c)
  PROVE  Fresh'
<1> SUFFICES ASSUME NEW d \in Cmds, pc'[d] = "write", Section(d)'.readsInside,
                    File(d)' \notin broken'
             PROVE  copy'[d] = content'[File(d)']
  BY DEF Fresh
<1>0. broken \subseteq broken'
  BY BrokenGrows
<1>1. CASE d = c
  <2>1. Read(c)
    BY <1>1, ComesFromRead
  <2>2. /\ sec' = sec /\ content' = content
        /\ copy'[c] = content[File(c)]
    BY <2>1 DEF Read, TypeOK
  <2>3. File(c)' = File(c)
    BY <2>2 DEF File, Section
  <2>4. QED
    BY <1>1, <2>2, <2>3
<1>2. CASE d # c
  <2>1. /\ pc[d] = "write" /\ copy'[d] = copy[d]
        /\ Section(d)' = Section(d) /\ File(d)' = File(d)
    BY <1>2, MovesItself, SamePlace
  <2>2. copy[d] = content[File(d)]
    BY <1>0, <2>1 DEF Fresh
  <2>3. CASE ~Write(c)
    BY <2>1, <2>2, <2>3, OnlyWrites
  <2>4. CASE Write(c)
    <3>1. InSection(d, File(d)) /\ File(d) \in Files /\ File(d) \notin broken
      BY <1>0, <2>1, OwnSection DEF InSection
    <3>2. InSection(c, File(c))
      BY <2>4 DEF Write, InSection
    <3>3. File(c) # File(d)
      BY <1>2, <3>1, <3>2, Exclusion
    <3>4. content'[File(d)] = content[File(d)]
      BY <2>4, <3>1, <3>3 DEF Write, TypeOK
    <3>5. QED
      BY <2>1, <2>2, <3>4
  <2>5. QED
    BY <2>3, <2>4
<1>3. QED
  BY <1>1, <1>2

(* Only a write, and only to the file of its section, adds to what was     *)
(* written.                                                                *)
LEMMA WroteBefore ==
  ASSUME TypeOK, NEW c \in Cmds, CommandStep(c), NEW d \in Cmds, NEW f \in Files,
         Wrote(d, f)', ~(Write(c) /\ d = c /\ f = File(c))
  PROVE  Wrote(d, f)
<1>1. CASE d # c
  BY <1>1, MovesItself, SamePlace
<1>2. CASE d = c
  <2> USE <1>2
  <2>1. PICK i \in 1 .. Len(Sections(Kind[c])) :
          /\ Sections(Kind[c])[i].file = f
          /\ i < sec'[c] \/ (i = sec'[c] /\ pc'[c] \in {"release", "done"})
    BY DEF Wrote
  <2>2. i \in Nat /\ sec[c] \in Nat
    BY DEF TypeOK
  <2>3. CASE Release(c)
    <3>0. pc[c] = "release"
      BY <2>3 DEF Release
    <3>1. sec'[c] = sec[c] + 1 \/ sec'[c] = sec[c]
      BY <2>3 DEF Release, Goto, Starting, TypeOK
    <3>2. i < sec[c] \/ i = sec[c]
      <4>1. i <= sec'[c]
        BY <2>1, <2>2, <3>1
      <4>2. i <= sec[c] + 1 /\ (i = sec[c] + 1 => pc'[c] \in {"release", "done"})
        BY <2>1, <2>2, <3>1, <4>1
      <4>3. i # sec[c] + 1
        <5> SUFFICES ASSUME i = sec[c] + 1 PROVE FALSE
          OBVIOUS
        <5>1. sec[c] < Len(Sections(Kind[c]))
          BY <2>1, <2>2, OwnSection
        <5>2. pc'[c] \in {"open", "read"}
          BY <2>3, <5>1 DEF Release, Goto, Starting, TypeOK
        <5>3. QED
          BY <4>2, <5>2
      <4>4. QED
        BY <2>2, <4>2, <4>3
    <3>3. QED
      BY <2>1, <3>0, <3>2 DEF Wrote
  <2>4. CASE Write(c)
    <3>1. sec' = sec /\ f # File(c)
      BY <2>4 DEF Write
    <3>2. i # sec[c]
      BY <2>1, <3>1 DEF File, Section
    <3>3. QED
      BY <2>1, <3>1, <3>2 DEF Wrote
  <2>5. CASE ~Release(c) /\ ~Write(c)
    <3>1. sec' = sec
      BY <2>5 DEF CommandStep, Step, Open, StatState, StatPlanning, UnlinkOld,
                  UnlinkLast, Wake, TimeOut, Reopen, Read, Fail, Crash
    <3>2. pc'[c] \notin {"release", "done"}
      <4> USE DEF Goto, TypeOK
      <4>1. CASE Open(c) \/ UnlinkOld(c) \/ UnlinkLast(c) \/ Reopen(c)
        BY <4>1 DEF Open, UnlinkOld, UnlinkLast, Reopen, Locked
      <4>2. CASE StatState(c) \/ StatPlanning(c) \/ Wake(c) \/ TimeOut(c)
        BY <4>2 DEF StatState, StatPlanning, Wake, TimeOut
      <4>3. CASE Read(c) \/ Fail(c) \/ Crash(c)
        BY <4>3 DEF Read, Fail, Crash
      <4>4. QED
        BY <2>5, <4>1, <4>2, <4>3 DEF CommandStep, Step
    <3>3. QED
      BY <2>1, <3>1, <3>2 DEF Wrote
  <2>6. QED
    BY <2>3, <2>4, <2>5
<1>3. QED
  BY <1>1, <1>2

(* Who wrote back an older text remains one who did.                       *)
LEMMA OverwritingStays ==
  ASSUME TypeOK, NEW c \in Cmds, CommandStep(c), NEW e \in Cmds, NEW f \in Files
  PROVE  OverwrittenBy(e, f) \subseteq OverwrittenBy(e, f)'
<1> SUFFICES ASSUME NEW d \in Cmds, Kind[d] = "direct",
                    Wrote(d, f) \/ pc[d] = "dead", e \notin copy[d] \cup {d}
             PROVE  /\ Wrote(d, f)' \/ pc'[d] = "dead"
                    /\ e \notin copy'[d] \cup {d}
  BY DEF OverwrittenBy
<1>1. CASE d # c
  BY <1>1, MovesItself, SamePlace
<1>2. CASE d = c
  <2>1. pc[c] # "dead"
    BY DEF CommandStep, Step, Open, StatState, StatPlanning, UnlinkOld,
           UnlinkLast, Wake, TimeOut, Reopen, Read, Write, Release, Fail, Crash,
           Ended
  <2>2. Len(Sections(Kind[c])) = 1 /\ sec[c] = 1
    BY <1>2, OwnSection
  <2>3. pc[c] \in {"release", "done"} /\ Sections(Kind[c])[1].file = f
    <3>1. PICK i \in 1 .. 1 :
            /\ Sections(Kind[c])[i].file = f
            /\ i < 1 \/ (i = 1 /\ pc[c] \in {"release", "done"})
      BY <1>2, <2>1, <2>2 DEF Wrote
    <3>2. QED
      BY <3>1
  <2>4. Release(c) \/ Crash(c)
    BY <2>3 DEF CommandStep, Step, Open, StatState, StatPlanning, UnlinkOld,
                UnlinkLast, Wake, TimeOut, Reopen, Read, Write, Fail
  <2>5. copy' = copy
    BY <2>4 DEF Release, Crash
  <2>6. CASE Release(c)
    <3>1. pc'[c] = "done" /\ sec' = sec
      BY <2>2, <2>6 DEF Release, Goto, TypeOK
    <3>2. \E i \in 1 .. Len(Sections(Kind[c])) :
            /\ Sections(Kind[c])[i].file = f
            /\ i < sec'[c] \/ (i = sec'[c] /\ pc'[c] \in {"release", "done"})
      BY <2>2, <2>3, <3>1
    <3>3. Wrote(c, f)'
      BY <3>2 DEF Wrote
    <3>4. QED
      BY <1>2, <2>5, <3>3
  <2>7. CASE Crash(c)
    <3>1. pc'[c] = "dead"
      BY <2>7 DEF Crash, Goto, TypeOK
    <3>2. QED
      BY <1>2, <2>5, <3>1
  <2>8. QED
    BY <2>4, <2>6, <2>7
<1>3. QED
  BY <1>1, <1>2

(* A write keeps the edits of others: it was read under an unbroken lock,  *)
(* or else its writer now counts as one who overwrote.                     *)
LEMMA UpdateStep ==
  ASSUME TypeOK, Fresh, NoLostUpdate, NEW c \in Cmds, CommandStep(c)
  PROVE  NoLostUpdate'
<1> SUFFICES ASSUME NEW f \in Files, NEW d \in Cmds, Wrote(d, f)',
                    f \notin broken', OverwrittenBy(d, f)' = {}
             PROVE  d \in content'[f]
  BY DEF NoLostUpdate
<1>0. f \notin broken /\ OverwrittenBy(d, f) = {}
  BY BrokenGrows, OverwritingStays
<1>1. CASE ~(Write(c) /\ f = File(c))
  <2>1. d \in content[f]
    BY <1>0, <1>1, WroteBefore DEF NoLostUpdate
  <2>2. content'[f] = content[f]
    <3>1. CASE Write(c)
      BY <1>1, <3>1 DEF Write, TypeOK
    <3>2. CASE ~Write(c)
      BY <3>2, OnlyWrites
    <3>3. QED
      BY <3>1, <3>2
  <2>3. QED
    BY <2>1, <2>2
<1>2. CASE Write(c) /\ f = File(c)
  <2>1. /\ content'[f] = copy[c] \cup {c} /\ copy' = copy /\ sec' = sec
        /\ pc[c] = "write" /\ pc'[c] = "release"
    BY <1>2 DEF Write, Goto, TypeOK
  <2>2. CASE d = c
    BY <2>1, <2>2
  <2>3. CASE d # c /\ Section(c).readsInside
    <3>1. Wrote(d, f)
      BY <2>3, WroteBefore
    <3>2. d \in content[f]
      BY <1>0, <3>1 DEF NoLostUpdate
    <3>3. copy[c] = content[f]
      BY <1>0, <1>2, <2>1, <2>3 DEF Fresh
    <3>4. QED
      BY <2>1, <3>2, <3>3
  <2>4. CASE d # c /\ ~Section(c).readsInside
    <3>1. Kind[c] = "direct" /\ sec[c] \in 1 .. Len(Sections(Kind[c]))
      BY <2>4, OwnSection
    <3>2. Wrote(c, f)'
      BY <1>2, <2>1, <3>1 DEF Wrote, File, Section
    <3>3. d \in copy'[c] \cup {c}
      BY <3>1, <3>2 DEF OverwrittenBy
    <3>4. QED
      BY <2>1, <3>3
  <2>5. QED
    BY <2>2, <2>3, <2>4
<1>3. QED
  BY <1>1, <1>2

(* ------------------------------ the theorems ---------------------------- *)

(* A lock that ages, or a step of nothing here, disturbs none of it.       *)
LEMMA AgeStep ==
  ASSUME LocksInv, NEW g \in Files, Age(g)
  PROVE  TriesFit' /\ Held' /\ Manned' /\ Fresh' /\ NoLostUpdate'
<1>1. UNCHANGED <<content, pc, sec, copy, tries, waitsFor, broken>>
  BY DEF Age
<1>2. \A f \in Files : /\ lock'[f] # NoLock <=> lock[f] # NoLock
                       /\ lock'[f].by = lock[f].by
  <2> TAKE f \in Files
  <2>1. CASE f = g
    <3>1. lock[g] # NoLock /\ lock[g] \in [by : Cmds, old : BOOLEAN]
      BY DEF Age, LocksInv, TypeOK, Lock
    <3>2. lock'[g] = [lock[g] EXCEPT !.old = TRUE]
      BY DEF Age, LocksInv, TypeOK
    <3>3. lock'[g].by = lock[g].by /\ lock[g].by # "nobody"
      BY <3>1, <3>2, LocksAssumption
    <3>4. lock'[g] # NoLock
      BY <3>3 DEF NoLock
    <3>5. QED
      BY <2>1, <3>1, <3>3, <3>4
  <2>2. CASE f # g
    <3>1. lock'[f] = lock[f]
      BY <2>2 DEF Age, LocksInv, TypeOK
    <3>2. QED
      BY <3>1
  <2>3. QED
    BY <2>1, <2>2
<1>3. \A c : /\ File(c)' = File(c) /\ Section(c)' = Section(c)
             /\ \A f : InSection(c, f)' <=> InSection(c, f)
             /\ \A f : Wrote(c, f)' <=> Wrote(c, f)
  BY <1>1, SamePlace
<1>4. TriesFit'
  BY <1>1, <1>3 DEF LocksInv, TriesFit, LastTry, WithoutLock
<1>5. Held' /\ Manned'
  <2>1. Held /\ Manned
    BY DEF LocksInv
  <2>2. Held'
    BY <1>1, <1>2, <1>3, <2>1 DEF Held
  <2>3. Manned'
    BY <1>1, <1>2, <1>3, <2>1 DEF Manned
  <2>4. QED
    BY <2>2, <2>3
<1>6. Fresh'
  BY <1>1, <1>3 DEF LocksInv, Fresh
<1>7. NoLostUpdate'
  <2>1. \A c, f : OverwrittenBy(c, f)' = OverwrittenBy(c, f)
    BY <1>1, <1>3 DEF OverwrittenBy
  <2>2. QED
    BY <1>1, <1>3, <2>1 DEF LocksInv, NoLostUpdate
<1>8. QED
  BY <1>4, <1>5, <1>6, <1>7

LEMMA InitInv == Init => LocksInv
<1> SUFFICES ASSUME Init PROVE LocksInv
  OBVIOUS
<1>1. TypeOK
  BY TypeInit
<1>2. \A c \in Cmds : /\ pc[c] = Starting(Section(c)) /\ pc[c] \in {"open", "read"}
                      /\ sec[c] = 1 /\ tries[c] = 0
  BY DEF Init, Section, Starting
<1>3. \A c \in Cmds, f \in Files : ~InSection(c, f)
  BY <1>2 DEF InSection, Starting
<1>4. \A c \in Cmds, f \in Files : ~Wrote(c, f)
  <2> TAKE c \in Cmds, f \in Files
  <2>1. \A i \in 1 .. Len(Sections(Kind[c])) : ~(i < sec[c])
    BY <1>2
  <2>2. QED
    BY <1>2, <2>1 DEF Wrote
<1>5. TriesFit
  BY <1>2, <1>3, LocksAssumption DEF TriesFit
<1>6. Held /\ Manned /\ Fresh /\ NoLostUpdate
  BY <1>2, <1>3, <1>4 DEF Init, Held, Manned, Fresh, NoLostUpdate
<1>7. QED
  BY <1>1, <1>5, <1>6 DEF LocksInv

LEMMA StepInv == LocksInv /\ [Next]_vars => LocksInv'
<1> SUFFICES ASSUME LocksInv, [Next]_vars PROVE LocksInv'
  OBVIOUS
<1>1. TypeOK'
  BY TypeStep DEF LocksInv
<1>2. ASSUME NEW c \in Cmds, CommandStep(c)
      PROVE  TriesFit' /\ Held' /\ Manned' /\ Fresh' /\ NoLostUpdate'
  BY <1>2, TriesStep, HeldStep, MannedStep, FreshStep, UpdateStep DEF LocksInv
<1>3. CASE UNCHANGED vars
  <2>1. /\ UNCHANGED <<lock, content, pc, sec, copy, tries, waitsFor, broken>>
    BY <1>3 DEF vars
  <2>2. \A c : /\ File(c)' = File(c) /\ Section(c)' = Section(c)
               /\ \A f : InSection(c, f)' <=> InSection(c, f)
               /\ \A f : Wrote(c, f)' <=> Wrote(c, f)
    BY <2>1, SamePlace
  <2>3. TriesFit' /\ Held' /\ Manned' /\ Fresh'
    <3>1. TriesFit'
      BY <2>1, <2>2 DEF LocksInv, TriesFit, LastTry, WithoutLock
    <3>2. Held' /\ Manned'
      BY <2>1, <2>2 DEF LocksInv, Held, Manned
    <3>3. Fresh'
      BY <2>1, <2>2 DEF LocksInv, Fresh
    <3>4. QED
      BY <3>1, <3>2, <3>3
  <2>4. \A c, f : OverwrittenBy(c, f)' = OverwrittenBy(c, f)
    BY <2>1, <2>2 DEF OverwrittenBy
  <2>5. NoLostUpdate'
    BY <2>1, <2>2, <2>4 DEF LocksInv, NoLostUpdate
  <2>6. QED
    BY <1>1, <2>3, <2>5 DEF LocksInv
<1>4. CASE \E f \in Files : Age(f)
  BY <1>1, <1>4, AgeStep DEF LocksInv
<1>5. CASE \E c \in Cmds : CommandStep(c)
  BY <1>1, <1>2, <1>5 DEF LocksInv
<1>6. QED
  BY <1>3, <1>4, <1>5 DEF Next, CommandStep

(* acquireStateLock, withPlanningLock: the locks, files and commands keep  *)
(* their types; no command counts more tries than it has.                  *)
THEOREM TypeCorrect == Spec => []TypeOK
<1>1. LocksInv => TypeOK
  BY DEF LocksInv
<1>2. QED
  BY <1>1, InitInv, StepInv, PTL DEF Spec

(* Two commands meet in a section of the same file only after a waiter     *)
(* removed a lock that was held, or gave up.                               *)
THEOREM LocksExclude == Spec => []MutualExclusion
<1>1. LocksInv => MutualExclusion
  BY Exclusion DEF LocksInv, MutualExclusion
<1>2. QED
  BY <1>1, InitInv, StepInv, PTL DEF Spec

(* An edit that was written stays in its file, unless a lock was broken or *)
(* a caller of writeStateMd wrote back what it had read before.            *)
THEOREM UpdatesAreKept == Spec => []NoLostUpdate
<1>1. LocksInv => NoLostUpdate
  BY DEF LocksInv
<1>2. QED
  BY <1>1, InitInv, StepInv, PTL DEF Spec

(* A command that ends by itself, failing or not, leaves no lock behind.   *)
THEOREM LocksAreReleased == Spec => []OnlyCrashesLeaveLocks
<1>1. LocksInv => OnlyCrashesLeaveLocks
  <2> SUFFICES ASSUME LocksInv, NEW f \in Files, lock[f] # NoLock, f \notin broken
               PROVE  pc[lock[f].by] \notin {"done", "failed"}
    BY DEF OnlyCrashesLeaveLocks
  <2>1. lock[f].by \in Cmds
    BY DEF LocksInv, TypeOK, Lock
  <2>2. InSection(lock[f].by, f) \/ pc[lock[f].by] = "dead"
    BY <2>1 DEF LocksInv, Manned
  <2>3. QED
    BY <2>2 DEF InSection
<1>2. QED
  BY <1>1, InitInv, StepInv, PTL DEF Spec


(* --------------------------- quick holders ------------------------------ *)

(* The commands that are through with STATE.md. A waiter whose holder is   *)
(* one of them has not counted it yet.                                     *)
Through == {d \in Cmds : pc[d] \in {"done", "failed"} /\ File(d) = "STATE"}

Counted(c) ==
    IF pc[c] \in {"stat", "sleep"} THEN Through \ {waitsFor[c].by} ELSE Through

(* The holder that a command found, which is or was in the section.        *)
FoundHolder(c) ==
    /\ waitsFor[c] # NoLock /\ waitsFor[c].by \in Cmds \ {c}
    /\ File(c) = "STATE" =>
         InSection(waitsFor[c].by, "STATE") \/ waitsFor[c].by \in Through

(* Each try that was used up is a command that went through.               *)
QuickOf(c) ==
    /\ pc[c] \notin {"unlinkOld", "unlinkLast", "reopen"}
    /\ pc[c] \in {"stat", "sleep"} => FoundHolder(c)
    /\ File(c) = "STATE" /\ pc[c] \in {"open", "stat", "sleep"}
         => tries[c] <= Cardinality(Counted(c))
    /\ pc[c] = "read" /\ ~Section(c).readsInside => tries[c] = 0

NobodyDied == \A c \in Cmds : pc[c] # "dead"

NothingBroken == broken = {} /\ \A f \in Files : ~lock[f].old

QuickInv == NobodyDied => NothingBroken /\ \A c \in Cmds : QuickOf(c)

FewAndQuick == ~SlowHolders /\ IsFiniteSet(Cmds) /\ Cardinality(Cmds) <= MaxTries

(* STATE.md is always the last file of a command.                          *)
LEMMA LastSection ==
  ASSUME TypeOK, NEW c \in Cmds, File(c) = "STATE"
  PROVE  ~(sec[c] < Len(Sections(Kind[c])))
<1>1. Kind[c] \in KindNames /\ sec[c] \in 1 .. Len(Sections(Kind[c]))
  BY LocksAssumption DEF TypeOK
<1>2. RmwRoadmap.file # "STATE"
  BY DEF RmwRoadmap
<1>3. Len(Sections(Kind[c])) \in {1, 2}
  BY <1>1, SectionsOfKinds DEF KindNames
<1>4. CASE Kind[c] # "complete"
  <2>1. Len(Sections(Kind[c])) = 1
    BY <1>1, <1>4, SectionsOfKinds DEF KindNames
  <2>2. QED
    BY <1>1, <2>1
<1>5. CASE Kind[c] = "complete"
  <2>1. sec[c] # 1
    BY <1>2, <1>5, SectionsOfKinds DEF File, Section
  <2>2. Len(Sections(Kind[c])) = 2
    BY <1>1, <1>5, SectionsOfKinds DEF KindNames
  <2>3. sec[c] = 2
    BY <1>1, <2>1, <2>2
  <2>4. QED
    BY <2>2, <2>3
<1>6. QED
  BY <1>4, <1>5

LEMMA QuickInit == Init => QuickInv
<1> SUFFICES ASSUME Init PROVE QuickInv
  OBVIOUS
<1>1. \A c \in Cmds : pc[c] \in {"open", "read"} /\ tries[c] = 0
  BY DEF Init, Starting
<1>2. Through = {} /\ \A c \in Cmds : Counted(c) = {}
  BY <1>1 DEF Through, Counted
<1>3. \A c \in Cmds : QuickOf(c)
  BY <1>1, <1>2, FS_EmptySet DEF QuickOf
<1>4. NothingBroken
  BY DEF Init, NothingBroken, NoLock
<1>5. QED
  BY <1>3, <1>4 DEF QuickInv

(* A command that takes a step has not ended.                              *)
LEMMA NotEnded ==
  ASSUME NEW c, CommandStep(c) PROVE pc[c] \notin {"done", "failed", "dead"}
BY DEF CommandStep, Step, Open, StatState, StatPlanning, UnlinkOld, UnlinkLast, Wake,
       TimeOut, Reopen, Read, Write, Release, Fail, Crash, Ended

LEMMA CountedFinite ==
  ASSUME IsFiniteSet(Cmds), NEW S \in SUBSET Cmds, NEW T \in SUBSET S
  PROVE  /\ IsFiniteSet(S) /\ IsFiniteSet(T) /\ Cardinality(S) \in Nat
         /\ Cardinality(T) \in Nat /\ Cardinality(T) <= Cardinality(S)
BY FS_Subset, FS_CardinalityType

(* Who is through with STATE.md stays so, and who was in the section is    *)
(* through once he is out of it.                                           *)
LEMMA ThroughStep ==
  ASSUME TypeOK, NEW c \in Cmds, CommandStep(c), pc'[c] # "dead"
  PROVE  /\ Through \subseteq Through' /\ Through' \subseteq Cmds
         /\ \A d \in Cmds : InSection(d, "STATE") =>
              InSection(d, "STATE")' \/ d \in Through'
<1>1. \A d \in Cmds : d # c =>
        /\ pc'[d] = pc[d] /\ File(d)' = File(d)
        /\ InSection(d, "STATE")' <=> InSection(d, "STATE")
  BY MovesItself, SamePlace
<1>2. c \notin Through
  BY NotEnded DEF Through
<1>3. Through \subseteq Through' /\ Through' \subseteq Cmds
  BY <1>1, <1>2 DEF Through
<1>4. ASSUME InSection(c, "STATE") PROVE InSection(c, "STATE")' \/ c \in Through'
  <2>1. /\ pc[c] \in {"read", "write", "release"} /\ File(c) = "STATE"
        /\ pc[c] = "read" => Section(c).readsInside
    BY <1>4 DEF InSection
  <2>2. ~(sec[c] < Len(Sections(Kind[c])))
    BY <2>1, LastSection
  <2>3. Read(c) \/ Write(c) \/ Release(c) \/ Fail(c)
    BY <2>1 DEF CommandStep, Step, Open, StatState, StatPlanning, UnlinkOld, UnlinkLast,
                Wake, TimeOut, Reopen, Crash, Goto, TypeOK
  <2>4. sec' = sec
    BY <2>2, <2>3 DEF Read, Write, Release, Fail
  <2>5. File(c)' = "STATE" /\ Section(c)' = Section(c)
    BY <2>1, <2>4 DEF File, Section
  <2>6. pc'[c] \in {"write", "release", "done", "failed"}
    BY <2>1, <2>2, <2>3 DEF Read, Write, Release, Fail, Goto, TypeOK
  <2>7. QED
    BY <2>5, <2>6 DEF InSection, Through
<1>5. QED
  BY <1>1, <1>3, <1>4

(* What the others wait for and have counted.                              *)
LEMMA OthersQuick ==
  ASSUME TypeOK, IsFiniteSet(Cmds), NEW c \in Cmds, CommandStep(c), pc'[c] # "dead",
         NEW d \in Cmds, d # c, QuickOf(d)
  PROVE  QuickOf(d)'
<1>1. /\ pc'[d] = pc[d] /\ tries'[d] = tries[d]
      /\ File(d)' = File(d) /\ Section(d)' = Section(d)
  BY MovesItself, SamePlace
<1>2. waitsFor'[d] = waitsFor[d]
  BY DEF TypeOK, CommandStep, Step, Open, StatState, StatPlanning, UnlinkOld, UnlinkLast,
         Wake, TimeOut, Reopen, Read, Write, Release, Fail, Crash
<1>3. Counted(d) \subseteq Counted(d)' /\ Counted(d)' \subseteq Cmds
  BY <1>1, <1>2, ThroughStep DEF Counted
<1>4. Cardinality(Counted(d)) <= Cardinality(Counted(d)')
      /\ Cardinality(Counted(d)) \in Nat /\ Cardinality(Counted(d)') \in Nat
  BY <1>3, CountedFinite
<1>5. tries[d] \in Nat
  BY LocksAssumption DEF TypeOK
<1>6. FoundHolder(d) => FoundHolder(d)'
  BY <1>1, <1>2, ThroughStep DEF FoundHolder
<1>7. tries[d] <= Cardinality(Counted(d)) => tries'[d] <= Cardinality(Counted(d)')
  BY <1>1, <1>4, <1>5
<1>8. QED
  BY <1>1, <1>6, <1>7 DEF QuickOf

(* While the holder is in the section, and its waiter is not through, two  *)
(* commands are missing among those the waiter counted.                    *)
LEMMA TriesLeft ==
  ASSUME FewAndQuick, TypeOK, NEW c \in Cmds, pc[c] \in {"stat", "sleep"},
         File(c) = "STATE", QuickOf(c)
  PROVE  ~LastTry(c)
<1> DEFINE d == waitsFor[c].by
<1>1. d \in Cmds \ {c} /\ Counted(c) = Through \ {d}
  BY DEF QuickOf, FoundHolder, Counted
<1>2. Counted(c) \subseteq (Cmds \ {c}) \ {d}
  BY <1>1 DEF Through
<1>3. /\ IsFiniteSet(Cmds \ {c}) /\ IsFiniteSet((Cmds \ {c}) \ {d})
      /\ Cardinality(Cmds \ {c}) = Cardinality(Cmds) - 1
      /\ Cardinality((Cmds \ {c}) \ {d}) = Cardinality(Cmds \ {c}) - 1
  BY <1>1, FS_RemoveElement DEF FewAndQuick
<1>4. Cardinality(Counted(c)) <= Cardinality((Cmds \ {c}) \ {d})
      /\ Cardinality(Counted(c)) \in Nat
  BY <1>2, <1>3, FS_Subset, FS_CardinalityType
<1>5. Cardinality(Cmds) <= MaxTries /\ Cardinality(Cmds) \in Nat /\ MaxTries \in Nat
  BY FS_CardinalityType, LocksAssumption DEF FewAndQuick
<1>6. tries[c] <= Cardinality(Counted(c)) /\ tries[c] \in Nat
  BY LocksAssumption DEF QuickOf, TypeOK
<1>7. QED
  BY <1>3, <1>4, <1>5, <1>6 DEF LastTry

(* The command that takes the step, with all locks as they should be.      *)
LEMMA OwnQuick ==
  ASSUME LocksInv, FewAndQuick, NobodyDied, NothingBroken, NEW c \in Cmds, QuickOf(c),
         CommandStep(c), pc'[c] # "dead"
  PROVE  QuickOf(c)' /\ NothingBroken'
<1>1. TypeOK
  BY DEF LocksInv
<1>2. tries[c] \in Nat /\ File(c) \in Files /\ Section(c).readsInside \in BOOLEAN
  BY <1>1, LocksAssumption, OwnSection DEF TypeOK
<1>3. ASSUME sec' = sec PROVE File(c)' = File(c) /\ Section(c)' = Section(c)
  BY <1>3 DEF File, Section
<1>4. /\ Through \subseteq Through' /\ Through' \subseteq Cmds
      /\ IsFiniteSet(Through) /\ IsFiniteSet(Through')
      /\ Cardinality(Through) <= Cardinality(Through')
      /\ Cardinality(Through) \in Nat /\ Cardinality(Through') \in Nat
  BY <1>1, ThroughStep, CountedFinite DEF FewAndQuick
<1>5. ASSUME broken' = broken,
             lock' = lock \/ lock' = [lock EXCEPT ![File(c)] = NoLock]
                          \/ lock' = [lock EXCEPT ![File(c)] = [by |-> c, old |-> FALSE]]
      PROVE  NothingBroken'
  BY <1>1, <1>5 DEF NothingBroken, TypeOK, NoLock
<1>6. ASSUME pc[c] \in {"stat", "sleep"}
      PROVE  /\ waitsFor[c].by \in Cmds \ {c} /\ waitsFor[c] # NoLock
             /\ File(c) = "STATE" => tries[c] <= Cardinality(Through \ {waitsFor[c].by})
             /\ File(c) = "STATE" =>
                  InSection(waitsFor[c].by, "STATE") \/ waitsFor[c].by \in Through
  BY <1>6 DEF QuickOf, FoundHolder, Counted
<1> USE DEF Goto
<1>7. CASE Open(c)
  <2>1. sec' = sec /\ tries' = tries /\ broken' = broken /\ pc[c] = "open"
    BY <1>7 DEF Open
  <2>2. CASE lock[File(c)] = NoLock
    <3>1. /\ lock' = [lock EXCEPT ![File(c)] = [by |-> c, old |-> FALSE]]
          /\ pc'[c] = Locked(c)
      BY <1>1, <1>7, <2>2 DEF Open, TypeOK
    <3>2. pc'[c] \in {"read", "write"} /\ (pc'[c] = "read" => Section(c).readsInside)
      BY <1>2, <3>1 DEF Locked
    <3>3. QED
      BY <1>3, <1>5, <2>1, <3>1, <3>2 DEF QuickOf
  <2>3. CASE lock[File(c)] # NoLock
    <3>1. /\ lock' = lock /\ pc'[c] = "stat" /\ waitsFor'[c] = lock[File(c)]
      BY <1>1, <1>7, <2>3 DEF Open, TypeOK
    <3>2. PICK d \in Cmds, f \in Files : d = lock[f].by /\ f = File(c)
      BY <1>1, <1>2, <2>3 DEF TypeOK, Lock
    <3>3. InSection(d, f)
      BY <1>2, <2>3, <3>2 DEF LocksInv, Manned, NothingBroken, NobodyDied
    <3>4. d # c /\ d \notin Through
      BY <2>1, <3>3 DEF InSection, Through
    <3>5. pc'[d] = pc[d] /\ File(d)' = File(d)
      BY <1>1, <3>4, MovesItself, SamePlace
    <3>6. InSection(d, f)' /\ d \notin Through'
      <4>1. InSection(d, f)'
        BY <1>1, <3>2, <3>3, <3>4, MovesItself, SamePlace
      <4>2. d \notin Through'
        BY <3>4, <3>5 DEF Through
      <4>3. QED
        BY <4>1, <4>2
    <3>7. FoundHolder(c)'
      BY <1>3, <2>1, <2>3, <3>1, <3>2, <3>4, <3>6 DEF FoundHolder
    <3>8. Counted(c)' = Through'
      BY <3>1, <3>2, <3>6 DEF Counted
    <3>9. File(c) = "STATE" => tries'[c] <= Cardinality(Counted(c)')
      <4>1. File(c) = "STATE" => tries[c] <= Cardinality(Through)
        BY <2>1 DEF QuickOf, Counted
      <4>2. QED
        BY <1>2, <1>4, <2>1, <3>8, <4>1
    <3>10. QED
      BY <1>3, <1>5, <2>1, <3>1, <3>7, <3>9 DEF QuickOf
  <2>4. QED
    BY <2>2, <2>3
<1>8. CASE StatState(c) \/ StatPlanning(c)
  <2>1. /\ UNCHANGED <<lock, sec, tries, waitsFor, broken>> /\ pc[c] = "stat"
        /\ pc'[c] \in {"sleep", "open"} /\ (File(c) = "STATE" => pc'[c] = "sleep")
    <3>1. CASE StatState(c)
      <4>1. ~LastTry(c) /\ ~lock["STATE"].old
        BY <1>1, <3>1, TriesLeft DEF StatState, NothingBroken, Files
      <4>2. QED
        BY <1>1, <3>1, <4>1 DEF StatState, TypeOK
    <3>2. CASE StatPlanning(c)
      <4>1. ~lock["ROADMAP"].old
        BY DEF NothingBroken, Files
      <4>2. QED
        BY <1>1, <3>2, <4>1 DEF StatPlanning, TypeOK
    <3>3. QED
      BY <1>8, <3>1, <3>2
  <2>2. File(c)' = File(c) /\ Section(c)' = Section(c)
    BY <1>3, <2>1
  <2>3. FoundHolder(c)'
    BY <1>1, <1>6, <2>1, <2>2, ThroughStep DEF FoundHolder
  <2>4. File(c) = "STATE" => tries'[c] <= Cardinality(Counted(c)')
    <3> SUFFICES ASSUME File(c) = "STATE" PROVE tries'[c] <= Cardinality(Counted(c)')
      OBVIOUS
    <3>1. Counted(c)' = Through' \ {waitsFor[c].by}
      BY <2>1 DEF Counted
    <3>2. Cardinality(Through \ {waitsFor[c].by}) <= Cardinality(Counted(c)')
          /\ Cardinality(Through \ {waitsFor[c].by}) \in Nat
          /\ Cardinality(Counted(c)') \in Nat
      <4>1. /\ Through' \ {waitsFor[c].by} \in SUBSET Cmds
            /\ Through \ {waitsFor[c].by} \in SUBSET (Through' \ {waitsFor[c].by})
        BY <1>4
      <4>2. QED
        BY <3>1, <4>1, CountedFinite DEF FewAndQuick
    <3>3. QED
      BY <1>2, <1>6, <2>1, <3>2
  <2>5. QED
    BY <1>5, <2>1, <2>2, <2>3, <2>4 DEF QuickOf
<1>9. CASE Wake(c)
  <2>1. /\ UNCHANGED <<lock, sec, broken>> /\ pc[c] = "sleep" /\ pc'[c] = "open"
        /\ File(c) = "STATE" => tries'[c] = tries[c] + 1
    BY <1>1, <1>9 DEF Wake, TypeOK
  <2>2. File(c)' = File(c) /\ Section(c)' = Section(c)
    BY <1>3, <2>1
  <2>3. File(c) = "STATE" => tries'[c] <= Cardinality(Counted(c)')
    <3> SUFFICES ASSUME File(c) = "STATE" PROVE tries'[c] <= Cardinality(Counted(c)')
      OBVIOUS
    <3> DEFINE d == waitsFor[c].by
    <3>1. d \in Cmds /\ waitsFor[c] # NoLock /\ tries[c] <= Cardinality(Through \ {d})
          /\ (InSection(d, "STATE") \/ d \in Through)
      BY <1>6, <2>1
    <3>2. d \in Through
      BY <1>9, <3>1 DEF Wake, HolderGone, FewAndQuick, NobodyDied
    <3>3. Cardinality(Through \ {d}) = Cardinality(Through) - 1
      BY <1>4, <3>2, FS_RemoveElement
    <3>4. Counted(c)' = Through'
      BY <2>1 DEF Counted
    <3>5. QED
      BY <1>2, <1>4, <2>1, <3>1, <3>3, <3>4
  <2>4. QED
    BY <1>5, <2>1, <2>2, <2>3 DEF QuickOf
<1>10. CASE Read(c)
  <2>1. /\ UNCHANGED <<lock, sec, tries, broken>> /\ pc[c] = "read"
        /\ pc'[c] = IF Section(c).readsInside THEN "write" ELSE "open"
    BY <1>1, <1>10 DEF Read, TypeOK
  <2>2. File(c)' = File(c) /\ Section(c)' = Section(c)
    BY <1>3, <2>1
  <2>3. CASE Section(c).readsInside
    BY <1>5, <2>1, <2>2, <2>3 DEF QuickOf
  <2>4. CASE ~Section(c).readsInside
    <3>1. tries'[c] = 0 /\ pc'[c] = "open" /\ Counted(c)' = Through'
      BY <2>1, <2>4 DEF QuickOf, Counted
    <3>2. tries'[c] <= Cardinality(Counted(c)')
      BY <1>4, <3>1
    <3>3. QED
      BY <1>5, <2>1, <2>2, <2>4, <3>1, <3>2 DEF QuickOf
  <2>5. QED
    BY <1>2, <2>3, <2>4
<1>11. CASE Write(c) \/ Fail(c)
  <2>1. pc'[c] \in {"release", "failed"} /\ broken' = broken
        /\ (lock' = lock \/ lock' = [lock EXCEPT ![File(c)] = NoLock])
    BY <1>1, <1>11 DEF Write, Fail, TypeOK
  <2>2. QED
    BY <1>5, <2>1 DEF QuickOf
<1>12. CASE Release(c)
  <2>1. /\ lock' = [lock EXCEPT ![File(c)] = NoLock] /\ broken' = broken
        /\ tries'[c] = 0 /\ pc'[c] \in {"open", "read", "done"}
    BY <1>1, <1>12 DEF Release, Starting, TypeOK
  <2>2. Counted(c)' = Through'
    BY <2>1 DEF Counted
  <2>3. tries'[c] <= Cardinality(Counted(c)')
    BY <1>4, <2>1, <2>2
  <2>4. QED
    BY <1>5, <2>1, <2>3 DEF QuickOf
<1>13. CASE TimeOut(c)
  BY <1>6, <1>13 DEF TimeOut, FewAndQuick, NobodyDied
<1>14. CASE UnlinkOld(c) \/ UnlinkLast(c) \/ Reopen(c)
  BY <1>14 DEF UnlinkOld, UnlinkLast, Reopen, QuickOf
<1>15. CASE Crash(c)
  BY <1>1, <1>15 DEF Crash, TypeOK
<1>16. QED
  BY <1>7, <1>8, <1>9, <1>10, <1>11, <1>12, <1>13, <1>14, <1>15 DEF CommandStep, Step

LEMMA QuickStep ==
  ASSUME LocksInv, FewAndQuick, QuickInv, [Next]_vars
  PROVE  QuickInv'
<1> SUFFICES ASSUME NobodyDied' PROVE (NothingBroken /\ \A d \in Cmds : QuickOf(d))'
  BY DEF QuickInv
<1>0. TypeOK
  BY DEF LocksInv
<1>1. ASSUME NEW c \in Cmds, CommandStep(c)
      PROVE  (NothingBroken /\ \A d \in Cmds : QuickOf(d))'
  <2>1. pc'[c] # "dead"
    BY DEF NobodyDied
  <2>2. NobodyDied
    BY <1>0, <1>1, MovesItself, NotEnded DEF NobodyDied
  <2>3. NothingBroken /\ \A d \in Cmds : QuickOf(d)
    BY <2>2 DEF QuickInv
  <2>4. QuickOf(c)' /\ NothingBroken'
    BY <1>1, <2>1, <2>2, <2>3, OwnQuick
  <2>5. \A d \in Cmds : d # c => QuickOf(d)'
    BY <1>0, <1>1, <2>1, <2>3, OthersQuick DEF FewAndQuick
  <2>6. QED
    BY <2>4, <2>5
<1>2. ASSUME NEW f \in Files, Age(f) PROVE FALSE
  <2>1. pc' = pc /\ lock[f] # NoLock /\ pc[lock[f].by] = "dead"
    BY <1>2 DEF Age, FewAndQuick
  <2>2. lock[f].by \in Cmds
    BY <1>0, <2>1 DEF TypeOK, Lock
  <2>3. QED
    BY <2>1, <2>2 DEF NobodyDied
<1>3. CASE UNCHANGED vars
  <2>1. UNCHANGED <<lock, pc, sec, tries, waitsFor, broken>>
    BY <1>3 DEF vars
  <2>2. \A d \in Cmds : QuickOf(d)' <=> QuickOf(d)
    BY <2>1, SamePlace DEF QuickOf, FoundHolder, Counted, Through
  <2>3. QED
    BY <2>1, <2>2 DEF QuickInv, NobodyDied, NothingBroken
<1>4. QED
  BY <1>1, <1>2, <1>3 DEF Next, CommandStep

(* "Ten tries are enough": with quick holders, no crash and no more        *)
(* commands than tries, no waiter ever removes a lock, because every try   *)
(* that it uses up is another command that went through.                   *)
THEOREM QuickHoldersKeepLocks ==
  ASSUME IsFiniteSet(Cmds) PROVE Spec => []QuickHoldersAreSafe
<1>1. CASE FewAndQuick
  <2>1. LocksInv /\ QuickInv /\ [Next]_vars => (LocksInv /\ QuickInv)'
    BY <1>1, StepInv, QuickStep
  <2>2. Init => LocksInv /\ QuickInv
    BY InitInv, QuickInit
  <2>3. QuickInv => QuickHoldersAreSafe
    BY DEF QuickInv, QuickHoldersAreSafe, NobodyDied, NothingBroken
  <2>4. QED
    BY <2>1, <2>2, <2>3, PTL DEF Spec
<1>2. CASE ~FewAndQuick
  <2>1. QuickHoldersAreSafe
    BY <1>2 DEF QuickHoldersAreSafe, FewAndQuick
  <2>2. QED
    BY <2>1, PTL
<1>3. QED
  BY <1>1, <1>2

(* Both: the lock of a section goes when the section ends, and not before. *)
THEOREM LocksFit == ASSUME IsFiniteSet(Cmds) PROVE Spec => []LocksFitSections
<1>1. Spec => []QuickHoldersAreSafe
  BY QuickHoldersKeepLocks
<1>2. QED
  BY <1>1, LocksAreReleased, PTL DEF LocksFitSections

(* ----------------------- the installer's migrations -------------------- *)

Types == {"record-baseline", "baseline-preserve-user", "prompt-user",
          "remove-managed", "backup-and-remove", "rewrite-json"}

(* Actions of these types take or may take text out of a file.             *)
Changing == Types \ {"record-baseline", "baseline-preserve-user"}

UserText == AllText \ {"gsd"}

MigrationActions ==
    [migration : Migrations, type : Types, path : Paths, value : SUBSET UserText]

(* The migrations that the install state keeps have actions that do what   *)
(* they are for.                                                           *)
Fits(a) ==
    /\ a.migration = "orphans" =>
         a.path = "hook" /\ a.type \in {"remove-managed", "backup-and-remove"}
    /\ a.migration = "codex-hooks" =>
         a.path = "hooks.json" /\ a.type = "rewrite-json"

Clash(a, b) == a.path = b.path /\ a.type \in Changing /\ b.type \in Changing

Apart(s, t) == \A i \in DOMAIN s, j \in DOMAIN t : ~Clash(s[i], t[j])

(* A plan changes no path twice.                                           *)
SoundPlan(s) ==
    /\ s \in Seq(MigrationActions)
    /\ \A i \in DOMAIN s : Fits(s[i])
    /\ \A i, j \in DOMAIN s : i # j => ~Clash(s[i], s[j])

Ids(entries) == {entry[1] : entry \in entries}

Entries == Migrations \X (Runs \cup {"marked"})

InstallTyped ==
    /\ files \in [Paths -> SUBSET AllText]
    /\ managed \subseteq {"hook"}
    /\ lockFile \in Runs \cup {"nobody"}
    /\ applied \in SUBSET Entries
    /\ progress \in [Runs -> Places]
    /\ plan \in [Runs -> Seq(MigrationActions)]
    /\ next \in [Runs -> Nat]
    /\ copies \in [Runs -> [Paths -> SUBSET AllText]]
    /\ backups \in [Runs -> [Paths -> SUBSET AllText]]
    /\ before \in [Runs -> SUBSET Entries]
    /\ typed \subseteq Paths \X AllText

(* Where a run is in its plan.                                             *)
PlansFit ==
    \A r \in Runs :
        /\ SoundPlan(plan[r])
        /\ next[r] \in 1 .. Len(plan[r]) + 1
        /\ progress[r] \in {"idle", "plan", "blocked"} => next[r] = 1
        /\ progress[r] \in {"idle", "plan"} => before[r] = {}
        /\ progress[r] = "copied" => MoreActions(r) /\ Current(r).type \in Changing

(* Run r has come to a change of p, and copied it.                         *)
Reached(r, p) ==
    \E i \in DOMAIN plan[r] :
        /\ i < next[r] \/ (i = next[r] /\ progress[r] = "copied")
        /\ plan[r][i].path = p /\ plan[r][i].type \in Changing

(* Copies are taken once of each path, and between the copy of a path and  *)
(* its change the file stays as it is.                                     *)
CopiesFit ==
    \A r \in Runs :
        /\ progress[r] \in {"idle", "plan", "blocked"} => copies[r] = NoCopies
        /\ \A p \in Paths :
             /\ backups[r][p] \subseteq copies[r][p]
             /\ progress[r] \in {"apply", "copied"} /\ copies[r][p] # Absent
                  => Reached(r, p)
             /\ Between(r, p) => /\ copies[r][p] = files[p]
                                 /\ \A q \in Runs \ {r} : ~Between(q, p)

(* The migrations of these entries are done in a state of the files.       *)
DoneIn(entries, state) ==
    /\ "orphans" \in Ids(entries) /\ "hook" \in managed => "gsd" \notin state["hook"]
    /\ "codex-hooks" \in Ids(entries) => "gsd" \notin state["hooks.json"]

(* While no rollback crossed another run: what is applied is done, also in *)
(* what a run would restore; what a run changed stays so; and only another *)
(* run changes the install state under it.                                 *)
StatesFit ==
    ~crossed =>
        /\ DoneIn(applied, files)
        /\ \A r \in Runs :
             /\ progress[r] \in {"apply", "copied"} =>
                  /\ \A i \in DOMAIN plan[r] :
                       i < next[r] /\ plan[r][i].type \in Changing
                         => "gsd" \notin files[plan[r][i].path]
                  /\ applied = before[r] \/ \E q \in Runs \ {r} : Busy(q)
             /\ progress[r] \in {"apply", "copied", "release", "done"} =>
                  before[r] \subseteq applied /\ DoneIn(before[r], copies[r])

Once(entries) == \A e, f \in entries : e[1] = f[1] => e = f

EntriesOnce == Once(applied) /\ \A r \in Runs : Once(before[r])

MigrationsInv ==
    InstallTyped /\ PlansFit /\ CopiesFit /\ UserTextIsKept /\ StatesFit /\ EntriesOnce

(* ------------------------------ the plans ------------------------------ *)

LEMMA OneAction ==
  \A a \in MigrationActions : Fits(a) =>
    \A found \in BOOLEAN :
      /\ SoundPlan(AtMost(found, a))
      /\ AtMost(found, a) = <<>> => ~found
      /\ \A i \in DOMAIN AtMost(found, a) : AtMost(found, a)[i] = a
<1> SUFFICES ASSUME NEW a \in MigrationActions, Fits(a), NEW found \in BOOLEAN
             PROVE  /\ SoundPlan(AtMost(found, a))
                    /\ AtMost(found, a) = <<>> => ~found
                    /\ \A i \in DOMAIN AtMost(found, a) : AtMost(found, a)[i] = a
  OBVIOUS
<1>1. CASE found
  <2>1. AtMost(found, a) = <<a>>
    BY <1>1 DEF AtMost
  <2> DEFINE s == <<a>>
  <2>2. /\ s \in Seq(MigrationActions) /\ s # <<>>
        /\ DOMAIN s = {1} /\ s[1] = a
    OBVIOUS
  <2> HIDE DEF s
  <2>3. SoundPlan(s)
    BY <2>2 DEF SoundPlan
  <2>4. QED
    BY <1>1, <2>1, <2>2, <2>3 DEF s
<1>2. CASE ~found
  <2>1. AtMost(found, a) = <<>>
    BY <1>2 DEF AtMost
  <2>2. <<>> \in Seq(MigrationActions) /\ DOMAIN <<>> = {}
    OBVIOUS
  <2>3. QED
    BY <1>2, <2>1, <2>2 DEF SoundPlan
<1>3. QED
  BY <1>1, <1>2

(* Two sound plans that do not clash make one.                             *)
LEMMA JoinedPlans ==
  \A s, t :
    SoundPlan(s) /\ SoundPlan(t) /\ Apart(s, t)
    => /\ SoundPlan(s \o t)
       /\ \A k \in DOMAIN (s \o t) :
            \/ \E i \in DOMAIN s : (s \o t)[k] = s[i]
            \/ \E j \in DOMAIN t : (s \o t)[k] = t[j]
<1> SUFFICES ASSUME NEW s, NEW t, SoundPlan(s), SoundPlan(t), Apart(s, t)
             PROVE  /\ SoundPlan(s \o t)
                    /\ \A k \in DOMAIN (s \o t) :
                         \/ \E i \in DOMAIN s : (s \o t)[k] = s[i]
                         \/ \E j \in DOMAIN t : (s \o t)[k] = t[j]
  OBVIOUS
<1> DEFINE u == s \o t
<1>1. s \in Seq(MigrationActions) /\ t \in Seq(MigrationActions)
  BY DEF SoundPlan
<1>2. /\ u \in Seq(MigrationActions) /\ Len(u) = Len(s) + Len(t)
      /\ DOMAIN u = 1 .. Len(u) /\ DOMAIN s = 1 .. Len(s) /\ DOMAIN t = 1 .. Len(t)
      /\ Len(s) \in Nat /\ Len(t) \in Nat
  BY <1>1
<1>3. \A k \in DOMAIN u : \/ k \in DOMAIN s /\ u[k] = s[k]
                          \/ k - Len(s) \in DOMAIN t /\ u[k] = t[k - Len(s)]
  BY <1>1, <1>2
<1> HIDE DEF u
<1>4. \A i \in DOMAIN u : Fits(u[i])
  BY <1>3 DEF SoundPlan
<1>5. ASSUME NEW i \in DOMAIN u, NEW j \in DOMAIN u, i # j
      PROVE  ~Clash(u[i], u[j])
  <2>0. i \in Nat /\ j \in Nat
    BY <1>2
  <2>1. CASE i \in DOMAIN s /\ u[i] = s[i] /\ j \in DOMAIN s /\ u[j] = s[j]
    BY <2>1, <1>5 DEF SoundPlan
  <2>2. CASE /\ i - Len(s) \in DOMAIN t /\ u[i] = t[i - Len(s)]
             /\ j - Len(s) \in DOMAIN t /\ u[j] = t[j - Len(s)]
    <3>1. i - Len(s) # j - Len(s)
      BY <1>5, <2>0, <1>2
    <3>2. QED
      BY <2>2, <3>1 DEF SoundPlan
  <2>3. CASE /\ i \in DOMAIN s /\ u[i] = s[i]
             /\ j - Len(s) \in DOMAIN t /\ u[j] = t[j - Len(s)]
    BY <2>3 DEF Apart
  <2>4. CASE /\ j \in DOMAIN s /\ u[j] = s[j]
             /\ i - Len(s) \in DOMAIN t /\ u[i] = t[i - Len(s)]
    <3>1. ~Clash(u[j], u[i])
      BY <2>4 DEF Apart
    <3>2. QED
      BY <3>1 DEF Clash
  <2>5. QED
    BY <1>3, <2>1, <2>2, <2>3, <2>4
<1>6. SoundPlan(u)
  BY <1>2, <1>4, <1>5 DEF SoundPlan
<1>7. QED
  BY <1>3, <1>6 DEF u

LEMMA ActionsAreTyped ==
  /\ \A t \in Types, p \in Paths :
       /\ Action("baseline", t, p) \in MigrationActions
       /\ Fits(Action("baseline", t, p))
  /\ \A t \in {"remove-managed", "backup-and-remove"} :
       /\ Action("orphans", t, "hook") \in MigrationActions
       /\ Fits(Action("orphans", t, "hook"))
<1>1. Absent \in SUBSET UserText
  BY DEF Absent
<1>2. QED
  BY <1>1 DEF Action, Fits, MigrationActions, Migrations, Types, Paths

(* What planInstallerMigrations makes of the files is a sound plan; a      *)
(* migration that it has nothing to do for is done.                        *)
LEMMA PlansAreSound ==
  ASSUME InstallTyped, NEW scan \in BOOLEAN,
         NEW actions,
         actions = Pending("baseline", scan) \o Pending("orphans", scan)
                     \o Pending("codex-hooks", scan)
  PROVE  /\ SoundPlan(actions)
         /\ actions = <<>> =>
              /\ "orphans" \notin AppliedIds /\ "hook" \in managed
                   => "gsd" \notin files["hook"]
              /\ "codex-hooks" \notin AppliedIds => "gsd" \notin files["hooks.json"]
<1> DEFINE recorded == AtMost(files["hook"] # Absent /\ "hook" \in managed,
                              Action("baseline", "record-baseline", "hook"))
           asked == AtMost(Classified("hook") = "unknown",
                           Action("baseline", "prompt-user", "hook"))
           rewritten == [Action("codex-hooks", "rewrite-json", "hooks.json")
                           EXCEPT !.value = files["hooks.json"] \ {"gsd"}]
           B == Pending("baseline", scan)
           O == Pending("orphans", scan)
           H == Pending("codex-hooks", scan)
           Quiet(s) == \A i \in DOMAIN s : s[i].type \notin Changing
           OnlyHook(s) == \A i \in DOMAIN s : s[i].path = "hook"
<1>0. /\ SoundPlan(<<>>) /\ DOMAIN <<>> = {}
  BY DEF SoundPlan
<1>1. /\ SoundPlan(recorded) /\ Quiet(recorded)
  <2>1. SoundPlan(recorded) /\ \A i \in DOMAIN recorded :
          recorded[i] = Action("baseline", "record-baseline", "hook")
    <3> DEFINE found == files["hook"] # Absent /\ "hook" \in managed
               a == Action("baseline", "record-baseline", "hook")
    <3>1. a \in MigrationActions /\ Fits(a)
      BY ActionsAreTyped DEF Types, Paths
    <3>2. found \in BOOLEAN
      OBVIOUS
    <3> HIDE DEF a, found
    <3>3. /\ SoundPlan(AtMost(found, a))
          /\ \A i \in DOMAIN AtMost(found, a) : AtMost(found, a)[i] = a
      BY <3>1, <3>2, OneAction
    <3>4. QED
      BY <3>3 DEF a, found
  <2>2. QED
    BY <2>1 DEF Action, Changing
<1>2. ASSUME NEW p \in Paths
      PROVE  SoundPlan(Preserved(p)) /\ Quiet(Preserved(p))
  <2> DEFINE a == Action("baseline", "baseline-preserve-user", p)
  <2>1. a \in MigrationActions /\ Fits(a) /\ a.type \notin Changing
    BY ActionsAreTyped DEF Types, Action, Changing
  <2> DEFINE found == files[p] # Absent
  <2>2. Preserved(p) = AtMost(found, a) /\ found \in BOOLEAN
    BY DEF Preserved
  <2> HIDE DEF a, found
  <2>3. /\ SoundPlan(AtMost(found, a))
        /\ \A i \in DOMAIN AtMost(found, a) : AtMost(found, a)[i] = a
    BY <2>1, <2>2, OneAction
  <2>4. QED
    BY <2>1, <2>2, <2>3
<1>3. /\ SoundPlan(asked) /\ OnlyHook(asked)
      /\ Classified("hook") # "unknown" => Quiet(asked)
  <2> DEFINE a == Action("baseline", "prompt-user", "hook")
  <2>1. a \in MigrationActions /\ Fits(a) /\ a.path = "hook"
    BY ActionsAreTyped DEF Types, Paths, Action
  <2> DEFINE found == Classified("hook") = "unknown"
  <2>2. found \in BOOLEAN
    OBVIOUS
  <2> HIDE DEF a, found
  <2>3. /\ SoundPlan(AtMost(found, a))
        /\ \A i \in DOMAIN AtMost(found, a) : AtMost(found, a)[i] = a
    BY <2>1, <2>2, OneAction
  <2>4. ~found => \A i \in DOMAIN AtMost(found, a) : FALSE
    BY DEF AtMost
  <2>5. /\ SoundPlan(AtMost(found, a))
        /\ \A i \in DOMAIN AtMost(found, a) : AtMost(found, a)[i].path = "hook"
        /\ ~found => \A i \in DOMAIN AtMost(found, a) : AtMost(found, a)[i].type \notin Changing
    BY <2>1, <2>3, <2>4
  <2>6. QED
    BY <2>5 DEF a, found
<1> DEFINE B1 == recorded \o Preserved("hooks.json")
           B2 == B1 \o Preserved("own")
           B3 == B2 \o asked
           Tame(s) == /\ SoundPlan(s)
                      /\ \A i \in DOMAIN s : s[i].type \in Changing => s[i].path = "hook"
                      /\ Classified("hook") # "unknown" => Quiet(s)
<1>4. ASSUME NEW s, NEW t, SoundPlan(s), Quiet(s), Tame(t)
      PROVE  Tame(s \o t) /\ (Quiet(t) => Quiet(s \o t))
  <2>1. Apart(s, t)
    BY <1>4 DEF Clash, Apart
  <2>2. /\ SoundPlan(s \o t)
        /\ \A k \in DOMAIN (s \o t) :
             \/ \E i \in DOMAIN s : (s \o t)[k] = s[i]
             \/ \E j \in DOMAIN t : (s \o t)[k] = t[j]
    BY <2>1, <1>4, JoinedPlans
  <2>3. QED
    BY <2>2, <1>4
<1>5. Tame(B3)
  <2>1. "own" \in Paths /\ "hooks.json" \in Paths
    BY DEF Paths
  <2>2. Tame(asked)
    BY <1>3
  <2>3. ASSUME NEW s, NEW t, SoundPlan(s), Quiet(s), SoundPlan(t), Quiet(t)
        PROVE  SoundPlan(s \o t) /\ Quiet(s \o t)
    <3>1. Tame(t)
      BY <2>3
    <3>2. Tame(s \o t) /\ Quiet(s \o t)
      BY <1>4, <2>3, <3>1
    <3>3. QED
      BY <3>2
  <2> HIDE DEF recorded, asked, Quiet, OnlyHook, Tame
  <2>4. SoundPlan(B1) /\ Quiet(B1)
    BY <2>1, <2>3, <1>1, <1>2
  <2> HIDE DEF B1
  <2>5. SoundPlan(B2) /\ Quiet(B2)
    BY <2>1, <2>3, <2>4, <1>2
  <2> HIDE DEF B2
  <2>6. QED
    BY <2>2, <2>5, <1>4
<1>6. Tame(B)
  <2>0. Tame(<<>>)
    BY <1>0
  <2>1. BaselineActions = B3
    BY DEF BaselineActions
  <2> HIDE DEF B3, Tame
  <2>2. B = <<>> \/ B = B3
    BY <2>1 DEF Pending, ActionsOf
  <2>3. QED
    BY <2>0, <2>2, <1>5
<1>7. /\ SoundPlan(O) /\ OnlyHook(O)
      /\ Classified("hook") = "unknown" => O = <<>>
      /\ O = <<>> /\ "orphans" \notin AppliedIds /\ "hook" \in managed
           => "gsd" \notin files["hook"]
  <2>1. O = <<>> \/ ("orphans" \notin AppliedIds /\ O = OrphanActions)
    BY DEF Pending, ActionsOf
  <2>1a. "orphans" \notin AppliedIds => O = OrphanActions
    BY DEF Pending, ActionsOf
  <2>2. CASE Classified("hook") = "managed-pristine"
    <3>1. OrphanActions = <<Action("orphans", "remove-managed", "hook")>>
      BY <2>2 DEF OrphanActions
    <3> DEFINE a == Action("orphans", "remove-managed", "hook")
    <3>2. a \in MigrationActions /\ Fits(a) /\ a.path = "hook"
      BY ActionsAreTyped DEF Action
    <3> HIDE DEF a
    <3>3. AtMost(TRUE, a) = <<a>>
      BY DEF AtMost
    <3>4. SoundPlan(<<a>>) /\ \A i \in DOMAIN <<a>> : <<a>>[i] = a
      BY <3>2, <3>3, OneAction
    <3>5. <<a>> # <<>>
      OBVIOUS
    <3>6. QED
      BY <2>1, <2>1a, <2>2, <3>1, <3>2, <3>4, <3>5, <1>0 DEF a
  <2>3. CASE Classified("hook") = "managed-modified"
    <3>1. OrphanActions = <<Action("orphans", "backup-and-remove", "hook")>>
      BY <2>3 DEF OrphanActions
    <3> DEFINE a == Action("orphans", "backup-and-remove", "hook")
    <3>2. a \in MigrationActions /\ Fits(a) /\ a.path = "hook"
      BY ActionsAreTyped DEF Action
    <3> HIDE DEF a
    <3>3. AtMost(TRUE, a) = <<a>>
      BY DEF AtMost
    <3>4. SoundPlan(<<a>>) /\ \A i \in DOMAIN <<a>> : <<a>>[i] = a
      BY <3>2, <3>3, OneAction
    <3>5. <<a>> # <<>>
      OBVIOUS
    <3>6. QED
      BY <2>1, <2>1a, <2>3, <3>1, <3>2, <3>4, <3>5, <1>0 DEF a
  <2>4. CASE Classified("hook") \notin {"managed-pristine", "managed-modified"}
    <3>1. OrphanActions = <<>>
      BY <2>4 DEF OrphanActions
    <3>2. "hook" \in managed => files["hook"] = Absent
      BY <2>4 DEF Classified
    <3>3. QED
      BY <2>1, <3>1, <3>2, <1>0 DEF Absent
  <2>5. QED
    BY <2>2, <2>3, <2>4
<1>8. /\ SoundPlan(H) /\ \A i \in DOMAIN H : H[i].path = "hooks.json"
      /\ H = <<>> /\ "codex-hooks" \notin AppliedIds => "gsd" \notin files["hooks.json"]
  <2>1. rewritten \in MigrationActions /\ Fits(rewritten) /\ rewritten.path = "hooks.json"
    <3>1. files["hooks.json"] \ {"gsd"} \in SUBSET UserText
      BY DEF InstallTyped, Paths, UserText
    <3>2. QED
      BY <3>1 DEF Action, Fits, MigrationActions, Migrations, Types, Paths
  <2> DEFINE found == "gsd" \in files["hooks.json"]
  <2>2. HooksActions = AtMost(found, rewritten) /\ found \in BOOLEAN
    BY DEF HooksActions
  <2> HIDE DEF rewritten, found
  <2>3. /\ SoundPlan(HooksActions)
        /\ HooksActions = <<>> => ~found
        /\ \A i \in DOMAIN HooksActions : HooksActions[i] = rewritten
    BY <2>1, <2>2, OneAction
  <2>4. /\ H = <<>> \/ H = HooksActions
        /\ "codex-hooks" \notin AppliedIds => H = HooksActions
    BY DEF Pending, ActionsOf
  <2>5. QED
    BY <2>1, <2>3, <2>4, <1>0 DEF found
<1>9. /\ SoundPlan(O \o H)
      /\ \A k \in DOMAIN (O \o H) : \/ (O \o H)[k].path = "hooks.json"
                                    \/ \E i \in DOMAIN O : (O \o H)[k] = O[i]
  <2> HIDE DEF O, H
  <2>1. Apart(O, H)
    BY <1>7, <1>8 DEF Clash, Apart
  <2>2. /\ SoundPlan(O \o H)
        /\ \A k \in DOMAIN (O \o H) :
             \/ \E i \in DOMAIN O : (O \o H)[k] = O[i]
             \/ \E j \in DOMAIN H : (O \o H)[k] = H[j]
    BY <2>1, <1>7, <1>8, JoinedPlans
  <2>3. QED
    BY <2>2, <1>8
<1> DEFINE OH == O \o H
<1>10. SoundPlan(B \o OH)
  <2> HIDE DEF O, H, B
  <2>1. CASE Classified("hook") = "unknown"
    <3>1. \A k \in DOMAIN OH : OH[k].path = "hooks.json"
      BY <2>1, <1>7, <1>9
    <3> HIDE DEF OH
    <3>2. Apart(B, OH)
      BY <3>1, <1>6 DEF Clash, Apart
    <3>3. QED
      BY <3>2, <1>6, <1>9, JoinedPlans DEF OH
  <2>2. CASE Classified("hook") # "unknown"
    <3> HIDE DEF OH
    <3>1. Apart(B, OH)
      BY <2>2, <1>6 DEF Clash, Apart
    <3>2. QED
      BY <3>1, <1>6, <1>9, JoinedPlans DEF OH
  <2>3. QED
    BY <2>1, <2>2
<1>11. actions = <<>> => O = <<>> /\ H = <<>>
  <2>1. /\ B \in Seq(MigrationActions) /\ O \in Seq(MigrationActions)
        /\ H \in Seq(MigrationActions)
    BY <1>6, <1>7, <1>8 DEF SoundPlan
  <2>2. actions = (B \o O) \o H
    OBVIOUS
  <2>3. \A s, t \in Seq(MigrationActions) : s \o t = <<>> => s = <<>> /\ t = <<>>
    BY ConcatProperties, EmptySeq
  <2>4. B \o O \in Seq(MigrationActions)
    BY <2>1, ConcatProperties
  <2> HIDE DEF B, O, H
  <2>5. QED
    BY <2>1, <2>2, <2>3, <2>4
<1>12. actions = B \o OH
  <2>1. /\ B \in Seq(MigrationActions) /\ O \in Seq(MigrationActions)
        /\ H \in Seq(MigrationActions)
    BY <1>6, <1>7, <1>8 DEF SoundPlan
  <2>2. actions = (B \o O) \o H
    OBVIOUS
  <2> HIDE DEF B, O, H
  <2>3. (B \o O) \o H = B \o (O \o H)
    BY <2>1
  <2>4. QED
    BY <2>2, <2>3
<1>13. QED
  BY <1>7, <1>8, <1>10, <1>11, <1>12

(* The answers to the prompts leave a plan sound.                          *)
LEMMA ResolvedPlan ==
  ASSUME NEW s, SoundPlan(s), NEW choice \in {"baseline-preserve-user", "backup-and-remove"},
         NEW t, t = [i \in DOMAIN s |-> IF s[i].type = "prompt-user"
                                          THEN [s[i] EXCEPT !.type = choice] ELSE s[i]]
  PROVE  SoundPlan(t) /\ Len(t) = Len(s)
<1>1. /\ s \in Seq(MigrationActions) /\ DOMAIN s = 1 .. Len(s) /\ Len(s) \in Nat
      /\ \A i \in DOMAIN s : s[i] \in MigrationActions
  BY DEF SoundPlan
<1>2. ASSUME NEW i \in DOMAIN s
      PROVE  /\ t[i] \in MigrationActions /\ t[i].path = s[i].path
             /\ t[i].type \in Changing => s[i].type \in Changing
             /\ Fits(t[i])
  <2>1. s[i] \in MigrationActions /\ Fits(s[i])
    BY <1>1 DEF SoundPlan
  <2>2. CASE s[i].type = "prompt-user"
    <3>1. t[i] = [s[i] EXCEPT !.type = choice]
      BY <2>2
    <3>2. /\ t[i].path = s[i].path /\ t[i].migration = s[i].migration /\ t[i].type = choice
          /\ t[i] \in MigrationActions
      BY <2>1, <3>1 DEF MigrationActions, Types
    <3>3. s[i].type \in Changing /\ s[i].migration \notin {"orphans", "codex-hooks"}
      BY <2>1, <2>2 DEF Changing, Types, Fits
    <3>4. QED
      BY <3>2, <3>3 DEF Fits
  <2>3. CASE s[i].type # "prompt-user"
    BY <2>1, <2>3
  <2>4. QED
    BY <2>2, <2>3
<1>3. DOMAIN t = 1 .. Len(s)
  BY <1>1
<1>4. t \in [1 .. Len(s) -> MigrationActions]
  <2>1. t = [i \in 1 .. Len(s) |-> t[i]]
    BY <1>1
  <2>2. \A i \in 1 .. Len(s) : t[i] \in MigrationActions
    BY <1>1, <1>2
  <2>3. QED
    BY <2>1, <2>2
<1>5. t \in Seq(MigrationActions) /\ Len(t) = Len(s)
  BY <1>1, <1>3, <1>4
<1>6. \A i, j \in DOMAIN t : i # j => ~Clash(t[i], t[j])
  BY <1>1, <1>2, <1>3 DEF SoundPlan, Clash
<1>7. \A i \in DOMAIN t : Fits(t[i])
  BY <1>1, <1>2, <1>3
<1>8. QED
  BY <1>5, <1>6, <1>7 DEF SoundPlan

(* ------------------------------ the types ------------------------------ *)

LEMMA InstallTypedInit ==
  ASSUME InstallInit
  PROVE  InstallTyped
<1>1. files \in [Paths -> SUBSET AllText]
  BY DEF InstallInit, Paths, AllText
<1>2. typed \subseteq Paths \X AllText
  BY DEF InstallInit, AllText
<1>3. NoCopies \in [Paths -> SUBSET AllText]
  BY DEF NoCopies, Absent
<1>4. /\ progress \in [Runs -> Places] /\ next \in [Runs -> Nat]
      /\ before \in [Runs -> SUBSET Entries] /\ applied \in SUBSET Entries
  BY DEF InstallInit, Places
<1>5. plan \in [Runs -> Seq(MigrationActions)]
  <2>1. <<>> \in Seq(MigrationActions)
    OBVIOUS
  <2>2. QED
    BY <2>1 DEF InstallInit
<1>6. QED
  BY <1>1, <1>2, <1>3, <1>4, <1>5 DEF InstallInit, InstallTyped

LEMMA ActionsOfPlans ==
  ASSUME InstallTyped, PlansFit, NEW r \in Runs
  PROVE  /\ DOMAIN plan[r] = 1 .. Len(plan[r]) /\ Len(plan[r]) \in Nat
         /\ \A i \in DOMAIN plan[r] :
              plan[r][i] \in MigrationActions /\ plan[r][i].path \in Paths
         /\ next[r] \in Nat \ {0}
         /\ MoreActions(r) => /\ next[r] \in DOMAIN plan[r]
                             /\ Current(r) \in MigrationActions
                             /\ Current(r).path \in Paths
<1>1. plan[r] \in Seq(MigrationActions) /\ next[r] \in 1 .. Len(plan[r]) + 1
  BY DEF InstallTyped, PlansFit
<1>2. /\ DOMAIN plan[r] = 1 .. Len(plan[r]) /\ Len(plan[r]) \in Nat
      /\ \A i \in DOMAIN plan[r] : plan[r][i] \in MigrationActions
  BY <1>1
<1>3. \A a \in MigrationActions : a.path \in Paths
  BY DEF MigrationActions
<1>4. MoreActions(r) => next[r] \in DOMAIN plan[r]
  BY <1>1, <1>2 DEF MoreActions
<1>5. QED
  BY <1>1, <1>2, <1>3, <1>4 DEF Current

(* What a step of the plans and of the applying writes has its type.       *)
LEMMA InstallTypedStep ==
  ASSUME InstallTyped, PlansFit, [InstallNext]_installVars
  PROVE  InstallTyped'
<1> USE DEF InstallTyped, fileVars, runVars, Move
<1>1. ASSUME NEW r \in Runs, Acquire(r) \/ LockTimeout(r) \/ ReleaseRunLock(r) \/ CrashRun(r)
      PROVE  InstallTyped'
  BY <1>1 DEF Acquire, LockTimeout, ReleaseRunLock, CrashRun, Unlocked, Places
<1>2. ASSUME NEW r \in Runs, Plan(r)
      PROVE  InstallTyped'
  <2>1. PICK scan \in BOOLEAN :
          LET actions == Pending("baseline", scan) \o Pending("orphans", scan)
                           \o Pending("codex-hooks", scan)
          IN /\ plan' = [plan EXCEPT ![r] = actions]
             /\ IF actions = <<>>
                  THEN /\ applied' = applied \cup
                              {<<m, "marked">> : m \in Migrations \ AppliedIds}
                       /\ Move(r, "release")
                       /\ UNCHANGED before
                  ELSE /\ before' = [before EXCEPT ![r] = applied]
                       /\ Move(r, IF BlockedActions(actions) # {} THEN "blocked" ELSE "apply")
                       /\ UNCHANGED applied
    BY <1>2 DEF Plan
  <2> DEFINE actions == Pending("baseline", scan) \o Pending("orphans", scan)
                          \o Pending("codex-hooks", scan)
  <2>2. actions \in Seq(MigrationActions)
    BY PlansAreSound DEF SoundPlan
  <2>3. plan' \in [Runs -> Seq(MigrationActions)]
    BY <2>1, <2>2
  <2>4. applied' \in SUBSET Entries /\ before' \in [Runs -> SUBSET Entries]
    <3> HIDE DEF actions
    <3>1. \/ /\ applied' = applied \cup {<<m, "marked">> : m \in Migrations \ AppliedIds}
             /\ before' = before
          \/ applied' = applied /\ before' = [before EXCEPT ![r] = applied]
      BY <2>1 DEF actions
    <3>2. {<<m, "marked">> : m \in Migrations \ AppliedIds} \in SUBSET Entries
      BY DEF Entries
    <3>3. applied \cup {<<m, "marked">> : m \in Migrations \ AppliedIds} \in SUBSET Entries
      BY <3>2
    <3>4. [before EXCEPT ![r] = applied] \in [Runs -> SUBSET Entries]
      OBVIOUS
    <3>5. QED
      BY <3>1, <3>3, <3>4
  <2>5. progress' \in [Runs -> Places]
    BY <2>1 DEF Places
  <2>6. UNCHANGED <<fileVars, lockFile, next, copies, backups>>
    BY <1>2 DEF Plan
  <2>7. QED
    BY <2>3, <2>4, <2>5, <2>6
<1>3. ASSUME NEW r \in Runs, Resolve(r)
      PROVE  InstallTyped'
  <2>1. PICK choice \in {"baseline-preserve-user", "backup-and-remove"} :
          plan' = [plan EXCEPT ![r] =
                     [i \in DOMAIN plan[r] |->
                        IF plan[r][i].type = "prompt-user"
                          THEN [plan[r][i] EXCEPT !.type = choice] ELSE plan[r][i]]]
    BY <1>3 DEF Resolve
  <2> DEFINE resolved == [i \in DOMAIN plan[r] |->
                            IF plan[r][i].type = "prompt-user"
                              THEN [plan[r][i] EXCEPT !.type = choice] ELSE plan[r][i]]
  <2>2. resolved \in Seq(MigrationActions)
    <3>1. SoundPlan(plan[r])
      BY DEF PlansFit
    <3>2. SoundPlan(resolved)
      BY <3>1, ResolvedPlan
    <3>3. QED
      BY <3>2 DEF SoundPlan
  <2>3. plan' \in [Runs -> Seq(MigrationActions)]
    BY <2>1, <2>2
  <2>4. /\ before' \in [Runs -> SUBSET Entries] /\ progress' \in [Runs -> Places]
        /\ lockFile' \in Runs \cup {"nobody"}
        /\ UNCHANGED <<fileVars, applied, next, copies, backups>>
    BY <1>3 DEF Resolve, Places
  <2>5. QED
    BY <2>3, <2>4
<1>4. ASSUME NEW r \in Runs, Skip(r)
      PROVE  InstallTyped'
  BY <1>4 DEF Skip
<1>5. ASSUME NEW r \in Runs, Copy(r)
      PROVE  InstallTyped'
  <2>1. Current(r).path \in Paths
    BY <1>5, ActionsOfPlans DEF Copy
  <2>2. copies' \in [Runs -> [Paths -> SUBSET AllText]]
    BY <1>5, <2>1 DEF Copy
  <2>3. backups' \in [Runs -> [Paths -> SUBSET AllText]]
    BY <1>5, <2>1 DEF Copy
  <2>4. progress' \in [Runs -> Places]
    BY <1>5 DEF Copy, Places
  <2>5. QED
    BY <1>5, <2>2, <2>3, <2>4 DEF Copy
<1>6. ASSUME NEW r \in Runs, Change(r)
      PROVE  InstallTyped'
  <2>1. Current(r) \in MigrationActions
    BY <1>6, ActionsOfPlans DEF Change, PlansFit
  <2>2. Current(r).value \in SUBSET AllText /\ Current(r).path \in Paths
    BY <2>1 DEF MigrationActions, UserText
  <2>3. QED
    BY <1>6, <2>2 DEF Change, Places
<1>7. ASSUME NEW r \in Runs, Commit(r)
      PROVE  InstallTyped'
  <2>1. \A a \in Range(plan[r]) : a.migration \in Migrations
    BY ActionsOfPlans DEF Range, MigrationActions
  <2>2. applied' \in SUBSET Entries
    BY <1>7, <2>1 DEF Commit, Entries
  <2>3. progress' \in [Runs -> Places]
    BY <1>7 DEF Commit, Places
  <2>4. QED
    BY <1>7, <2>2, <2>3 DEF Commit
<1>8. ASSUME NEW r \in Runs, NEW S \in SUBSET Copied(r), WriteBack(r, S)
      PROVE  files' \in [Paths -> SUBSET AllText]
  BY <1>8 DEF WriteBack
<1>9. NoCopies \in [Paths -> SUBSET AllText]
  BY DEF NoCopies, Absent
<1>10. ASSUME NEW r \in Runs, ActionThrows(r)
       PROVE  InstallTyped'
  <2>1. files' \in [Paths -> SUBSET AllText]
    BY <1>10, <1>8 DEF ActionThrows
  <2>2. copies' \in [Runs -> [Paths -> SUBSET AllText]]
    BY <1>10, <1>9 DEF ActionThrows, DropCopies
  <2>3. backups' \in [Runs -> [Paths -> SUBSET AllText]]
    BY <1>10, <1>9 DEF ActionThrows, DropCopies
  <2>4. progress' \in [Runs -> Places] /\ lockFile' \in Runs \cup {"nobody"}
    BY <1>10 DEF ActionThrows, Places, Unlocked
  <2>5. UNCHANGED <<managed, typed, applied, plan, next, before>>
    BY <1>10 DEF ActionThrows
  <2>6. QED
    BY <2>1, <2>2, <2>3, <2>4, <2>5
<1>11. ASSUME NEW r \in Runs, RollBack(r)
       PROVE  InstallTyped'
  <2>1. files' \in [Paths -> SUBSET AllText]
    BY <1>11, <1>8 DEF RollBack
  <2>2. copies' \in [Runs -> [Paths -> SUBSET AllText]]
    BY <1>11, <1>9 DEF RollBack, DropCopies
  <2>3. backups' \in [Runs -> [Paths -> SUBSET AllText]]
    BY <1>11, <1>9 DEF RollBack, DropCopies
  <2>4. progress' \in [Runs -> Places] /\ applied' \in SUBSET Entries
    BY <1>11 DEF RollBack, Places
  <2>5. UNCHANGED <<managed, typed, lockFile, plan, next, before>>
    BY <1>11 DEF RollBack
  <2>6. QED
    BY <2>1, <2>2, <2>3, <2>4, <2>5
<1>12. ASSUME NEW p \in Paths, NEW t \in Typed, Type(p, t)
       PROVE  InstallTyped'
  <2>1. t \in AllText
    BY DEF AllText
  <2>2. QED
    BY <1>12, <2>1 DEF Type
<1>13. CASE UNCHANGED installVars
  BY <1>13 DEF installVars
<1>14. QED
  BY <1>1, <1>2, <1>3, <1>4, <1>5, <1>6, <1>7, <1>10, <1>11, <1>12, <1>13
     DEF InstallNext, RunStep

(* A step of a run leaves alone what the other runs keep for themselves.   *)
LEMMA OthersStay ==
  ASSUME InstallTyped, NEW r \in Runs,
         RunStep(r) \/ ActionThrows(r) \/ RollBack(r) \/ CrashRun(r),
         NEW q \in Runs, q # r
  PROVE  /\ progress'[q] = progress[q] /\ plan'[q] = plan[q] /\ next'[q] = next[q]
         /\ copies'[q] = copies[q] /\ backups'[q] = backups[q] /\ before'[q] = before[q]
<1> USE DEF InstallTyped, Move, fileVars, runVars
<1>1. CASE Acquire(r) \/ LockTimeout(r) \/ ReleaseRunLock(r) \/ CrashRun(r)
  BY <1>1 DEF Acquire, LockTimeout, ReleaseRunLock, CrashRun
<1>2. CASE Plan(r)
  <2>1. progress'[q] = progress[q] /\ plan'[q] = plan[q] /\ before'[q] = before[q]
    BY <1>2 DEF Plan
  <2>2. QED
    BY <1>2, <2>1 DEF Plan
<1>3. CASE Resolve(r)
  BY <1>3 DEF Resolve
<1>4. CASE Skip(r) \/ Change(r) \/ Commit(r)
  BY <1>4 DEF Skip, Change, Commit
<1>5. CASE Copy(r)
  <2>1. copies'[q] = copies[q] /\ backups'[q] = backups[q]
    BY <1>5 DEF Copy
  <2>2. QED
    BY <1>5, <2>1 DEF Copy
<1>6. CASE ActionThrows(r)
  <2>1. copies'[q] = copies[q] /\ backups'[q] = backups[q]
    BY <1>6 DEF ActionThrows, DropCopies
  <2>2. QED
    BY <1>6, <2>1 DEF ActionThrows
<1>7. CASE RollBack(r)
  <2>1. copies'[q] = copies[q] /\ backups'[q] = backups[q]
    BY <1>7 DEF RollBack, DropCopies
  <2>2. QED
    BY <1>7, <2>1 DEF RollBack
<1>8. QED
  BY <1>1, <1>2, <1>3, <1>4, <1>5, <1>6, <1>7 DEF RunStep

(* -------------------------- where the runs are ------------------------- *)

PlanFits(r) ==
    /\ SoundPlan(plan[r])
    /\ next[r] \in 1 .. Len(plan[r]) + 1
    /\ progress[r] \in {"idle", "plan", "blocked"} => next[r] = 1
    /\ progress[r] \in {"idle", "plan"} => before[r] = {}
    /\ progress[r] = "copied" => MoreActions(r) /\ Current(r).type \in Changing

LEMMA PlansFitInit ==
  ASSUME InstallInit
  PROVE  PlansFit
<1>1. SoundPlan(<<>>) /\ Len(<<>>) = 0
  <2>1. <<>> \in Seq(MigrationActions) /\ DOMAIN <<>> = {} /\ Len(<<>>) = 0
    OBVIOUS
  <2>2. QED
    BY <2>1 DEF SoundPlan
<1>2. QED
  BY <1>1 DEF InstallInit, PlansFit

LEMMA PlansFitStep ==
  ASSUME InstallTyped, PlansFit, [InstallNext]_installVars
  PROVE  PlansFit'
<1> SUFFICES ASSUME NEW q \in Runs
             PROVE  PlanFits(q)'
  BY DEF PlansFit, PlanFits
<1>1. PlanFits(q)
  BY DEF PlansFit, PlanFits
<1> DEFINE Same == /\ plan'[q] = plan[q] /\ next'[q] = next[q]
                   /\ before'[q] = before[q]
<1>2. ASSUME Same, progress'[q] = progress[q]
      PROVE  PlanFits(q)'
  BY <1>1, <1>2 DEF PlanFits, MoreActions, Current
<1>3. ASSUME NEW r \in Runs, r # q,
             RunStep(r) \/ ActionThrows(r) \/ RollBack(r) \/ CrashRun(r)
      PROVE  PlanFits(q)'
  BY <1>2, <1>3, OthersStay
<1>4. ASSUME Same, progress'[q] \notin {"idle", "plan", "blocked", "copied"}
      PROVE  PlanFits(q)'
  BY <1>1, <1>4 DEF PlanFits
<1>5. CASE Acquire(q)
  <2>1. progress[q] = "idle" /\ progress'[q] = "plan" /\ Same
    BY <1>5 DEF Acquire, Move, InstallTyped
  <2>2. QED
    BY <1>1, <2>1 DEF PlanFits
<1>6. CASE LockTimeout(q) \/ Commit(q) \/ ReleaseRunLock(q) \/ ActionThrows(q)
             \/ RollBack(q) \/ CrashRun(q)
  <2>1. Same /\ progress'[q] \notin {"idle", "plan", "blocked", "copied"}
    BY <1>6 DEF LockTimeout, Commit, ReleaseRunLock, ActionThrows, RollBack, CrashRun,
                Move, InstallTyped
  <2>2. QED
    BY <2>1, <1>4
<1>7. CASE Plan(q)
  <2>1. PICK scan \in BOOLEAN :
          plan'[q] = Pending("baseline", scan) \o Pending("orphans", scan)
                       \o Pending("codex-hooks", scan)
    BY <1>7 DEF Plan, InstallTyped
  <2>2. SoundPlan(plan'[q])
    BY <2>1, PlansAreSound
  <2>3. next'[q] = 1
    BY <1>1, <1>7 DEF Plan, PlanFits
  <2>4. Len(plan'[q]) \in Nat
    BY <2>2 DEF SoundPlan
  <2>5. progress'[q] \in {"release", "blocked", "apply"}
    BY <1>7 DEF Plan, Move, InstallTyped
  <2>6. QED
    BY <2>2, <2>3, <2>4, <2>5 DEF PlanFits
<1>8. CASE Resolve(q)
  <2>1. PICK choice \in {"baseline-preserve-user", "backup-and-remove"} :
          plan'[q] = [i \in DOMAIN plan[q] |->
                        IF plan[q][i].type = "prompt-user"
                          THEN [plan[q][i] EXCEPT !.type = choice] ELSE plan[q][i]]
    BY <1>8 DEF Resolve, InstallTyped
  <2>2. SoundPlan(plan'[q]) /\ Len(plan'[q]) = Len(plan[q])
    BY <1>1, <2>1, ResolvedPlan DEF PlanFits
  <2>3. next'[q] = next[q] /\ progress'[q] = "apply"
    BY <1>8 DEF Resolve, Move, InstallTyped
  <2>4. QED
    BY <1>1, <2>2, <2>3 DEF PlanFits
<1>9. CASE Skip(q) \/ Change(q)
  <2>1. /\ plan'[q] = plan[q] /\ next'[q] = next[q] + 1
        /\ progress'[q] = "apply" /\ MoreActions(q)
    BY <1>1, <1>9 DEF Skip, Change, Move, InstallTyped, PlanFits
  <2>2. next[q] \in Nat /\ Len(plan[q]) \in Nat
    BY ActionsOfPlans
  <2>3. next'[q] \in 1 .. Len(plan'[q]) + 1
    BY <1>1, <2>1, <2>2 DEF MoreActions, PlanFits
  <2>4. QED
    BY <1>1, <2>1, <2>3 DEF PlanFits
<1>10. CASE Copy(q)
  <2>1. Same /\ progress'[q] = "copied" /\ MoreActions(q) /\ ~Harmless(q)
    BY <1>10 DEF Copy, Move, InstallTyped
  <2>2. Current(q).type \in Changing
    BY <2>1, ActionsOfPlans DEF Harmless, Changing, MigrationActions
  <2>3. QED
    BY <1>1, <2>1, <2>2 DEF PlanFits, MoreActions, Current
<1>11. CASE \E p \in Paths, t \in Typed : Type(p, t)
  BY <1>11, <1>2 DEF Type, runVars
<1>12. CASE UNCHANGED installVars
  BY <1>12, <1>2 DEF installVars, runVars
<1>13. QED
  BY <1>3, <1>5, <1>6, <1>7, <1>8, <1>9, <1>10, <1>11, <1>12 DEF InstallNext, RunStep

(* ------------------------ the install state, once ---------------------- *)

LEMMA EntriesOnceInit ==
  ASSUME InstallInit
  PROVE  EntriesOnce
BY DEF InstallInit, EntriesOnce, Once

(* An entry is only made of a migration that has none.                     *)
LEMMA EntriesOnceStep ==
  ASSUME InstallTyped, EntriesOnce, [InstallNext]_installVars
  PROVE  EntriesOnce'
<1>1. ASSUME NEW S, S \cap AppliedIds = {}, NEW x
      PROVE  Once(applied \cup {<<m, x>> : m \in S})
  <2>1. \A e \in applied : e[1] \in AppliedIds
    BY DEF AppliedIds
  <2>2. QED
    BY <1>1, <2>1 DEF EntriesOnce, Once
<1>2. ASSUME NEW r \in Runs, Plan(r)
      PROVE  EntriesOnce'
  <2> DEFINE S == Migrations \ AppliedIds
  <2>0. S \cap AppliedIds = {}
    OBVIOUS
  <2>1. \/ applied' = applied /\ before' = [before EXCEPT ![r] = applied]
        \/ /\ applied' = applied \cup {<<m, "marked">> : m \in S}
           /\ before' = before
    BY <1>2 DEF Plan
  <2> HIDE DEF S
  <2>2. Once(applied')
    <3>1. CASE applied' = applied
      BY <3>1 DEF EntriesOnce
    <3>2. CASE applied' = applied \cup {<<m, "marked">> : m \in S}
      <4>1. Once(applied \cup {<<m, "marked">> : m \in S})
        BY <2>0, <1>1
      <4>2. QED
        BY <3>2, <4>1
    <3>3. QED
      BY <2>1, <3>1, <3>2
  <2>3. \A q \in Runs : before'[q] \in {before[q], applied}
    BY <2>1 DEF InstallTyped
  <2>4. QED
    BY <2>2, <2>3 DEF EntriesOnce, Once
<1>3. ASSUME NEW r \in Runs, Resolve(r)
      PROVE  EntriesOnce'
  <2>1. applied' = applied /\ \A q \in Runs : before'[q] \in {before[q], applied}
    BY <1>3 DEF Resolve, InstallTyped
  <2>2. QED
    BY <2>1 DEF EntriesOnce, Once
<1>4. ASSUME NEW r \in Runs, Commit(r)
      PROVE  EntriesOnce'
  <2> DEFINE S == {a.migration : a \in Range(plan[r])} \ AppliedIds
  <2>1. applied' = applied \cup {<<m, r>> : m \in S} /\ before' = before
    BY <1>4 DEF Commit
  <2>2. S \cap AppliedIds = {}
    OBVIOUS
  <2> HIDE DEF S
  <2>3. Once(applied')
    BY <2>1, <2>2, <1>1
  <2>4. QED
    BY <2>1, <2>3 DEF EntriesOnce, Once
<1>5. ASSUME NEW r \in Runs, RollBack(r)
      PROVE  EntriesOnce'
  <2>1. applied' = before[r] /\ before' = before
    BY <1>5 DEF RollBack
  <2>2. QED
    BY <2>1 DEF EntriesOnce, Once
<1>6. ASSUME UNCHANGED <<applied, before>>
      PROVE  EntriesOnce'
  BY <1>6 DEF EntriesOnce, Once
<1>7. ASSUME NEW r \in Runs,
             \/ Acquire(r) \/ LockTimeout(r) \/ Skip(r) \/ Copy(r) \/ Change(r)
             \/ ReleaseRunLock(r) \/ ActionThrows(r) \/ CrashRun(r)
      PROVE  EntriesOnce'
  BY <1>6, <1>7 DEF Acquire, LockTimeout, Skip, Copy, Change, ReleaseRunLock,
                    ActionThrows, CrashRun
<1>8. CASE \E p \in Paths, t \in Typed : Type(p, t)
  BY <1>6, <1>8 DEF Type, runVars
<1>9. CASE UNCHANGED installVars
  BY <1>6, <1>9 DEF installVars, runVars
<1>10. QED
  BY <1>2, <1>3, <1>4, <1>5, <1>7, <1>8, <1>9 DEF InstallNext, RunStep

(* ------------------------------ the copies ----------------------------- *)

CopyFits(r) ==
    /\ progress[r] \in {"idle", "plan", "blocked"} => copies[r] = NoCopies
    /\ \A p \in Paths :
         /\ backups[r][p] \subseteq copies[r][p]
         /\ progress[r] \in {"apply", "copied"} /\ copies[r][p] # Absent => Reached(r, p)
         /\ Between(r, p) => /\ copies[r][p] = files[p]
                             /\ \A q \in Runs \ {r} : ~Between(q, p)

LEMMA CopiesFitInit ==
  ASSUME InstallInit
  PROVE  CopiesFit
<1> SUFFICES ASSUME NEW r \in Runs
             PROVE  CopyFits(r)
  BY DEF CopiesFit, CopyFits
<1>1. progress[r] = "idle" /\ copies[r] = NoCopies /\ backups[r] = NoCopies
  BY DEF InstallInit
<1>2. QED
  BY <1>1 DEF CopyFits, Between, NoCopies

(* What a run has not come to yet, it has no copy of.                      *)
LEMMA CopiedOnce ==
  ASSUME InstallTyped, PlansFit, CopiesFit, NEW r \in Runs,
         progress[r] = "apply", MoreActions(r), Current(r).type \in Changing
  PROVE  /\ copies[r][Current(r).path] = Absent
         /\ backups[r][Current(r).path] = Absent
<1> DEFINE p == Current(r).path
<1>1. p \in Paths /\ next[r] \in DOMAIN plan[r] /\ next[r] \in Nat /\ DOMAIN plan[r] \subseteq Nat
  BY ActionsOfPlans
<1>2. ~Reached(r, p)
  <2>1. ASSUME NEW i \in DOMAIN plan[r], i < next[r],
               plan[r][i].path = p, plan[r][i].type \in Changing
        PROVE  FALSE
    <3>1. i # next[r]
      BY <1>1, <2>1
    <3>2. Clash(plan[r][i], plan[r][next[r]])
      BY <2>1 DEF Clash, Current
    <3>3. QED
      BY <1>1, <3>1, <3>2 DEF PlansFit, SoundPlan
  <2>2. QED
    BY <2>1 DEF Reached
<1>3. copies[r][p] = Absent /\ backups[r][p] \subseteq copies[r][p]
  BY <1>1, <1>2 DEF CopiesFit
<1>4. QED
  BY <1>3 DEF Absent

(* The files that a step of run r leaves as they are: those which another  *)
(* run has copied and is about to change.                                  *)
LEMMA WindowsAreKept ==
  ASSUME InstallTyped, PlansFit, CopiesFit, NEW r \in Runs,
         RunStep(r) \/ ActionThrows(r) \/ RollBack(r) \/ CrashRun(r),
         NEW q \in Runs, q # r, NEW p \in Paths, Between(q, p)
  PROVE  files'[p] = files[p] /\ ~Between(r, p)'
<1> USE DEF fileVars, runVars, Move
<1>1. ~Between(r, p)
  BY DEF CopiesFit
<1>2. ASSUME NEW S, WriteBack(r, S)
      PROVE  files'[p] = files[p]
  BY <1>2 DEF WriteBack
<1>3. CASE \/ Acquire(r) \/ LockTimeout(r) \/ Skip(r) \/ Commit(r) \/ ReleaseRunLock(r)
           \/ CrashRun(r)
  <2>1. files' = files /\ progress'[r] # "copied"
    BY <1>3 DEF Acquire, LockTimeout, Skip, Commit, ReleaseRunLock, CrashRun, InstallTyped
  <2>2. QED
    BY <2>1 DEF Between
<1>4. CASE Plan(r) \/ Resolve(r)
  <2>1. files' = files /\ progress'[r] # "copied"
    BY <1>4 DEF Plan, Resolve, InstallTyped
  <2>2. QED
    BY <2>1 DEF Between
<1>5. CASE Copy(r)
  <2>1. files' = files /\ plan' = plan /\ next' = next
    BY <1>5 DEF Copy
  <2>2. Current(r).path # p
    BY <1>5 DEF Copy
  <2>3. QED
    BY <2>1, <2>2 DEF Between, Current
<1>6. CASE Change(r)
  <2>1. Current(r).path # p
    BY <1>1, <1>6 DEF Change, Between
  <2>2. files'[p] = files[p] /\ progress'[r] # "copied"
    BY <1>6, <2>1 DEF Change, InstallTyped
  <2>3. QED
    BY <2>2 DEF Between
<1>7. CASE ActionThrows(r)
  <2>1. progress'[r] # "copied"
    BY <1>7 DEF ActionThrows, InstallTyped
  <2>2. QED
    BY <1>2, <1>7, <2>1 DEF ActionThrows, Between
<1>8. CASE RollBack(r)
  <2>1. progress'[r] # "copied"
    BY <1>8 DEF RollBack, InstallTyped
  <2>2. QED
    BY <1>2, <1>8, <2>1 DEF RollBack, Between
<1>9. QED
  BY <1>3, <1>4, <1>5, <1>6, <1>7, <1>8 DEF RunStep

LEMMA CopiesFitStep ==
  ASSUME InstallTyped, PlansFit, CopiesFit, [InstallNext]_installVars
  PROVE  CopiesFit'
<1> SUFFICES ASSUME NEW q \in Runs
             PROVE  CopyFits(q)'
  BY DEF CopiesFit, CopyFits
<1>0. CopyFits(q)
  BY DEF CopiesFit, CopyFits
<1> DEFINE Same == copies'[q] = copies[q] /\ backups'[q] = backups[q]
<1>1. ASSUME NEW r \in Runs, r # q,
             RunStep(r) \/ ActionThrows(r) \/ RollBack(r) \/ CrashRun(r)
      PROVE  CopyFits(q)'
  <2>1. /\ progress'[q] = progress[q] /\ plan'[q] = plan[q] /\ next'[q] = next[q]
        /\ Same
    BY <1>1, OthersStay
  <2>2. \A p \in Paths : (Reached(q, p)' <=> Reached(q, p)) /\ (Between(q, p)' <=> Between(q, p))
    BY <2>1 DEF Reached, Between, Current
  <2>3. ASSUME NEW p \in Paths, Between(q, p)
        PROVE  copies'[q][p] = files'[p] /\ \A x \in Runs \ {q} : ~Between(x, p)'
    <3>1. files'[p] = files[p] /\ ~Between(r, p)'
      BY <1>1, <2>3, WindowsAreKept
    <3>2. ASSUME NEW x \in Runs \ {q}, x # r
          PROVE  ~Between(x, p)'
      <4>1. progress'[x] = progress[x] /\ plan'[x] = plan[x] /\ next'[x] = next[x]
        BY <1>1, <3>2, OthersStay
      <4>2. ~Between(x, p)
        BY <1>0, <2>3 DEF CopyFits
      <4>3. QED
        BY <4>1, <4>2 DEF Between, Current
    <3>3. QED
      BY <1>0, <2>1, <2>3, <3>1, <3>2 DEF CopyFits
  <2>4. QED
    BY <1>0, <2>1, <2>2, <2>3 DEF CopyFits
<1>2. CASE Acquire(q) \/ Plan(q) \/ Resolve(q)
  <2>1. Same /\ progress[q] \in {"idle", "plan", "blocked"} /\ progress'[q] # "copied"
    BY <1>2 DEF Acquire, Plan, Resolve, Move, InstallTyped
  <2>2. copies'[q] = NoCopies /\ \A p \in Paths : copies'[q][p] = Absent
    BY <1>0, <2>1 DEF CopyFits, NoCopies
  <2>3. QED
    BY <1>0, <2>1, <2>2 DEF CopyFits, Between
<1>3. CASE Skip(q) \/ Change(q)
  <2>1. /\ Same /\ plan'[q] = plan[q] /\ next'[q] = next[q] + 1
        /\ progress'[q] = "apply" /\ progress[q] \in {"apply", "copied"}
    BY <1>3 DEF Skip, Change, Move, InstallTyped
  <2>2. next[q] \in Nat /\ DOMAIN plan[q] \subseteq Nat
    BY ActionsOfPlans
  <2>3. \A p \in Paths : Reached(q, p) => Reached(q, p)'
    BY <2>1, <2>2 DEF Reached
  <2>4. QED
    BY <1>0, <2>1, <2>3 DEF CopyFits, Between
<1>4. CASE Copy(q)
  <2> DEFINE path == Current(q).path
  <2>1. /\ progress[q] = "apply" /\ progress'[q] = "copied" /\ MoreActions(q) /\ ~Harmless(q)
        /\ plan' = plan /\ next' = next /\ files' = files
    BY <1>4 DEF Copy, Move, fileVars, InstallTyped
  <2>2. /\ Current(q).type \in Changing /\ path \in Paths
        /\ next[q] \in DOMAIN plan[q] /\ DOMAIN plan[q] \subseteq Nat /\ next[q] \in Nat
    BY <2>1, ActionsOfPlans DEF Harmless, Changing, MigrationActions
  <2>3. /\ copies'[q] = [copies[q] EXCEPT ![path] = files[path]]
        /\ backups'[q] \in {backups[q], [backups[q] EXCEPT ![path] = files[path]]}
    BY <1>4, <2>2 DEF Copy, InstallTyped
  <2>4. copies[q] \in [Paths -> SUBSET AllText] /\ backups[q] \in [Paths -> SUBSET AllText]
    BY DEF InstallTyped
  <2> HIDE DEF path
  <2>5. /\ copies'[q][path] = files[path]
        /\ \A p \in Paths \ {path} : copies'[q][p] = copies[q][p]
        /\ \A p \in Paths \ {path} : backups'[q][p] = backups[q][p]
        /\ backups'[q][path] \in {backups[q][path], files[path]}
    BY <2>2, <2>3, <2>4
  <2>6. backups[q][path] = Absent
    BY <2>1, <2>2, CopiedOnce DEF path
  <2>7. \A p \in Paths : backups'[q][p] \subseteq copies'[q][p]
    BY <1>0, <2>2, <2>5, <2>6 DEF CopyFits, Absent
  <2>8. \A p \in Paths : Between(q, p)' <=> p = path
    BY <2>1 DEF Between, Current, path
  <2>9. ASSUME NEW p \in Paths, copies'[q][p] # Absent
         PROVE  Reached(q, p)'
    <3>1. CASE p = path
      <4>1. plan[q][next[q]].path = path /\ plan[q][next[q]].type \in Changing
        BY <2>2 DEF path, Current
      <4>2. QED
        BY <2>1, <2>2, <3>1, <4>1 DEF Reached
    <3>2. CASE p # path
      <4>1. Reached(q, p)
        BY <1>0, <2>1, <2>5, <2>9, <3>2 DEF CopyFits
      <4>2. QED
        BY <2>1, <4>1 DEF Reached
    <3>3. QED
      BY <3>1, <3>2
  <2>10. ASSUME NEW p \in Paths, Between(q, p)'
         PROVE  copies'[q][p] = files'[p] /\ \A x \in Runs \ {q} : ~Between(x, p)'
    <3>1. p = path
      BY <2>8, <2>10
    <3>2. copies'[q][p] = files'[p]
      BY <2>1, <2>5, <3>1
    <3>3. ASSUME NEW x \in Runs \ {q}
          PROVE  ~Between(x, p)'
      <4>1. progress'[x] = progress[x]
        BY <1>4, OthersStay DEF RunStep
      <4>2. ~Between(x, path)
        BY <1>4 DEF Copy, path
      <4>3. QED
        BY <2>1, <3>1, <4>1, <4>2 DEF Between, Current
    <3>4. QED
      BY <3>2, <3>3
  <2>11. QED
    BY <2>1, <2>7, <2>9, <2>10 DEF CopyFits
<1>5. ASSUME Same, progress'[q] \notin {"idle", "plan", "blocked", "apply", "copied"}
      PROVE  CopyFits(q)'
  BY <1>0, <1>5 DEF CopyFits, Between
<1>6. CASE LockTimeout(q) \/ Commit(q) \/ ReleaseRunLock(q) \/ CrashRun(q)
  <2>1. Same /\ progress'[q] \notin {"idle", "plan", "blocked", "apply", "copied"}
    BY <1>6 DEF LockTimeout, Commit, ReleaseRunLock, CrashRun, Move, InstallTyped
  <2>2. QED
    BY <1>5, <2>1
<1>7. CASE ActionThrows(q) \/ RollBack(q)
  <2>1. progress'[q] \notin {"idle", "plan", "blocked", "apply", "copied"}
    BY <1>7 DEF ActionThrows, RollBack, Move, InstallTyped
  <2>2. \/ Same
        \/ copies'[q] = NoCopies /\ backups'[q] = NoCopies
    BY <1>7 DEF ActionThrows, RollBack, DropCopies, InstallTyped
  <2>3. CASE copies'[q] = NoCopies /\ backups'[q] = NoCopies
    BY <2>1, <2>3 DEF CopyFits, Between, NoCopies
  <2>4. QED
    BY <1>5, <2>1, <2>2, <2>3
<1>8. CASE \E p \in Paths, t \in Typed : Type(p, t)
  <2>1. PICK p \in Paths, t \in Typed : Type(p, t)
    BY <1>8
  <2>2. /\ UNCHANGED <<progress, plan, next, copies, backups>>
        /\ \A x \in Paths \ {p} : files'[x] = files[x]
        /\ \A r \in Runs : ~Between(r, p)
    BY <2>1 DEF Type, runVars, InstallTyped
  <2>3. \A r \in Runs, x \in Paths :
          (Between(r, x)' <=> Between(r, x)) /\ (Reached(r, x)' <=> Reached(r, x))
    BY <2>2 DEF Between, Current, Reached
  <2>4. \A x \in Paths : Between(q, x) => files'[x] = files[x]
    BY <2>2
  <2>5. QED
    BY <1>0, <2>2, <2>3, <2>4 DEF CopyFits
<1>9. CASE UNCHANGED installVars
  BY <1>0, <1>9 DEF installVars, runVars, fileVars, CopyFits, Reached, Between, Current
<1>10. QED
  BY <1>1, <1>2, <1>3, <1>4, <1>6, <1>7, <1>8, <1>9 DEF InstallNext, RunStep

(* --------------------------- the user's text --------------------------- *)

(* Text t is in the file at p, or in a copy of it.                         *)
Somewhere(p, t) == t \in files[p] \/ \E r \in Runs : t \in copies[r][p]

LEMMA UserTextInit ==
  ASSUME InstallInit
  PROVE  UserTextIsKept
BY DEF InstallInit, UserTextIsKept

(* A text leaves a file only after it was copied, and it leaves the copies *)
(* only when it is back in the file, or forgone.                           *)
LEMMA UserTextStep ==
  ASSUME InstallTyped, PlansFit, CopiesFit, UserTextIsKept, [InstallNext]_installVars
  PROVE  UserTextIsKept'
<1> USE DEF fileVars, runVars
<1>1. ASSUME \A entry \in typed' \ forgone' : Somewhere(entry[1], entry[2])'
      PROVE  UserTextIsKept'
  BY <1>1 DEF UserTextIsKept, Somewhere
<1>2. \A entry \in typed \ forgone : entry[1] \in Paths /\ Somewhere(entry[1], entry[2])
  BY DEF UserTextIsKept, Somewhere, CopiesFit, InstallTyped
<1>3. ASSUME typed' = typed, forgone \subseteq forgone',
             \A entry \in typed \ forgone' :
               entry[1] \in Paths /\ Somewhere(entry[1], entry[2])
                 => Somewhere(entry[1], entry[2])'
      PROVE  UserTextIsKept'
  BY <1>1, <1>2, <1>3
<1>4. ASSUME UNCHANGED <<typed, forgone, files, copies>>
      PROVE  UserTextIsKept'
  BY <1>3, <1>4 DEF Somewhere
<1>5. ASSUME NEW r \in Runs,
             \/ Acquire(r) \/ LockTimeout(r) \/ Plan(r) \/ Resolve(r) \/ Skip(r)
             \/ Commit(r) \/ ReleaseRunLock(r) \/ CrashRun(r)
      PROVE  UserTextIsKept'
  BY <1>4, <1>5 DEF Acquire, LockTimeout, Plan, Resolve, Skip, Commit, ReleaseRunLock, CrashRun
<1>6. ASSUME NEW r \in Runs, Copy(r)
      PROVE  UserTextIsKept'
  <2> DEFINE path == Current(r).path
  <2>1. /\ progress[r] = "apply" /\ MoreActions(r) /\ ~Harmless(r)
        /\ UNCHANGED <<typed, forgone, files>>
    BY <1>6 DEF Copy
  <2>2. Current(r).type \in Changing /\ path \in Paths
    BY <2>1, ActionsOfPlans DEF Harmless, Changing, MigrationActions
  <2>3. copies[r][path] = Absent
    BY <2>1, <2>2, CopiedOnce
  <2>4. copies' = [copies EXCEPT ![r][path] = files[path]]
    BY <1>6 DEF Copy
  <2> HIDE DEF path
  <2>5. \A x \in Runs, p \in Paths : copies[x][p] \subseteq copies'[x][p]
    BY <2>2, <2>3, <2>4 DEF InstallTyped, Absent
  <2>6. QED
    BY <1>3, <2>1, <2>5 DEF Somewhere
<1>7. ASSUME NEW r \in Runs, Change(r)
      PROVE  UserTextIsKept'
  <2> DEFINE path == Current(r).path
  <2>1. /\ Between(r, path) /\ path \in Paths
    BY <1>7, ActionsOfPlans DEF Change, PlansFit, Between
  <2>2. /\ UNCHANGED <<typed, forgone, copies>>
        /\ \A p \in Paths \ {path} : files'[p] = files[p]
    BY <1>7, <2>1 DEF Change, InstallTyped
  <2>3. copies[r][path] = files[path]
    BY <2>1 DEF CopiesFit
  <2>4. QED
    BY <1>3, <2>2, <2>3 DEF Somewhere
<1>8. ASSUME NEW r \in Runs, NEW S \in SUBSET Copied(r), WriteBack(r, S),
             typed' = typed, forgone \cup WrittenOver(r, S) \subseteq forgone',
             \A x \in Runs \ {r} : copies'[x] = copies[x],
             \/ copies'[r] = copies[r]
             \/ \A p \in Copied(r) \ S : {p} \X (copies[r][p] \ files[p]) \subseteq forgone'
      PROVE  UserTextIsKept'
  <2>1. S \subseteq Paths
    BY DEF Copied
  <2>2. \A p \in Paths : files'[p] = IF p \in S THEN copies[r][p] ELSE files[p]
    BY <1>8 DEF WriteBack
  <2>3. ASSUME NEW entry \in typed \ forgone', entry[1] \in Paths,
               Somewhere(entry[1], entry[2])
        PROVE  Somewhere(entry[1], entry[2])'
    <3> DEFINE p == entry[1]
               t == entry[2]
    <3>0. entry = <<p, t>>
      BY DEF InstallTyped
    <3>1. CASE t \in files[p]
      <4>1. CASE p \in S /\ t \notin copies[r][p]
        <5>1. <<p, t>> \in WrittenOver(r, S)
          BY <3>1, <4>1 DEF WrittenOver
        <5>2. QED
          BY <1>8, <2>3, <3>0, <5>1
      <4>2. CASE p \notin S \/ t \in copies[r][p]
        BY <2>2, <2>3, <3>1, <4>2 DEF Somewhere
      <4>3. QED
        BY <4>1, <4>2
    <3>2. CASE \E x \in Runs \ {r} : t \in copies[x][p]
      BY <1>8, <3>2 DEF Somewhere
    <3>3. CASE t \in copies[r][p] /\ t \notin files[p]
      <4>1. CASE copies'[r] = copies[r]
        BY <3>3, <4>1 DEF Somewhere
      <4>2. CASE p \in S
        BY <2>2, <2>3, <3>3, <4>2 DEF Somewhere
      <4>3. CASE copies'[r] # copies[r] /\ p \notin S
        <5>1. p \in Copied(r)
          BY <2>3, <3>3 DEF Copied, Absent
        <5>2. <<p, t>> \in {p} \X (copies[r][p] \ files[p])
          BY <3>3
        <5>3. QED
          BY <1>8, <2>3, <3>0, <4>3, <5>1, <5>2
      <4>4. QED
        BY <4>1, <4>2, <4>3
    <3>4. QED
      BY <2>3, <3>1, <3>2, <3>3 DEF Somewhere
  <2>4. QED
    BY <1>3, <1>8, <2>3
<1>9. ASSUME NEW r \in Runs, ActionThrows(r)
      PROVE  UserTextIsKept'
  <2>1. PICK S \in SUBSET Copied(r) :
          /\ WriteBack(r, S)
          /\ forgone' = forgone \cup WrittenOver(r, S)
          /\ IF AllBack(r, S) THEN DropCopies(r) ELSE UNCHANGED <<copies, backups>>
    BY <1>9 DEF ActionThrows
  <2>2. typed' = typed
    BY <1>9 DEF ActionThrows
  <2>3. copies'[r] = copies[r] \/ S = Copied(r)
    BY <2>1 DEF AllBack
  <2>4. \A x \in Runs \ {r} : copies'[x] = copies[x]
    BY <1>9, OthersStay
  <2>5. QED
    BY <1>8, <2>1, <2>2, <2>3, <2>4
<1>10. ASSUME NEW r \in Runs, RollBack(r)
       PROVE  UserTextIsKept'
  <2>1. PICK S \in SUBSET Copied(r) :
          /\ WriteBack(r, S)
          /\ forgone' = forgone \cup WrittenOver(r, S)
               \cup UNION {{p} \X (copies[r][p] \ files[p]) : p \in Copied(r) \ S}
    BY <1>10 DEF RollBack
  <2>2. typed' = typed
    BY <1>10 DEF RollBack
  <2>3. \A p \in Copied(r) \ S : {p} \X (copies[r][p] \ files[p]) \subseteq forgone'
    BY <2>1
  <2>4. \A x \in Runs \ {r} : copies'[x] = copies[x]
    BY <1>10, OthersStay
  <2>5. forgone \cup WrittenOver(r, S) \subseteq forgone'
    BY <2>1
  <2>6. QED
    BY <1>8, <2>1, <2>2, <2>3, <2>4, <2>5
<1>11. ASSUME NEW p \in Paths, NEW t \in Typed, Type(p, t)
       PROVE  UserTextIsKept'
  <2>1. /\ copies' = copies /\ forgone' = forgone /\ typed' = typed \cup {<<p, t>>}
        /\ \A x \in Paths : files[x] \subseteq files'[x]
        /\ t \in files'[p]
    BY <1>11 DEF Type, InstallTyped
  <2>2. QED
    BY <1>1, <1>2, <2>1 DEF Somewhere
<1>12. CASE UNCHANGED installVars
  BY <1>4, <1>12 DEF installVars
<1>13. QED
  BY <1>5, <1>6, <1>7, <1>9, <1>10, <1>11, <1>12 DEF InstallNext, RunStep

(* --------------- the files, the copies and the install state ----------- *)

StateFits(r) ==
    /\ progress[r] \in {"apply", "copied"} =>
         /\ \A i \in DOMAIN plan[r] :
              i < next[r] /\ plan[r][i].type \in Changing
                => "gsd" \notin files[plan[r][i].path]
         /\ applied = before[r] \/ \E q \in Runs \ {r} : Busy(q)
    /\ progress[r] \in {"apply", "copied", "release", "done"} =>
         before[r] \subseteq applied /\ DoneIn(before[r], copies[r])

LEMMA StatesFitInit ==
  ASSUME InstallInit
  PROVE  StatesFit
BY DEF InstallInit, StatesFit, DoneIn, Ids

(* A run that goes forward, or dies, adds nothing of the installer's to a  *)
(* file and takes nothing out of the install state; and others see that it *)
(* may have changed it.                                                    *)
LEMMA ForwardSteps ==
  ASSUME InstallTyped, PlansFit, NEW r \in Runs, RunStep(r) \/ CrashRun(r)
  PROVE  /\ managed' = managed /\ crossed' = crossed
         /\ \A p \in Paths : "gsd" \in files'[p] => "gsd" \in files[p]
         /\ applied \subseteq applied'
         /\ Busy(r) => Busy(r)'
         /\ applied' # applied => Busy(r)'
<1> USE DEF fileVars, runVars, Move, InstallTyped
<1>1. CASE Acquire(r) \/ LockTimeout(r) \/ ReleaseRunLock(r) \/ CrashRun(r)
  BY <1>1 DEF Acquire, LockTimeout, ReleaseRunLock, CrashRun, Busy
<1>2. CASE Plan(r)
  <2>1. /\ progress[r] = "plan" /\ UNCHANGED <<managed, crossed, files>>
        /\ applied \subseteq applied'
        /\ applied' # applied => progress'[r] = "release"
    BY <1>2 DEF Plan
  <2>2. QED
    BY <2>1 DEF Busy
<1>3. CASE Resolve(r) \/ Skip(r)
  BY <1>3 DEF Resolve, Skip, Busy
<1>4. CASE Copy(r)
  <2>1. UNCHANGED <<managed, crossed, files, applied>> /\ progress'[r] = "copied"
    BY <1>4 DEF Copy
  <2>2. QED
    BY <2>1 DEF Busy
<1>5. CASE Change(r)
  <2>1. /\ UNCHANGED <<managed, crossed, applied>> /\ progress'[r] = "apply"
        /\ files' = [files EXCEPT ![Current(r).path] = Current(r).value]
    BY <1>5 DEF Change
  <2>2. Current(r).value \subseteq UserText
    BY <1>5, ActionsOfPlans DEF Change, PlansFit, MigrationActions
  <2>3. \A p \in Paths : "gsd" \in files'[p] => "gsd" \in files[p]
    BY <2>1, <2>2 DEF UserText
  <2>4. QED
    BY <2>1, <2>3 DEF Busy
<1>6. CASE Commit(r)
  <2>1. /\ UNCHANGED <<managed, crossed, files>> /\ progress'[r] = "release"
        /\ applied \subseteq applied'
    BY <1>6 DEF Commit
  <2>2. QED
    BY <2>1 DEF Busy
<1>7. QED
  BY <1>1, <1>2, <1>3, <1>4, <1>5, <1>6 DEF RunStep

LEMMA DoneInSubset ==
  ASSUME NEW E, NEW F, E \subseteq F, NEW f, DoneIn(F, f)
  PROVE  DoneIn(E, f)
BY DEF DoneIn, Ids

(* A migration is marked or committed when it is done.                     *)
LEMMA AppliedStaysDone ==
  ASSUME InstallTyped, PlansFit, NEW r \in Runs, RunStep(r) \/ CrashRun(r),
         DoneIn(applied, files), StateFits(r)
  PROVE  DoneIn(applied, files)'
<1>1. /\ managed' = managed
      /\ "hook" \in Paths /\ "hooks.json" \in Paths
      /\ \A p \in Paths : "gsd" \in files'[p] => "gsd" \in files[p]
  BY ForwardSteps DEF Paths
<1>2. CASE applied' = applied
  BY <1>1, <1>2 DEF DoneIn, Ids
<1>3. CASE Plan(r) /\ applied' # applied
  <2>1. PICK scan \in BOOLEAN :
          LET actions == Pending("baseline", scan) \o Pending("orphans", scan)
                           \o Pending("codex-hooks", scan)
          IN /\ actions = <<>>
             /\ applied' = applied \cup {<<m, "marked">> : m \in Migrations \ AppliedIds}
    BY <1>3 DEF Plan
  <2>2. /\ "orphans" \notin AppliedIds /\ "hook" \in managed => "gsd" \notin files["hook"]
        /\ "codex-hooks" \notin AppliedIds => "gsd" \notin files["hooks.json"]
    BY <2>1, PlansAreSound
  <2>3. AppliedIds = Ids(applied)
    BY DEF AppliedIds, Ids
  <2>4. /\ "hook" \in managed => "gsd" \notin files["hook"]
        /\ "codex-hooks" \in Ids(applied) \/ "codex-hooks" \notin Ids(applied)
             => "gsd" \notin files["hooks.json"]
    BY <2>2, <2>3 DEF DoneIn
  <2>5. QED
    BY <1>1, <2>4 DEF DoneIn
<1>4. CASE Commit(r)
  <2>1. /\ progress[r] = "apply" /\ ~MoreActions(r) /\ files' = files
        /\ applied' = applied \cup
             {<<m, r>> : m \in {a.migration : a \in Range(plan[r])} \ AppliedIds}
    BY <1>4 DEF Commit, fileVars
  <2>2. \A i \in DOMAIN plan[r] : i < next[r]
    BY <2>1, ActionsOfPlans DEF MoreActions
  <2>3. ASSUME NEW i \in DOMAIN plan[r], plan[r][i].migration \in {"orphans", "codex-hooks"}
        PROVE  "gsd" \notin files[plan[r][i].path]
    <3>1. plan[r][i].type \in Changing
      BY <2>3 DEF PlansFit, SoundPlan, Fits, Changing, Types
    <3>2. QED
      BY <2>1, <2>2, <3>1 DEF StateFits
  <2>4. ASSUME NEW i \in DOMAIN plan[r]
        PROVE  Fits(plan[r][i])
    BY DEF PlansFit, SoundPlan
  <2>5. ASSUME NEW m \in {"orphans", "codex-hooks"}, m \in Ids(applied'), m \notin Ids(applied)
        PROVE  \E i \in DOMAIN plan[r] : plan[r][i].migration = m
    BY <2>1, <2>5 DEF Ids, Range
  <2>6. "orphans" \in Ids(applied') /\ "hook" \in managed => "gsd" \notin files["hook"]
    <3>1. CASE "orphans" \in Ids(applied)
      BY <3>1 DEF DoneIn
    <3>2. CASE "orphans" \in Ids(applied') /\ "orphans" \notin Ids(applied)
      BY <2>3, <2>4, <2>5, <3>2 DEF Fits
    <3>3. QED
      BY <3>1, <3>2
  <2>7. "codex-hooks" \in Ids(applied') => "gsd" \notin files["hooks.json"]
    <3>1. CASE "codex-hooks" \in Ids(applied)
      BY <3>1 DEF DoneIn
    <3>2. CASE "codex-hooks" \in Ids(applied') /\ "codex-hooks" \notin Ids(applied)
      BY <2>3, <2>4, <2>5, <3>2 DEF Fits
    <3>3. QED
      BY <3>1, <3>2
  <2>8. QED
    BY <1>1, <2>1, <2>6, <2>7 DEF DoneIn
<1>5. CASE /\ applied' # applied
           /\ \/ Acquire(r) \/ LockTimeout(r) \/ Resolve(r) \/ Skip(r) \/ Copy(r) \/ Change(r)
              \/ ReleaseRunLock(r) \/ CrashRun(r)
  BY <1>5 DEF Acquire, LockTimeout, Resolve, Skip, Copy, Change, ReleaseRunLock, CrashRun
<1>6. QED
  BY <1>2, <1>3, <1>4, <1>5 DEF RunStep

(* A run that goes forward keeps its own part of the invariant.            *)
LEMMA OwnStateStep ==
  ASSUME InstallTyped, PlansFit, CopiesFit, NEW r \in Runs, RunStep(r) \/ CrashRun(r),
         DoneIn(applied, files), StateFits(r)
  PROVE  StateFits(r)'
<1> USE DEF Move, InstallTyped
<1>1. /\ managed' = managed /\ applied \subseteq applied'
      /\ \A p \in Paths : "gsd" \in files'[p] => "gsd" \in files[p]
  BY ForwardSteps
<1>2. \A q \in Runs \ {r} : progress'[q] = progress[q]
  BY OthersStay
<1>3. \A i \in DOMAIN plan[r] : plan[r][i].path \in Paths
  BY ActionsOfPlans
<1>4. DOMAIN plan[r] \subseteq Nat /\ next[r] \in Nat
  BY ActionsOfPlans
<1>5. CASE Acquire(r) \/ LockTimeout(r) \/ CrashRun(r)
  <2>1. progress'[r] \in {"plan", "failed", "dead"}
    BY <1>5 DEF Acquire, LockTimeout, CrashRun
  <2>2. QED
    BY <2>1 DEF StateFits
<1>6. ASSUME next'[r] = 1, before'[r] = applied', copies'[r] = NoCopies
      PROVE  StateFits(r)'
  <2>0. SoundPlan(plan[r])'
    BY PlansFitStep DEF InstallNext, PlansFit
  <2>1. DOMAIN plan'[r] \subseteq Nat \ {0}
    BY <2>0 DEF SoundPlan
  <2>2. \A i \in DOMAIN plan'[r] : ~(i < next'[r])
    BY <1>6, <2>1
  <2>3. DoneIn(before[r], copies[r])'
    BY <1>6 DEF DoneIn, NoCopies, Absent, Paths
  <2>4. QED
    BY <1>6, <2>2, <2>3 DEF StateFits
<1>7. CASE Plan(r)
  <2>1. /\ next'[r] = 1 /\ copies'[r] = NoCopies /\ before[r] = {}
    BY <1>7 DEF Plan, PlansFit, CopiesFit
  <2>2. \/ progress'[r] = "release" /\ before'[r] = {}
        \/ progress'[r] = "blocked"
        \/ progress'[r] = "apply" /\ before'[r] = applied'
    <3>1. \/ progress' = [progress EXCEPT ![r] = "release"] /\ before' = before
          \/ /\ progress' = [progress EXCEPT ![r] = "blocked"]
          \/ /\ progress' = [progress EXCEPT ![r] = "apply"]
             /\ before' = [before EXCEPT ![r] = applied] /\ applied' = applied
      BY <1>7 DEF Plan
    <3>2. QED
      BY <2>1, <3>1
  <2>3. CASE progress'[r] = "release" /\ before'[r] = {}
    <3>1. DoneIn(before[r], copies[r])'
      BY <2>3 DEF DoneIn, Ids
    <3>2. QED
      BY <2>3, <3>1 DEF StateFits
  <2>4. CASE progress'[r] = "blocked"
    BY <2>4 DEF StateFits
  <2>5. QED
    BY <1>6, <2>1, <2>2, <2>3, <2>4
<1>8. CASE Resolve(r)
  <2>1. next'[r] = 1 /\ copies'[r] = NoCopies /\ before'[r] = applied'
    BY <1>8 DEF Resolve, PlansFit, CopiesFit
  <2>2. QED
    BY <1>6, <2>1
<1>9. ASSUME before'[r] = before[r], copies'[r] = copies[r],
             progress[r] \in {"apply", "copied", "release", "done"}
      PROVE  before'[r] \subseteq applied' /\ DoneIn(before[r], copies[r])'
  <2>1. before[r] \subseteq applied /\ DoneIn(before[r], copies[r])
    BY <1>9 DEF StateFits
  <2>2. QED
    BY <1>1, <1>9, <2>1 DEF DoneIn
<1>10. ASSUME plan'[r] = plan[r], before'[r] = before[r], applied' = applied,
              progress[r] \in {"apply", "copied"}
       PROVE  /\ \A i \in DOMAIN plan'[r] :
                   i < next[r] /\ plan'[r][i].type \in Changing
                     => "gsd" \notin files'[plan'[r][i].path]
              /\ applied' = before'[r] \/ \E q \in Runs \ {r} : Busy(q)'
  BY <1>1, <1>2, <1>3, <1>10 DEF StateFits, Busy
<1>11. CASE Skip(r)
  <2>1. /\ plan'[r] = plan[r] /\ before'[r] = before[r] /\ applied' = applied
        /\ copies'[r] = copies[r] /\ next'[r] = next[r] + 1
        /\ progress[r] = "apply" /\ MoreActions(r) /\ Harmless(r)
        /\ files' = files
    BY <1>11 DEF Skip, fileVars
  <2>2. plan[r][next[r]].type \in Changing => "gsd" \notin files[plan[r][next[r]].path]
    BY <2>1 DEF Harmless, Current, Changing, Absent
  <2>3. ASSUME NEW i \in DOMAIN plan[r], i < next'[r], plan[r][i].type \in Changing
        PROVE  "gsd" \notin files'[plan[r][i].path]
    <3>1. i < next[r] \/ i = next[r]
      BY <1>4, <2>1, <2>3
    <3>2. QED
      BY <1>10, <2>1, <2>2, <2>3, <3>1
  <2>4. QED
    BY <1>9, <1>10, <2>1, <2>3 DEF StateFits
<1>12. CASE Change(r)
  <2>1. /\ plan'[r] = plan[r] /\ before'[r] = before[r] /\ applied' = applied
        /\ copies'[r] = copies[r] /\ next'[r] = next[r] + 1
        /\ progress[r] = "copied" /\ MoreActions(r)
        /\ files' = [files EXCEPT ![Current(r).path] = Current(r).value]
    BY <1>12 DEF Change, PlansFit
  <2>2. Current(r).value \subseteq UserText /\ Current(r).path \in Paths
    BY <2>1, ActionsOfPlans DEF MigrationActions
  <2>3. "gsd" \notin files'[plan[r][next[r]].path]
    BY <2>1, <2>2 DEF UserText, Current
  <2>4. ASSUME NEW i \in DOMAIN plan[r], i < next'[r], plan[r][i].type \in Changing
        PROVE  "gsd" \notin files'[plan[r][i].path]
    <3>1. i < next[r] \/ i = next[r]
      BY <1>4, <2>1, <2>4
    <3>2. QED
      BY <1>10, <2>1, <2>3, <2>4, <3>1
  <2>5. QED
    BY <1>9, <1>10, <2>1, <2>4 DEF StateFits
<1>13. CASE Copy(r)
  <2>1. /\ plan'[r] = plan[r] /\ before'[r] = before[r] /\ applied' = applied
        /\ next'[r] = next[r] /\ files' = files /\ progress[r] = "apply" /\ MoreActions(r)
    BY <1>13 DEF Copy, fileVars
  <2>2. Current(r).path \in Paths
    BY <2>1, ActionsOfPlans
  <2>3. \A p \in Paths : copies'[r][p] \in {copies[r][p], files[p]}
    BY <1>13, <2>2 DEF Copy
  <2>4. before[r] \subseteq applied /\ DoneIn(before[r], copies[r])
    BY <2>1 DEF StateFits
  <2>5. DoneIn(before[r], files)
    BY <2>4, DoneInSubset
  <2>6. DoneIn(before[r], copies[r])'
    BY <1>1, <2>1, <2>3, <2>4, <2>5 DEF DoneIn, Paths
  <2>7. QED
    BY <1>10, <2>1, <2>4, <2>6 DEF StateFits
<1>14. CASE Commit(r) \/ ReleaseRunLock(r)
  <2>1. /\ before'[r] = before[r] /\ copies'[r] = copies[r]
        /\ progress[r] \in {"apply", "release"} /\ progress'[r] \in {"release", "done"}
    BY <1>14 DEF Commit, ReleaseRunLock
  <2>2. QED
    BY <1>9, <2>1 DEF StateFits
<1>15. QED
  BY <1>5, <1>7, <1>8, <1>11, <1>12, <1>13, <1>14 DEF RunStep

LEMMA StatesFitStep ==
  ASSUME "gsd" \notin Typed,
         InstallTyped, PlansFit, CopiesFit, StatesFit, [InstallNext]_installVars
  PROVE  StatesFit'
<1> SUFFICES ASSUME ~crossed'
             PROVE  DoneIn(applied, files)' /\ \A q \in Runs : StateFits(q)'
  BY DEF StatesFit, StateFits
<1>1. ~crossed => DoneIn(applied, files) /\ \A q \in Runs : StateFits(q)
  BY DEF StatesFit, StateFits
<1>2. ASSUME NEW r \in Runs, RunStep(r) \/ CrashRun(r)
      PROVE  DoneIn(applied, files)' /\ \A q \in Runs : StateFits(q)'
  <2>1. /\ managed' = managed /\ ~crossed
        /\ \A p \in Paths : "gsd" \in files'[p] => "gsd" \in files[p]
        /\ applied \subseteq applied'
        /\ Busy(r) => Busy(r)'
        /\ applied' # applied => Busy(r)'
    BY <1>2, ForwardSteps
  <2>2. DoneIn(applied, files)'
    BY <1>1, <1>2, <2>1, AppliedStaysDone
  <2>3. StateFits(r)'
    BY <1>1, <1>2, <2>1, OwnStateStep
  <2>4. ASSUME NEW q \in Runs, q # r
        PROVE  StateFits(q)'
    <3>1. /\ progress'[q] = progress[q] /\ plan'[q] = plan[q] /\ next'[q] = next[q]
          /\ copies'[q] = copies[q] /\ before'[q] = before[q]
      BY <1>2, <2>4, OthersStay
    <3>2. StateFits(q)
      BY <1>1, <2>1
    <3>3. \A i \in DOMAIN plan[q] : plan[q][i].path \in Paths
      BY ActionsOfPlans
    <3>4. ASSUME NEW x \in Runs \ {q}, Busy(x)
          PROVE  Busy(x)'
      <4>1. CASE x = r
        BY <2>1, <3>4, <4>1
      <4>2. CASE x # r
        <5>1. progress'[x] = progress[x]
          BY <1>2, <4>2, OthersStay
        <5>2. QED
          BY <3>4, <5>1 DEF Busy
      <4>3. QED
        BY <4>1, <4>2
    <3>5. applied = before[q] \/ (\E x \in Runs \ {q} : Busy(x))
            => applied' = before'[q] \/ \E x \in Runs \ {q} : Busy(x)'
      BY <2>1, <2>4, <3>1, <3>4
    <3>6. DoneIn(before[q], copies[q]) => DoneIn(before[q], copies[q])'
      BY <2>1, <3>1 DEF DoneIn
    <3>7. QED
      BY <2>1, <3>1, <3>2, <3>3, <3>5, <3>6 DEF StateFits
  <2>5. QED
    BY <2>2, <2>3, <2>4
<1>3. ASSUME NEW r \in Runs, ActionThrows(r) \/ RollBack(r)
      PROVE  DoneIn(applied, files)' /\ \A q \in Runs : StateFits(q)'
  <2>1. /\ ~crossed /\ \A q \in Runs \ {r} : ~Busy(q)
        /\ managed' = managed
    BY <1>3 DEF ActionThrows, RollBack
  <2>2. DoneIn(applied, files) /\ StateFits(r)
    BY <1>1, <2>1
  <2>3. progress'[r] \in {"failed", "rolledBack"}
    BY <1>3 DEF ActionThrows, RollBack, Move, InstallTyped
  <2>4. \A q \in Runs : StateFits(q)'
    <3>1. ASSUME NEW q \in Runs, q # r
          PROVE  StateFits(q)'
      <4>1. progress'[q] = progress[q]
        BY <1>3, <3>1, OthersStay
      <4>2. progress'[q] \notin {"apply", "copied", "release", "done"}
        BY <2>1, <3>1, <4>1 DEF Busy
      <4>3. QED
        BY <4>2 DEF StateFits
    <3>2. StateFits(r)'
      BY <2>3 DEF StateFits
    <3>3. QED
      BY <3>1, <3>2
  <2>5. applied' = before[r] /\ before[r] \subseteq applied /\ DoneIn(before[r], copies[r])
    <3>1. CASE ActionThrows(r)
      BY <2>1, <2>2, <3>1 DEF ActionThrows, StateFits
    <3>2. CASE RollBack(r)
      BY <2>2, <3>2 DEF RollBack, StateFits
    <3>3. QED
      BY <1>3, <3>1, <3>2
  <2>6. PICK S \in SUBSET Copied(r) : WriteBack(r, S)
    BY <1>3 DEF ActionThrows, RollBack
  <2>7. \A p \in Paths : files'[p] \in {copies[r][p], files[p]}
    BY <2>6 DEF WriteBack
  <2>8. DoneIn(before[r], files)
    BY <2>2, <2>5, DoneInSubset
  <2>9. DoneIn(applied, files)'
    BY <2>1, <2>5, <2>7, <2>8 DEF DoneIn, Paths
  <2>10. QED
    BY <2>4, <2>9
<1>4. ASSUME NEW p \in Paths, NEW t \in Typed, Type(p, t)
      PROVE  DoneIn(applied, files)' /\ \A q \in Runs : StateFits(q)'
  <2>1. /\ UNCHANGED <<managed, applied, progress, plan, next, copies, before, crossed>>
        /\ \A x \in Paths : "gsd" \in files'[x] => "gsd" \in files[x]
    BY <1>4 DEF Type, runVars, InstallTyped
  <2>2. DoneIn(applied, files)'
    BY <1>1, <2>1 DEF DoneIn, Paths
  <2>3. ASSUME NEW q \in Runs
        PROVE  StateFits(q)'
    <3>1. \A i \in DOMAIN plan[q] : plan[q][i].path \in Paths
      BY ActionsOfPlans
    <3>2. StateFits(q)
      BY <1>1, <2>1
    <3>3. DoneIn(before[q], copies[q]) => DoneIn(before[q], copies[q])'
      BY <2>1 DEF DoneIn
    <3>4. (\E x \in Runs \ {q} : Busy(x)) => \E x \in Runs \ {q} : Busy(x)'
      BY <2>1 DEF Busy
    <3>5. QED
      BY <2>1, <3>1, <3>2, <3>3, <3>4 DEF StateFits
  <2>4. QED
    BY <2>2, <2>3
<1>5. CASE UNCHANGED installVars
  BY <1>1, <1>5 DEF installVars, fileVars, runVars, DoneIn, StateFits, Busy
<1>6. QED
  BY <1>2, <1>3, <1>4, <1>5 DEF InstallNext

(* ------------------------------ the theorem ---------------------------- *)

LEMMA MigrationsInvInit == InstallInit => MigrationsInv
BY InstallTypedInit, PlansFitInit, CopiesFitInit, UserTextInit, StatesFitInit, EntriesOnceInit
   DEF MigrationsInv

LEMMA MigrationsInvStep == MigrationsInv /\ [InstallNext]_installVars => MigrationsInv'
BY InstallTypedStep, PlansFitStep, CopiesFitStep, UserTextStep, StatesFitStep,
   EntriesOnceStep, InstallerAssumption DEF MigrationsInv

LEMMA MigrationsInvImplies == MigrationsInv => MigrationsAreSafe
<1> SUFFICES ASSUME MigrationsInv
             PROVE  MigrationsAreSafe
  OBVIOUS
<1> USE DEF MigrationsInv
<1>1. InstallTypeOK
  BY DEF InstallTypeOK, InstallTyped, Entries, PlansFit
<1>2. AppliedIsDone
  <2>1. AppliedIds = Ids(applied)
    BY DEF AppliedIds, Ids
  <2>2. ~crossed => DoneIn(applied, files)
    BY DEF StatesFit
  <2>3. Classified("hook") = "managed-pristine" => "hook" \in managed /\ "gsd" \in files["hook"]
    BY DEF Classified
  <2>4. QED
    BY <2>1, <2>2, <2>3 DEF AppliedIsDone, DoneIn
<1>3. AppliedOnce
  BY DEF EntriesOnce, Once, AppliedOnce
<1>4. QED
  BY <1>1, <1>2, <1>3 DEF MigrationsAreSafe

(* However many runs of the installer crash, throw, roll back and answer   *)
(* prompts side by side, whatever the user types: a migration happens      *)
(* whole and once or not at all, and the user's text survives it.          *)
THEOREM MigrationsHold == InstallSpec => []MigrationsAreSafe
<1>1. InstallInit => MigrationsInv
  BY MigrationsInvInit
<1>2. MigrationsInv /\ [InstallNext]_installVars => MigrationsInv'
  BY MigrationsInvStep
<1>3. MigrationsInv => MigrationsAreSafe
  BY MigrationsInvImplies
<1>4. QED
  BY <1>1, <1>2, <1>3, PTL DEF InstallSpec
=============================================================================
