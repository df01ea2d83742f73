--------------------------- MODULE LearningsStore ---------------------------
(***************************************************************************)
(* The store of learnings that the projects of a machine share             *)
(* (learnings.cjs): a file per learning in ~/.gsd/knowledge, and no lock.  *)
(* The commands list the directory and then read, write or delete its      *)
(* files one by one, so that another project's command may come between.   *)
(*                                                                         *)
(* The timestamp and the random suffix that name a file are a number that  *)
(* is given once.  Files that do not parse, which every command skips, are *)
(* left out, and so are the queries, which change nothing.                 *)
(***************************************************************************)
EXTENDS FiniteSets, Integers, Sequences

CONSTANTS Learners,      \* the processes that run commands
          LearningsOf,   \* the sections of each project's LEARNINGS.md
          Ages,          \* the days that a prune is asked for
          MaxDays,       \* how many days pass
          MaxStoreCommands

Projects == DOMAIN LearningsOf

ASSUME LearningsAssumption ==
    /\ Ages \subseteq Nat /\ MaxDays \in Nat /\ MaxStoreCommands \in Nat
    /\ \A p \in Projects :
         LearningsOf[p] \in Seq({LearningsOf[p][i] : i \in DOMAIN LearningsOf[p]})

VARIABLES
    knowledge,     \* the files of the store
    today,
    learnings,     \* how many were ever written
    storeCommands, \* how many commands were started
    learner        \* the command that each process runs, or ran last

learningVars == <<knowledge, today, learnings, storeCommands, learner>>

ContentHash(text, project) == <<text, project>>

NoCommand == [pc |-> "idle", project |-> "none", section |-> 1, listing |-> {},
              unread |-> {}, cutoff |-> 0, target |-> 0, lost |-> {}]

LearningsInit ==
    /\ knowledge = {} /\ today = 0 /\ learnings = 0 /\ storeCommands = 0
    /\ learner = [u \in Learners |-> NoCommand]

Ids == {f.id : f \in knowledge}
Step(u, command) == learner' = [learner EXCEPT ![u] = command]

StartStoreCommand(u, command) ==
    /\ learner[u].pc \in {"idle", "done", "failed"} /\ storeCommands < MaxStoreCommands
    /\ storeCommands' = storeCommands + 1
    /\ Step(u, command)
    /\ UNCHANGED <<knowledge, today, learnings>>

(* ------------------------------ learnings copy ------------------------- *)

Copy(u) ==
    \E p \in Projects :
       StartStoreCommand(u, [NoCommand EXCEPT !.pc = "list", !.project = p])

(* learningsWrite lists the store again for every section.                 *)
ListForSection(u) ==
    LET c == learner[u] IN
    /\ c.pc = "list"
    /\ Step(u, IF c.section > Len(LearningsOf[c.project]) THEN [c EXCEPT !.pc = "done"]
               ELSE [c EXCEPT !.pc = "compare", !.listing = Ids, !.unread = Ids])
    /\ UNCHANGED <<knowledge, today, learnings, storeCommands>>

SectionOf(c) == LearningsOf[c.project][c.section]
NextSection(c) == [c EXCEPT !.pc = "list", !.section = @ + 1, !.listing = {}, !.unread = {}]

(* A file that is gone by now reads as null and is passed over.            *)
IsCopyOf(id, c) ==
    \E f \in knowledge :
       f.id = id /\ f.content_hash = ContentHash(SectionOf(c), c.project)

(* Mutant: the comparison ends with the first file that is another learning. *)
Compare_First(u) ==
    LET c == learner[u] IN
    /\ c.pc = "compare"
    /\ \E id \in c.unread :
         Step(u, IF IsCopyOf(id, c) THEN NextSection(c) ELSE [c EXCEPT !.unread = {}])
    /\ UNCHANGED <<knowledge, today, learnings, storeCommands>>

Compare(u) ==
    LET c == learner[u] IN
    /\ c.pc = "compare"
    /\ \E id \in c.unread :
         Step(u, IF IsCopyOf(id, c) THEN NextSection(c) ELSE [c EXCEPT !.unread = @ \ {id}])
    /\ UNCHANGED <<knowledge, today, learnings, storeCommands>>

(* The file is renamed into its place, so nobody reads half of it.         *)
StoreLearning(u) ==
    LET c == learner[u] IN
    /\ c.pc = "compare" /\ c.unread = {}
    /\ learnings' = learnings + 1
    /\ knowledge' = knowledge \cup
         {[id |-> learnings', source_project |-> c.project, learning |-> SectionOf(c),
           date |-> today, content_hash |-> ContentHash(SectionOf(c), c.project),
           listing |-> c.listing]}
    /\ Step(u, NextSection(c))
    /\ UNCHANGED <<today, storeCommands>>

(* ------------------------- learnings prune, delete --------------------- *)

Prune(u) ==
    \E days \in Ages :
       StartStoreCommand(u, [NoCommand EXCEPT !.pc = "judge", !.unread = Ids,
                                              !.cutoff = today - days])

Judge(u) ==
    LET c == learner[u] IN
    /\ c.pc = "judge"
    /\ \/ /\ c.unread = {}
          /\ Step(u, [c EXCEPT !.pc = "done"])
       \/ \E id \in c.unread :
            LET rest == [c EXCEPT !.unread = @ \ {id}] IN
            Step(u, IF \E f \in knowledge : f.id = id /\ f.date < c.cutoff
                    THEN [rest EXCEPT !.pc = "unlink", !.target = id]
                    ELSE rest)
    /\ UNCHANGED <<knowledge, today, learnings, storeCommands>>

(* learnings delete, of a learning that is there.                          *)
Delete(u) ==
    \E id \in Ids : StartStoreCommand(u, [NoCommand EXCEPT !.pc = "unlink", !.target = id])

(* That the file is gone throws, which ends the whole prune.               *)
Unlink(u) ==
    LET c == learner[u]
        gone == {f \in knowledge : f.id = c.target}
        contents == {<<f.learning, f.source_project>> : f \in gone}
    IN
    /\ c.pc = "unlink"
    /\ knowledge' = knowledge \ gone
    /\ learner' = [v \in Learners |->
                     IF v = u
                     THEN [c EXCEPT !.pc = IF gone = {} THEN "failed" ELSE "judge",
                                    !.target = 0]
                     ELSE [learner[v] EXCEPT !.lost = @ \cup contents]]
    /\ UNCHANGED <<today, learnings, storeCommands>>

NextDay ==
    /\ today < MaxDays
    /\ today' = today + 1
    /\ UNCHANGED <<knowledge, learnings, storeCommands, learner>>

LearningsNext ==
    \/ \E u \in Learners :
         \/ Copy(u) \/ ListForSection(u) \/ Compare(u) \/ StoreLearning(u)
         \/ Prune(u) \/ Judge(u) \/ Delete(u) \/ Unlink(u)
    \/ NextDay

LearningsSpec == LearningsInit /\ [][LearningsNext]_learningVars

(* ------------------------------ properties ----------------------------- *)

Bodies == UNION {{LearningsOf[p][i] : i \in DOMAIN LearningsOf[p]} : p \in Projects}

LearningsTypeOK ==
    /\ \A f \in knowledge :
         /\ f.id \in 1..learnings /\ f.listing \subseteq 1..learnings
         /\ f.source_project \in Projects /\ f.learning \in Bodies
         /\ f.date \in 0..today
    /\ today \in 0..MaxDays /\ storeCommands \in 0..MaxStoreCommands
    /\ \A u \in Learners :
         /\ learner[u].pc \in {"idle", "list", "compare", "judge", "unlink", "done", "failed"}
         /\ learner[u].project \in Projects \cup {"none"}
         /\ learner[u].unread \subseteq 1..learnings /\ learner[u].target \in 0..learnings

(* "Same content from same project is not stored twice" (learningsWrite)   *)
(* holds of commands that run one after the other: of two files with the   *)
(* same hash the later one was written by a copy that had listed the store *)
(* before the earlier one was there.                                       *)
OnlyRacesDuplicate ==
    \A f, g \in knowledge :
       f.content_hash = g.content_hash /\ f.id < g.id => f.id \notin g.listing

(* A copy leaves every section it is past in the store, under its own      *)
(* project, unless somebody removed that text since the copy began: it     *)
(* never skips a section for what another project stored.                  *)
CopiedSectionsAreStored ==
    \A u \in Learners :
       LET c == learner[u] IN
       c.project # "none" =>
         \A i \in 1..(c.section - 1) :
            LET content == <<LearningsOf[c.project][i], c.project>> IN
            \/ content \in c.lost
            \/ \E f \in knowledge : <<f.learning, f.source_project>> = content

(* A prune that reports its counts has removed everything that was too     *)
(* old, whatever was written or deleted while it went through its list;    *)
(* only one that another process took a file from stops short, and throws. *)
PruneIsThorough ==
    \A u \in Learners :
       learner[u].pc = "done" => \A f \in knowledge : f.date >= learner[u].cutoff

(* The store has what was copied, once, and nothing that was pruned.       *)
StoreIsFaithful == OnlyRacesDuplicate /\ CopiedSectionsAreStored /\ PruneIsThorough
=============================================================================
