---------------------------- MODULE WorkflowProofs ---------------------------
(***************************************************************************)
(* Proofs about the parts of gsd-tools that say what agents have at hand,  *)
(* what they do in which order, and where: the surface of skills, the      *)
(* knowledge graph, the waves of a phase, and workstreams, each for its    *)
(* own specification.                                                      *)
(*                                                                         *)
(* The first three compute along a graph with recursive functions.  What   *)
(* these return for every graph takes induction over the natural numbers,  *)
(* which the module begins with.  The library's induction theorems have an *)
(* operator as a parameter; that the order of the numbers is well-founded  *)
(* does not, and gives the least number of a set, and with it induction    *)
(* for sets of numbers and for functions on them.                          *)
(***************************************************************************)
EXTENDS SkillSurface, KnowledgeGraph, WaveSchedule, Workstreams,
        FiniteSetTheorems, FunctionTheorems, SequenceTheorems, WellFoundedInduction, TLAPS

(* ------------------------------- induction ----------------------------- *)

(* A set of natural numbers that is not empty has a least one.             *)
LEMMA LeastNumber ==
  ASSUME NEW T \in SUBSET Nat, T # {}
  PROVE  \E n \in T : \A m \in T : n <= m
<1> DEFINE R == OpToRel(<, Nat)
<1>1. IsWellFoundedOn(R, Nat)
  BY NatLessThanWellFounded
<1>2. \A a, b \in Nat : a < b => <<a, b>> \in R
  BY DEF OpToRel
<1> HIDE DEF R
<1>3. PICK n \in T : \A m \in T : ~ (<<m, n>> \in R)
  BY <1>1, WFMin, Zenon
<1>4. n \in Nat /\ \A m \in T : m \in Nat /\ ~(m < n)
  BY <1>2, <1>3
<1>5. \A m \in T : n <= m
  BY <1>4
<1>6. QED
  BY <1>5

(* Induction: the numbers for which something holds are a set.             *)
LEMMA NumbersFromZero ==
  ASSUME NEW S, 0 \in S, \A n \in Nat : n \in S => n + 1 \in S
  PROVE  \A n \in Nat : n \in S
<1> DEFINE T == Nat \ S
<1> SUFFICES ASSUME T # {} PROVE FALSE
  OBVIOUS
<1>1. PICK n \in T : \A m \in T : n <= m
  BY LeastNumber
<1>2. n \in Nat /\ n # 0 /\ n - 1 \in Nat /\ n - 1 \notin T
  BY <1>1
<1>3. QED
  BY <1>1, <1>2

(* What is got by repeating a step, which may count, is there: up to any   *)
(* number of times, and for ever.                                          *)
Repeats(f, step, base, n, V) ==
    /\ f \in [0 .. n -> V] /\ f[0] = base
    /\ \A m \in 0 .. n - 1 : f[m + 1] = step[<<m, f[m]>>]

RepeatsForever(f, step, base, V) ==
    /\ f \in [Nat -> V] /\ f[0] = base
    /\ \A m \in Nat : f[m + 1] = step[<<m, f[m]>>]

LEMMA RepeatedStep ==
  ASSUME NEW V, NEW base \in V, NEW step \in [Nat \X V -> V], NEW N \in Nat
  PROVE  \E f : Repeats(f, step, base, N, V)
<1> DEFINE S == {n \in Nat : \E g : Repeats(g, step, base, n, V)}
<1>1. 0 \in S
  <2>1. Repeats([i \in 0 .. 0 |-> base], step, base, 0, V)
    BY DEF Repeats
  <2>2. QED
    BY <2>1
<1>2. ASSUME NEW n \in Nat, n \in S PROVE n + 1 \in S
  <2>1. PICK g : Repeats(g, step, base, n, V)
    BY <1>2
  <2> DEFINE h == [i \in 0 .. n + 1 |-> IF i = n + 1 THEN step[<<n, g[n]>>] ELSE g[i]]
  <2>2. g[n] \in V /\ \A i \in 0 .. n : g[i] \in V
    BY <2>1 DEF Repeats
  <2>3. h \in [0 .. n + 1 -> V]
    BY <2>2
  <2>4. h[0] = base /\ h[n + 1] = step[<<n, g[n]>>] /\ \A i \in 0 .. n : h[i] = g[i]
    BY <2>1 DEF Repeats
  <2> HIDE DEF h
  <2>5. \A m \in 0 .. n : h[m + 1] = step[<<m, h[m]>>]
    <3>1. SUFFICES ASSUME NEW m \in 0 .. n PROVE h[m + 1] = step[<<m, h[m]>>]
      OBVIOUS
    <3>2. CASE m = n
      BY <2>4, <3>2
    <3>3. CASE m # n
      BY <2>1, <2>4, <3>3 DEF Repeats
    <3>4. QED
      BY <3>2, <3>3
  <2>6. Repeats(h, step, base, n + 1, V)
    BY <2>3, <2>4, <2>5 DEF Repeats
  <2>7. QED
    BY <2>6
<1> HIDE DEF S
<1>3. N \in S
  BY <1>1, <1>2, NumbersFromZero
<1>4. QED
  BY <1>3 DEF S

LEMMA RepeatedForever ==
  ASSUME NEW V, NEW base \in V, NEW step \in [Nat \X V -> V]
  PROVE  \E f : RepeatsForever(f, step, base, V)
<1> DEFINE Of(n) == CHOOSE g : Repeats(g, step, base, n, V)
           f == [n \in Nat |-> Of(n)[n]]
<1>1. \A n \in Nat : Repeats(Of(n), step, base, n, V)
  BY RepeatedStep
<1> HIDE DEF Of
<1>2. ASSUME NEW n \in Nat, NEW g, Repeats(g, step, base, n + 1, V)
      PROVE  Repeats([i \in 0 .. n |-> g[i]], step, base, n, V)
  BY <1>2 DEF Repeats
<1> DEFINE Same == {n \in Nat : \A g, h : Repeats(g, step, base, n, V)
                                          /\ Repeats(h, step, base, n, V) => g[n] = h[n]}
<1>3. 0 \in Same
  BY DEF Repeats
<1>4. ASSUME NEW n \in Nat, n \in Same PROVE n + 1 \in Same
  <2>1. SUFFICES ASSUME NEW g, NEW h, Repeats(g, step, base, n + 1, V),
                        Repeats(h, step, base, n + 1, V)
                 PROVE  g[n + 1] = h[n + 1]
    OBVIOUS
  <2>2. n \in 0 .. n /\ n \in 0 .. (n + 1) - 1
    OBVIOUS
  <2> DEFINE g0 == [i \in 0 .. n |-> g[i]]
             h0 == [i \in 0 .. n |-> h[i]]
  <2>3. Repeats(g0, step, base, n, V) /\ Repeats(h0, step, base, n, V)
    BY <1>2, <2>1
  <2>4. g0[n] = h0[n]
    BY <1>4, <2>3
  <2>5. g[n] = h[n]
    BY <2>2, <2>4
  <2>6. QED
    BY <2>1, <2>2, <2>5 DEF Repeats
<1> HIDE DEF Same
<1>5. \A n \in Nat : n \in Same
  BY <1>3, <1>4, NumbersFromZero
<1>6. ASSUME NEW n \in Nat PROVE Of(n + 1)[n] = Of(n)[n]
  <2>1. Repeats([i \in 0 .. n |-> Of(n + 1)[i]], step, base, n, V)
    BY <1>1, <1>2
  <2>2. [i \in 0 .. n |-> Of(n + 1)[i]][n] = Of(n)[n]
    BY <1>1, <1>5, <2>1 DEF Same
  <2>3. QED
    BY <2>2
<1>7. \A n \in Nat : Of(n)[n] \in V /\ Of(n + 1)[n + 1] = step[<<n, Of(n + 1)[n]>>]
  <2>1. SUFFICES ASSUME NEW n \in Nat
                 PROVE  Of(n)[n] \in V /\ Of(n + 1)[n + 1] = step[<<n, Of(n + 1)[n]>>]
    OBVIOUS
  <2>2. n \in 0 .. n /\ n \in 0 .. (n + 1) - 1
    OBVIOUS
  <2>3. QED
    BY <1>1, <2>2 DEF Repeats
<1>8. f[0] = base
  BY <1>1 DEF Repeats
<1>9. f \in [Nat -> V]
  BY <1>7
<1>10. \A n \in Nat : f[n + 1] = step[<<n, f[n]>>]
  <2>1. SUFFICES ASSUME NEW n \in Nat PROVE f[n + 1] = step[<<n, f[n]>>]
    OBVIOUS
  <2>2. f[n] = Of(n)[n] /\ f[n + 1] = Of(n + 1)[n + 1]
    OBVIOUS
  <2>3. QED
    BY <1>6, <1>7, <2>2
<1>11. QED
  BY <1>8, <1>9, <1>10 DEF RepeatsForever

(* A list in which nothing is twice stays one: without its head, and with  *)
(* another that has nothing in common with it.                             *)
LEMMA InjectiveTail ==
  ASSUME NEW S, NEW q \in Seq(S), q # <<>>, IsInjective(q)
  PROVE  /\ Head(q) \in S /\ Tail(q) \in Seq(S) /\ IsInjective(Tail(q))
         /\ Head(q) \notin Range(Tail(q))
         /\ Range(q) = Range(Tail(q)) \cup {Head(q)}
<1> DEFINE rest == Tail(q)
<1>1. /\ Len(q) \in Nat /\ Len(q) # 0 /\ DOMAIN q = 1 .. Len(q)
      /\ Head(q) = q[1] /\ rest \in Seq(S) /\ Len(rest) = Len(q) - 1
      /\ \A i \in 1 .. Len(rest) : rest[i] = q[i + 1]
      /\ Head(q) \in S
  OBVIOUS
<1> HIDE DEF rest
<1>2. DOMAIN rest = 1 .. Len(rest) /\ Len(rest) \in Nat
  BY <1>1
<1>3. \A i \in 1 .. Len(rest) : i \in Nat /\ i + 1 \in 1 .. Len(q) /\ i + 1 # 1
  BY <1>1, <1>2
<1>4. \A i \in 1 .. Len(q) : i = 1 \/ (i - 1 \in 1 .. Len(rest) /\ (i - 1) + 1 = i)
  BY <1>1, <1>2
<1>5. ASSUME NEW i \in 1 .. Len(rest), NEW j \in 1 .. Len(rest), rest[i] = rest[j]
      PROVE  i = j
  <2>1. q[i + 1] = q[j + 1]
    BY <1>1, <1>5
  <2>2. i + 1 = j + 1
    BY <1>1, <1>3, <2>1 DEF IsInjective
  <2>3. QED
    BY <1>3, <2>2
<1>6. ASSUME NEW i \in 1 .. Len(rest) PROVE rest[i] # Head(q) /\ rest[i] \in Range(q)
  <2>1. 1 \in DOMAIN q /\ i + 1 \in DOMAIN q /\ i + 1 # 1 /\ rest[i] = q[i + 1]
    BY <1>1, <1>3
  <2>2. QED
    BY <1>1, <2>1 DEF IsInjective, Range
<1>7. ASSUME NEW i \in 1 .. Len(q) PROVE q[i] \in Range(rest) \cup {Head(q)}
  <2>1. CASE i = 1
    BY <1>1, <2>1
  <2>2. CASE i # 1
    <3>1. i - 1 \in DOMAIN rest /\ rest[i - 1] = q[i]
      BY <1>1, <1>2, <1>4, <2>2
    <3>2. QED
      BY <3>1 DEF Range
  <2>3. QED
    BY <2>1, <2>2
<1>8. IsInjective(rest)
  BY <1>2, <1>5 DEF IsInjective
<1>9. Head(q) \notin Range(rest)
  BY <1>2, <1>6 DEF Range
<1>10. Range(rest) \subseteq Range(q) /\ Head(q) \in Range(q)
  <2>1. 1 \in DOMAIN q /\ q[1] = Head(q)
    BY <1>1
  <2>2. QED
    BY <1>2, <1>6, <2>1 DEF Range
<1>11. Range(q) \subseteq Range(rest) \cup {Head(q)}
  BY <1>1, <1>7 DEF Range
<1>12. QED
  BY <1>1, <1>8, <1>9, <1>10, <1>11 DEF rest

LEMMA InjectiveConcat ==
  ASSUME NEW S, NEW p \in Seq(S), NEW q \in Seq(S), IsInjective(p), IsInjective(q),
         Range(p) \cap Range(q) = {}
  PROVE  /\ p \o q \in Seq(S) /\ IsInjective(p \o q)
         /\ Range(p \o q) = Range(p) \cup Range(q)
<1> DEFINE r == p \o q
<1>1. /\ r \in Seq(S) /\ Len(r) = Len(p) + Len(q)
      /\ \A i \in 1 .. Len(p) + Len(q) :
           r[i] = IF i <= Len(p) THEN p[i] ELSE q[i - Len(p)]
  BY ConcatProperties
<1>2. /\ Len(p) \in Nat /\ DOMAIN p = 1 .. Len(p)
      /\ Len(q) \in Nat /\ DOMAIN q = 1 .. Len(q)
  OBVIOUS
<1>3. Range(r) = Range(p) \cup Range(q)
  BY RangeConcatenation
<1> HIDE DEF r
<1>4. DOMAIN r = 1 .. Len(p) + Len(q)
  BY <1>1
<1>5. \A i \in 1 .. Len(p) + Len(q) :
        \/ i <= Len(p) /\ i \in DOMAIN p /\ r[i] = p[i]
        \/ Len(p) < i /\ i - Len(p) \in DOMAIN q /\ r[i] = q[i - Len(p)]
  BY <1>1, <1>2
<1>6. \A i \in DOMAIN p, j \in DOMAIN q : p[i] # q[j]
  BY DEF Range
<1>7. ASSUME NEW i \in 1 .. Len(p) + Len(q), NEW j \in 1 .. Len(p) + Len(q), r[i] = r[j]
      PROVE  i = j
  <2>1. CASE i <= Len(p) /\ j <= Len(p)
    BY <1>2, <1>5, <1>7, <2>1 DEF IsInjective
  <2>2. CASE Len(p) < i /\ Len(p) < j
    <3>1. i - Len(p) \in DOMAIN q /\ j - Len(p) \in DOMAIN q
          /\ q[i - Len(p)] = q[j - Len(p)]
      BY <1>2, <1>5, <1>7, <2>2
    <3>2. i - Len(p) = j - Len(p)
      BY <3>1 DEF IsInjective
    <3>3. QED
      BY <1>2, <3>2
  <2>3. QED
    BY <1>2, <1>5, <1>6, <1>7, <2>1, <2>2
<1>8. IsInjective(r)
  BY <1>4, <1>7 DEF IsInjective
<1>9. QED
  BY <1>1, <1>3, <1>8 DEF r


-----------------------------------------------------------------------------
(***************************************************************************)
(* The surface of skills for any skills, profiles and requirements: applied,*)
(* it shows what it lists, with all that this requires and no more, and    *)
(* nothing that stays is hidden on the way.                                *)
(***************************************************************************)

SurfaceTypes ==
    /\ DOMAIN shown = Directories /\ DOMAIN staged = Directories
    /\ DOMAIN sync = {"dir", "doing", "to"}
    /\ sync.dir \in Directories
    /\ sync.doing \in {"nothing", "copy", "delete", "applied"}
    /\ sync.doing = "applied" => sync.dir = "agents"

(* While it runs, and once it is applied, the run is of this surface.      *)
StagedForSurface == sync.doing # "nothing" => staged = Staged(ResolveSurface)

(* The directory of the run: what is not copied yet is still to be copied, *)
(* and then nothing that is staged is to be deleted.                       *)
CopiesGoOn ==
    /\ sync.doing = "copy" =>
         /\ sync.to \subseteq staged[sync.dir]
         /\ staged[sync.dir] \subseteq shown[sync.dir] \cup sync.to
    /\ sync.doing \in {"delete", "applied"} => staged[sync.dir] \subseteq shown[sync.dir]
    /\ sync.doing = "delete" => /\ sync.to \cap staged[sync.dir] = {}
                                /\ sync.dir = "agents" => sync.to \subseteq GsdAgents

(* The commands: what is superseded is to be deleted, or could not be, and *)
(* when the run is at the agents it is done with them.                     *)
CommandsGo ==
    /\ sync.doing = "delete" /\ sync.dir = "commands" =>
         shown["commands"] \subseteq staged["commands"] \cup sync.to \cup stuck
    /\ sync.doing # "nothing" /\ sync.dir = "agents" =>
         /\ staged["commands"] \subseteq shown["commands"]
         /\ shown["commands"] \subseteq staged["commands"] \cup stuck

SurfaceInv == SurfaceTypes /\ StagedForSurface /\ CopiesGoOn /\ CommandsGo

LEMMA StagedFiles ==
  ASSUME NEW skills
  PROVE  /\ DOMAIN Staged(skills) = Directories
         /\ Staged(skills)["commands"] = skills \cap Skills
         /\ Staged(skills)["agents"] = AgentsOf(skills) \cap GsdAgents
BY DEF Staged, Directories

LEMMA SurfaceInitInv == SurfaceInit => SurfaceInv
BY DEF SurfaceInit, SurfaceInv, SurfaceTypes, StagedForSurface, CopiesGoOn, CommandsGo,
       Directories

(* Between two runs nothing is said of the directories.                    *)
LEMMA SurfaceRests ==
  ASSUME SurfaceInv, DOMAIN shown' = Directories, staged' = staged,
         sync' = [sync EXCEPT !.doing = "nothing"]
  PROVE  SurfaceInv'
BY DEF SurfaceInv, SurfaceTypes, StagedForSurface, CopiesGoOn, CommandsGo

LEMMA CommandsRest ==
  ASSUME SurfaceInv,
         \/ WriteSurface \/ Reset
         \/ \E asked \in ProfileChoices \cup {NoProfile} : InstallProfile(asked)
  PROVE  SurfaceInv'
<1>1. /\ staged' = staged /\ sync' = [sync EXCEPT !.doing = "nothing"]
      /\ DOMAIN shown' = Directories
  BY DEF WriteSurface, Reset, InstallProfile, SurfaceInv, SurfaceTypes
<1>2. QED
  BY <1>1, SurfaceRests

LEMMA SurfaceStays ==
  ASSUME UNCHANGED <<surface, marker>> PROVE ResolveSurface' = ResolveSurface
<1>1. BaseProfile' = BaseProfile
  BY DEF BaseProfile
<1>2. QED
  BY <1>1 DEF ResolveSurface

LEMMA ApplyInv == ASSUME SurfaceInv, ApplySurface PROVE SurfaceInv'
<1>1. ResolveSurface' = ResolveSurface
  BY SurfaceStays DEF ApplySurface
<1>2. Staged(ResolveSurface)' = Staged(ResolveSurface)
  BY <1>1 DEF Staged, AgentsOf
<1>3. /\ staged' = Staged(ResolveSurface) /\ shown' = shown
      /\ sync' = [dir |-> "commands", doing |-> "copy", to |-> staged'["commands"]]
  BY DEF ApplySurface
<1>4. DOMAIN staged' = Directories
  BY <1>3, StagedFiles
<1>5. QED
  BY <1>2, <1>3, <1>4 DEF SurfaceInv, SurfaceTypes, StagedForSurface, CopiesGoOn, CommandsGo,
                          Directories

(* A step of the run in one of the directories.                            *)
LEMMA RunGoesOn ==
  ASSUME SurfaceInv, UNCHANGED <<surface, marker, staged>>, sync.doing # "nothing"
  PROVE  StagedForSurface'
<1>1. ResolveSurface' = ResolveSurface
  BY SurfaceStays
<1>2. Staged(ResolveSurface)' = Staged(ResolveSurface)
  BY <1>1 DEF Staged, AgentsOf
<1>3. QED
  BY <1>2 DEF SurfaceInv, StagedForSurface

LEMMA CopyInv == ASSUME SurfaceInv, NEW f, CopyFile(f) PROVE SurfaceInv'
<1>1. /\ sync.doing = "copy" /\ sync' = [sync EXCEPT !.to = @ \ {f}]
      /\ shown' = [shown EXCEPT ![sync.dir] = @ \cup {f}]
      /\ UNCHANGED <<surface, marker, staged, stuck>>
      /\ f \in sync.to
  BY DEF CopyFile
<1>2. /\ sync'.doing = "copy" /\ sync'.dir = sync.dir /\ sync'.to = sync.to \ {f}
      /\ DOMAIN sync' = {"dir", "doing", "to"}
      /\ shown'[sync.dir] = shown[sync.dir] \cup {f}
      /\ sync.dir = "agents" => shown'["commands"] = shown["commands"]
      /\ DOMAIN shown' = Directories
  BY <1>1 DEF SurfaceInv, SurfaceTypes, Directories
<1>3. StagedForSurface'
  BY <1>1, RunGoesOn
<1>4. QED
  BY <1>1, <1>2, <1>3 DEF SurfaceInv, SurfaceTypes, CopiesGoOn, CommandsGo

LEMMA BeginDeletingInv == ASSUME SurfaceInv, BeginDeleting PROVE SurfaceInv'
<1>1. /\ sync.doing = "copy" /\ sync.to = {}
      /\ sync' = [sync EXCEPT !.doing = "delete", !.to = Superseded(sync.dir)]
      /\ UNCHANGED <<surface, marker, shown, staged, stuck>>
  BY DEF BeginDeleting
<1>2. /\ sync'.doing = "delete" /\ sync'.dir = sync.dir /\ sync'.to = Superseded(sync.dir)
      /\ DOMAIN sync' = {"dir", "doing", "to"}
  BY <1>1 DEF SurfaceInv, SurfaceTypes
<1>3. StagedForSurface'
  BY <1>1, RunGoesOn
<1>4. QED
  BY <1>1, <1>2, <1>3 DEF SurfaceInv, SurfaceTypes, CopiesGoOn, CommandsGo, Superseded,
                          Directories

LEMMA DeleteInv == ASSUME SurfaceInv, NEW f, DeleteFile(f) PROVE SurfaceInv'
<1>1. /\ sync.doing = "delete" /\ sync' = [sync EXCEPT !.to = @ \ {f}] /\ f \in sync.to
      /\ \/ shown' = [shown EXCEPT ![sync.dir] = @ \ {f}] /\ stuck' = stuck
         \/ shown' = shown /\ stuck' = stuck \cup {f}
      /\ UNCHANGED <<surface, marker, staged>>
  BY DEF DeleteFile
<1>2. /\ sync'.doing = "delete" /\ sync'.dir = sync.dir /\ sync'.to = sync.to \ {f}
      /\ DOMAIN sync' = {"dir", "doing", "to"}
      /\ \/ shown'[sync.dir] = shown[sync.dir] \ {f} /\ stuck' = stuck
         \/ shown'[sync.dir] = shown[sync.dir] /\ stuck' = stuck \cup {f}
      /\ sync.dir = "agents" => shown'["commands"] = shown["commands"]
      /\ DOMAIN shown' = Directories
  BY <1>1 DEF SurfaceInv, SurfaceTypes, Directories
<1>3. StagedForSurface'
  BY <1>1, RunGoesOn
<1>4. QED
  BY <1>1, <1>2, <1>3 DEF SurfaceInv, SurfaceTypes, CopiesGoOn, CommandsGo, Directories

LEMMA NextDirectoryInv == ASSUME SurfaceInv, NextDirectory PROVE SurfaceInv'
<1>1. /\ sync.doing = "delete" /\ sync.to = {}
      /\ sync' = IF sync.dir = "commands"
                 THEN [dir |-> "agents", doing |-> "copy", to |-> staged["agents"]]
                 ELSE [sync EXCEPT !.doing = "applied"]
      /\ UNCHANGED <<surface, marker, shown, staged, stuck>>
  BY DEF NextDirectory
<1>2. StagedForSurface'
  BY <1>1, RunGoesOn
<1>3. CASE sync.dir = "commands"
  BY <1>1, <1>2, <1>3 DEF SurfaceInv, SurfaceTypes, CopiesGoOn, CommandsGo, Directories
<1>4. CASE sync.dir = "agents"
  <2>1. /\ sync'.doing = "applied" /\ sync'.dir = "agents" /\ sync'.to = {}
        /\ DOMAIN sync' = {"dir", "doing", "to"}
    BY <1>1, <1>4 DEF SurfaceInv, SurfaceTypes
  <2>2. QED
    BY <1>1, <1>2, <1>4, <2>1 DEF SurfaceInv, SurfaceTypes, CopiesGoOn, CommandsGo,
                                  Directories
<1>5. QED
  BY <1>3, <1>4 DEF SurfaceInv, SurfaceTypes, Directories

LEMMA SurfaceNextInv == SurfaceInv /\ [SurfaceNext]_surfaceVars => SurfaceInv'
<1> SUFFICES ASSUME SurfaceInv, [SurfaceNext]_surfaceVars PROVE SurfaceInv'
  OBVIOUS
<1>1. CASE UNCHANGED surfaceVars
  <2>1. sync' = sync /\ shown' = shown /\ staged' = staged /\ stuck' = stuck
    BY <1>1 DEF surfaceVars
  <2>2. StagedForSurface'
    BY <1>1, <2>1, RunGoesOn DEF surfaceVars, StagedForSurface
  <2>3. QED
    BY <2>1, <2>2 DEF SurfaceInv, SurfaceTypes, CopiesGoOn, CommandsGo
<1>2. CASE \/ WriteSurface \/ Reset
           \/ \E asked \in ProfileChoices \cup {NoProfile} : InstallProfile(asked)
  BY <1>2, CommandsRest
<1>3. CASE ApplySurface
  BY <1>3, ApplyInv
<1>4. ASSUME NEW f \in sync.to, CopyFile(f) \/ DeleteFile(f) PROVE SurfaceInv'
  BY <1>4, CopyInv, DeleteInv
<1>5. CASE BeginDeleting \/ NextDirectory
  BY <1>5, BeginDeletingInv, NextDirectoryInv
<1>6. CASE CutShort
  <2>1. /\ sync' = [sync EXCEPT !.doing = "nothing", !.to = {}]
        /\ UNCHANGED <<shown, staged>>
    BY <1>6 DEF CutShort
  <2>2. QED
    BY <2>1 DEF SurfaceInv, SurfaceTypes, StagedForSurface, CopiesGoOn, CommandsGo
<1>7. QED
  BY <1>1, <1>2, <1>3, <1>4, <1>5, <1>6 DEF SurfaceNext

-----------------------------------------------------------------------------
(* What is staged is what the surface lists as enabled.                    *)
LEMMA SurfaceShown == SurfaceInv => SurfaceIsShown
<1> SUFFICES ASSUME SurfaceInv, sync.doing = "applied" PROVE SurfaceIsShown
  BY DEF SurfaceIsShown
<1>1. staged = Staged(ResolveSurface) /\ sync.dir = "agents"
  BY DEF SurfaceInv, SurfaceTypes, StagedForSurface
<1>2. /\ staged["commands"] = Skills \cap ResolveSurface
      /\ staged["agents"] = AgentsOf(Skills \cap ResolveSurface) \cap GsdAgents
  BY <1>1, StagedFiles DEF AgentsOf
<1>3. /\ staged["commands"] \subseteq shown["commands"]
      /\ shown["commands"] \subseteq staged["commands"] \cup stuck
      /\ staged["agents"] \subseteq shown["agents"]
  BY <1>1 DEF SurfaceInv, CopiesGoOn, CommandsGo
<1>4. QED
  BY <1>2, <1>3 DEF SurfaceIsShown, ListSurface

LEMMA SupersededGo == SurfaceInv /\ [SurfaceNext]_surfaceVars => OnlySupersededFilesGo
<1> SUFFICES ASSUME SurfaceInv, [SurfaceNext]_surfaceVars, sync.doing \in {"copy", "delete"}
             PROVE  /\ \A d \in Directories : shown[d] \cap staged[d] \subseteq shown'[d]
                    /\ shown["agents"] \cap UserFiles \subseteq shown'["agents"]
  BY DEF OnlySupersededFilesGo
<1>1. CASE shown' = shown
  BY <1>1
<1>2. ASSUME NEW f \in sync.to, sync.doing = "copy",
             shown' = [shown EXCEPT ![sync.dir] = @ \cup {f}]
      PROVE  \A d \in Directories : shown[d] \subseteq shown'[d]
  BY <1>2 DEF SurfaceInv, SurfaceTypes
<1>3. ASSUME NEW f \in sync.to, sync.doing = "delete",
             shown' = [shown EXCEPT ![sync.dir] = @ \ {f}]
      PROVE  /\ \A d \in Directories : shown[d] \cap staged[d] \subseteq shown'[d]
             /\ shown["agents"] \cap UserFiles \subseteq shown'["agents"]
  <2>1. f \notin staged[sync.dir] /\ sync.dir = "agents" => f \in GsdAgents \ UserFiles
    BY <1>3, SurfaceAssumption DEF SurfaceInv, CopiesGoOn
  <2>2. QED
    BY <1>3, <2>1 DEF SurfaceInv, SurfaceTypes, CopiesGoOn, Directories
<1>4. QED
  BY <1>1, <1>2, <1>3 DEF SurfaceNext, surfaceVars, WriteSurface, Reset, InstallProfile, Rests,
     ApplySurface, CopyFile, DeleteFile, BeginDeleting, NextDirectory, CutShort, Directories

(* --------------------- what the surface requires ---------------------- *)

(* One round of computeClosure, on the sets that can occur in it.          *)
Round(base) ==
    [x \in Nat \X SUBSET (Stems \cup base) |-> x[2] \cup RequiredBy(x[2])]

AreRounds(after, base) ==
    /\ after \in [0 .. Cardinality(Skills) -> SUBSET (Stems \cup base)]
    /\ after[0] = base
    /\ \A n \in 0 .. Cardinality(Skills) - 1 :
         after[n + 1] = after[n] \cup RequiredBy(after[n])

(* The rounds of the closure are what its recursion says.                  *)
LEMMA ClosureRounds ==
  ASSUME NEW base
  PROVE  \E after : AreRounds(after, base) /\ Closure(base) = after[Cardinality(Skills)]
<1> DEFINE N == Cardinality(Skills)
           V == SUBSET (Stems \cup base)
           Rounds(f) == f = [n \in 0 .. N |-> IF n = 0 THEN base
                                             ELSE f[n - 1] \cup RequiredBy(f[n - 1])]
           after == CHOOSE f : Rounds(f)
<1>1. N \in Nat
  BY SurfaceAssumption, FS_CardinalityType
<1>2. \A S \in V : S \cup RequiredBy(S) \in V
  BY DEF RequiredBy, Stems
<1>3. /\ base \in V /\ Round(base) \in [Nat \X V -> V]
      /\ \A n \in Nat, S \in V : Round(base)[<<n, S>>] = S \cup RequiredBy(S)
  BY <1>2 DEF Round
<1> HIDE DEF N, V
<1>4. PICK f : Repeats(f, Round(base), base, N, V)
  BY <1>1, <1>3, RepeatedStep
<1>5. \A n \in 0 .. N - 1 : f[n + 1] = f[n] \cup RequiredBy(f[n])
  <2>1. SUFFICES ASSUME NEW n \in 0 .. N - 1 PROVE f[n + 1] = f[n] \cup RequiredBy(f[n])
    OBVIOUS
  <2>2. n \in Nat /\ f[n] \in V /\ f[n + 1] = Round(base)[<<n, f[n]>>]
    BY <1>1, <1>4, <2>1 DEF Repeats
  <2>3. QED
    BY <1>3, <2>2
<1>6. Rounds(f)
  <2>1. \A n \in 0 .. N : f[n] = IF n = 0 THEN base ELSE f[n - 1] \cup RequiredBy(f[n - 1])
    <3>1. SUFFICES ASSUME NEW n \in 0 .. N, n # 0
                   PROVE  f[n] = f[n - 1] \cup RequiredBy(f[n - 1])
      BY <1>4 DEF Repeats
    <3>2. n - 1 \in 0 .. N - 1 /\ (n - 1) + 1 = n
      BY <1>1, <3>1
    <3>3. QED
      BY <1>5, <3>2
  <2>2. QED
    BY <1>4, <2>1 DEF Repeats
<1>7. Rounds(after)
  BY <1>6
<1>8. Closure(base) = after[N]
  BY DEF Closure, N
<1> HIDE DEF after
<1>9. after[0] = base /\ DOMAIN after = 0 .. N
  BY <1>1, <1>7
<1>10. \A n \in 0 .. N - 1 : after[n + 1] = after[n] \cup RequiredBy(after[n])
  <2>1. SUFFICES ASSUME NEW n \in 0 .. N - 1 PROVE after[n + 1] = after[n] \cup RequiredBy(after[n])
    OBVIOUS
  <2>2. n + 1 \in 0 .. N /\ n + 1 # 0 /\ (n + 1) - 1 = n
    BY <1>1, <2>1
  <2>3. QED
    BY <1>7, <2>2
<1>11. \A n \in Nat : n \in {m \in Nat : m \in 0 .. N => after[m] \in V}
  <2> DEFINE S == {m \in Nat : m \in 0 .. N => after[m] \in V}
  <2>1. 0 \in S
    BY <1>3, <1>9
  <2>2. \A n \in Nat : n \in S => n + 1 \in S
    <3>1. SUFFICES ASSUME NEW n \in Nat, n \in S, n + 1 \in 0 .. N PROVE after[n + 1] \in V
      OBVIOUS
    <3>2. n \in 0 .. N - 1 /\ after[n] \in V
      BY <1>1, <3>1
    <3>3. QED
      BY <1>2, <1>10, <3>2 DEF V
  <2> HIDE DEF S
  <2>3. QED
    BY <2>1, <2>2, NumbersFromZero DEF S
<1>12. after \in [0 .. N -> V]
  <2>1. \A n \in 0 .. N : n \in Nat
    OBVIOUS
  <2>2. \A n \in 0 .. N : after[n] \in V
    BY <1>11, <2>1
  <2>3. after = [n \in 0 .. N |-> after[n]]
    BY <1>7
  <2>4. QED
    BY <2>2, <2>3
<1>13. QED
  BY <1>8, <1>9, <1>10, <1>12 DEF N, V, AreRounds

(* A closure has its base, and what it requires: as long as a round finds  *)
(* anything, there are more skills after it, and there are not more rounds *)
(* than skills.                                                            *)
LEMMA ClosureIsClosed ==
  ASSUME NEW base
  PROVE  /\ base \subseteq Closure(base) /\ Closure(base) \subseteq Stems \cup base
         /\ RequiredBy(Closure(base)) \subseteq Closure(base)
<1> DEFINE N == Cardinality(Skills)
           Closed(S) == RequiredBy(S) \subseteq S
<1>1. N \in Nat /\ IsFiniteSet(Skills)
  BY SurfaceAssumption, FS_CardinalityType
<1>2. PICK after :
        /\ after \in [0 .. N -> SUBSET (Stems \cup base)]
        /\ Closure(base) = after[N] /\ after[0] = base
        /\ \A n \in 0 .. N - 1 : after[n + 1] = after[n] \cup RequiredBy(after[n])
  <2>1. PICK after : AreRounds(after, base) /\ Closure(base) = after[N]
    BY ClosureRounds
  <2>2. QED
    BY <2>1 DEF AreRounds
<1> DEFINE Size(n) == Cardinality(after[n] \cap Skills)
           S == {n \in Nat : n \in 0 .. N =>
                   base \subseteq after[n] /\ (Closed(after[n]) \/ Size(n) > n)}
<1>3. \A n \in 0 .. N : Size(n) \in Nat /\ Size(n) <= N /\ IsFiniteSet(after[n] \cap Skills)
  BY <1>1, FS_Subset, FS_CardinalityType
<1>4. 0 \in S
  <2>1. CASE base \cap Skills = {}
    <3>1. Closed(base)
      BY <2>1 DEF RequiredBy
    <3>2. QED
      BY <1>2, <3>1
  <2>2. CASE base \cap Skills # {}
    <3>1. 0 \in 0 .. N
      BY <1>1
    <3>2. Size(0) # 0
      BY <1>2, <1>3, <2>2, <3>1, FS_EmptySet
    <3>3. Size(0) > 0
      BY <1>3, <3>1, <3>2
    <3>4. QED
      BY <1>2, <3>3
  <2>3. QED
    BY <2>1, <2>2
<1>5. ASSUME NEW n \in Nat, n \in S PROVE n + 1 \in S
  <2>1. SUFFICES ASSUME n + 1 \in 0 .. N
                 PROVE  base \subseteq after[n + 1] /\ (Closed(after[n + 1]) \/ Size(n + 1) > n + 1)
    OBVIOUS
  <2>2. /\ n \in 0 .. N - 1 /\ n \in 0 .. N
        /\ base \subseteq after[n] /\ (Closed(after[n]) \/ Size(n) > n)
    BY <1>1, <1>5, <2>1
  <2>3. after[n + 1] = after[n] \cup RequiredBy(after[n])
    BY <1>2, <2>2
  <2>4. CASE Closed(after[n])
    BY <2>2, <2>3, <2>4
  <2>5. CASE after[n + 1] \cap Skills = after[n] \cap Skills
    <3>1. RequiredBy(after[n + 1]) = RequiredBy(after[n])
      BY <2>5 DEF RequiredBy
    <3>2. QED
      BY <2>2, <2>3, <3>1
  <2>6. CASE ~Closed(after[n]) /\ after[n + 1] \cap Skills # after[n] \cap Skills
    <3> DEFINE A == after[n] \cap Skills
               B == after[n + 1] \cap Skills
    <3>1. A \in SUBSET B /\ A # B /\ IsFiniteSet(B)
      BY <1>3, <2>1, <2>3, <2>6
    <3>2. Cardinality(A) <= Cardinality(B) /\ Cardinality(A) # Cardinality(B)
      BY <3>1, FS_Subset
    <3>3. Size(n) > n /\ Size(n) \in Nat /\ Size(n + 1) \in Nat
      BY <1>3, <2>1, <2>2, <2>6
    <3> HIDE DEF Closed
    <3>4. Size(n + 1) > n + 1
      BY <3>2, <3>3
    <3>5. QED
      BY <2>2, <2>3, <3>4
  <2>7. QED
    BY <2>4, <2>5, <2>6
<1> HIDE DEF S
<1>6. N \in S
  BY <1>1, <1>4, <1>5, NumbersFromZero
<1>7. base \subseteq after[N] /\ (Closed(after[N]) \/ Size(N) > N)
  BY <1>1, <1>6 DEF S
<1>8. N \in 0 .. N /\ ~(Size(N) > N)
  BY <1>1, <1>3
<1>9. QED
  BY <1>2, <1>7, <1>8

(* A profile without changes of the user's is closed, too.                 *)
LEMMA ProfilesAreClosed ==
  ASSUME NEW modes PROVE RequiredBy(ProfileSkills(modes)) \cap Skills \subseteq ProfileSkills(modes)
<1>1. CASE IsFull(modes)
  BY <1>1 DEF ProfileSkills
<1>2. CASE ~IsFull(modes)
  <2>1. SUFFICES ASSUME NEW p \in Known(modes), NEW s \in Closure(Profiles[p]) \cap Skills,
                        NEW r \in Requires[s]
                 PROVE  r \in Closure(Profiles[p])
    BY <1>2 DEF ProfileSkills, RequiredBy
  <2>2. r \in RequiredBy(Closure(Profiles[p]))
    BY <2>1 DEF RequiredBy
  <2>3. QED
    BY <2>2, ClosureIsClosed
<1>3. QED
  BY <1>1, <1>2

(* A skill that is shown without what it requires was wanted so.           *)
LEMMA RequirementsMet == RequirementsAreMet
<1> SUFFICES ASSUME NEW s \in Skills \cap ResolveSurface,
                    NEW r \in (Requires[s] \cap Skills) \ ResolveSurface
             PROVE  /\ surface # NoSurface
                    /\ r \notin surface.removes =>
                         r \in ClusterSkills(surface.disabled) /\ ~Reaches(surface.adds, r)
  BY DEF RequirementsAreMet
<1> DEFINE profile == ProfileSkills(BaseProfile)
           wished == Closure(surface.adds)
<1>1. s \in profile => r \in profile
  BY ProfilesAreClosed DEF RequiredBy
<1>2. s \in wished => r \in wished
  <2>1. s \in wished => r \in RequiredBy(wished)
    BY DEF RequiredBy
  <2>2. QED
    BY <2>1, ClosureIsClosed
<1>3. r \notin wished => ~Reaches(surface.adds, r)
  BY ClosureIsClosed DEF Reaches
<1> HIDE DEF profile, wished
<1>4. CASE surface = NoSurface
  BY <1>1, <1>4 DEF ResolveSurface, profile
<1>5. CASE surface # NoSurface
  BY <1>1, <1>2, <1>3, <1>5 DEF ResolveSurface, profile, wished
<1>6. QED
  BY <1>4, <1>5

(* For any skills, profiles, clusters, wishes of the user and faults: an   *)
(* applied surface shows what it lists, with what that requires, and a run *)
(* hides on the way nothing that stays.                                    *)
THEOREM SurfaceHolds == SurfaceSpec => SurfaceConverges
<1>1. SurfaceInv => RequirementsAreMet
  BY RequirementsMet
<1>2. SurfaceInv /\ SurfaceInv' /\ [SurfaceNext]_surfaceVars =>
        [OnlySupersededFilesGo /\ SurfaceIsShown' /\ RequirementsAreMet']_surfaceVars
  BY <1>1, SurfaceShown, SupersededGo, PTL
<1>3. QED
  BY <1>2, SurfaceInitInv, SurfaceNextInv, PTL DEF SurfaceSpec, SurfaceConverges

-----------------------------------------------------------------------------
(***************************************************************************)
(* The knowledge graph for any graphs, commits, terms and budgets, built by*)
(* processes side by side: answers fit it, and so do its age and its diff. *)
(***************************************************************************)

(* Every commit has its ancestors and its graph, and the head is kept.     *)
HistoryFits ==
    /\ history \in Seq(SUBSET Nat) /\ codeOf \in Seq(GraphsOfCode)
    /\ Len(codeOf) = Len(history)
    /\ gitHead \in commitsKept /\ commitsKept \subseteq DOMAIN history
    /\ \A c \in DOMAIN history : history[c] \subseteq 1 .. c

(* The three files have the graph of a commit, or are not there.           *)
FilesFitHistory ==
    /\ \A file \in {graphOut, graphJson, snapshot} :
         file = NoGraph \/ (file.built_at \in DOMAIN history /\ file.graph \in GraphsOfCode)
    /\ DOMAIN builder = Builders

(* Between builds that got to their end the snapshot is of the graph.      *)
SnapshotFollows ==
    unrecorded \/ (\E b \in Builders : builder[b] = "snapshot") \/ snapshot = graphJson

GraphInv == HistoryFits /\ FilesFitHistory /\ SnapshotFollows

LEMMA GraphInitInv == GraphInit => GraphInv
<1> SUFFICES ASSUME GraphInit PROVE GraphInv
  OBVIOUS
<1>1. PICK g \in GraphsOfCode : codeOf = <<g>>
  BY DEF GraphInit
<1>2. HistoryFits
  BY <1>1 DEF GraphInit, HistoryFits
<1>3. QED
  BY <1>2 DEF GraphInit, GraphInv, FilesFitHistory, SnapshotFollows

LEMMA CommitGraph == ASSUME GraphInv, CommitCode PROVE GraphInv'
<1>1. PICK g \in GraphsOfCode, amend \in BOOLEAN :
        LET new == Len(history) + 1 IN
        /\ history' = Append(history, {new} \cup IF amend THEN history[gitHead] \ {gitHead}
                                                 ELSE history[gitHead])
        /\ codeOf' = Append(codeOf, g)
        /\ commitsKept' = {new} \cup IF amend THEN commitsKept \ {gitHead} ELSE commitsKept
        /\ gitHead' = new
  BY DEF CommitCode
<1> DEFINE new == Len(history) + 1
           line == {new} \cup IF amend THEN history[gitHead] \ {gitHead} ELSE history[gitHead]
<1>2. /\ Len(history) \in Nat /\ DOMAIN history = 1 .. Len(history)
      /\ history[gitHead] \subseteq 1 .. gitHead /\ gitHead \in 1 .. Len(history)
  BY DEF GraphInv, HistoryFits
<1>3. line \in SUBSET Nat /\ line \subseteq 1 .. new
  BY <1>2
<1>4. history' = Append(history, line) /\ codeOf' = Append(codeOf, g)
  BY <1>1
<1> HIDE DEF line
<1>5. /\ history' \in Seq(SUBSET Nat) /\ Len(history') = new /\ DOMAIN history' = 1 .. new
      /\ history'[new] = line /\ \A c \in DOMAIN history : history'[c] = history[c]
      /\ codeOf' \in Seq(GraphsOfCode) /\ Len(codeOf') = new
  BY <1>2, <1>3, <1>4, AppendProperties DEF GraphInv, HistoryFits
<1>6. HistoryFits'
  <2>1. gitHead' \in commitsKept' /\ commitsKept' \subseteq DOMAIN history'
    BY <1>1, <1>2, <1>5 DEF GraphInv, HistoryFits
  <2>2. \A c \in DOMAIN history' : history'[c] \subseteq 1 .. c
    BY <1>2, <1>3, <1>5 DEF GraphInv, HistoryFits
  <2>3. QED
    BY <1>5, <2>1, <2>2 DEF HistoryFits
<1>7. FilesFitHistory' /\ SnapshotFollows'
  BY <1>2, <1>5 DEF CommitCode, GraphInv, FilesFitHistory, SnapshotFollows
<1>8. QED
  BY <1>6, <1>7 DEF GraphInv

LEMMA BuildGraph ==
  ASSUME GraphInv, NEW b \in Builders,
         \/ GraphifyBuild(b) \/ Extract(b) \/ CopyGraph(b) \/ WriteSnapshot(b) \/ BuildFails(b)
  PROVE  GraphInv'
<1>1. HistoryFits'
  BY DEF GraphifyBuild, Extract, CopyGraph, WriteSnapshot, BuildFails, gitVars, GraphInv,
         HistoryFits
<1>2. codeOf[gitHead] \in GraphsOfCode /\ gitHead \in DOMAIN history
  BY DEF GraphInv, HistoryFits
<1>3. FilesFitHistory'
  <2>1. DOMAIN builder' = Builders /\ history' = history
    BY DEF GraphifyBuild, Extract, CopyGraph, WriteSnapshot, BuildFails, Builds, gitVars,
           GraphInv, FilesFitHistory
  <2>2. CASE Extract(b)
    BY <1>2, <2>1, <2>2 DEF Extract, GraphInv, FilesFitHistory
  <2>3. CASE ~Extract(b)
    BY <2>1, <2>3
       DEF GraphifyBuild, CopyGraph, WriteSnapshot, BuildFails, GraphInv, FilesFitHistory
  <2>4. QED
    BY <2>2, <2>3
<1>4. SnapshotFollows'
  <2>1. \A c \in Builders \ {b} : builder'[c] = builder[c]
    BY DEF GraphifyBuild, Extract, CopyGraph, WriteSnapshot, BuildFails, Builds, GraphInv,
           FilesFitHistory
  <2>2. CASE CopyGraph(b)
    BY <2>2 DEF CopyGraph, Builds, GraphInv, FilesFitHistory, SnapshotFollows
  <2>3. CASE WriteSnapshot(b)
    BY <2>3 DEF WriteSnapshot, SnapshotFollows
  <2>4. CASE GraphifyBuild(b) \/ Extract(b) \/ BuildFails(b)
    BY <2>1, <2>4
       DEF GraphifyBuild, Extract, BuildFails, Builds, GraphInv, FilesFitHistory, SnapshotFollows
  <2>5. QED
    BY <2>2, <2>3, <2>4
<1>5. QED
  BY <1>1, <1>3, <1>4 DEF GraphInv

LEMMA GraphNextInv == GraphInv /\ [GraphNext]_graphVars => GraphInv'
<1> SUFFICES ASSUME GraphInv, [GraphNext]_graphVars PROVE GraphInv'
  OBVIOUS
<1>1. CASE UNCHANGED graphVars
  BY <1>1 DEF graphVars, GraphInv, HistoryFits, FilesFitHistory, SnapshotFollows
<1>2. CASE CheckoutCode
  BY <1>2 DEF CheckoutCode, GraphInv, HistoryFits, FilesFitHistory, SnapshotFollows
<1>3. QED
  BY <1>1, <1>2, CommitGraph, BuildGraph DEF GraphNext

(* ------------------------------ the answers ---------------------------- *)

(* Two graphs that are the same differ in nothing.                         *)
LEMMA SameGraphsDoNotDiffer == GraphInv => OnlyUnfinishedBuildsDiffer
<1> SUFFICES ASSUME GraphInv, snapshot = graphJson PROVE GraphifyDiff = NoDifference
  BY DEF GraphInv, SnapshotFollows, OnlyUnfinishedBuildsDiffer
<1> DEFINE g == graphJson.graph
<1>1. {k \in EdgeKeys(g) \cap EdgeKeys(g) : LastOfKey(g, k) # LastOfKey(g, k)} = {}
  OBVIOUS
<1>2. (g.nodes \ g.nodes) \cup (g.nodes \ g.nodes) = {}
  OBVIOUS
<1>3. (EdgeKeys(g) \ EdgeKeys(g)) \cup (EdgeKeys(g) \ EdgeKeys(g)) = {}
  OBVIOUS
<1>4. snapshot.graph = g
  OBVIOUS
<1> HIDE DEF g
<1>5. QED
  BY <1>1, <1>2, <1>3, <1>4 DEF GraphifyDiff, NoDifference, g

(* No commits between two commits means that none is missing.              *)
LEMMA FreshIsComplete == GraphInv => FreshMissesNothing
<1> SUFFICES ASSUME GraphInv, CommitStale = "fresh"
             PROVE  /\ graphJson.built_at \in commitsKept
                    /\ history[gitHead] \subseteq history[graphJson.built_at]
  BY DEF FreshMissesNothing
<1> DEFINE missing == history[gitHead] \ history[graphJson.built_at]
<1>1. /\ graphJson.built_at \in commitsKept
      /\ ~(Cardinality(missing) > 0)
  BY DEF CommitStale, CountCommitsBetween, Unknown
<1>2. gitHead \in Nat /\ missing \in SUBSET (1 .. gitHead)
  BY DEF GraphInv, HistoryFits
<1> HIDE DEF missing
<1>3. IsFiniteSet(missing) /\ Cardinality(missing) \in Nat
  <2>1. IsFiniteSet(1 .. gitHead)
    BY <1>2, FS_Interval
  <2>2. IsFiniteSet(missing)
    BY <1>2, <2>1, FS_Subset
  <2>3. QED
    BY <2>2, FS_CardinalityType
<1>4. Cardinality(missing) = 0
  BY <1>1, <1>3
<1>5. missing = {}
  BY <1>3, <1>4, FS_EmptySet
<1>6. QED
  BY <1>1, <1>5 DEF missing

(* A walk of two hops: what it visited is where it began and the ends of   *)
(* the edges that it collected.                                            *)
LEMMA ExpandedFacts ==
  ASSUME NEW g, NEW seeds
  PROVE  /\ Expanded(g, seeds).visited = seeds \cup EndsOf(g, Expanded(g, seeds).edges)
         /\ Expanded(g, seeds).edges \subseteq DOMAIN g.edges
<1> DEFINE start == [visited |-> seeds, frontier |-> seeds, edges |-> {}]
           next(r) == [visited |-> r.visited \cup EndsOf(g, EdgesAt(g, r.frontier)),
                       frontier |-> EndsOf(g, EdgesAt(g, r.frontier)) \ r.visited,
                       edges |-> r.edges \cup EdgesAt(g, r.frontier)]
           After(f) == [hop \in 0 .. 2 |-> IF hop = 0 THEN start ELSE next(f[hop - 1])]
           after == CHOOSE f : f = After(f)
           walk == [hop \in 0 .. 2 |-> IF hop = 0 THEN start
                                       ELSE IF hop = 1 THEN next(start) ELSE next(next(start))]
<1>1. Expanded(g, seeds) = after[2]
  BY DEF Expanded, Hops
<1> HIDE DEF start, next
<1>2. walk = After(walk)
  <2>1. walk[0] = start /\ walk[1] = next(start) /\ walk[2] = next(next(start))
    OBVIOUS
  <2>2. walk = [hop \in 0 .. 2 |-> walk[hop]]
    OBVIOUS
  <2> HIDE DEF walk
  <2>3. \A hop \in 0 .. 2 : walk[hop] = IF hop = 0 THEN start ELSE next(walk[hop - 1])
    BY <2>1
  <2>4. QED
    BY <2>2, <2>3
<1>3. after = After(after)
  BY <1>2
<1> HIDE DEF after
<1>4. after[0] = start /\ after[1] = next(after[0]) /\ after[2] = next(after[1])
  BY <1>3
<1> USE DEF start, next
<1> DEFINE first == EdgesAt(g, seeds)
           second == EdgesAt(g, after[1].frontier)
<1>5. after[1].visited = seeds \cup EndsOf(g, first) /\ after[1].edges = first
  BY <1>4
<1>6. /\ after[2].visited = after[1].visited \cup EndsOf(g, second)
      /\ after[2].edges = after[1].edges \cup second
  BY <1>4
<1>7. first \subseteq DOMAIN g.edges /\ second \subseteq DOMAIN g.edges
  BY DEF EdgesAt
<1> HIDE DEF first, second
<1>8. EndsOf(g, first) \cup EndsOf(g, second) = EndsOf(g, first \cup second)
  BY DEF EndsOf
<1>9. QED
  BY <1>1, <1>5, <1>6, <1>7, <1>8

(* What an answer has: its nodes are where it began and the ends of its    *)
(* edges, and it has all of these that are listed.                         *)
LEMMA AnswerFacts ==
  ASSUME NEW g, NEW term, NEW budget
  PROVE  LET answer == GraphifyQuery(g, term, budget)
             all == GraphifyQuery(g, term, 0)
         IN /\ answer.nodes = (answer.seeds \cup EndsOf(g, answer.edges)) \cap g.nodes
            /\ answer.seeds = all.seeds /\ answer.edges \subseteq all.edges
            /\ answer.nodes \subseteq all.nodes
            /\ all.edges \subseteq DOMAIN g.edges
            /\ budget # 0 => answer.edges = WithoutTiers(g, all.edges, TiersDropped(g, all, budget))
<1> DEFINE found == SeedAndExpand(g, term)
           left == WithoutTiers(g, found.edges, TiersDropped(g, found, budget))
<1>1. /\ found.nodes = (found.seeds \cup EndsOf(g, found.edges)) \cap g.nodes
      /\ found.edges \subseteq DOMAIN g.edges
      /\ DOMAIN found = {"nodes", "edges", "seeds"}
  BY ExpandedFacts DEF SeedAndExpand
<1> HIDE DEF found
<1>2. GraphifyQuery(g, term, 0) = found
  BY DEF GraphifyQuery, ApplyBudget, found
<1>3. CASE budget = 0
  BY <1>1, <1>2, <1>3
<1>4. CASE budget # 0
  <2>1. GraphifyQuery(g, term, budget) =
          [found EXCEPT !.edges = left,
                        !.nodes = found.nodes \cap (found.seeds \cup EndsOf(g, left))]
    BY <1>4 DEF GraphifyQuery, ApplyBudget, found
  <2>2. left \subseteq found.edges
    BY DEF WithoutTiers
  <2>3. EndsOf(g, left) \subseteq EndsOf(g, found.edges)
    BY <2>2 DEF EndsOf
  <2> HIDE DEF left
  <2>4. QED
    BY <1>1, <1>2, <1>4, <2>1, <2>2, <2>3 DEF left
<1>5. QED
  BY <1>3, <1>4

(* A path begins at a node that was matched, and each edge on it takes it  *)
(* to an end of an edge.                                                   *)
LEMMA PathsStay ==
  ASSUME NEW g, NEW answer, Len(g.edges) \in Nat
  PROVE  ReachedBy(g, answer) \subseteq answer.seeds \cup EndsOf(g, answer.edges)
<1> DEFINE N == Len(g.edges)
           all == answer.seeds \cup EndsOf(g, answer.edges)
           next(S) == S \cup UNION {IF ends \cap S # {} THEN ends ELSE {} :
                                      ends \in {{g.edges[i].source, g.edges[i].target} :
                                                  i \in answer.edges}}
           Reach(f) == [n \in 0 .. N |-> IF n = 0 THEN answer.seeds ELSE next(f[n - 1])]
           reach == CHOOSE f : f = Reach(f)
           step == [x \in Nat \X SUBSET all |-> next(x[2])]
<1>1. ReachedBy(g, answer) = reach[N]
  BY DEF ReachedBy
<1>2. \A S \in SUBSET all : next(S) \in SUBSET all
  BY DEF EndsOf
<1>3. answer.seeds \in SUBSET all
  OBVIOUS
<1> HIDE DEF next, all
<1>4. /\ step \in [Nat \X SUBSET all -> SUBSET all]
      /\ \A n \in Nat, S \in SUBSET all : step[<<n, S>>] = next(S)
  BY <1>2
<1> HIDE DEF step
<1>5. PICK f : Repeats(f, step, answer.seeds, N, SUBSET all)
  BY <1>3, <1>4, RepeatedStep
<1>6. f = Reach(f)
  <2>1. \A n \in 0 .. N : f[n] = IF n = 0 THEN answer.seeds ELSE next(f[n - 1])
    <3>1. SUFFICES ASSUME NEW n \in 0 .. N, n # 0 PROVE f[n] = next(f[n - 1])
      BY <1>5 DEF Repeats
    <3>2. n - 1 \in 0 .. N - 1 /\ n - 1 \in 0 .. N /\ n - 1 \in Nat /\ (n - 1) + 1 = n
      BY <3>1
    <3>3. f[n - 1] \in SUBSET all /\ f[n] = step[<<n - 1, f[n - 1]>>]
      BY <1>5, <3>2 DEF Repeats
    <3>4. QED
      BY <1>4, <3>2, <3>3
  <2>2. f = [n \in 0 .. N |-> f[n]]
    BY <1>5 DEF Repeats
  <2>3. QED
    BY <2>1, <2>2
<1>7. reach = Reach(reach)
  BY <1>6
<1> HIDE DEF reach
<1> DEFINE S == {n \in Nat : n \in 0 .. N => reach[n] \in SUBSET all}
<1>8. 0 \in S
  BY <1>3, <1>7
<1>9. ASSUME NEW n \in Nat, n \in S PROVE n + 1 \in S
  <2>1. SUFFICES ASSUME n + 1 \in 0 .. N PROVE reach[n + 1] \in SUBSET all
    OBVIOUS
  <2>2. n \in 0 .. N /\ n + 1 # 0 /\ (n + 1) - 1 = n
    BY <1>9, <2>1
  <2>3. reach[n + 1] = next(reach[n])
    BY <1>7, <2>1, <2>2
  <2>4. QED
    BY <1>2, <1>9, <2>2, <2>3
<1> HIDE DEF S
<1>10. N \in S
  BY <1>8, <1>9, NumbersFromZero
<1>11. QED
  BY <1>1, <1>10 DEF S, all

LEMMA BudgetKeeps == GraphInv => BudgetKeepsPaths
<1> SUFFICES ASSUME GraphInv, graphJson # NoGraph,
                    NEW term \in DOMAIN MatchesOf, NEW budget \in Budgets
             PROVE  LET g == graphJson.graph
                        answer == GraphifyQuery(g, term, budget)
                    IN ReachedBy(g, answer) \cap g.nodes \subseteq answer.nodes
  BY DEF BudgetKeepsPaths
<1> DEFINE g == graphJson.graph
           answer == GraphifyQuery(g, term, budget)
<1>1. Len(g.edges) \in Nat
  BY GraphsAssumption DEF GraphInv, FilesFitHistory
<1>2. answer.nodes = (answer.seeds \cup EndsOf(g, answer.edges)) \cap g.nodes
  BY AnswerFacts
<1> HIDE DEF g, answer
<1>3. ReachedBy(g, answer) \subseteq answer.seeds \cup EndsOf(g, answer.edges)
  BY <1>1, PathsStay
<1>4. ReachedBy(g, answer) \cap g.nodes \subseteq answer.nodes
  BY <1>2, <1>3
<1>5. QED
  BY <1>4 DEF g, answer

(* The least number of tiers that fits, or all three.                      *)
LEMMA TiersFacts ==
  ASSUME NEW g, NEW found, NEW budget
  PROVE  LET n == TiersDropped(g, found, budget)
         IN \/ n = 3
            \/ EstimateTokens(found.nodes, WithoutTiers(g, found.edges, n)) <= budget
<1> DEFINE fits == {n \in 0 .. 3 :
                     EstimateTokens(found.nodes, WithoutTiers(g, found.edges, n)) <= budget}
           n == TiersDropped(g, found, budget)
<1>1. CASE fits = {}
  BY <1>1 DEF TiersDropped
<1>2. CASE fits # {}
  <2>1. fits \in SUBSET Nat
    OBVIOUS
  <2>2. \E m \in fits : \A other \in fits : m <= other
    BY <1>2, <2>1, LeastNumber
  <2>3. n = CHOOSE m \in fits : \A other \in fits : m <= other
    BY <1>2 DEF TiersDropped
  <2> HIDE DEF n
  <2>4. n \in fits
    BY <2>2, <2>3
  <2>5. QED
    BY <2>4 DEF n
<1>3. QED
  BY <1>1, <1>2

LEMMA BudgetFits == GraphInv => BudgetIsKept
<1> SUFFICES ASSUME GraphInv, graphJson # NoGraph,
                    NEW term \in DOMAIN MatchesOf, NEW budget \in Budgets \ {0}
             PROVE  LET g == graphJson.graph
                        all == GraphifyQuery(g, term, 0)
                        answer == GraphifyQuery(g, term, budget)
                        graded == {i \in all.edges : g.edges[i].confidence \in
                                     {ConfidenceOrder[t] : t \in DOMAIN ConfidenceOrder}}
                    IN \/ EstimateTokens(answer.nodes, answer.edges) <= budget
                       \/ answer.edges \cap graded = {}
  BY DEF BudgetIsKept
<1> DEFINE g == graphJson.graph
           all == GraphifyQuery(g, term, 0)
           answer == GraphifyQuery(g, term, budget)
           n == TiersDropped(g, all, budget)
           grades == {ConfidenceOrder[t] : t \in DOMAIN ConfidenceOrder}
<1>1. IsFiniteSet(g.nodes) /\ Len(g.edges) \in Nat /\ DOMAIN g.edges = 1 .. Len(g.edges)
  BY GraphsAssumption DEF GraphInv, FilesFitHistory
<1>2. /\ answer.edges = WithoutTiers(g, all.edges, n) /\ answer.nodes \subseteq all.nodes
      /\ all.nodes \subseteq g.nodes /\ all.edges \subseteq DOMAIN g.edges
  BY AnswerFacts
<1>3. n = 3 \/ EstimateTokens(all.nodes, answer.edges) <= budget
  BY <1>2, TiersFacts
<1> HIDE DEF g, all, answer, n
<1>4. CASE n = 3
  <2>1. \A i \in answer.edges : \A t \in 1 .. 3 : g.edges[i].confidence # ConfidenceOrder[t]
    BY <1>2, <1>4 DEF WithoutTiers
  <2>2. DOMAIN ConfidenceOrder = 1 .. 3
    BY DEF ConfidenceOrder
  <2>3. \A i \in answer.edges : g.edges[i].confidence \notin grades
    BY <2>1, <2>2
  <2>4. answer.edges \cap {i \in all.edges : g.edges[i].confidence \in grades} = {}
    BY <2>3
  <2>5. QED
    BY <2>4 DEF g, all, answer
<1>5. CASE EstimateTokens(all.nodes, answer.edges) <= budget
  <2>1. IsFiniteSet(all.nodes) /\ answer.nodes \in SUBSET all.nodes
    BY <1>1, <1>2, FS_Subset
  <2>2. answer.edges \in SUBSET DOMAIN g.edges
    BY <1>2 DEF WithoutTiers
  <2>3. IsFiniteSet(DOMAIN g.edges)
    BY <1>1, FS_Interval
  <2>4. IsFiniteSet(answer.edges)
    BY <2>2, <2>3, FS_Subset
  <2>5. IsFiniteSet(answer.nodes) /\ Cardinality(answer.nodes) <= Cardinality(all.nodes)
    BY <2>1, FS_Subset
  <2>6. /\ Cardinality(answer.nodes) \in Nat /\ Cardinality(all.nodes) \in Nat
        /\ Cardinality(answer.edges) \in Nat
    BY <2>1, <2>4, <2>5, FS_CardinalityType
  <2>7. budget \in Int
    BY GraphsAssumption
  <2>8. EstimateTokens(answer.nodes, answer.edges) <= budget
    BY <1>5, <2>5, <2>6, <2>7 DEF EstimateTokens
  <2>9. QED
    BY <2>8 DEF answer, g
<1>6. QED
  BY <1>3, <1>4, <1>5

(* For any graphs, commits, terms, budgets and builds that interleave or   *)
(* fail: a difference is that of an unfinished build, fresh means that no  *)
(* commit is missing, and a budget is kept and cuts no path.               *)
THEOREM AnswersHold == GraphSpec => []AnswersFitTheGraph
<1>1. GraphInv => AnswersFitTheGraph
  BY SameGraphsDoNotDiffer, FreshIsComplete, BudgetKeeps, BudgetFits DEF AnswersFitTheGraph
<1>2. QED
  BY <1>1, GraphInitInv, GraphNextInv, PTL DEF GraphSpec

-----------------------------------------------------------------------------
(***************************************************************************)
(* The waves of a phase for any plans and references: each plan after those*)
(* it depends on, as early as it can be, and a cycle is always noticed.    *)
(***************************************************************************)

(* A reference names one plan of the phase, or none.                       *)
LEMMA ResolvedToOne ==
  \A ref : /\ Resolved(ref) \subseteq PlanIds
           /\ \A d, e \in Resolved(ref) : d = e
<1> SUFFICES ASSUME NEW ref
             PROVE  Resolved(ref) \subseteq PlanIds /\ \A d, e \in Resolved(ref) : d = e
  OBVIOUS
<1> DEFINE places == {i \in DOMAIN PlanFiles : PlanFiles[i][1] = ref[1]}
<1>1. DOMAIN PlanFiles \subseteq Nat
  BY WavesAssumption
<1>2. \A i \in DOMAIN PlanFiles : PlanFiles[i] \in PlanIds
  BY WavesAssumption
<1>3. \A i, j \in places : i <= j /\ j <= i => i = j
  BY <1>1
<1>4. OfPrefix(ref[1]) = {PlanFiles[i] : i \in {j \in places : \A k \in places : k <= j}}
  BY DEF OfPrefix
<1>5. \A d, e \in OfPrefix(ref[1]) : d = e
  BY <1>3, <1>4
<1>6. OfPrefix(ref[1]) \subseteq PlanIds
  BY <1>2, <1>4
<1>7. QED
  BY <1>5, <1>6 DEF Resolved

LEMMA DependenciesArePlans == \A p : Dependencies(p) \subseteq PlanIds
BY ResolvedToOne DEF Dependencies

LEMMA InOrder ==
  ASSUME NEW plans \in SUBSET PlanIds
  PROVE  /\ InFileOrder(plans) \in Seq(PlanIds) /\ IsInjective(InFileOrder(plans))
         /\ Range(InFileOrder(plans)) = plans
<1> DEFINE N == Len(PlanFiles)
           next(n, q) == IF PlanFiles[n] \in plans THEN Append(q, PlanFiles[n]) ELSE q
           Filter(f) == [i \in 0 .. N |-> IF i = 0 THEN <<>> ELSE next(i, f[i - 1])]
           upTo == CHOOSE f : f = Filter(f)
           step == [x \in Nat \X Seq(PlanIds) |->
                      IF x[1] + 1 \in DOMAIN PlanFiles THEN next(x[1] + 1, x[2]) ELSE x[2]]
           some(n) == {PlanFiles[i] : i \in 1 .. n} \cap plans
<1>1. InFileOrder(plans) = upTo[N]
  BY DEF InFileOrder
<1>2. /\ N \in Nat /\ DOMAIN PlanFiles = 1 .. N
      /\ \A i \in 1 .. N : PlanFiles[i] \in PlanIds
      /\ \A i, j \in 1 .. N : PlanFiles[i] = PlanFiles[j] => i = j
      /\ PlanIds = {PlanFiles[i] : i \in 1 .. N}
  BY WavesAssumption DEF PlanIds, Range, IsInjective
<1>3. \A n \in 1 .. N : \A q \in Seq(PlanIds) : next(n, q) \in Seq(PlanIds)
  BY <1>2
<1>4. /\ step \in [Nat \X Seq(PlanIds) -> Seq(PlanIds)]
      /\ \A n \in Nat, q \in Seq(PlanIds) :
           step[<<n, q>>] = IF n + 1 \in 1 .. N THEN next(n + 1, q) ELSE q
  BY <1>2, <1>3
<1> HIDE DEF step
<1>5. PICK f : Repeats(f, step, <<>>, N, Seq(PlanIds))
  <2>1. <<>> \in Seq(PlanIds)
    OBVIOUS
  <2>2. QED
    BY <1>2, <1>4, <2>1, RepeatedStep
<1>6. f = Filter(f)
  <2>1. \A i \in 0 .. N : f[i] = IF i = 0 THEN <<>> ELSE next(i, f[i - 1])
    <3>1. SUFFICES ASSUME NEW i \in 0 .. N, i # 0 PROVE f[i] = next(i, f[i - 1])
      BY <1>5 DEF Repeats
    <3>2. i - 1 \in 0 .. N - 1 /\ i - 1 \in 0 .. N /\ i - 1 \in Nat /\ (i - 1) + 1 = i
          /\ i \in 1 .. N
      BY <1>2, <3>1
    <3>3. f[i - 1] \in Seq(PlanIds) /\ f[i] = step[<<i - 1, f[i - 1]>>]
      BY <1>5, <3>2 DEF Repeats
    <3> HIDE DEF next
    <3>4. QED
      BY <1>4, <3>2, <3>3
  <2>2. f = [i \in 0 .. N |-> f[i]]
    BY <1>5 DEF Repeats
  <2> HIDE DEF next
  <2>3. QED
    BY <2>1, <2>2
<1>7. upTo = Filter(upTo)
  BY <1>6
<1> HIDE DEF upTo
<1> DEFINE S == {n \in Nat : n \in 0 .. N =>
                   /\ upTo[n] \in Seq(PlanIds) /\ IsInjective(upTo[n])
                   /\ Range(upTo[n]) = some(n)}
<1>8. 0 \in S
  BY <1>7 DEF Range, IsInjective
<1>9. ASSUME NEW n \in Nat, n \in S PROVE n + 1 \in S
  <2>1. SUFFICES ASSUME n + 1 \in 0 .. N
                 PROVE  /\ upTo[n + 1] \in Seq(PlanIds) /\ IsInjective(upTo[n + 1])
                        /\ Range(upTo[n + 1]) = some(n + 1)
    OBVIOUS
  <2>2. n \in 0 .. N /\ n + 1 # 0 /\ (n + 1) - 1 = n /\ n + 1 \in 1 .. N /\ n \in 0 .. N
    BY <1>2, <1>9, <2>1
  <2> DEFINE q == upTo[n]
             x == PlanFiles[n + 1]
  <2>3. upTo[n + 1] = next(n + 1, q)
    BY <1>7, <2>1, <2>2
  <2>4. q \in Seq(PlanIds) /\ IsInjective(q) /\ Range(q) = some(n)
    BY <1>9, <2>2
  <2>5. \A i \in 1 .. n : i \in 1 .. N /\ i # n + 1
    BY <2>2
  <2>6. some(n + 1) = some(n) \cup ({x} \cap plans)
    <3>1. 1 .. n + 1 = 1 .. n \cup {n + 1}
      BY <1>9
    <3>2. QED
      BY <3>1
  <2>7. x \in PlanIds /\ x \notin Range(q)
    BY <1>2, <2>2, <2>4, <2>5
  <2> HIDE DEF q, x, some
  <2>8. CASE x \notin plans
    <3>1. upTo[n + 1] = q
      BY <2>3, <2>8 DEF x
    <3>2. QED
      BY <2>4, <2>6, <2>8, <3>1
  <2>9. CASE x \in plans
    <3>1. upTo[n + 1] = Append(q, x)
      BY <2>3, <2>9 DEF x
    <3>2. /\ Len(q) \in Nat /\ DOMAIN q = 1 .. Len(q)
          /\ DOMAIN Append(q, x) = 1 .. Len(q) + 1
          /\ \A i \in 1 .. Len(q) : Append(q, x)[i] = q[i]
          /\ Append(q, x)[Len(q) + 1] = x
          /\ Append(q, x) \in Seq(PlanIds)
      BY <2>4, <2>7
    <3>3. \A i \in 1 .. Len(q) + 1 : i \in 1 .. Len(q) \/ i = Len(q) + 1
      BY <3>2
    <3>4. \A i \in 1 .. Len(q) : q[i] # x
      BY <2>7, <3>2 DEF Range
    <3>5. IsInjective(Append(q, x))
      BY <2>4, <3>2, <3>3, <3>4 DEF IsInjective
    <3>6. Range(Append(q, x)) = Range(q) \cup {x}
      BY <3>2, <3>3 DEF Range
    <3>7. QED
      BY <2>4, <2>6, <2>9, <3>1, <3>2, <3>5, <3>6
  <2>10. QED
    BY <2>8, <2>9
<1> HIDE DEF S
<1>10. N \in S
  BY <1>2, <1>8, <1>9, NumbersFromZero
<1>11. some(N) = plans
  BY <1>2
<1>12. N \in 0 .. N
  BY <1>2
<1>13. QED
  BY <1>1, <1>10, <1>11, <1>12 DEF S

(* The ends of the chains, as the definition says they are computed.       *)
LEMMA Chains ==
  /\ EndOfChain[0] = PlanIds
  /\ \A n \in Nat :
       EndOfChain[n + 1] = {p \in PlanIds : Dependencies(p) \cap EndOfChain[n] # {}}
<1> DEFINE next(T) == {p \in PlanIds : Dependencies(p) \cap T # {}}
           OfChains(f) == [n \in Nat |-> IF n = 0 THEN PlanIds ELSE next(f[n - 1])]
           step == [x \in Nat \X SUBSET PlanIds |-> next(x[2])]
<1>1. EndOfChain = CHOOSE f : f = OfChains(f)
  BY DEF EndOfChain
<1>2. step \in [Nat \X SUBSET PlanIds -> SUBSET PlanIds]
      /\ \A n \in Nat, T \in SUBSET PlanIds : step[<<n, T>>] = next(T)
  OBVIOUS
<1> HIDE DEF step
<1>3. PICK f : RepeatsForever(f, step, PlanIds, SUBSET PlanIds)
  BY <1>2, RepeatedForever
<1> HIDE DEF next
<1>4. f = OfChains(f)
  <2>1. \A n \in Nat : f[n] = IF n = 0 THEN PlanIds ELSE next(f[n - 1])
    <3>1. SUFFICES ASSUME NEW n \in Nat, n # 0 PROVE f[n] = next(f[n - 1])
      BY <1>3 DEF RepeatsForever
    <3>2. n - 1 \in Nat /\ (n - 1) + 1 = n
      BY <3>1
    <3>3. QED
      BY <1>2, <1>3, <3>2 DEF RepeatsForever
  <2>2. f = [n \in Nat |-> f[n]]
    BY <1>3 DEF RepeatsForever
  <2>3. QED
    BY <2>1, <2>2
<1>5. EndOfChain = OfChains(EndOfChain)
  BY <1>1, <1>4
<1>6. EndOfChain[0] = PlanIds
  BY <1>5
<1>7. ASSUME NEW n \in Nat PROVE EndOfChain[n + 1] = next(EndOfChain[n])
  <2>1. n + 1 \in Nat /\ n + 1 # 0 /\ (n + 1) - 1 = n
    OBVIOUS
  <2>2. QED
    BY <1>5, <2>1
<1>8. QED
  BY <1>6, <1>7 DEF next

(* ------------------------------ the algorithm -------------------------- *)

(* What a plan still waits for.                                            *)
Open(p) == {ref \in InPhase(p) : Resolved(ref) \cap visited = {}}

PlansInv ==
    /\ dependsOn \in [PlanIds -> DependsOn]
    /\ level \in [PlanIds -> Nat \cup {NoWave}]
    /\ queue \in Seq(PlanIds) /\ IsInjective(queue)
    /\ visited \subseteq PlanIds

(* Queued or visited are the plans that wait for nothing.                  *)
QueueInv ==
    /\ inDeg = [p \in PlanIds |-> Cardinality(Open(p))]
    /\ Range(queue) \cap visited = {}
    /\ Range(queue) \cup visited = {p \in PlanIds : Open(p) = {}}

(* The level of a plan is the length of a chain to it, above all visited   *)
(* dependencies; when nothing is waited for, it is the longest's.          *)
LevelInv ==
    /\ \A p \in PlanIds : \A d \in Dependencies(p) \cap visited : level[d] < level[p]
    /\ \A p \in PlanIds : level[p] # NoWave => p \in EndOfChain[level[p]]
    /\ \A p \in PlanIds : Open(p) = {} =>
         /\ level[p] \in Nat
         /\ \A n \in Nat : level[p] < n => p \notin EndOfChain[n]

IndexInv ==
    /\ outcome \in {"visiting", "cycle", "indexed"}
    /\ outcome # "visiting" => queue = <<>> /\ (outcome = "cycle" <=> Cycle)
    /\ outcome = "indexed" => waveOf = [p \in PlanIds |-> level[p] + LevelOffset(declared)]
    /\ declared \in [PlanIds -> Nat \cup {NoWave}]

ChecklistInv ==
    \/ \A p \in PlanIds : checklist[p] = NoWave
    \/ outcome # "visiting" /\ checklist = [p \in PlanIds |-> NotedWave(p, shortLines)]

WavesInv == PlansInv /\ QueueInv /\ LevelInv /\ IndexInv /\ ChecklistInv

LEMMA FiniteReferences ==
  ASSUME PlansInv, NEW p \in PlanIds
  PROVE  /\ IsFiniteSet(InPhase(p)) /\ IsFiniteSet(Open(p))
         /\ \A d : IsFiniteSet(EdgesFrom(d, p))
<1>1. IsFiniteSet(dependsOn[p])
  BY WavesAssumption DEF PlansInv
<1>2. /\ InPhase(p) \in SUBSET dependsOn[p] /\ Open(p) \in SUBSET dependsOn[p]
      /\ \A d : EdgesFrom(d, p) \in SUBSET dependsOn[p]
  BY DEF InPhase, Open, EdgesFrom
<1>3. QED
  BY <1>1, <1>2, FS_Subset

LEMMA WavesInitInv == WavesInit => WavesInv
<1> SUFFICES ASSUME WavesInit PROVE WavesInv
  OBVIOUS
<1>1. \A p \in PlanIds : Open(p) = InPhase(p)
  BY DEF WavesInit, Open
<1> DEFINE free == {p \in PlanIds : inDeg[p] = 0}
<1>2. queue = InFileOrder(free) /\ free \in SUBSET PlanIds
  BY DEF WavesInit, Ready
<1>3. PlansInv
  BY <1>2, InOrder DEF WavesInit, PlansInv, NoWave
<1>4. \A p \in PlanIds : inDeg[p] = Cardinality(Open(p)) /\ (inDeg[p] = 0 <=> Open(p) = {})
  <2>1. SUFFICES ASSUME NEW p \in PlanIds
                 PROVE  inDeg[p] = Cardinality(Open(p)) /\ (inDeg[p] = 0 <=> Open(p) = {})
    OBVIOUS
  <2>2. inDeg[p] = Cardinality(Open(p))
    BY <1>1 DEF WavesInit
  <2>3. IsFiniteSet(Open(p))
    BY <1>3, FiniteReferences
  <2>4. QED
    BY <2>2, <2>3, FS_EmptySet
<1>5. QueueInv
  <2>1. Range(queue) = free /\ visited = {}
    BY <1>2, InOrder DEF WavesInit
  <2>2. inDeg = [p \in PlanIds |-> Cardinality(Open(p))]
    BY <1>4 DEF WavesInit
  <2>3. QED
    BY <1>4, <2>1, <2>2 DEF QueueInv
<1>6. LevelInv
  <2>1. visited = {} /\ level = [p \in PlanIds |-> IF inDeg[p] = 0 THEN 0 ELSE NoWave]
    BY DEF WavesInit
  <2>2. \A p \in PlanIds : level[p] # NoWave => p \in EndOfChain[level[p]]
    BY <2>1, Chains
  <2>3. ASSUME NEW p \in PlanIds, Open(p) = {}
        PROVE  level[p] = 0 /\ \A n \in Nat : 0 < n => p \notin EndOfChain[n]
    <3>1. level[p] = 0
      BY <1>4, <2>1, <2>3
    <3>2. Dependencies(p) = {}
      BY <1>1, <2>3 DEF InPhase, Dependencies
    <3>3. ASSUME NEW n \in Nat, 0 < n PROVE p \notin EndOfChain[n]
      <4>1. n - 1 \in Nat /\ (n - 1) + 1 = n
        BY <3>3
      <4>2. EndOfChain[n] = {q \in PlanIds : Dependencies(q) \cap EndOfChain[n - 1] # {}}
        BY <4>1, Chains
      <4>3. QED
        BY <3>2, <4>2
    <3>4. QED
      BY <3>1, <3>3
  <2>4. QED
    BY <2>1, <2>2, <2>3 DEF LevelInv
<1>7. IndexInv /\ ChecklistInv
  BY DEF WavesInit, IndexInv, ChecklistInv, NoWave
<1>8. QED
  BY <1>3, <1>5, <1>6, <1>7 DEF WavesInv

(* A visit closes the references to the plan that it takes, and no others. *)
LEMMA VisitCloses ==
  ASSUME PlansInv, QueueInv, Visit, NEW p \in PlanIds
  PROVE  /\ EdgesFrom(Head(queue), p) \subseteq Open(p)
         /\ Open(p)' = Open(p) \ EdgesFrom(Head(queue), p)
         /\ Cardinality(Open(p)') = Cardinality(Open(p)) - Cardinality(EdgesFrom(Head(queue), p))
         /\ Open(p)' = {} /\ Open(p) # {}
              <=> EdgesFrom(Head(queue), p) # {}
                  /\ Cardinality(Open(p)) = Cardinality(EdgesFrom(Head(queue), p))
<1> DEFINE cur == Head(queue)
           edges == EdgesFrom(cur, p)
<1>1. cur \in Range(queue) /\ cur \in PlanIds
  BY DEF Visit, PlansInv, Range
<1>2. cur \notin visited /\ visited' = visited \cup {cur} /\ dependsOn' = dependsOn
  BY <1>1 DEF Visit, QueueInv
<1>3. \A ref : cur \in Resolved(ref) => Resolved(ref) = {cur}
  BY ResolvedToOne
<1>4. edges \subseteq Open(p)
  BY <1>2, <1>3 DEF EdgesFrom, Open, InPhase
<1>5. Open(p)' = Open(p) \ edges
  BY <1>2, <1>3 DEF EdgesFrom, Open, InPhase
<1>6. IsFiniteSet(Open(p)) /\ IsFiniteSet(edges)
  BY FiniteReferences
<1> HIDE DEF cur, edges
<1>7. /\ Cardinality(Open(p)) \in Nat /\ Cardinality(edges) \in Nat
      /\ (Cardinality(edges) = 0 <=> edges = {})
  BY <1>6, FS_EmptySet, FS_CardinalityType
<1>8. /\ IsFiniteSet(Open(p) \ edges)
      /\ Cardinality(Open(p) \ edges) = Cardinality(Open(p)) - Cardinality(Open(p) \cap edges)
  BY <1>6, FS_Difference
<1>9. Open(p) \cap edges = edges
  BY <1>4
<1>10. Cardinality(Open(p)') = Cardinality(Open(p)) - Cardinality(edges)
  BY <1>5, <1>8, <1>9
<1>11. Cardinality(Open(p) \ edges) = 0 <=> Open(p) \ edges = {}
  BY <1>8, FS_EmptySet
<1>12. Open(p)' = {} /\ Open(p) # {} <=> edges # {} /\ Cardinality(Open(p)) = Cardinality(edges)
  BY <1>4, <1>5, <1>7, <1>10, <1>11
<1>13. QED
  BY <1>4, <1>5, <1>10, <1>12 DEF cur, edges

LEMMA VisitPlansQueue ==
  ASSUME PlansInv, QueueInv, Visit
  PROVE  PlansInv' /\ QueueInv'
<1> DEFINE cur == Head(queue)
           rest == Tail(queue)
           out == Released(cur)
           released == {p \in PlanIds : /\ EdgesFrom(cur, p) # {}
                                        /\ inDeg[p] = Cardinality(EdgesFrom(cur, p))}
<1>1. /\ queue' = rest \o out /\ visited' = visited \cup {cur} /\ dependsOn' = dependsOn
      /\ inDeg' = [p \in PlanIds |-> inDeg[p] - Cardinality(EdgesFrom(cur, p))]
      /\ level' = [p \in PlanIds |-> IF EdgesFrom(cur, p) = {} THEN level[p]
                                      ELSE LevelAfter(cur, p)]
  BY DEF Visit
<1>2. /\ out \in Seq(PlanIds) /\ IsInjective(out) /\ Range(out) = released
  BY InOrder DEF Released
<1>3. /\ cur \in PlanIds /\ rest \in Seq(PlanIds) /\ IsInjective(rest)
      /\ cur \notin Range(rest) /\ Range(queue) = Range(rest) \cup {cur}
  BY InjectiveTail DEF Visit, PlansInv
<1> HIDE DEF rest, cur, out
<1>4. \A p \in PlanIds : p \in released <=> Open(p)' = {} /\ Open(p) # {}
  BY VisitCloses DEF QueueInv, cur
<1>5. \A p \in PlanIds : Open(p)' \subseteq Open(p)
  BY VisitCloses
<1>6. Range(rest) \cap released = {}
  BY <1>3, <1>4 DEF QueueInv
<1>7. /\ queue' \in Seq(PlanIds) /\ Range(queue') = Range(rest) \cup released
      /\ IsInjective(queue')
  BY <1>1, <1>2, <1>3, <1>6, InjectiveConcat
<1>8. PlansInv'
  <2>1. level' \in [PlanIds -> Nat \cup {NoWave}]
    <3>1. \A p \in PlanIds : level[p] \in Nat \cup {NoWave}
      BY DEF PlansInv
    <3>2. \A p \in PlanIds : LevelAfter(cur, p) \in Nat \cup {NoWave}
      BY <1>3, <3>1 DEF LevelAfter, Larger, NoWave
    <3>3. QED
      BY <1>1, <3>1, <3>2
  <2>2. QED
    BY <1>1, <1>3, <1>7, <2>1 DEF PlansInv
<1>9. QueueInv'
  <2>1. inDeg' = [p \in PlanIds |-> Cardinality(Open(p)')]
    BY <1>1, VisitCloses DEF QueueInv, cur
  <2>2. Range(queue') \cap visited' = {}
    BY <1>1, <1>3, <1>4, <1>7 DEF QueueInv
  <2>3. Range(queue') \cup visited' = {p \in PlanIds : Open(p)' = {}}
    <3>1. Range(queue') \cup visited' = (Range(queue) \cup visited) \cup released
      BY <1>1, <1>3, <1>7
    <3>2. Range(queue) \cup visited = {p \in PlanIds : Open(p) = {}}
      BY DEF QueueInv
    <3> HIDE DEF released
    <3>3. \A p \in PlanIds : Open(p)' = {} <=> Open(p) = {} \/ p \in released
      BY <1>4, <1>5
    <3>4. released \subseteq PlanIds
      BY DEF released
    <3>5. QED
      BY <3>1, <3>2, <3>3, <3>4
  <2>4. QED
    BY <2>1, <2>2, <2>3 DEF QueueInv
<1>10. QED
  BY <1>8, <1>9

(* The chains are those of the dependencies, which stay.                   *)
LEMMA ChainsStay ==
  ASSUME UNCHANGED dependsOn
  PROVE  (\A p : Dependencies(p)' = Dependencies(p)) /\ EndOfChain' = EndOfChain
<1>1. \A p : Dependencies(p)' = Dependencies(p)
  BY DEF Dependencies
<1>2. EndOfChain' = EndOfChain
  BY DEF EndOfChain, Dependencies
<1>3. QED
  BY <1>1, <1>2

LEMMA VisitLevels ==
  ASSUME PlansInv, QueueInv, LevelInv, Visit
  PROVE  LevelInv'
<1> DEFINE cur == Head(queue)
<1>1. /\ visited' = visited \cup {cur} /\ dependsOn' = dependsOn
      /\ \A p \in PlanIds : level'[p] = IF EdgesFrom(cur, p) = {} THEN level[p]
                                        ELSE LevelAfter(cur, p)
  BY DEF Visit
<1>2. cur \in PlanIds /\ cur \in Range(queue)
  BY InjectiveTail DEF Visit, PlansInv
<1>3. \A p \in PlanIds : EdgesFrom(cur, p) # {} <=> cur \in Dependencies(p)
  BY DEF EdgesFrom, Dependencies
<1>4. Open(cur) = {} /\ \A p \in visited : p \in PlanIds /\ Open(p) = {}
  BY <1>2 DEF QueueInv, PlansInv
<1>5. \A p \in PlanIds : EdgesFrom(cur, p) \subseteq Open(p)
  BY VisitCloses DEF cur
<1> HIDE DEF cur
<1>6. \A p \in PlanIds : level[p] \in Nat \cup {NoWave}
  BY DEF PlansInv
<1>7. level[cur] \in Nat
  BY <1>2, <1>4 DEF LevelInv
<1>8. \A p \in PlanIds : EdgesFrom(cur, p) # {} =>
        /\ level'[p] \in Nat /\ level[cur] < level'[p]
        /\ level'[p] = level[p] \/ level'[p] = level[cur] + 1
        /\ level[p] <= level'[p]
  BY <1>1, <1>6, <1>7 DEF LevelAfter, Larger, NoWave
<1>9. \A p \in PlanIds : Open(p) = {} => level'[p] = level[p]
  BY <1>1, <1>5
<1>10. PlansInv'
  BY VisitPlansQueue
<1>11. \A p \in PlanIds : level'[p] \in Nat \cup {NoWave}
  BY <1>10 DEF PlansInv
<1>12. ASSUME NEW p \in PlanIds, NEW d \in Dependencies(p) \cap visited'
       PROVE  level'[d] < level'[p]
  <2>1. d \in PlanIds /\ Open(d) = {}
    BY <1>1, <1>2, <1>4, <1>12
  <2>2. level'[d] = level[d] /\ level[d] \in Nat
    BY <1>9, <2>1 DEF LevelInv
  <2>3. CASE d = cur
    BY <1>3, <1>8, <1>12, <2>2, <2>3
  <2>4. CASE d # cur
    <3>1. level[d] < level[p]
      BY <1>1, <1>12, <2>4 DEF LevelInv
    <3>2. level[p] <= level'[p]
      BY <1>1, <1>6, <1>8 DEF NoWave
    <3>3. QED
      BY <1>6, <1>11, <2>2, <3>1, <3>2 DEF NoWave
  <2>5. QED
    BY <2>3, <2>4
<1>13. ASSUME NEW p \in PlanIds, level'[p] # NoWave
       PROVE  p \in EndOfChain[level'[p]]
  <2>1. CASE level'[p] = level[p]
    BY <1>13, <2>1 DEF LevelInv
  <2>2. CASE level'[p] # level[p]
    <3>1. EdgesFrom(cur, p) # {} /\ level'[p] = level[cur] + 1
      BY <1>1, <1>8, <2>2
    <3>2. cur \in EndOfChain[level[cur]]
      BY <1>2, <1>7 DEF LevelInv, NoWave
    <3>3. EndOfChain[level[cur] + 1] =
            {q \in PlanIds : Dependencies(q) \cap EndOfChain[level[cur]] # {}}
      BY <1>7, Chains
    <3>4. QED
      BY <1>3, <3>1, <3>2, <3>3
  <2>3. QED
    BY <2>1, <2>2
<1>14. ASSUME NEW p \in PlanIds, Open(p)' = {}
       PROVE  level'[p] \in Nat /\ \A n \in Nat : level'[p] < n => p \notin EndOfChain[n]
  <2>1. CASE Open(p) = {}
    BY <1>9, <2>1 DEF LevelInv
  <2>2. CASE Open(p) # {}
    <3>1. level'[p] \in Nat
      BY <1>8, <1>14, <2>2, VisitCloses DEF cur
    <3>2. Dependencies(p) \subseteq visited'
      <4>1. SUFFICES ASSUME NEW ref \in dependsOn[p], NEW d \in Resolved(ref)
                     PROVE  d \in visited'
        BY DEF Dependencies
      <4>2. Resolved(ref) \cap visited' # {}
        BY <1>1, <1>14 DEF Open, InPhase
      <4>3. QED
        BY <4>2, ResolvedToOne
    <3>3. ASSUME NEW n \in Nat, level'[p] < n, p \in EndOfChain[n] PROVE FALSE
      <4>1. n - 1 \in Nat /\ (n - 1) + 1 = n
        BY <3>1, <3>3
      <4>2. EndOfChain[n] = {q \in PlanIds : Dependencies(q) \cap EndOfChain[n - 1] # {}}
        BY <4>1, Chains
      <4>3. PICK d \in Dependencies(p) : d \in EndOfChain[n - 1]
        BY <3>3, <4>2
      <4>4. d \in PlanIds /\ Open(d) = {} /\ level'[d] < level'[p]
        BY <1>1, <1>2, <1>4, <1>12, <3>2
      <4>5. level[d] \in Nat /\ level[d] = level'[d] /\ level[d] < n - 1
        BY <1>9, <3>1, <3>3, <4>4 DEF LevelInv
      <4>6. QED
        BY <4>1, <4>3, <4>4, <4>5 DEF LevelInv
    <3>4. QED
      BY <3>1, <3>3
  <2>3. QED
    BY <2>1, <2>2
<1>15. QED
  BY <1>1, <1>12, <1>13, <1>14, ChainsStay DEF LevelInv

LEMMA VisitInv == ASSUME WavesInv, Visit PROVE WavesInv'
<1>1. PlansInv' /\ QueueInv' /\ LevelInv'
  BY VisitPlansQueue, VisitLevels DEF WavesInv
<1>2. outcome = "visiting" /\ UNCHANGED <<outcome, declared, checklist, shortLines, waveOf>>
  BY DEF Visit, WavesInv, IndexInv
<1>3. IndexInv' /\ ChecklistInv'
  BY <1>2 DEF WavesInv, IndexInv, ChecklistInv
<1>4. QED
  BY <1>1, <1>3 DEF WavesInv

(* The index and the list do not change what the algorithm computed.       *)
LEMMA PlansStay ==
  ASSUME PlansInv, QueueInv, LevelInv, UNCHANGED <<dependsOn, inDeg, level, queue, visited>>
  PROVE  PlansInv' /\ QueueInv' /\ LevelInv'
<1>1. \A p : Open(p)' = Open(p)
  BY DEF Open, InPhase
<1>2. PlansInv' /\ QueueInv'
  BY <1>1 DEF PlansInv, QueueInv
<1>3. LevelInv'
  BY <1>1, ChainsStay DEF LevelInv
<1>4. QED
  BY <1>2, <1>3

LEMMA IndexPlansInv == ASSUME WavesInv, IndexPlans PROVE WavesInv'
<1>1. PlansInv' /\ QueueInv' /\ LevelInv'
  BY PlansStay DEF WavesInv, IndexPlans
<1>2. IndexInv'
  <2>1. declared' \in [PlanIds -> Nat \cup {NoWave}]
    BY WavesAssumption DEF IndexPlans
  <2>2. Cycle' = Cycle /\ outcome' = IF Cycle THEN "cycle" ELSE "indexed"
    BY DEF IndexPlans, Cycle
  <2>3. ~Cycle => waveOf' = [p \in PlanIds |-> level'[p] + LevelOffset(declared')]
    BY DEF IndexPlans
  <2>4. queue' = <<>>
    BY DEF IndexPlans
  <2>5. QED
    BY <2>1, <2>2, <2>3, <2>4 DEF IndexInv
<1>3. ChecklistInv'
  BY DEF IndexPlans, WavesInv, ChecklistInv
<1>4. QED
  BY <1>1, <1>2, <1>3 DEF WavesInv

LEMMA AnnotateInv == ASSUME WavesInv, AnnotateDependencies PROVE WavesInv'
<1>1. PlansInv' /\ QueueInv' /\ LevelInv'
  BY PlansStay DEF WavesInv, AnnotateDependencies
<1>2. IndexInv'
  BY DEF AnnotateDependencies, WavesInv, IndexInv, Cycle, LevelOffset
<1>3. ChecklistInv'
  BY DEF AnnotateDependencies, ChecklistInv, NotedWave
<1>4. QED
  BY <1>1, <1>2, <1>3 DEF WavesInv

LEMMA WavesNextInv == WavesInv /\ [WavesNext]_waveVars => WavesInv'
<1> SUFFICES ASSUME WavesInv, [WavesNext]_waveVars PROVE WavesInv'
  OBVIOUS
<1>1. CASE UNCHANGED waveVars
  <2>1. PlansInv' /\ QueueInv' /\ LevelInv'
    BY <1>1, PlansStay DEF WavesInv, waveVars
  <2>2. IndexInv' /\ ChecklistInv'
    BY <1>1 DEF waveVars, WavesInv, IndexInv, ChecklistInv, Cycle, LevelOffset, NotedWave
  <2>3. QED
    BY <2>1, <2>2 DEF WavesInv
<1>2. QED
  BY <1>1, VisitInv, IndexPlansInv, AnnotateInv DEF WavesNext

(* ------------------------------ the schedule --------------------------- *)

LEMMA VisitedAfterDependencies == WavesInv => DependenciesFirst
<1> SUFFICES ASSUME WavesInv, NEW p \in visited, NEW d \in Dependencies(p)
             PROVE  d \in visited /\ level[d] < level[p]
  BY DEF DependenciesFirst
<1>1. p \in PlanIds /\ Open(p) = {}
  BY DEF WavesInv, PlansInv, QueueInv
<1>2. PICK ref \in dependsOn[p] : d \in Resolved(ref)
  BY DEF Dependencies
<1>3. d \in visited
  BY <1>1, <1>2, ResolvedToOne DEF Open, InPhase
<1>4. QED
  BY <1>1, <1>3 DEF WavesInv, LevelInv

(* Plans that are left when nothing is ready: each of them waits for one   *)
(* of them, so that each is at the end of chains of any length.            *)
LEMMA LeftInChains ==
  ASSUME WavesInv, outcome = "cycle", NEW n \in Nat
  PROVE  EndOfChain[n] # {}
<1> DEFINE leftOver == PlanIds \ visited
           Long == {m \in Nat : leftOver \subseteq EndOfChain[m]}
<1>1. leftOver # {} /\ queue = <<>>
  BY DEF WavesInv, IndexInv, Cycle, PlansInv
<1>2. \A p \in leftOver : Open(p) # {}
  BY <1>1 DEF WavesInv, QueueInv, Range
<1>3. ASSUME NEW p \in leftOver PROVE Dependencies(p) \cap leftOver # {}
  <2>1. PICK ref \in InPhase(p) : Resolved(ref) \cap visited = {}
    BY <1>2, <1>3 DEF Open
  <2>2. ref \in dependsOn[p] /\ Resolved(ref) # {} /\ Resolved(ref) \subseteq PlanIds
    BY <2>1, ResolvedToOne DEF InPhase
  <2>3. QED
    BY <2>1, <2>2 DEF Dependencies
<1>4. 0 \in Long
  BY Chains
<1>5. ASSUME NEW m \in Nat, m \in Long PROVE m + 1 \in Long
  <2>1. EndOfChain[m + 1] = {p \in PlanIds : Dependencies(p) \cap EndOfChain[m] # {}}
    BY Chains
  <2>2. leftOver \subseteq EndOfChain[m + 1]
    BY <1>3, <1>5, <2>1
  <2>3. QED
    BY <2>2
<1> HIDE DEF Long
<1>6. n \in Long
  BY <1>4, <1>5, NumbersFromZero
<1>7. QED
  BY <1>1, <1>6 DEF Long

LEMMA WavesAreThoseOfChains == WavesInv => WavesAreTight
<1> SUFFICES ASSUME WavesInv PROVE WavesAreTight
  OBVIOUS
<1>1. ASSUME outcome = "indexed", NEW p \in PlanIds
      PROVE  LET before == waveOf[p] - LevelOffset(declared)
             IN p \in EndOfChain[before] /\ p \notin EndOfChain[before + 1]
  <2>1. visited = PlanIds
    BY <1>1 DEF WavesInv, IndexInv, Cycle
  <2>2. Open(p) = {}
    BY <2>1 DEF WavesInv, QueueInv
  <2>3. /\ level[p] \in Nat /\ p \in EndOfChain[level[p]]
        /\ p \notin EndOfChain[level[p] + 1]
    BY <2>2 DEF WavesInv, LevelInv, NoWave
  <2>4. LevelOffset(declared) \in Nat /\ waveOf[p] = level[p] + LevelOffset(declared)
    BY <1>1 DEF WavesInv, IndexInv, LevelOffset
  <2>5. waveOf[p] - LevelOffset(declared) = level[p]
    BY <2>3, <2>4
  <2>6. QED
    BY <2>3, <2>5
<1>2. ASSUME outcome = "cycle" PROVE EndOfChain[Len(PlanFiles)] # {}
  BY <1>2, LeftInChains, WavesAssumption
<1>3. QED
  BY <1>1, <1>2 DEF WavesAreTight

LEMMA ListFollowsIndex == WavesInv => ChecklistFollowsIndex
<1> SUFFICES ASSUME WavesInv, outcome = "indexed", shortLines = {},
                    \A p \in PlanIds : checklist[p] # NoWave,
                    \A p \in PlanIds : declared[p] = waveOf[p] /\ declared[p] # 0,
                    NEW p \in PlanIds, NEW d \in Dependencies(p)
             PROVE  checklist[d] < checklist[p]
  BY DEF ChecklistFollowsIndex
<1>1. d \in PlanIds /\ visited = PlanIds
  BY DependenciesArePlans DEF WavesInv, IndexInv, Cycle
<1>2. level[d] < level[p]
  BY <1>1, VisitedAfterDependencies DEF DependenciesFirst
<1>3. Open(d) = {} /\ Open(p) = {}
  BY <1>1 DEF WavesInv, QueueInv
<1>4. level[d] \in Nat /\ level[p] \in Nat
  BY <1>1, <1>3 DEF WavesInv, LevelInv
<1>5. LevelOffset(declared) \in Nat
      /\ \A q \in PlanIds : declared[q] = level[q] + LevelOffset(declared)
  BY DEF WavesInv, IndexInv, LevelOffset
<1>6. \A q \in PlanIds : checklist[q] = NotedWave(q, {})
  BY DEF WavesInv, ChecklistInv
<1>7. checklist[d] = declared[d] /\ checklist[p] = declared[p]
  BY <1>1, <1>4, <1>5, <1>6 DEF NotedWave, NoWave
<1>8. QED
  BY <1>1, <1>2, <1>4, <1>5, <1>7

(* For any plans, references and declared waves: a plan goes out after     *)
(* those it depends on, in the wave that the longest chain asks for, an    *)
(* index is refused only for a cycle, and the checklist follows the index. *)
THEOREM ScheduleHolds == WavesSpec => []ScheduleIsSound
<1>1. WavesInv => ScheduleIsSound
  BY VisitedAfterDependencies, WavesAreThoseOfChains, ListFollowsIndex DEF ScheduleIsSound
<1>2. QED
  BY <1>1, WavesInitInv, WavesNextInv, PTL DEF WavesSpec

-----------------------------------------------------------------------------
(***************************************************************************)
(* Workstreams for any sessions, interleaved, killed and with renames that *)
(* throw: no work is lost short of two faults.                             *)
(***************************************************************************)

LEMMA KindsDiffer ==
  /\ Root \notin Dirs /\ Base \notin Streams /\ Base \notin Archives
  /\ Streams \cap Archives = {} /\ Base \in Dirs
  /\ \A n \in Names : Stream(n) \in Dirs /\ Stream(n) \in Streams
  /\ \A n \in Names, k \in 0 .. MaxCommands : Archive(n, k) \in Dirs
  /\ \A n, k, m, l : Archive(n, k) = Archive(m, l) => n = m /\ k = l
BY DEF Root, Dirs, Base, Streams, Archives, Stream, Archive

LEMMA ItemsToMove ==
  /\ Items = {"ROADMAP.md", "STATE.md"} /\ IsFiniteSet(Items)
  /\ ToMove \in Seq(Items) /\ IsInjective(ToMove)
<1>1. DOMAIN ToMove = {1, 2} /\ ToMove[1] = "ROADMAP.md" /\ ToMove[2] = "STATE.md"
  BY DEF ToMove
<1>2. Items = {"ROADMAP.md", "STATE.md"}
  BY <1>1 DEF Items, Range
<1>3. IsFiniteSet({"ROADMAP.md", "STATE.md"})
  <2>1. IsFiniteSet({"ROADMAP.md"})
    BY FS_Singleton
  <2>2. {"ROADMAP.md", "STATE.md"} = {"ROADMAP.md"} \cup {"STATE.md"}
    OBVIOUS
  <2>3. QED
    BY <2>1, <2>2, FS_AddElement
<1>4. IsInjective(ToMove)
  BY <1>1 DEF IsInjective
<1>5. ToMove \in Seq(Items)
  BY <1>2 DEF ToMove
<1>6. QED
  BY <1>2, <1>3, <1>4, <1>5

(* The files of a directory, as a list without repetitions.                *)
LEMMA ListOfFiles ==
  ASSUME NEW S, IsFiniteSet(S)
  PROVE  SetToSeq(S) \in Seq(S) /\ IsInjective(SetToSeq(S)) /\ Range(SetToSeq(S)) \subseteq S
<1>1. PICK n \in Nat : ExistsBijection(1 .. n, S)
  BY FS_NatBijection
<1>2. n = Cardinality(S)
  BY <1>1, FS_CountingElements
<1>3. PICK f : f \in Bijection(1 .. n, S)
  BY <1>1 DEF ExistsBijection
<1>4. f \in [1 .. n -> S] /\ IsInjective(f)
  BY <1>3 DEF Bijection, Injection, IsInjective
<1>5. SetToSeq(S) \in [1 .. n -> S] /\ IsInjective(SetToSeq(S))
  BY <1>2, <1>4 DEF SetToSeq
<1>6. SetToSeq(S) \in Seq(S)
  BY <1>5
<1>7. QED
  BY <1>5, <1>6 DEF Range

(* --------------------------- the invariant ----------------------------- *)

Movers == {"migrate", "archive", "move"}

WorkJobs ==
    [step : Movers \cup {"idle", "make", "set", "write"}, name : Names \cup {"none"},
     from : Dirs, to : Dirs, left : Seq(Items), moved : SUBSET Items, active : BOOLEAN]

(* A job, when n commands have been started.                               *)
JobFits(j, n) ==
    /\ j \in WorkJobs
    /\ j.step \in Movers =>
         \/ j.step # "archive" /\ j.from = Base /\ j.to \in Streams /\ ~j.active
         \/ /\ j.step # "migrate" /\ j.name \in Names /\ j.from = Stream(j.name)
            /\ \E k \in 0 .. MaxCommands : k < n /\ j.to = Archive(j.name, k)
    /\ j.step = "write" => j.to \in {Base} \cup Streams
    /\ j.step \in {"migrate", "archive"} => j.moved = {}
    /\ IsInjective(j.left) /\ Range(j.left) \cap j.moved = {}

Pieces == Items \X (Texts \cup {"old", "blank"})

DirsInv ==
    /\ holds \in [Dirs -> SUBSET Pieces]
    /\ \A d \in Dirs : holds[d] # {} => d \in there
    /\ Base \in there
    /\ there \cap Streams # {} => Root \in there
    /\ pointer \in [Sessions \cup {"shared"} -> Names \cup {"none"}]

(* Commands are counted, and no archive has a number beyond them.          *)
CountsInv ==
    /\ started \in Nat /\ faults \in Nat /\ started <= MaxCommands
    /\ \A n \in Names, k \in 0 .. MaxCommands : Archive(n, k) \in there => k < started

JobsInv ==
    /\ job = [s \in Sessions |-> job[s]]
    /\ \A s \in Sessions : JobFits(job[s], started)

(* What a command that moves files found: directories, what they hold and  *)
(* the active workstream, when the pointer is now p.                       *)
WasFound(j, T, H, P, p) ==
    /\ j.from \in T /\ j.to \notin T /\ H[j.to] = {}
    /\ H = [d \in Dirs |-> H[d]]
    /\ IF j.from = Base THEN Root \notin T /\ T \cap Streams = {} ELSE Root \in T
    /\ IF j.active THEN P = j.name ELSE P = p

(* What is there now that it has moved some of the files.                  *)
MovedSince(j, T, H, dirs, h) ==
    /\ dirs = T \cup {j.to} \cup (IF j.from = Base THEN {Root} ELSE {})
    /\ \A d \in Dirs : h[d] = IF d = j.from THEN {piece \in H[d] : piece[1] \notin j.moved}
                             ELSE IF d = j.to THEN {piece \in H[j.from] : piece[1] \in j.moved}
                             ELSE H[d]
    /\ j.from # Base => Range(j.left) \subseteq {piece[1] : piece \in h[j.from]}

AsFound(s, T, H, P) ==
    /\ WasFound(job[s], T, H, P, pointer[Slot(s)])
    /\ IF job[s].step = "move" THEN MovedSince(job[s], T, H, there, holds)
                               ELSE there = T /\ holds = H

FoundInv == \A s \in Sessions : was[s] # Nothing /\ job[s].step \in Movers =>
                \E T, H, P : was[s] = <<T, H, P>> /\ AsFound(s, T, H, P)

WorkInv == DirsInv /\ CountsInv /\ JobsInv /\ FoundInv /\ WorkIsKept

LEMMA WorkstreamsInitInv == WorkstreamsInit => WorkInv
<1> SUFFICES ASSUME WorkstreamsInit PROVE WorkInv
  OBVIOUS
<1>1. PICK S \in SUBSET Items :
        holds = [d \in Dirs |-> IF d = Base THEN {<<i, "old">> : i \in S} ELSE {}]
  BY DEF WorkstreamsInit
<1>2. holds \in [Dirs -> SUBSET Pieces]
  <2>1. {<<i, "old">> : i \in S} \subseteq Pieces
    BY <1>1 DEF Pieces
  <2>2. QED
    BY <1>1, <2>1
<1>3. there = {Base} /\ Base \in Dirs /\ Base \notin Streams /\ Base \notin Archives
  BY KindsDiffer DEF WorkstreamsInit
<1>4. DirsInv
  BY <1>1, <1>2, <1>3 DEF WorkstreamsInit, DirsInv
<1>5. CountsInv
  BY <1>3, WorkstreamsAssumption DEF WorkstreamsInit, CountsInv, Archives
<1>6. JobsInv
  <2>1. JobFits(Idle, 0)
    BY <1>3 DEF JobFits, WorkJobs, Idle, Movers, IsInjective, Range
  <2>2. QED
    BY <2>1 DEF WorkstreamsInit, JobsInv
<1>7. FoundInv
  BY DEF WorkstreamsInit, FoundInv
<1>8. WorkIsKept
  BY <1>1, <1>3 DEF WorkstreamsInit, WorkIsKept
<1>9. QED
  BY <1>4, <1>5, <1>6, <1>7, <1>8 DEF WorkInv

(* --------------------------- parts of a step --------------------------- *)

(* A session goes on to another job; the others keep theirs.               *)
LEMMA JobsGoOn ==
  ASSUME JobsInv, NEW s \in Sessions, NEW r, Go(s, r), JobFits(r, started'),
         started \in Nat, started' \in Nat, started <= started'
  PROVE  JobsInv' /\ job'[s] = r /\ \A q \in Sessions \ {s} : job'[q] = job[q]
<1>1. /\ job' = [job EXCEPT ![s] = r] /\ job'[s] = r
      /\ \A q \in Sessions \ {s} : job'[q] = job[q]
  BY DEF Go, JobsInv
<1>2. job' = [q \in Sessions |-> job'[q]]
  BY <1>1 DEF JobsInv
<1>3. ASSUME NEW j, JobFits(j, started) PROVE JobFits(j, started')
  BY <1>3 DEF JobFits
<1>4. \A q \in Sessions : JobFits(job'[q], started')
  BY <1>1, <1>3 DEF JobsInv
<1>5. QED
  BY <1>1, <1>2, <1>4 DEF JobsInv

LEMMA JobsWait ==
  ASSUME JobsInv, UNCHANGED job, started \in Nat, started' \in Nat, started <= started'
  PROVE  JobsInv'
<1>1. ASSUME NEW j, JobFits(j, started) PROVE JobFits(j, started')
  BY <1>1 DEF JobFits
<1>2. QED
  BY <1>1 DEF JobsInv

LEMMA IdleIsAJob ==
  /\ Idle \in WorkJobs /\ Idle.step = "idle" /\ Idle.name = "none"
  /\ Idle.from = Base /\ Idle.to = Base
  /\ Idle.left = <<>> /\ Idle.moved = {} /\ Idle.active = FALSE
<1>1. <<>> \in Seq(Items)
  OBVIOUS
<1>2. QED
  BY <1>1, KindsDiffer DEF WorkJobs, Idle, Movers

LEMMA NewJob ==
  ASSUME NEW r \in WorkJobs, NEW n, r.left = <<>>, r.moved = {},
         r.step = "write" => r.to \in {Base} \cup Streams,
         r.step \in Movers =>
           \/ r.step # "archive" /\ r.from = Base /\ r.to \in Streams /\ ~r.active
           \/ /\ r.step # "migrate" /\ r.name \in Names /\ r.from = Stream(r.name)
              /\ \E k \in 0 .. MaxCommands : k < n /\ r.to = Archive(r.name, k)
  PROVE  JobFits(r, n)
<1>1. DOMAIN <<>> = {}
  OBVIOUS
<1>2. IsInjective(r.left) /\ Range(r.left) \cap r.moved = {}
  BY <1>1 DEF IsInjective, Range
<1>3. QED
  BY <1>2 DEF JobFits

LEMMA IdleFits == \A n : JobFits(Idle, n) /\ Idle.step = "idle"
BY IdleIsAJob, NewJob DEF Movers

(* Directories that are made lose nothing, also with a piece in them.      *)
LEMMA DirsGrow ==
  ASSUME DirsInv, WorkIsKept, there \subseteq there', holds' = holds,
         written' = written, undone' = undone,
         there' \cap Streams # {} => Root \in there',
         pointer' \in [Sessions \cup {"shared"} -> Names \cup {"none"}]
  PROVE  DirsInv' /\ WorkIsKept'
BY DEF DirsInv, WorkIsKept

LEMMA EnsuredDirs ==
  ASSUME DirsInv, NEW D
  PROVE  /\ there \subseteq Ensure(D) /\ D \subseteq Ensure(D)
         /\ Ensure(D) \cap Streams # {} => Root \in Ensure(D)
         /\ Ensure(D) \subseteq there \cup D \cup {Root}
         /\ D \cap Streams = {} => Ensure(D) = there \cup D
         /\ D \cap Streams # {} => Ensure(D) = there \cup D \cup {Root}
<1>1. Root \notin Streams
  BY KindsDiffer DEF Dirs
<1>2. QED
  BY <1>1 DEF Ensure, DirsInv

LEMMA CountsStay ==
  ASSUME CountsInv, UNCHANGED started, faults' \in Nat,
         \A d \in Archives : d \in there' => d \in there
  PROVE  CountsInv'
BY DEF CountsInv, Archives

(* The session that a step is of is the only one whose command may still   *)
(* have run alone.                                                         *)
LEMMA OthersFoundNothing ==
  ASSUME NEW s \in Sessions, Alone(s) \/ Start(s),
         \/ was'[s] = Nothing \/ job'[s].step \notin Movers
         \/ \E T, H, P : was'[s] = <<T, H, P>> /\ AsFound(s, T, H, P)'
  PROVE  FoundInv'
<1>1. \A q \in Sessions \ {s} : was'[q] = Nothing
  BY DEF Alone, Start
<1>2. QED
  BY <1>1 DEF FoundInv

LEMMA Pointed ==
  ASSUME DirsInv, NEW s \in Sessions, NEW n \in Names \cup {"none"}, Point(s, n)
  PROVE  /\ pointer' \in [Sessions \cup {"shared"} -> Names \cup {"none"}]
         /\ pointer'[Slot(s)] = n
BY DEF DirsInv, Point, Slot

LEMMA ActiveIsName == ASSUME DirsInv, NEW s \in Sessions PROVE ActiveIn(s) \in Names \cup {"none"}
BY DEF ActiveIn

LEMMA StartCounts ==
  ASSUME CountsInv, NEW s \in Sessions, Start(s),
         \A d \in Archives : d \in there' => d \in there, faults' = faults
  PROVE  /\ CountsInv' /\ started \in Nat /\ started' = started + 1 /\ started < MaxCommands
         /\ was'[s] = <<there, holds, ActiveIn(s)>>
BY WorkstreamsAssumption DEF CountsInv, Start, Archives

(* ------------------------ commands that move nothing ------------------- *)

LEMMA SelectClearWork ==
  ASSUME WorkInv, NEW s \in Sessions,
         \/ Clear(s) \/ Work(s) \/ \E n \in Names : Select(s, n)
  PROVE  WorkInv'
<1>1. Start(s) /\ UNCHANGED <<there, holds, faults, written, undone>>
  BY DEF Clear, Work, Select
<1>2. /\ CountsInv' /\ started \in Nat /\ started' \in Nat /\ started <= started'
  BY <1>1, StartCounts DEF WorkInv
<1>3. pointer' \in [Sessions \cup {"shared"} -> Names \cup {"none"}]
  BY Pointed, ActiveIsName DEF WorkInv, Clear, Work, Select
<1>4. DirsInv' /\ WorkIsKept'
  BY <1>1, <1>3, DirsGrow DEF WorkInv, DirsInv
<1>5. JobsInv' /\ job'[s].step \notin Movers
  <2>1. CASE UNCHANGED job
    <3>1. job[s].step = "idle"
      BY <1>1 DEF Start
    <3>2. QED
      BY <1>2, <2>1, <3>1, JobsWait DEF WorkInv, Movers
  <2>2. CASE Work(s)
    <3>1. PICK to \in {Base} \cup Streams :
            Go(s, [Idle EXCEPT !.step = "write", !.to = to])
      BY <2>2, ActiveIsName, KindsDiffer DEF Work, WorkInv
    <3> DEFINE r == [Idle EXCEPT !.step = "write", !.to = to]
    <3>2. /\ r \in WorkJobs /\ r.step = "write" /\ r.left = <<>> /\ r.moved = {}
          /\ r.to = to
      BY IdleIsAJob DEF WorkJobs, Movers, Dirs
    <3> HIDE DEF r
    <3>3. JobFits(r, started') /\ r.step = "write"
      BY <3>2, NewJob DEF Movers
    <3>4. QED
      BY <1>2, <3>1, <3>3, JobsGoOn DEF WorkInv, Movers, r
  <2>3. ASSUME NEW n \in Names, Go(s, [Idle EXCEPT !.step = "set", !.name = n])
        PROVE  JobsInv' /\ job'[s].step \notin Movers
    <3> DEFINE r == [Idle EXCEPT !.step = "set", !.name = n]
    <3>1. /\ r \in WorkJobs /\ r.step = "set" /\ r.left = <<>> /\ r.moved = {}
          /\ r.from = Base
      BY IdleIsAJob DEF WorkJobs, Movers
    <3> HIDE DEF r
    <3>2. JobFits(r, started') /\ r.step = "set"
      BY <3>1, NewJob, KindsDiffer DEF Movers
    <3>3. QED
      BY <1>2, <2>3, <3>2, JobsGoOn DEF WorkInv, Movers, r
  <2>4. QED
    BY <2>1, <2>2, <2>3 DEF Clear, Select
<1>6. FoundInv'
  BY <1>1, <1>5, OthersFoundNothing
<1>7. QED
  BY <1>2, <1>4, <1>5, <1>6 DEF WorkInv

(* A step that ends a command and grows directories at most.               *)
LEMMA CommandEnds ==
  ASSUME WorkInv, NEW s \in Sessions, Finished(s), Alone(s),
         UNCHANGED started, faults' \in Nat
  PROVE  JobsInv' /\ FoundInv'
<1>1. started \in Nat /\ started <= started'
  BY DEF WorkInv, CountsInv
<1>2. JobsInv' /\ job'[s] = Idle
  BY <1>1, IdleFits, JobsGoOn DEF WorkInv, Finished
<1>3. FoundInv'
  BY <1>2, IdleFits, OthersFoundNothing DEF Movers
<1>4. QED
  BY <1>2, <1>3

LEMMA SetOrKilled ==
  ASSUME WorkInv, NEW s \in Sessions, SetPointer(s) \/ Killed(s)
  PROVE  WorkInv'
<1>1. /\ Finished(s) /\ Alone(s) /\ UNCHANGED <<started, holds, written, undone>>
      /\ faults \in Nat /\ faults' \in Nat
  BY DEF SetPointer, Killed, WorkInv, CountsInv
<1>2. JobsInv' /\ FoundInv'
  BY <1>1, CommandEnds
<1>3. job[s].name \in Names \cup {"none"}
  BY DEF WorkInv, JobsInv, JobFits, WorkJobs
<1>4. pointer' \in [Sessions \cup {"shared"} -> Names \cup {"none"}]
  BY <1>3, Pointed DEF SetPointer, Killed, WorkInv, DirsInv
<1>5. /\ there \subseteq there'
      /\ there' \cap Streams # {} => Root \in there'
      /\ there' \subseteq there \cup {Stream(job[s].name), Root}
  BY EnsuredDirs DEF SetPointer, Killed, WorkInv, DirsInv
<1>6. DirsInv' /\ WorkIsKept'
  BY <1>1, <1>4, <1>5, DirsGrow DEF WorkInv
<1>7. Root \notin Archives /\ Stream(job[s].name) \notin Archives
  BY DEF Archives, Archive, Root, Stream
<1>8. CountsInv'
  BY <1>1, <1>5, <1>7, CountsStay DEF WorkInv
<1>9. QED
  BY <1>2, <1>6, <1>8 DEF WorkInv

LEMMA WritePieceInv ==
  ASSUME WorkInv, NEW s \in Sessions, NEW i \in Items, NEW t \in Texts, Write(s, i, t)
  PROVE  WorkInv'
<1> DEFINE d == job[s].to
<1>1. /\ there' = Ensure({d}) /\ holds' = [holds EXCEPT ![d] = @ \cup {<<i, t>>}]
      /\ written' = written \cup {<<i, t>>} /\ Finished(s) /\ Alone(s)
      /\ UNCHANGED <<pointer, started, faults, undone>> /\ job[s].step = "write"
  BY DEF Write
<1>2. JobsInv' /\ FoundInv'
  BY <1>1, CommandEnds DEF WorkInv, CountsInv
<1>3. d \in {Base} \cup Streams /\ d \in Dirs
  BY <1>1 DEF WorkInv, JobsInv, JobFits, WorkJobs
<1> HIDE DEF d
<1>4. /\ there \subseteq there' /\ d \in there' /\ there' \subseteq there \cup {d, Root}
      /\ there' \cap Streams # {} => Root \in there'
  BY <1>1, EnsuredDirs DEF WorkInv
<1>5. <<i, t>> \in Pieces
  BY DEF Pieces
<1>6. /\ holds' \in [Dirs -> SUBSET Pieces] /\ holds'[d] = holds[d] \cup {<<i, t>>}
      /\ \A e \in Dirs : e # d => holds'[e] = holds[e]
  BY <1>1, <1>3, <1>5 DEF WorkInv, DirsInv
<1>7. DirsInv'
  BY <1>1, <1>4, <1>6 DEF WorkInv, DirsInv
<1>8. WorkIsKept'
  <2>1. SUFFICES ASSUME NEW piece \in written' \ undone'
                 PROVE  \E e \in there' \cap Dirs : piece \in holds'[e]
    BY DEF WorkIsKept
  <2>2. CASE piece = <<i, t>>
    BY <1>3, <1>4, <1>6, <2>2
  <2>3. CASE piece # <<i, t>>
    <3>1. PICK e \in there \cap Dirs : piece \in holds[e]
      BY <1>1, <2>1, <2>3 DEF WorkInv, WorkIsKept
    <3>2. QED
      BY <1>4, <1>6, <3>1
  <2>4. QED
    BY <2>2, <2>3
<1>9. Root \notin Archives /\ d \notin Archives
  BY <1>3, KindsDiffer DEF Dirs
<1>10. CountsInv'
  BY <1>1, <1>4, <1>9, CountsStay DEF WorkInv, CountsInv
<1>11. QED
  BY <1>2, <1>7, <1>8, <1>10 DEF WorkInv

LEMMA MakeStreamInv ==
  ASSUME WorkInv, NEW s \in Sessions, MakeStream(s)
  PROVE  WorkInv'
<1> DEFINE d == Stream(job[s].name)
<1>1. /\ there' = Ensure({d}) /\ Finished(s) /\ Alone(s) /\ Point(s, job[s].name)
      /\ \/ holds' = holds
         \/ holds' = [holds EXCEPT ![d] = @ \cup {<<"STATE.md", "blank">>}]
      /\ UNCHANGED <<started, faults, written, undone>> /\ job[s].step = "make"
  BY DEF MakeStream
<1>2. JobsInv' /\ FoundInv'
  BY <1>1, CommandEnds DEF WorkInv, CountsInv
<1>3. job[s].name \in Names \cup {"none"} /\ d \notin Archives
  BY DEF WorkInv, JobsInv, JobFits, WorkJobs, Stream, Archives, Archive
<1>4. pointer' \in [Sessions \cup {"shared"} -> Names \cup {"none"}]
  BY <1>1, <1>3, Pointed DEF WorkInv
<1> HIDE DEF d
<1>5. /\ there \subseteq there' /\ d \in there' /\ there' \subseteq there \cup {d, Root}
      /\ there' \cap Streams # {} => Root \in there'
  BY <1>1, EnsuredDirs DEF WorkInv
<1>6. <<"STATE.md", "blank">> \in Pieces
  BY ItemsToMove DEF Pieces
<1>7. /\ holds' \in [Dirs -> SUBSET Pieces]
      /\ \A e \in Dirs : e # d => holds'[e] = holds[e]
      /\ \A e \in Dirs : holds[e] \subseteq holds'[e]
  BY <1>1, <1>6 DEF WorkInv, DirsInv
<1>8. DirsInv'
  BY <1>4, <1>5, <1>7 DEF WorkInv, DirsInv
<1>9. WorkIsKept'
  BY <1>1, <1>5, <1>7 DEF WorkInv, WorkIsKept
<1>10. Root \notin Archives
  BY KindsDiffer DEF Dirs
<1>11. CountsInv'
  BY <1>1, <1>3, <1>5, <1>10, CountsStay DEF WorkInv, CountsInv
<1>12. QED
  BY <1>2, <1>8, <1>9, <1>11 DEF WorkInv

(* ----------------------- commands that begin to move ------------------- *)

LEMMA CreateStreamInv ==
  ASSUME WorkInv, NEW s \in Sessions, NEW n \in Names, Create(s, n)
  PROVE  WorkInv'
<1>1. /\ Start(s) /\ Point(s, ActiveIn(s)) /\ UNCHANGED <<holds, faults, written, undone>>
      /\ there' = there \/ there' = there \cup {Root}
  BY DEF Create
<1>2. Root \notin Archives /\ Root \notin Streams
  BY KindsDiffer DEF Dirs
<1>3. /\ CountsInv' /\ started \in Nat /\ started' \in Nat /\ started <= started'
      /\ was'[s] = <<there, holds, ActiveIn(s)>>
  BY <1>1, <1>2, StartCounts DEF WorkInv
<1>4. /\ pointer' \in [Sessions \cup {"shared"} -> Names \cup {"none"}]
      /\ pointer'[Slot(s)] = ActiveIn(s)
  BY <1>1, Pointed, ActiveIsName DEF WorkInv
<1>5. DirsInv' /\ WorkIsKept'
  BY <1>1, <1>2, <1>4, DirsGrow DEF WorkInv, DirsInv
<1>6. job[s].step = "idle"
  BY <1>1 DEF Start
<1>7. JobsInv' /\ FoundInv'
  <2>1. CASE UNCHANGED job
    BY <1>1, <1>3, <1>6, <2>1, JobsWait, OthersFoundNothing DEF WorkInv, Movers
  <2>2. CASE Go(s, [Idle EXCEPT !.step = "make", !.name = n])
    <3> DEFINE r == [Idle EXCEPT !.step = "make", !.name = n]
    <3>1. /\ r \in WorkJobs /\ r.step = "make" /\ r.left = <<>> /\ r.moved = {}
          /\ r.from = Base
      BY IdleIsAJob DEF WorkJobs, Movers
    <3> HIDE DEF r
    <3>2. JobFits(r, started') /\ r.step = "make"
      BY <3>1, NewJob, KindsDiffer DEF Movers
    <3>3. JobsInv' /\ job'[s] = r
      BY <1>3, <2>2, <3>2, JobsGoOn DEF WorkInv, r
    <3>4. QED
      BY <1>1, <3>2, <3>3, OthersFoundNothing DEF Movers
  <2>3. ASSUME NEW m \in Names, Root \notin there, there' = there,
               Go(s, [Idle EXCEPT !.step = "migrate", !.name = n,
                                  !.from = Base, !.to = Stream(m)])
        PROVE  JobsInv' /\ FoundInv'
    <3> DEFINE r == [Idle EXCEPT !.step = "migrate", !.name = n,
                                 !.from = Base, !.to = Stream(m)]
    <3>1. /\ r \in WorkJobs /\ r.step = "migrate" /\ r.left = <<>> /\ r.moved = {}
          /\ r.from = Base /\ r.to = Stream(m) /\ r.active = FALSE
      BY IdleIsAJob, KindsDiffer DEF WorkJobs, Movers
    <3> HIDE DEF r
    <3>2. JobFits(r, started')
      BY <3>1, NewJob, KindsDiffer DEF Movers
    <3>3. JobsInv' /\ job'[s] = r
      BY <1>3, <2>3, <3>2, JobsGoOn DEF WorkInv, r
    <3>4. PICK T, H, P : T = there /\ H = holds /\ P = ActiveIn(s)
      OBVIOUS
    <3>5. /\ T \cap Streams = {} /\ Base \in T /\ Stream(m) \notin T
          /\ H[Stream(m)] = {} /\ H = [d \in Dirs |-> H[d]]
      BY <2>3, <3>4, KindsDiffer DEF WorkInv, DirsInv
    <3>6. WasFound(r, T, H, P, pointer'[Slot(s)])
      BY <1>4, <2>3, <3>1, <3>4, <3>5 DEF WasFound
    <3>7. AsFound(s, T, H, P)'
      BY <1>1, <2>3, <3>1, <3>3, <3>4, <3>6 DEF AsFound
    <3>8. QED
      BY <1>1, <1>3, <3>3, <3>4, <3>7, OthersFoundNothing
  <2>4. QED
    BY <2>1, <2>2, <2>3 DEF Create
<1>8. QED
  BY <1>3, <1>5, <1>7 DEF WorkInv

LEMMA BeginMigrationInv ==
  ASSUME WorkInv, NEW s \in Sessions, BeginMigration(s)
  PROVE  WorkInv'
<1> DEFINE j == job[s]
<1>1. /\ j.step = "migrate" /\ Alone(s)
      /\ UNCHANGED <<holds, pointer, started, faults, written, undone>>
  BY DEF BeginMigration
<1>2. /\ JobFits(j, started) /\ j \in WorkJobs /\ j.from = Base /\ j.to \in Streams
      /\ j.moved = {} /\ j.active = FALSE
  BY <1>1 DEF WorkInv, JobsInv, JobFits, WorkJobs, Movers
<1>3. j.to \in Dirs /\ j.to \notin Archives /\ Root \notin Archives /\ j.to # Base
  BY <1>2, KindsDiffer DEF Dirs
<1>4. started \in Nat /\ started' \in Nat /\ started <= started' /\ faults' \in Nat
  BY <1>1 DEF WorkInv, CountsInv
<1>5. CASE Root \in there
  <2>1. Finished(s) /\ there' = there
    BY <1>5 DEF BeginMigration
  <2>2. JobsInv' /\ FoundInv'
    BY <1>1, <1>4, <2>1, CommandEnds
  <2>3. DirsInv' /\ WorkIsKept'
    BY <1>1, <2>1, DirsGrow DEF WorkInv, DirsInv
  <2>4. CountsInv'
    BY <1>1, <1>4, <2>1, CountsStay DEF WorkInv
  <2>5. QED
    BY <2>2, <2>3, <2>4 DEF WorkInv
<1>6. CASE Root \notin there
  <2> DEFINE r == [j EXCEPT !.step = "move", !.left = ToMove]
  <2>1. there' = Ensure({j.to}) /\ Go(s, r)
    BY <1>6 DEF BeginMigration
  <2>2. /\ there \subseteq there' /\ there' = there \cup {j.to} \cup {Root}
        /\ there' \cap Streams # {} => Root \in there'
    BY <1>2, <2>1, EnsuredDirs DEF WorkInv
  <2>3. /\ r \in WorkJobs /\ r.step = "move" /\ r.left = ToMove /\ r.moved = {}
        /\ r.from = Base /\ r.to = j.to /\ r.active = FALSE
    BY <1>2, ItemsToMove DEF WorkJobs, Movers
  <2> HIDE DEF r, j
  <2>4. JobFits(r, started')
    BY <1>2, <2>3, ItemsToMove DEF JobFits
  <2>5. JobsInv' /\ job'[s] = r
    BY <1>4, <2>1, <2>4, JobsGoOn DEF WorkInv
  <2>6. DirsInv' /\ WorkIsKept'
    BY <1>1, <2>2, DirsGrow DEF WorkInv, DirsInv
  <2>7. CountsInv'
    BY <1>1, <1>3, <1>4, <2>2, CountsStay DEF WorkInv
  <2>8. ASSUME was[s] = Nothing PROVE FoundInv'
    BY <1>1, <2>8, OthersFoundNothing DEF Alone
  <2>9. ASSUME was[s] # Nothing PROVE FoundInv'
    <3>1. PICK T, H, P : was[s] = <<T, H, P>> /\ AsFound(s, T, H, P)
      BY <1>1, <2>9 DEF WorkInv, FoundInv, Movers, j
    <3>2. WasFound(j, T, H, P, pointer[Slot(s)]) /\ there = T /\ holds = H
      BY <1>1, <3>1 DEF AsFound, j
    <3>3. WasFound(r, T, H, P, pointer'[Slot(s)])
      BY <1>1, <1>2, <2>3, <3>2 DEF WasFound
    <3>4. MovedSince(r, T, H, there', holds')
      BY <1>1, <1>3, <2>2, <2>3, <3>2, <3>3 DEF WasFound, MovedSince
    <3>5. AsFound(s, T, H, P)'
      BY <2>3, <2>5, <3>3, <3>4 DEF AsFound
    <3>6. was'[s] = <<T, H, P>>
      BY <1>1, <3>1 DEF Alone
    <3>7. QED
      BY <1>1, <3>5, <3>6, OthersFoundNothing
  <2>10. QED
    BY <2>5, <2>6, <2>7, <2>8, <2>9 DEF WorkInv
<1>7. QED
  BY <1>5, <1>6

(* While commands are left to start, there is a free path for an archive.  *)
LEMMA FreeArchiveFacts ==
  ASSUME CountsInv, started < MaxCommands, NEW n \in Names
  PROVE  /\ FreeArchive(n) \notin there
         /\ \E k \in 0 .. MaxCommands : k <= started /\ FreeArchive(n) = Archive(n, k)
<1> DEFINE free == {k \in 0 .. MaxCommands : Archive(n, k) \notin there}
           least == CHOOSE k \in free : \A l \in free : k <= l
<1>1. started \in free /\ free \in SUBSET Nat
  BY WorkstreamsAssumption DEF CountsInv
<1>2. FreeArchive(n) = Archive(n, least)
  BY DEF FreeArchive
<1>3. \E k \in free : \A l \in free : k <= l
  BY <1>1, LeastNumber
<1>4. least \in free /\ \A l \in free : least <= l
  BY <1>3
<1> HIDE DEF least
<1>5. QED
  BY <1>1, <1>2, <1>4

LEMMA CompleteInv ==
  ASSUME WorkInv, NEW s \in Sessions, NEW n \in Names, Complete(s, n)
  PROVE  WorkInv'
<1>1. Start(s) /\ UNCHANGED <<there, holds, faults, written, undone>>
  BY DEF Complete
<1>2. /\ CountsInv' /\ started \in Nat /\ started' = started + 1 /\ started < MaxCommands
      /\ was'[s] = <<there, holds, ActiveIn(s)>>
  BY <1>1, StartCounts DEF WorkInv
<1>3. started' \in Nat /\ started <= started'
  BY <1>2
<1>4. ActiveIn(s) \in Names \cup {"none"}
  BY ActiveIsName DEF WorkInv
<1>5. CASE Stream(n) \notin there
  <2>1. Point(s, ActiveIn(s)) /\ UNCHANGED job
    BY <1>5 DEF Complete
  <2>2. DirsInv' /\ WorkIsKept'
    BY <1>1, <1>4, <2>1, Pointed, DirsGrow DEF WorkInv, DirsInv
  <2>3. JobsInv'
    BY <1>2, <1>3, <2>1, JobsWait DEF WorkInv
  <2>4. FoundInv'
    BY <1>1, <2>1, OthersFoundNothing DEF Start, Movers
  <2>5. QED
    BY <1>2, <2>2, <2>3, <2>4 DEF WorkInv
<1>6. CASE Stream(n) \in there
  <2> DEFINE to == FreeArchive(n)
             active == (ActiveIn(s) = n)
             r == [Idle EXCEPT !.step = "archive", !.name = n, !.from = Stream(n),
                               !.to = to, !.active = active]
  <2>1. Point(s, IF ActiveIn(s) = n THEN "none" ELSE ActiveIn(s)) /\ Go(s, r)
    BY <1>6 DEF Complete
  <2>2. PICK k \in 0 .. MaxCommands : k <= started /\ to = Archive(n, k) /\ to \notin there
    BY <1>2, FreeArchiveFacts DEF WorkInv
  <2>3. to \in Dirs /\ Stream(n) \in Dirs /\ active \in BOOLEAN
    BY <2>2, KindsDiffer
  <2> HIDE DEF to, active
  <2>4. /\ r \in WorkJobs /\ r.step = "archive" /\ r.left = <<>> /\ r.moved = {}
        /\ r.name = n /\ r.from = Stream(n) /\ r.to = to /\ r.active = active
    BY <2>3, IdleIsAJob DEF WorkJobs, Movers
  <2> HIDE DEF r
  <2>5. k < started'
    BY <1>2, <2>2
  <2>6. JobFits(r, started')
    BY <2>2, <2>4, <2>5, NewJob
  <2>7. JobsInv' /\ job'[s] = r
    BY <1>2, <1>3, <2>1, <2>6, JobsGoOn DEF WorkInv, r
  <2>8. /\ pointer' \in [Sessions \cup {"shared"} -> Names \cup {"none"}]
        /\ ActiveIn(s) # n => pointer'[Slot(s)] = ActiveIn(s)
    BY <1>4, <2>1, Pointed DEF WorkInv
  <2>9. DirsInv' /\ WorkIsKept'
    BY <1>1, <2>8, DirsGrow DEF WorkInv, DirsInv
  <2>10. PICK T, H, P : T = there /\ H = holds /\ P = ActiveIn(s)
    OBVIOUS
  <2>11. /\ Stream(n) \in T /\ Root \in T /\ Stream(n) # Base /\ to \notin T
         /\ H[to] = {} /\ H = [d \in Dirs |-> H[d]]
    BY <1>6, <2>2, <2>3, <2>10, KindsDiffer DEF WorkInv, DirsInv
  <2>12. IF active THEN P = n ELSE P = pointer'[Slot(s)]
    BY <2>8, <2>10 DEF active
  <2>13. WasFound(r, T, H, P, pointer'[Slot(s)])
    BY <2>4, <2>11, <2>12 DEF WasFound
  <2>14. AsFound(s, T, H, P)'
    BY <1>1, <2>4, <2>7, <2>10, <2>13 DEF AsFound
  <2>15. FoundInv'
    BY <1>1, <1>2, <2>10, <2>14, OthersFoundNothing
  <2>16. QED
    BY <1>2, <2>7, <2>9, <2>15 DEF WorkInv
<1>7. QED
  BY <1>5, <1>6

LEMMA BeginArchiveInv ==
  ASSUME WorkInv, NEW s \in Sessions, BeginArchive(s)
  PROVE  WorkInv'
<1> DEFINE j == job[s]
           files == SetToSeq(FilesIn(j.from))
           r == [j EXCEPT !.step = "move", !.left = files]
<1>1. /\ j.step = "archive" /\ Alone(s) /\ there' = Ensure({j.to}) /\ Go(s, r)
      /\ UNCHANGED <<holds, pointer, started, faults, written, undone>>
  BY DEF BeginArchive
<1>2. /\ JobFits(j, started) /\ j \in WorkJobs /\ j.name \in Names
      /\ j.from = Stream(j.name) /\ j.moved = {}
  BY <1>1 DEF WorkInv, JobsInv, JobFits, WorkJobs, Movers
<1>3. PICK k \in 0 .. MaxCommands : k < started /\ j.to = Archive(j.name, k)
  BY <1>1, <1>2 DEF JobFits, Movers
<1>4. /\ j.to \in Archives /\ j.to \notin Streams /\ j.to \in Dirs
      /\ j.from \in Streams /\ j.from \in Dirs /\ j.from # Base /\ j.from # j.to
  BY <1>2, <1>3, KindsDiffer DEF Archives
<1>5. started \in Nat /\ started' \in Nat /\ started <= started' /\ faults' \in Nat
  BY <1>1 DEF WorkInv, CountsInv
<1>6. /\ there \subseteq there' /\ there' = there \cup {j.to}
      /\ there' \cap Streams # {} => Root \in there'
  BY <1>1, <1>4, EnsuredDirs DEF WorkInv
<1>7. FilesIn(j.from) \in SUBSET Items /\ IsFiniteSet(FilesIn(j.from))
  <2>1. FilesIn(j.from) \in SUBSET Items
    BY <1>4 DEF WorkInv, DirsInv, Pieces, FilesIn
  <2>2. QED
    BY <2>1, ItemsToMove, FS_Subset
<1>8. /\ files \in Seq(Items) /\ IsInjective(files)
      /\ Range(files) \subseteq FilesIn(j.from)
  <2>1. /\ files \in Seq(FilesIn(j.from)) /\ IsInjective(files)
        /\ Range(files) \subseteq FilesIn(j.from)
    BY <1>7, ListOfFiles
  <2>2. files \in Seq(Items)
    BY <1>7, <2>1, SeqMonotonic
  <2>3. QED
    BY <2>1, <2>2
<1> HIDE DEF files
<1>9. /\ r \in WorkJobs /\ r.step = "move" /\ r.left = files /\ r.moved = {}
      /\ r.from = j.from /\ r.to = j.to /\ r.name = j.name /\ r.active = j.active
  BY <1>2, <1>8 DEF WorkJobs, Movers
<1> HIDE DEF r, j
<1>10. JobFits(r, started')
  BY <1>1, <1>2, <1>3, <1>8, <1>9 DEF JobFits
<1>11. JobsInv' /\ job'[s] = r
  BY <1>1, <1>5, <1>10, JobsGoOn DEF WorkInv
<1>12. DirsInv' /\ WorkIsKept'
  BY <1>1, <1>6, DirsGrow DEF WorkInv, DirsInv
<1>13. CountsInv'
  <2>1. \A n \in Names, l \in 0 .. MaxCommands : Archive(n, l) = j.to => l = k
    BY <1>3, KindsDiffer
  <2>2. QED
    BY <1>1, <1>3, <1>5, <1>6, <2>1 DEF WorkInv, CountsInv
<1>14. CASE was[s] = Nothing
  BY <1>1, <1>11, <1>12, <1>13, <1>14, OthersFoundNothing DEF Alone, WorkInv
<1>15. CASE was[s] # Nothing
  <2>1. PICK T, H, P : was[s] = <<T, H, P>> /\ AsFound(s, T, H, P)
    BY <1>1, <1>15 DEF WorkInv, FoundInv, Movers, j
  <2>2. WasFound(j, T, H, P, pointer[Slot(s)]) /\ there = T /\ holds = H
    BY <1>1, <2>1 DEF AsFound, j
  <2>3. WasFound(r, T, H, P, pointer'[Slot(s)])
    BY <1>1, <1>9, <2>2 DEF WasFound
  <2>4. Range(files) \subseteq {piece[1] : piece \in holds'[j.from]}
    BY <1>1, <1>8 DEF FilesIn
  <2>5. MovedSince(r, T, H, there', holds')
    BY <1>1, <1>4, <1>6, <1>9, <2>2, <2>3, <2>4 DEF WasFound, MovedSince
  <2>6. AsFound(s, T, H, P)'
    BY <1>9, <1>11, <2>3, <2>5 DEF AsFound
  <2>7. was'[s] = <<T, H, P>>
    BY <1>1, <2>1 DEF Alone
  <2>8. FoundInv'
    BY <1>1, <2>6, <2>7, OthersFoundNothing
  <2>9. QED
    BY <1>11, <1>12, <1>13, <2>8 DEF WorkInv
<1>16. QED
  BY <1>14, <1>15

(* -------------------------------- moves -------------------------------- *)

LEMMA MoverFacts ==
  ASSUME WorkInv, NEW s \in Sessions, job[s].step = "move"
  PROVE  LET j == job[s]
         IN /\ j \in WorkJobs /\ JobFits(j, started)
            /\ j.from \in Dirs /\ j.to \in Dirs /\ j.from # j.to
            /\ j.to # Base /\ j.from # Root /\ j.to # Root
            /\ j.left \in Seq(Items) /\ IsInjective(j.left) /\ Range(j.left) \cap j.moved = {}
            /\ Migrating(s) => j.from = Base /\ j.to \in Streams /\ ~j.active
            /\ ~Migrating(s) => /\ j.name \in Names /\ j.from = Stream(j.name)
                                /\ j.from \in Streams /\ j.to \in Archives
            /\ j.from \notin Archives
<1> DEFINE j == job[s]
<1>1. JobFits(j, started) /\ j \in WorkJobs /\ j.step = "move"
  BY DEF WorkInv, JobsInv, JobFits
<1>2. j.from \in Dirs /\ j.to \in Dirs /\ j.left \in Seq(Items)
  BY <1>1 DEF WorkJobs
<1>3. CASE j.from = Base
  <2>1. j.to \in Streams /\ ~j.active
    <3>1. \A n : Stream(n) # Base
      BY DEF Stream, Base
    <3>2. QED
      BY <1>1, <1>3, <3>1 DEF JobFits, Movers
  <2>2. QED
    BY <1>1, <1>2, <1>3, <2>1, KindsDiffer DEF JobFits, Migrating
<1>4. CASE j.from # Base
  <2>1. j.name \in Names /\ j.from = Stream(j.name) /\ j.to \in Archives
    BY <1>1, <1>4 DEF JobFits, Movers, Archives
  <2>2. QED
    BY <1>1, <1>2, <1>4, <2>1, KindsDiffer DEF JobFits, Migrating
<1>5. QED
  BY <1>3, <1>4

LEMMA RenamedFacts ==
  ASSUME DirsInv, NEW from \in Dirs, NEW to \in Dirs, from # to, NEW S
  PROVE  LET h == Renamed(S, from, to)
         IN /\ h \in [Dirs -> SUBSET Pieces]
            /\ h[from] = {piece \in holds[from] : piece[1] \notin S}
            /\ h[to] = {piece \in holds[to] : piece[1] \notin S}
                         \cup {piece \in holds[from] : piece[1] \in S}
            /\ \A d \in Dirs : d # from /\ d # to => h[d] = holds[d]
BY DEF Renamed, DirsInv

(* While a command is alone, what it moved is where it goes, and the rest  *)
(* of what it is to move is where that was.                                *)
LEMMA AloneMoves ==
  ASSUME WorkInv, NEW s \in Sessions, job[s].step = "move", was[s] # Nothing
  PROVE  LET j == job[s]
         IN /\ j.from \in there /\ j.to \in there
            /\ \A piece \in holds[j.to] : piece[1] \in j.moved
            /\ \A piece \in holds[j.from] : piece[1] \notin j.moved
            /\ ~Migrating(s) => Range(j.left) \subseteq FilesIn(j.from)
<1>1. PICK T, H, P : was[s] = <<T, H, P>> /\ AsFound(s, T, H, P)
  BY DEF WorkInv, FoundInv, Movers
<1>2. job[s].from \in Dirs /\ job[s].to \in Dirs /\ job[s].from # job[s].to
  BY MoverFacts
<1>3. QED
  BY <1>1, <1>2 DEF AsFound, WasFound, MovedSince, Migrating, FilesIn

LEMMA MoveOneFound ==
  ASSUME WorkInv, NEW s \in Sessions, MoveOne(s), JobsInv',
         DirsInv', was[s] # Nothing
  PROVE  \E T, H, P : was'[s] = <<T, H, P>> /\ AsFound(s, T, H, P)'
<1> DEFINE j == job[s]
           i == Head(j.left)
<1>1. /\ j.step = "move" /\ j.left # <<>> /\ Alone(s)
      /\ UNCHANGED <<there, pointer, started, faults, written>>
  BY DEF MoveOne
<1>2. /\ j \in WorkJobs /\ j.from \in Dirs /\ j.to \in Dirs /\ j.from # j.to
      /\ j.left \in Seq(Items) /\ IsInjective(j.left) /\ Range(j.left) \cap j.moved = {}
  BY <1>1, MoverFacts
<1>3. PICK T, H, P : was[s] = <<T, H, P>> /\ AsFound(s, T, H, P)
  BY <1>1 DEF WorkInv, FoundInv, Movers
<1>4. was'[s] = <<T, H, P>>
  BY <1>1, <1>3 DEF Alone
<1>5. /\ i \in Items /\ i \notin Range(Tail(j.left)) /\ Range(Tail(j.left)) \subseteq Range(j.left)
      /\ i \in Range(j.left) /\ i \notin j.moved
  BY <1>1, <1>2, InjectiveTail
<1>6. WasFound(j, T, H, P, pointer[Slot(s)]) /\ MovedSince(j, T, H, there, holds)
  BY <1>1, <1>3 DEF AsFound
<1> HIDE DEF i
<1>7. CASE i \in FilesIn(j.from) /\ j.to \in there
  <2> DEFINE r == [j EXCEPT !.left = Tail(@), !.moved = @ \cup {i}]
  <2>1. holds' = Renamed({i}, j.from, j.to) /\ Go(s, r)
    BY <1>7 DEF MoveOne, i
  <2>2. /\ r.step = "move" /\ r.left = Tail(j.left) /\ r.moved = j.moved \cup {i}
        /\ r.name = j.name /\ r.from = j.from /\ r.to = j.to /\ r.active = j.active
    BY <1>1, <1>2 DEF WorkJobs
  <2> HIDE DEF r
  <2>3. job'[s] = r
    BY <2>1 DEF Go, WorkInv, JobsInv
  <2>4. /\ holds'[j.from] = {piece \in holds[j.from] : piece[1] \notin {i}}
        /\ holds'[j.to] = {piece \in holds[j.to] : piece[1] \notin {i}}
                             \cup {piece \in holds[j.from] : piece[1] \in {i}}
        /\ \A d \in Dirs : d # j.from /\ d # j.to => holds'[d] = holds[d]
    BY <1>2, <2>1, RenamedFacts DEF WorkInv
  <2>5. /\ holds[j.from] = {piece \in H[j.from] : piece[1] \notin j.moved}
        /\ holds[j.to] = {piece \in H[j.from] : piece[1] \in j.moved}
        /\ \A d \in Dirs : d # j.from /\ d # j.to => holds[d] = H[d]
    BY <1>2, <1>6 DEF MovedSince
  <2> HIDE DEF j
  <2>6. holds'[j.from] = {piece \in H[j.from] : piece[1] \notin r.moved}
    BY <2>2, <2>4, <2>5
  <2>7. holds'[j.to] = {piece \in H[j.from] : piece[1] \in r.moved}
    BY <1>5, <2>2, <2>4, <2>5
  <2>8. \A d \in Dirs : holds'[d] =
                 IF d = r.from THEN {piece \in H[d] : piece[1] \notin r.moved}
                 ELSE IF d = r.to THEN {piece \in H[r.from] : piece[1] \in r.moved}
                 ELSE H[d]
    <3>1. r.from = j.from /\ r.to = j.to
      BY <2>2
    <3>2. holds'[j.from] = {piece \in H[j.from] : piece[1] \notin r.moved}
      BY <2>6
    <3>3. j.to # j.from /\ holds'[j.to] = {piece \in H[j.from] : piece[1] \in r.moved}
      BY <1>2, <2>7
    <3>4. \A d \in Dirs : d # j.from /\ d # j.to => holds'[d] = H[d]
      BY <2>4, <2>5
    <3>5. QED
      BY <3>1, <3>2, <3>3, <3>4, ZenonT(60)
  <2>9. r.from # Base => Range(r.left) \subseteq {piece[1] : piece \in holds'[r.from]}
    <3>1. SUFFICES ASSUME r.from # Base, NEW x \in Range(Tail(j.left))
                   PROVE  \E piece \in holds'[r.from] : x = piece[1]
      BY <2>2
    <3>2. PICK piece \in holds[j.from] : x = piece[1]
      BY <1>5, <1>6, <2>2, <3>1 DEF MovedSince
    <3>3. QED
      BY <1>5, <2>2, <2>4, <3>1, <3>2
  <2>10. WasFound(r, T, H, P, pointer'[Slot(s)])
    BY <1>1, <1>6, <2>2 DEF WasFound
  <2>11. MovedSince(r, T, H, there', holds')
    <3>1. there' = T \cup {r.to} \cup (IF r.from = Base THEN {Root} ELSE {})
      BY <1>1, <1>6, <2>2 DEF MovedSince
    <3>2. QED
      BY <2>8, <2>9, <3>1 DEF MovedSince
  <2>12. AsFound(s, T, H, P)'
    BY <2>2, <2>3, <2>10, <2>11 DEF AsFound
  <2>13. QED
    BY <1>4, <2>12
<1>8. CASE ~(i \in FilesIn(j.from) /\ j.to \in there)
  <2> DEFINE r == [j EXCEPT !.left = Tail(@)]
  <2>1. holds' = holds /\ Go(s, r) /\ j.from = Base
    BY <1>8 DEF MoveOne, Migrating, i
  <2>2. /\ r.step = "move" /\ r.moved = j.moved
        /\ r.name = j.name /\ r.from = j.from /\ r.to = j.to /\ r.active = j.active
    BY <1>1, <1>2 DEF WorkJobs
  <2> HIDE DEF r
  <2>3. job'[s] = r
    BY <2>1 DEF Go, WorkInv, JobsInv
  <2> HIDE DEF j
  <2>4. WasFound(r, T, H, P, pointer'[Slot(s)])
    BY <1>1, <1>6, <2>2 DEF WasFound
  <2>5. MovedSince(r, T, H, there', holds')
    BY <1>1, <1>6, <2>1, <2>2 DEF MovedSince
  <2>6. AsFound(s, T, H, P)'
    BY <2>2, <2>3, <2>4, <2>5 DEF AsFound
  <2>7. QED
    BY <1>4, <2>6
<1>9. QED
  BY <1>7, <1>8

LEMMA MoveOneInv ==
  ASSUME WorkInv, NEW s \in Sessions, MoveOne(s)
  PROVE  WorkInv'
<1> DEFINE j == job[s]
           i == Head(j.left)
<1>1. /\ j.step = "move" /\ j.left # <<>> /\ Alone(s)
      /\ UNCHANGED <<there, pointer, started, faults, written>>
  BY DEF MoveOne
<1>2. /\ j \in WorkJobs /\ j.from \in Dirs /\ j.to \in Dirs /\ j.from # j.to
      /\ j.left \in Seq(Items) /\ IsInjective(j.left) /\ Range(j.left) \cap j.moved = {}
      /\ JobFits(j, started)
  BY <1>1, MoverFacts
<1>3. /\ i \in Items /\ Tail(j.left) \in Seq(Items) /\ IsInjective(Tail(j.left))
      /\ Range(Tail(j.left)) \cap (j.moved \cup {i}) = {}
  BY <1>1, <1>2, InjectiveTail
<1>4. started \in Nat /\ started' \in Nat /\ started <= started' /\ faults' \in Nat
  BY <1>1 DEF WorkInv, CountsInv
<1> HIDE DEF i
<1>5. JobsInv'
  <2>1. ASSUME NEW r \in WorkJobs, Go(s, r), r.step = "move", r.left = Tail(j.left),
               r.moved \subseteq j.moved \cup {i}, r.name = j.name, r.from = j.from,
               r.to = j.to, r.active = j.active
        PROVE  JobsInv'
    <3>1. JobFits(r, started')
      BY <1>1, <1>2, <1>3, <2>1 DEF JobFits, Movers
    <3>2. QED
      BY <1>4, <2>1, <3>1, JobsGoOn DEF WorkInv
  <2>2. CASE Go(s, [j EXCEPT !.left = Tail(@), !.moved = @ \cup {i}])
    BY <1>1, <1>2, <1>3, <2>1, <2>2 DEF WorkJobs
  <2>3. CASE Go(s, [j EXCEPT !.left = Tail(@)])
    BY <1>1, <1>2, <1>3, <2>1, <2>3 DEF WorkJobs
  <2>4. QED
    BY <2>2, <2>3 DEF MoveOne, i
<1>6. CountsInv'
  BY <1>1, <1>4, CountsStay DEF WorkInv
<1>7. DirsInv' /\ WorkIsKept'
  <2>1. CASE UNCHANGED <<holds, undone>>
    BY <1>1, <2>1, DirsGrow DEF WorkInv, DirsInv
  <2>2. CASE j.to \in there /\ holds' = Renamed({i}, j.from, j.to)
             /\ undone' = undone \cup PieceOf(j.to, i)
    <3>1. /\ holds' \in [Dirs -> SUBSET Pieces]
          /\ holds'[j.from] = {piece \in holds[j.from] : piece[1] \notin {i}}
          /\ holds'[j.to] = {piece \in holds[j.to] : piece[1] \notin {i}}
                               \cup {piece \in holds[j.from] : piece[1] \in {i}}
          /\ \A d \in Dirs : d # j.from /\ d # j.to => holds'[d] = holds[d]
      BY <1>2, <2>2, RenamedFacts DEF WorkInv
    <3> HIDE DEF j
    <3>2. DirsInv'
      BY <1>1, <1>2, <2>2, <3>1 DEF WorkInv, DirsInv
    <3>3. WorkIsKept'
      <4>1. SUFFICES ASSUME NEW piece \in written' \ undone'
                     PROVE  \E d \in there' \cap Dirs : piece \in holds'[d]
        BY DEF WorkIsKept
      <4>2. PICK d \in there \cap Dirs : piece \in holds[d]
        BY <1>1, <2>2, <4>1 DEF WorkInv, WorkIsKept
      <4>3. CASE d = j.from /\ piece[1] = i
        BY <1>1, <1>2, <2>2, <3>1, <4>2, <4>3
      <4>4. CASE d = j.from /\ piece[1] # i
        BY <1>1, <3>1, <4>2, <4>4
      <4>5. CASE d = j.to
        <5>1. piece[1] # i
          BY <2>2, <4>1, <4>2, <4>5 DEF PieceOf
        <5>2. QED
          BY <1>1, <3>1, <4>2, <4>5, <5>1
      <4>6. CASE d # j.from /\ d # j.to
        BY <1>1, <3>1, <4>2, <4>6
      <4>7. QED
        BY <4>3, <4>4, <4>5, <4>6
    <3>4. QED
      BY <3>2, <3>3
  <2>3. QED
    BY <2>1, <2>2 DEF MoveOne, i
<1>8. FoundInv'
  <2>1. CASE was[s] = Nothing
    BY <1>1, <2>1, OthersFoundNothing DEF Alone
  <2>2. CASE was[s] # Nothing
    BY <1>1, <1>5, <1>7, <2>2, MoveOneFound, OthersFoundNothing
  <2>3. QED
    BY <2>1, <2>2
<1>9. QED
  BY <1>5, <1>6, <1>7, <1>8 DEF WorkInv

LEMMA MoveDoneInv ==
  ASSUME WorkInv, NEW s \in Sessions, MoveDone(s)
  PROVE  WorkInv'
<1> DEFINE j == job[s]
<1>1. /\ j.step = "move" /\ Alone(s)
      /\ UNCHANGED <<holds, pointer, started, faults, written, undone>>
  BY DEF MoveDone
<1>2. /\ j \in WorkJobs /\ JobFits(j, started) /\ j.from \in Dirs
      /\ ~Migrating(s) => j.from # Base
  BY <1>1, MoverFacts DEF Migrating
<1>3. started \in Nat /\ started' \in Nat /\ started <= started' /\ faults' \in Nat
  BY <1>1 DEF WorkInv, CountsInv
<1>4. CASE Migrating(s)
  <2> DEFINE r == [j EXCEPT !.step = "make"]
  <2>1. Go(s, r) /\ there' = there
    BY <1>4 DEF MoveDone
  <2>2. /\ r \in WorkJobs /\ r.step = "make" /\ r.left = j.left /\ r.moved = j.moved
    BY <1>2 DEF WorkJobs
  <2> HIDE DEF r
  <2>3. JobFits(r, started')
    BY <1>2, <2>2 DEF JobFits, Movers
  <2>4. JobsInv' /\ job'[s] = r
    BY <1>3, <2>1, <2>3, JobsGoOn DEF WorkInv
  <2>5. FoundInv'
    BY <1>1, <2>2, <2>4, OthersFoundNothing DEF Movers
  <2>6. DirsInv' /\ WorkIsKept'
    BY <1>1, <2>1, DirsGrow DEF WorkInv, DirsInv
  <2>7. CountsInv'
    BY <1>1, <1>3, <2>1, CountsStay DEF WorkInv
  <2>8. QED
    BY <2>4, <2>5, <2>6, <2>7 DEF WorkInv
<1>5. CASE ~Migrating(s)
  <2> DEFINE dirs == IF holds[j.from] = {} THEN there \ {j.from} ELSE there
  <2>1. Finished(s) /\ there' = WithoutEmptyRoot(dirs)
    BY <1>5 DEF MoveDone
  <2>2. JobsInv' /\ FoundInv'
    BY <1>1, <1>3, <2>1, CommandEnds
  <2>3. /\ Root \notin Dirs /\ Root \notin Streams /\ Base # Root
    BY KindsDiffer DEF Dirs
  <2> HIDE DEF j
  <2>4. /\ there' \subseteq there
        /\ \A d \in Dirs : d \in there /\ holds[d] # {} => d \in there'
        /\ there' \cap Streams # {} => there \cap Streams # {} /\ (Root \in there => Root \in there')
        /\ Base \in there => Base \in there'
    BY <1>2, <1>5, <2>1, <2>3 DEF WithoutEmptyRoot, Dirs
  <2>5. DirsInv'
    BY <1>1, <2>4 DEF WorkInv, DirsInv
  <2>6. WorkIsKept'
    <3>1. SUFFICES ASSUME NEW piece \in written \ undone
                   PROVE  \E d \in there' \cap Dirs : piece \in holds[d]
      BY <1>1 DEF WorkIsKept
    <3>2. PICK d \in there \cap Dirs : piece \in holds[d]
      BY <3>1 DEF WorkInv, WorkIsKept
    <3>3. QED
      BY <2>4, <3>2
  <2>7. CountsInv'
    BY <1>1, <1>3, <2>4, CountsStay DEF WorkInv
  <2>8. QED
    BY <2>2, <2>5, <2>6, <2>7 DEF WorkInv
<1>6. QED
  BY <1>4, <1>5

(* What an undo does, when it takes back some of what it can.              *)
UndoOf(s, back, byItself) ==
    LET j == job[s]
        dirs == there \ {j.to}
    IN /\ j.step = "move" /\ back \in SUBSET CanGoBack(s) /\ Throws(s, byItself)
       /\ faults' = faults + (IF byItself THEN 1 ELSE 0) + (IF back # CanGoBack(s) THEN 1 ELSE 0)
       /\ holds' = [Renamed(back, j.to, j.from) EXCEPT ![j.to] = {}]
       /\ undone' = undone \cup (UNION {PieceOf(j.from, i) : i \in back})
                      \cup {piece \in holds[j.to] : piece[1] \notin back}
       /\ there' = IF j.active THEN dirs \cup {Root, j.from}
                   ELSE IF Migrating(s) THEN WithoutEmptyRoot(dirs) ELSE dirs
       /\ PointBack(s) /\ Finished(s) /\ Alone(s) /\ UNCHANGED <<started, written>>

LEMMA UndoIsOfSome ==
  ASSUME NEW s \in Sessions, Undo(s)
  PROVE  \E back, byItself : byItself \in BOOLEAN /\ UndoOf(s, back, byItself)
BY DEF Undo, UndoOf, Throws

LEMMA UndoHolds ==
  ASSUME WorkInv, NEW s \in Sessions, NEW back, NEW byItself, UndoOf(s, back, byItself)
  PROVE  LET j == job[s]
         IN /\ holds' \in [Dirs -> SUBSET Pieces] /\ holds'[j.to] = {}
            /\ holds'[j.from] = {piece \in holds[j.from] : piece[1] \notin back}
                                   \cup {piece \in holds[j.to] : piece[1] \in back}
            /\ \A d \in Dirs : d # j.from /\ d # j.to => holds'[d] = holds[d]
<1> DEFINE j == job[s]
           h == Renamed(back, j.to, j.from)
<1>1. j.from \in Dirs /\ j.to \in Dirs /\ j.from # j.to
  BY MoverFacts DEF UndoOf
<1>2. /\ h \in [Dirs -> SUBSET Pieces]
      /\ h[j.from] = {piece \in holds[j.from] : piece[1] \notin back}
                       \cup {piece \in holds[j.to] : piece[1] \in back}
      /\ \A d \in Dirs : d # j.from /\ d # j.to => h[d] = holds[d]
  BY <1>1, RenamedFacts DEF WorkInv
<1>3. holds' = [h EXCEPT ![j.to] = {}]
  BY DEF UndoOf
<1> HIDE DEF h
<1>4. QED
  BY <1>1, <1>2, <1>3

LEMMA UndoInv ==
  ASSUME WorkInv, NEW s \in Sessions, NEW back, NEW byItself \in BOOLEAN,
         UndoOf(s, back, byItself)
  PROVE  WorkInv'
<1> DEFINE j == job[s]
           dirs == there \ {j.to}
<1>1. /\ j.from \in Dirs /\ j.to \in Dirs /\ j.from # j.to /\ j.to # Base
      /\ j.from # Root /\ j.to # Root /\ j.from \notin Archives
      /\ j.active => j.name \in Names /\ j.from # Base
  BY MoverFacts DEF UndoOf, Migrating
<1>2. /\ holds' \in [Dirs -> SUBSET Pieces] /\ holds'[j.to] = {}
      /\ holds'[j.from] = {piece \in holds[j.from] : piece[1] \notin back}
                             \cup {piece \in holds[j.to] : piece[1] \in back}
      /\ \A d \in Dirs : d # j.from /\ d # j.to => holds'[d] = holds[d]
  BY UndoHolds
<1>3. back # {} => j.from \in there
  BY DEF UndoOf, CanGoBack
<1>4. /\ started' = started /\ faults' \in Nat
  BY DEF UndoOf, WorkInv, CountsInv
<1>5. JobsInv' /\ FoundInv'
  BY <1>4, CommandEnds DEF UndoOf
<1>6. pointer' \in [Sessions \cup {"shared"} -> Names \cup {"none"}]
  BY <1>1, Pointed DEF UndoOf, PointBack, WorkInv, DirsInv
<1>7. /\ \A d \in Dirs : d \in there /\ d # j.to => d \in there'
      /\ \A d \in Archives : d \in there' => d \in there
      /\ there' \cap Streams # {} => Root \in there'
  <2>1. Root \notin Dirs /\ Root \notin Archives /\ Root \notin Streams
    BY KindsDiffer DEF Dirs
  <2>2. there' = dirs \cup {Root, j.from} \/ there' = WithoutEmptyRoot(dirs) \/ there' = dirs
    BY DEF UndoOf
  <2>3. dirs \cap Streams # {} => Root \in dirs
    BY <1>1 DEF WorkInv, DirsInv
  <2>4. dirs \subseteq there /\ \A d \in Dirs : d \in there /\ d # j.to => d \in dirs
    OBVIOUS
  <2> HIDE DEF dirs
  <2>5. CASE there' = dirs \cup {Root, j.from}
    BY <1>1, <2>1, <2>4, <2>5
  <2>6. CASE there' = WithoutEmptyRoot(dirs) \/ there' = dirs
    BY <2>1, <2>3, <2>4, <2>6 DEF WithoutEmptyRoot
  <2>7. QED
    BY <2>2, <2>5, <2>6
<1>8. CountsInv'
  BY <1>4, <1>7, CountsStay DEF WorkInv
<1> HIDE DEF j
<1>9. DirsInv'
  <2>1. Base \in there'
    BY <1>1, <1>7, KindsDiffer DEF WorkInv, DirsInv
  <2>2. ASSUME NEW d \in Dirs, holds'[d] # {} PROVE d \in there'
    <3>1. CASE d = j.from
      BY <1>1, <1>2, <1>3, <1>7, <2>2, <3>1 DEF WorkInv, DirsInv
    <3>2. CASE d # j.from
      BY <1>2, <1>7, <2>2, <3>2 DEF WorkInv, DirsInv
    <3>3. QED
      BY <3>1, <3>2
  <2>3. QED
    BY <1>2, <1>6, <1>7, <2>1, <2>2 DEF DirsInv
<1>10. WorkIsKept'
  <2>1. SUFFICES ASSUME NEW piece \in written' \ undone'
                 PROVE  \E d \in there' \cap Dirs : piece \in holds'[d]
    BY DEF WorkIsKept
  <2>2. /\ piece \in written \ undone
        /\ \A i \in back : piece \notin PieceOf(j.from, i)
        /\ piece \in holds[j.to] => piece[1] \in back
    BY <2>1 DEF UndoOf, j
  <2>3. PICK d \in there \cap Dirs : piece \in holds[d]
    BY <2>2 DEF WorkInv, WorkIsKept
  <2>4. CASE d = j.to
    BY <1>1, <1>2, <1>3, <1>7, <2>2, <2>3, <2>4
  <2>5. CASE d = j.from
    <3>1. piece[1] \notin back
      BY <2>2, <2>3, <2>5 DEF PieceOf
    <3>2. QED
      BY <1>1, <1>2, <1>7, <2>3, <2>5, <3>1
  <2>6. CASE d # j.to /\ d # j.from
    BY <1>2, <1>7, <2>3, <2>6
  <2>7. QED
    BY <2>4, <2>5, <2>6
<1>11. QED
  BY <1>5, <1>8, <1>9, <1>10 DEF WorkInv

LEMMA WorkstreamsNextInv == WorkInv /\ [WorkstreamsNext]_workstreamVars => WorkInv'
<1> SUFFICES ASSUME WorkInv, [WorkstreamsNext]_workstreamVars PROVE WorkInv'
  OBVIOUS
<1>1. CASE UNCHANGED workstreamVars
  BY <1>1 DEF workstreamVars, WorkInv, DirsInv, CountsInv, JobsInv, FoundInv, AsFound,
              WorkIsKept, Slot
<1>2. ASSUME NEW s \in Sessions, Undo(s) PROVE WorkInv'
  BY <1>2, UndoIsOfSome, UndoInv
<1>3. QED
  BY <1>1, <1>2, SelectClearWork, SetOrKilled, WritePieceInv, MakeStreamInv, CreateStreamInv,
     BeginMigrationInv, CompleteInv, BeginArchiveInv, MoveOneInv, MoveDoneInv
     DEF WorkstreamsNext

(* ------------------------ what an undo leaves -------------------------- *)

(* When no other command ran, a rename only throws by itself, and what was *)
(* moved can all go back.                                                  *)
LEMMA UndoOfOneFault ==
  ASSUME WorkInv, NEW s \in Sessions, NEW back, NEW byItself \in BOOLEAN,
         UndoOf(s, back, byItself), was[s] # Nothing
  PROVE  \/ faults' > faults + 1
         \/ back = CanGoBack(s) /\ CanGoBack(s) = job[s].moved \cap FilesIn(job[s].to)
<1> DEFINE j == job[s]
<1>1. /\ j.from \in there /\ j.to \in there
      /\ ~Migrating(s) => Range(j.left) \subseteq FilesIn(j.from)
  BY AloneMoves DEF UndoOf
<1>2. Throws(s, byItself) /\ j.left # <<>>
  BY DEF UndoOf, Throws
<1>3. Head(j.left) \in Range(j.left)
  BY <1>2, MoverFacts, InjectiveTail DEF UndoOf
<1>4. byItself
  BY <1>1, <1>2, <1>3 DEF Throws
<1>5. back # CanGoBack(s) => faults' > faults + 1
  BY <1>4 DEF UndoOf, WorkInv, CountsInv
<1>6. CanGoBack(s) = j.moved \cap FilesIn(j.to)
  BY <1>1 DEF CanGoBack
<1>7. QED
  BY <1>5, <1>6

LEMMA UndoLosesNothing ==
  ASSUME WorkInv, NEW s \in Sessions, NEW back, NEW byItself \in BOOLEAN,
         UndoOf(s, back, byItself), was[s] # Nothing
  PROVE  undone' = undone \/ faults' > faults + 1
<1> DEFINE j == job[s]
<1>1. /\ \A piece \in holds[j.to] : piece[1] \in j.moved
      /\ \A piece \in holds[j.from] : piece[1] \notin j.moved
  BY AloneMoves DEF UndoOf
<1>2. SUFFICES ASSUME back = CanGoBack(s), CanGoBack(s) = j.moved \cap FilesIn(j.to)
               PROVE  undone' = undone
  BY UndoOfOneFault
<1>3. \A i \in back : PieceOf(j.from, i) = {}
  BY <1>1, <1>2 DEF PieceOf
<1>4. {piece \in holds[j.to] : piece[1] \notin back} = {}
  BY <1>1, <1>2 DEF FilesIn
<1>5. QED
  BY <1>3, <1>4 DEF UndoOf

LEMMA UndoRestores ==
  ASSUME WorkInv, NEW s \in Sessions, NEW back, NEW byItself \in BOOLEAN,
         UndoOf(s, back, byItself), was[s] # Nothing
  PROVE  <<there', holds', pointer'[Slot(s)]>> = was[s] \/ faults' > faults + 1
<1> DEFINE j == job[s]
<1>1. PICK T, H, P : was[s] = <<T, H, P>> /\ AsFound(s, T, H, P)
  BY DEF WorkInv, FoundInv, Movers, UndoOf
<1>2. WasFound(j, T, H, P, pointer[Slot(s)]) /\ MovedSince(j, T, H, there, holds)
  BY <1>1 DEF AsFound, UndoOf
<1>3. SUFFICES ASSUME back = CanGoBack(s), CanGoBack(s) = j.moved \cap FilesIn(j.to)
               PROVE  there' = T /\ holds' = H /\ pointer'[Slot(s)] = P
  BY <1>1, UndoOfOneFault
<1>4. /\ j.from \in Dirs /\ j.to \in Dirs /\ j.from # j.to /\ j.from # Root /\ j.to # Root
      /\ Migrating(s) => j.from = Base /\ ~j.active
      /\ ~Migrating(s) => j.from # Base /\ j.name \in Names
  BY MoverFacts DEF UndoOf, Migrating
<1>5. /\ holds' \in [Dirs -> SUBSET Pieces] /\ holds'[j.to] = {}
      /\ holds'[j.from] = {piece \in holds[j.from] : piece[1] \notin back}
                             \cup {piece \in holds[j.to] : piece[1] \in back}
      /\ \A d \in Dirs : d # j.from /\ d # j.to => holds'[d] = holds[d]
  BY UndoHolds
<1>6. /\ holds[j.from] = {piece \in H[j.from] : piece[1] \notin j.moved}
      /\ holds[j.to] = {piece \in H[j.from] : piece[1] \in j.moved}
      /\ \A d \in Dirs : d # j.from /\ d # j.to => holds[d] = H[d]
      /\ H[j.to] = {} /\ H = [d \in Dirs |-> H[d]]
  BY <1>2, <1>4 DEF MovedSince, WasFound
<1>7. back \subseteq j.moved /\ \A piece \in holds[j.to] : piece[1] \in back
  BY <1>3, <1>6 DEF FilesIn
<1>8. pointer'[Slot(s)] = P
  BY <1>2, <1>4, Pointed DEF UndoOf, PointBack, WasFound, WorkInv
<1>9. there' = T
  <2>1. /\ there = T \cup {j.to} \cup (IF j.from = Base THEN {Root} ELSE {})
        /\ j.from \in T /\ j.to \notin T
        /\ IF j.from = Base THEN Root \notin T /\ T \cap Streams = {} ELSE Root \in T
    BY <1>2 DEF WasFound, MovedSince
  <2>2. there' = IF j.active THEN (there \ {j.to}) \cup {Root, j.from}
                 ELSE IF Migrating(s) THEN WithoutEmptyRoot(there \ {j.to}) ELSE there \ {j.to}
    BY DEF UndoOf
  <2>3. Root \notin Streams
    BY KindsDiffer DEF Dirs
  <2> HIDE DEF j
  <2>4. CASE Migrating(s)
    <3>1. there \ {j.to} = T \cup {Root} /\ there' = WithoutEmptyRoot(T \cup {Root})
      BY <1>4, <2>1, <2>2, <2>4
    <3>2. (T \cup {Root}) \cap Streams = {} /\ (T \cup {Root}) \ {Root} = T
      BY <1>4, <2>1, <2>3, <2>4
    <3>3. QED
      BY <3>1, <3>2 DEF WithoutEmptyRoot
  <2>5. CASE ~Migrating(s)
    BY <1>4, <2>1, <2>2, <2>5
  <2>6. QED
    BY <2>4, <2>5
<1> HIDE DEF j
<1>10. holds' = H
  <2>1. holds'[j.from] = H[j.from]
    BY <1>5, <1>6, <1>7
  <2>2. \A d \in Dirs : holds'[d] = H[d]
    BY <1>5, <1>6, <2>1
  <2>3. QED
    BY <1>5, <1>6, <2>2
<1>11. QED
  BY <1>8, <1>9, <1>10

LEMMA MoveReplacesNothing ==
  ASSUME WorkInv, NEW s \in Sessions, MoveOne(s), was[s] # Nothing
  PROVE  undone' = undone
<1> DEFINE j == job[s]
           i == Head(j.left)
<1>1. j.step = "move" /\ j.left # <<>>
  BY DEF MoveOne
<1>2. \A piece \in holds[j.to] : piece[1] \in j.moved
  BY <1>1, AloneMoves
<1>3. i \in Range(j.left) /\ Range(j.left) \cap j.moved = {}
  BY <1>1, MoverFacts, InjectiveTail
<1>4. PieceOf(j.to, i) = {}
  BY <1>2, <1>3 DEF PieceOf
<1>5. undone' = undone \/ undone' = undone \cup PieceOf(j.to, i)
  BY DEF MoveOne
<1>6. QED
  BY <1>4, <1>5

LEMMA StepLosesNothing ==
  ASSUME WorkInv, [WorkstreamsNext]_workstreamVars
  PROVE  LossNeedsTwoFaults
<1> SUFFICES ASSUME undone' # undone, NEW q \in Sessions, was'[q] # Nothing
             PROVE  faults' > faults + 1
  BY DEF LossNeedsTwoFaults
<1>1. PICK s \in Sessions : MoveOne(s) \/ Undo(s)
  <2>1. WorkstreamsNext
    BY DEF workstreamVars
  <2>2. \A s \in Sessions, n \in Names :
          Create(s, n) \/ Complete(s, n) \/ Select(s, n) => undone' = undone
    BY DEF Create, Complete, Select
  <2>3. \A s \in Sessions :
          Clear(s) \/ Work(s) \/ BeginMigration(s) \/ MakeStream(s) \/ BeginArchive(s)
            => undone' = undone
    BY DEF Clear, Work, BeginMigration, MakeStream, BeginArchive
  <2>4. \A s \in Sessions :
          MoveDone(s) \/ SetPointer(s) \/ Killed(s) => undone' = undone
    BY DEF MoveDone, SetPointer, Killed
  <2>5. \A s \in Sessions, i \in Items, t \in Texts : Write(s, i, t) => undone' = undone
    BY DEF Write
  <2>6. QED
    BY <2>1, <2>2, <2>3, <2>4, <2>5 DEF WorkstreamsNext
<1>2. Alone(s)
  BY <1>1 DEF MoveOne, Undo
<1>3. q = s /\ was[s] # Nothing
  BY <1>2 DEF Alone
<1>4. Undo(s)
  BY <1>1, <1>3, MoveReplacesNothing
<1>5. QED
  BY <1>3, <1>4, UndoIsOfSome, UndoLosesNothing

(* For any sessions, names, texts and bounds, interleaved, killed and with *)
(* renames that throw: what was written stays, but for an undo that meets  *)
(* another command or a second fault; one that meets neither leaves the    *)
(* directories, the files and the pointer as the command found them.       *)
THEOREM WorkIsSafe == WorkstreamsSpec => WorkSurvives
<1>1. ASSUME WorkInv, WorkInv', [WorkstreamsNext]_workstreamVars
      PROVE  LossNeedsTwoFaults /\ FailureLeavesNoTrace /\ WorkIsKept'
  <2>1. LossNeedsTwoFaults
    BY <1>1, StepLosesNothing
  <2>2. FailureLeavesNoTrace
    BY <1>1, UndoIsOfSome, UndoRestores DEF FailureLeavesNoTrace
  <2>3. QED
    BY <1>1, <2>1, <2>2 DEF WorkInv
<1>2. QED
  BY <1>1, WorkstreamsInitInv, WorkstreamsNextInv, PTL DEF WorkstreamsSpec, WorkSurvives

-----------------------------------------------------------------------------
(***************************************************************************)
(* The values of the variables                                             *)
(*                                                                         *)
(* What the invariants above do not say of the types already.              *)
(***************************************************************************)

LEMMA WavesFit == WavesInv => WavesTypeOK
<1> SUFFICES ASSUME WavesInv PROVE WavesTypeOK
  OBVIOUS
<1>1. \A p \in PlanIds : Cardinality(Open(p)) \in Nat
  BY FiniteReferences, FS_CardinalityType DEF WavesInv
<1>2. inDeg \in [PlanIds -> Nat]
  BY <1>1 DEF WavesInv, QueueInv
<1>3. QED
  BY <1>2 DEF WavesInv, PlansInv, WavesTypeOK

(* The plans of a phase wait for a natural number of others, and have a    *)
(* level or none yet (cmdPhasePlanIndex).                                  *)
THEOREM WavesTyped == WavesSpec => []WavesTypeOK
<1>1. WavesInit => WavesInv
  BY WavesInitInv
<1>2. WavesInv /\ [WavesNext]_waveVars => WavesInv'
  BY WavesNextInv
<1>3. WavesInv => WavesTypeOK
  BY WavesFit
<1>4. QED
  BY <1>1, <1>2, <1>3, PTL DEF WavesSpec

(* --------------------------- the graph's values ------------------------ *)

(* A commit is among its ancestors; how far the builds are.                *)
BuildersFit ==
    /\ \A c \in DOMAIN history : c \in history[c]
    /\ builder \in [Builders -> {"idle", "update", "copy", "snapshot"}]
    /\ unrecorded \in BOOLEAN

LEMMA BuildersStepFits == GraphInv /\ BuildersFit /\ [GraphNext]_graphVars => BuildersFit'
<1> SUFFICES ASSUME GraphInv, BuildersFit, [GraphNext]_graphVars PROVE BuildersFit'
  OBVIOUS
<1>1. CASE CommitCode
  <2>1. PICK line : /\ history' = Append(history, {Len(history) + 1} \cup line)
                    /\ history \in Seq(SUBSET Nat)
    BY <1>1 DEF CommitCode, GraphInv, HistoryFits
  <2>2. DOMAIN history = 1 .. Len(history) /\ Len(history) \in Nat
    BY <2>1
  <2>3. history' = [i \in 1 .. Len(history) + 1 |->
                      IF i = Len(history) + 1 THEN {Len(history) + 1} \cup line ELSE history[i]]
    BY <2>1, <2>2 DEF Append
  <2>4. \A c \in DOMAIN history' : c \in history'[c]
    BY <2>2, <2>3 DEF BuildersFit
  <2>5. QED
    BY <1>1, <2>4 DEF CommitCode, BuildersFit
<1>2. CASE UNCHANGED graphVars \/ CheckoutCode
  BY <1>2 DEF graphVars, CheckoutCode, BuildersFit
<1>3. ASSUME NEW b \in Builders,
             GraphifyBuild(b) \/ Extract(b) \/ CopyGraph(b) \/ WriteSnapshot(b) \/ BuildFails(b)
      PROVE  BuildersFit'
  BY <1>3 DEF GraphifyBuild, Extract, CopyGraph, WriteSnapshot, BuildFails, Builds, gitVars,
              BuildersFit
<1>4. QED
  BY <1>1, <1>2, <1>3 DEF GraphNext

LEMMA GraphFits == GraphInv /\ BuildersFit => GraphTypeOK
<1> SUFFICES ASSUME GraphInv, BuildersFit PROVE GraphTypeOK
  OBVIOUS
<1>1. DOMAIN history = 1 .. Len(history) /\ DOMAIN codeOf = DOMAIN history /\ Len(history) \in Nat
  BY DEF GraphInv, HistoryFits
<1>2. \A file \in {graphOut, graphJson, snapshot} : file.built_at \in 0 .. Len(history)
  BY <1>1 DEF GraphInv, FilesFitHistory, NoGraph
<1>3. QED
  BY <1>1, <1>2 DEF GraphInv, HistoryFits, BuildersFit, GraphTypeOK

(* The files of a build have a commit of the repository, or none, and a    *)
(* commit comes after its ancestors (graphify.cjs).                        *)
THEOREM GraphTyped == GraphSpec => []GraphTypeOK
<1>1. GraphInit => GraphInv /\ BuildersFit
  <2>1. GraphInit => DOMAIN history = {1} /\ history[1] = {1}
    BY DEF GraphInit
  <2>2. QED
    BY <2>1, GraphInitInv DEF GraphInit, BuildersFit
<1>2. (GraphInv /\ BuildersFit) /\ [GraphNext]_graphVars => (GraphInv /\ BuildersFit)'
  BY GraphNextInv, BuildersStepFits
<1>3. GraphInv /\ BuildersFit => GraphTypeOK
  BY GraphFits
<1>4. QED
  BY <1>1, <1>2, <1>3, PTL DEF GraphSpec

(* -------------------------- the surface's values ----------------------- *)

SurfaceFiles == Skills \cup GsdAgents \cup UserFiles

(* SurfaceTypeOK, with a name for the files.                               *)
SurfaceFit ==
    /\ surface \in SurfaceStates \cup {NoSurface}
    /\ marker \in ProfileChoices \cup {NoProfile, Everything}
    /\ shown \in [Directories -> SUBSET SurfaceFiles]
    /\ staged \in [Directories -> SUBSET (Skills \cup GsdAgents)]
    /\ sync \in [dir : Directories, doing : {"nothing", "copy", "delete", "applied"},
                 to : SUBSET SurfaceFiles]
    /\ stuck \subseteq SurfaceFiles
    /\ surfaceFaults \in 0 .. MaxSurfaceFaults

LEMMA StagedTyped ==
  ASSUME NEW skills PROVE Staged(skills) \in [Directories -> SUBSET (Skills \cup GsdAgents)]
<1>1. Staged(skills) = [d \in Directories |-> Staged(skills)[d]]
  BY DEF Staged, Directories
<1>2. \A d \in Directories : Staged(skills)[d] \subseteq Skills \cup GsdAgents
  BY StagedFiles DEF Directories
<1>3. QED
  BY <1>1, <1>2

LEMMA WrittenSurface ==
  ASSUME SurfaceFit, WriteSurface PROVE surface' \in SurfaceStates
<1>1. CurrentSurface \in SurfaceStates
  BY DEF CurrentSurface, SurfaceFit, SurfaceStates
<1>2. PICK c \in SurfaceStates : c = CurrentSurface
  BY <1>1
<1>3. surface' \in {[c EXCEPT !.base = modes] : modes \in ProfileChoices} \cup
                  {[c EXCEPT !.disabled = @ \cup {k}] : k \in DOMAIN Clusters} \cup
                  {[c EXCEPT !.disabled = @ \ {k}] : k \in DOMAIN Clusters} \cup
                  {[c EXCEPT !.adds = skills] : skills \in Additions} \cup
                  {[c EXCEPT !.removes = skills] : skills \in Removals}
  BY <1>2 DEF WriteSurface
<1>4. QED
  BY <1>3 DEF SurfaceStates

LEMMA SurfaceStepFits == SurfaceFit /\ [SurfaceNext]_surfaceVars => SurfaceFit'
<1> SUFFICES ASSUME SurfaceFit, [SurfaceNext]_surfaceVars PROVE SurfaceFit'
  OBVIOUS
<1>1. CASE WriteSurface
  BY <1>1, WrittenSurface DEF WriteSurface, SurfaceFit
<1>2. CASE Reset
  BY <1>2 DEF Reset, SurfaceFit
<1>3. ASSUME NEW asked \in ProfileChoices \cup {NoProfile}, InstallProfile(asked)
      PROVE  SurfaceFit'
  <2>1. EffectiveProfile(asked) \in ProfileChoices \cup {NoProfile, Everything}
    BY DEF EffectiveProfile, SurfaceFit
  <2>2. PICK files : /\ files = [commands |-> Skills, agents |-> GsdAgents]
                         \/ \E skills : files = Staged(skills)
                     /\ shown' = [d \in Directories |-> UserFiles \cup files[d]]
    BY <1>3 DEF InstallProfile
  <2>3. \A d \in Directories : files[d] \subseteq Skills \cup GsdAgents
    BY <2>2, StagedTyped DEF Directories
  <2>4. shown' \in [Directories -> SUBSET SurfaceFiles]
    BY <2>2, <2>3 DEF SurfaceFiles
  <2>5. QED
    BY <1>3, <2>1, <2>4 DEF InstallProfile, SurfaceFit
<1>4. CASE ApplySurface
  <2>1. PICK now : now = Staged(ResolveSurface)
    OBVIOUS
  <2>2. staged' = now /\ now \in [Directories -> SUBSET (Skills \cup GsdAgents)]
    BY <1>4, <2>1, StagedTyped DEF ApplySurface
  <2>3. now["commands"] \subseteq SurfaceFiles
    BY <2>2 DEF Directories, SurfaceFiles
  <2>4. QED
    BY <1>4, <2>2, <2>3 DEF ApplySurface, SurfaceFit, Directories
<1>5. ASSUME NEW f \in sync.to, CopyFile(f) \/ DeleteFile(f) PROVE SurfaceFit'
  <2>1. PICK d \in Directories : d = sync.dir
    BY DEF SurfaceFit
  <2>2. /\ f \in SurfaceFiles /\ sync' = [sync EXCEPT !.to = @ \ {f}]
        /\ \/ shown' = shown \/ shown' = [shown EXCEPT ![d] = @ \cup {f}]
           \/ shown' = [shown EXCEPT ![d] = @ \ {f}]
    BY <1>5, <2>1 DEF CopyFile, DeleteFile, SurfaceFit
  <2>3. shown' \in [Directories -> SUBSET SurfaceFiles]
    BY <2>2 DEF SurfaceFit
  <2>4. surfaceFaults' \in 0 .. MaxSurfaceFaults /\ stuck' \subseteq SurfaceFiles
    BY <1>5, <2>2, SurfaceAssumption DEF CopyFile, DeleteFile, SurfaceFit
  <2>5. QED
    BY <1>5, <2>2, <2>3, <2>4 DEF CopyFile, DeleteFile, SurfaceFit
<1>6. CASE BeginDeleting
  <2>1. PICK d \in Directories : d = sync.dir
    BY DEF SurfaceFit
  <2>2. Superseded(d) \subseteq SurfaceFiles
    BY DEF Superseded, SurfaceFit, SurfaceFiles
  <2>3. sync' = [sync EXCEPT !.doing = "delete", !.to = Superseded(d)]
    BY <1>6, <2>1 DEF BeginDeleting
  <2>4. QED
    BY <1>6, <2>2, <2>3 DEF BeginDeleting, SurfaceFit
<1>7. CASE NextDirectory
  <2>1. staged["agents"] \subseteq SurfaceFiles
    BY DEF SurfaceFit, Directories, SurfaceFiles
  <2>2. QED
    BY <1>7, <2>1 DEF NextDirectory, SurfaceFit, Directories
<1>8. CASE CutShort
  <2>1. surfaceFaults' \in 0 .. MaxSurfaceFaults
    BY <1>8, SurfaceAssumption DEF CutShort, SurfaceFit
  <2>2. sync' \in [dir : Directories, doing : {"nothing", "copy", "delete", "applied"},
                  to : SUBSET SurfaceFiles]
    BY <1>8 DEF CutShort, SurfaceFit
  <2>3. QED
    BY <1>8, <2>1, <2>2 DEF CutShort, SurfaceFit
<1>9. CASE UNCHANGED surfaceVars
  BY <1>9 DEF surfaceVars, SurfaceFit
<1>10. QED
  BY <1>1, <1>2, <1>3, <1>4, <1>5, <1>6, <1>7, <1>8, <1>9 DEF SurfaceNext

(* What .gsd-surface.json and .gsd-profile say is a surface and a profile  *)
(* that were asked for, or the whole of it, and the directories show no    *)
(* files but those of the program and the user's (surface.cjs).            *)
THEOREM SurfaceTyped == SurfaceSpec => []SurfaceTypeOK
<1>1. SurfaceInit => SurfaceFit
  BY SurfaceAssumption DEF SurfaceInit, SurfaceFit, SurfaceFiles, Directories
<1>2. SurfaceFit /\ [SurfaceNext]_surfaceVars => SurfaceFit'
  BY SurfaceStepFits
<1>3. SurfaceFit => SurfaceTypeOK
  BY DEF SurfaceFit, SurfaceFiles, SurfaceTypeOK
<1>4. QED
  BY <1>1, <1>2, <1>3, PTL DEF SurfaceSpec

(* ----------------------- the workstreams' values ----------------------- *)

(* Every command but one that writes knows the workstream that it is of.   *)
JobsNamed ==
    \A s \in Sessions : job[s].step \notin {"idle", "write"} => job[s].name \in Names

DirsKnown == there \subseteq Dirs \cup {Root}

(* A directory has one text of a file.                                     *)
OnePieceEach == \A d \in Dirs : \A p, q \in holds[d] : p[1] = q[1] => p = q

StreamsFit == JobsNamed /\ DirsKnown /\ OnePieceEach

LEMMA NamedGoesOn ==
  ASSUME WorkInv, JobsNamed, NEW s \in Sessions, NEW r, Go(s, r),
         r.step \in {"idle", "write"} \/ r.name \in Names
  PROVE  JobsNamed'
<1>1. job'[s] = r /\ \A q \in Sessions \ {s} : job'[q] = job[q]
  BY DEF Go, WorkInv, JobsInv
<1>2. QED
  BY <1>1 DEF JobsNamed

LEMMA JobsStayNamed ==
  ASSUME WorkInv, JobsNamed, [WorkstreamsNext]_workstreamVars
  PROVE  JobsNamed'
<1> SUFFICES ASSUME NEW s \in Sessions, ~UNCHANGED job,
                    \/ \E n \in Names : Create(s, n) \/ Complete(s, n) \/ Select(s, n)
                    \/ Clear(s) \/ Work(s)
                    \/ BeginMigration(s) \/ MakeStream(s) \/ BeginArchive(s)
                    \/ MoveOne(s) \/ Undo(s) \/ MoveDone(s) \/ SetPointer(s)
                    \/ \E i \in Items, t \in Texts : Write(s, i, t)
                    \/ Killed(s)
             PROVE  JobsNamed'
  BY DEF WorkstreamsNext, workstreamVars, JobsNamed
<1>1. job[s] \in WorkJobs
  BY DEF WorkInv, JobsInv, JobFits
<1>2. CASE Finished(s)
  BY <1>2, NamedGoesOn, IdleIsAJob DEF Finished
<1>3. ASSUME NEW n \in Names, Create(s, n) \/ Complete(s, n) \/ Select(s, n)
      PROVE  JobsNamed'
  <2>1. PICK r : Go(s, r) /\ r.name = n
    <3>1. /\ \A m : [Idle EXCEPT !.step = "migrate", !.name = n, !.from = Base, !.to = m].name = n
          /\ \A m, e, a : [Idle EXCEPT !.step = "archive", !.name = n, !.from = m, !.to = e,
                                       !.active = a].name = n
          /\ \A k : [Idle EXCEPT !.step = k, !.name = n].name = n
      BY IdleIsAJob DEF WorkJobs
    <3>2. CASE Create(s, n)
      BY <3>1, <3>2 DEF Create
    <3>3. CASE Complete(s, n)
      <4>1. Go(s, [Idle EXCEPT !.step = "archive", !.name = n, !.from = Stream(n),
                               !.to = FreeArchive(n), !.active = (ActiveIn(s) = n)])
        BY <3>3 DEF Complete
      <4>2. PICK m, e, a : m = Stream(n) /\ e = FreeArchive(n) /\ a = (ActiveIn(s) = n)
        OBVIOUS
      <4>3. PICK r : r = [Idle EXCEPT !.step = "archive", !.name = n, !.from = m, !.to = e,
                                      !.active = a]
        OBVIOUS
      <4>4. Go(s, r) /\ r.name = n
        BY <3>1, <4>1, <4>2, <4>3
      <4>5. QED
        BY <4>4
    <3>4. CASE Select(s, n)
      BY <3>1, <3>4 DEF Select
    <3>5. QED
      BY <1>3, <3>2, <3>3, <3>4
  <2>2. QED
    BY <2>1, NamedGoesOn
<1>4. CASE Work(s)
  <2>1. PICK r : Go(s, r) /\ r.step = "write"
    <3>1. \A d : [Idle EXCEPT !.step = "write", !.to = d].step = "write"
      BY IdleIsAJob DEF WorkJobs
    <3>2. QED
      BY <1>4, <3>1 DEF Work
  <2>2. QED
    BY <2>1, NamedGoesOn
<1>5. CASE ~Finished(s) /\ (BeginMigration(s) \/ BeginArchive(s) \/ MoveOne(s) \/ MoveDone(s))
  <2>1. job[s].name \in Names
    BY <1>5 DEF BeginMigration, BeginArchive, MoveOne, MoveDone, JobsNamed
  <2>2. PICK c \in WorkJobs : c = job[s]
    BY <1>1
  <2>3. \E r : Go(s, r) /\ r.name = c.name
    <3>1. /\ \A l : [c EXCEPT !.step = "move", !.left = l].name = c.name
          /\ \A l, m : [[c EXCEPT !.left = l] EXCEPT !.moved = m].name = c.name
          /\ \A l : [c EXCEPT !.left = l].name = c.name
          /\ [c EXCEPT !.step = "make"].name = c.name
      BY DEF WorkJobs
    <3>2. CASE BeginMigration(s)
      BY <1>5, <2>2, <3>1, <3>2 DEF BeginMigration
    <3>3. CASE BeginArchive(s)
      BY <2>2, <3>1, <3>3 DEF BeginArchive
    <3>4. CASE MoveOne(s)
      <4>1. PICK rest, m : /\ rest \in WorkJobs /\ rest.name = c.name
                           /\ Go(s, rest) \/ Go(s, [rest EXCEPT !.moved = m])
        <5>1. PICK l : l = Tail(c.left)
          OBVIOUS
        <5>2. [c EXCEPT !.left = l] \in WorkJobs
          <6>1. c.left \in Seq(Items) /\ c.left # <<>>
            BY <2>2, <3>4 DEF MoveOne, WorkJobs
          <6>2. l \in Seq(Items)
            BY <5>1, <6>1
          <6>3. QED
            BY <6>2 DEF WorkJobs
        <5>3. \/ Go(s, [[c EXCEPT !.left = l] EXCEPT
                          !.moved = [c EXCEPT !.left = l].moved \cup {Head(c.left)}])
              \/ Go(s, [c EXCEPT !.left = l])
          BY <2>2, <3>4, <5>1 DEF MoveOne
        <5>4. QED
          BY <3>1, <5>2, <5>3
      <4>2. [rest EXCEPT !.moved = m].name = rest.name
        BY <4>1 DEF WorkJobs
      <4>3. QED
        BY <4>1, <4>2
    <3>5. CASE MoveDone(s)
      BY <1>5, <2>2, <3>1, <3>5 DEF MoveDone
    <3>6. QED
      BY <1>5, <3>2, <3>3, <3>4, <3>5
  <2>4. QED
    BY <2>1, <2>2, <2>3, NamedGoesOn
<1>6. QED
  BY <1>2, <1>3, <1>4, <1>5 DEF Clear, MakeStream, Undo, SetPointer, Write, Killed

LEMMA DirsStayKnown ==
  ASSUME WorkInv, JobsNamed, DirsKnown, [WorkstreamsNext]_workstreamVars
  PROVE  DirsKnown'
<1> SUFFICES ASSUME NEW s \in Sessions, ~UNCHANGED there,
                    \/ \E n \in Names : Create(s, n)
                    \/ BeginMigration(s) \/ MakeStream(s) \/ BeginArchive(s)
                    \/ Undo(s) \/ MoveDone(s) \/ SetPointer(s)
                    \/ \E i \in Items, t \in Texts : Write(s, i, t)
             PROVE  DirsKnown'
  BY DEF WorkstreamsNext, workstreamVars, DirsKnown, Complete, Select, Clear, Work, MoveOne, Killed
<1>1. job[s].to \in Dirs /\ job[s].from \in Dirs
  BY DEF WorkInv, JobsInv, JobFits, WorkJobs
<1>2. job[s].step \in {"make", "set"} => Stream(job[s].name) \in Dirs
  BY KindsDiffer DEF JobsNamed
<1>3. \A d \in Dirs : Ensure({d}) \subseteq Dirs \cup {Root}
  BY EnsuredDirs DEF WorkInv, DirsKnown
<1>4. \A T : WithoutEmptyRoot(T) \subseteq T
  BY DEF WithoutEmptyRoot
<1>5. CASE Undo(s) \/ MoveDone(s)
  <2>1. there' \subseteq there \cup {Root, job[s].from}
    BY <1>4, <1>5 DEF Undo, MoveDone
  <2>2. QED
    BY <1>1, <2>1 DEF DirsKnown
<1>6. CASE ~(Undo(s) \/ MoveDone(s))
  BY <1>1, <1>2, <1>3, <1>6
     DEF Create, BeginMigration, MakeStream, BeginArchive, SetPointer, Write, DirsKnown
<1>7. QED
  BY <1>5, <1>6

LEMMA PiecesStaySingle ==
  ASSUME WorkInv, JobsNamed, OnePieceEach, [WorkstreamsNext]_workstreamVars
  PROVE  OnePieceEach'
<1> SUFFICES ASSUME NEW s \in Sessions, ~UNCHANGED holds,
                    \/ MakeStream(s) \/ MoveOne(s) \/ Undo(s)
                    \/ \E i \in Items, t \in Texts : Write(s, i, t)
             PROVE  OnePieceEach'
  BY DEF WorkstreamsNext, workstreamVars, OnePieceEach, Create, Complete, Select, Clear, Work,
         BeginMigration, BeginArchive, MoveDone, SetPointer, Killed
<1>1. \A e : \A i, t : e \in Dirs /\ holds' = [holds EXCEPT ![e] = @ \cup {<<i, t>>}]
                         /\ i \notin FilesIn(e) => OnePieceEach'
  <2>1. SUFFICES ASSUME NEW e \in Dirs, NEW i, NEW t, i \notin FilesIn(e),
                        holds' = [holds EXCEPT ![e] = @ \cup {<<i, t>>}]
                 PROVE  OnePieceEach'
    OBVIOUS
  <2>2. holds'[e] = holds[e] \cup {<<i, t>>} /\ \A d \in Dirs : d # e => holds'[d] = holds[d]
    BY <2>1 DEF WorkInv, DirsInv
  <2>3. \A p \in holds[e] : p[1] # <<i, t>>[1]
    BY <2>1 DEF FilesIn
  <2>4. QED
    BY <2>2, <2>3 DEF OnePieceEach
<1>2. CASE MakeStream(s)
  <2>1. Stream(job[s].name) \in Dirs
    BY <1>2, KindsDiffer DEF MakeStream, JobsNamed
  <2>2. QED
    BY <1>1, <1>2, <2>1 DEF MakeStream
<1>3. ASSUME NEW i \in Items, NEW t \in Texts, Write(s, i, t) PROVE OnePieceEach'
  <2>1. job[s].to \in Dirs
    BY DEF WorkInv, JobsInv, JobFits, WorkJobs
  <2>2. QED
    BY <1>1, <1>3, <2>1 DEF Write
<1>4. \A from, to : \A S : from \in Dirs /\ to \in Dirs /\ from # to =>
        \A d \in Dirs : \A p, q \in Renamed(S, from, to)[d] : p[1] = q[1] => p = q
  BY RenamedFacts DEF WorkInv, OnePieceEach
<1>5. CASE MoveOne(s)
  <2>1. PICK S : holds' = Renamed(S, job[s].from, job[s].to)
    BY <1>5 DEF MoveOne
  <2>2. QED
    BY <1>4, <1>5, <2>1, MoverFacts DEF MoveOne, OnePieceEach
<1>6. CASE Undo(s)
  <2>1. PICK S : holds' = [Renamed(S, job[s].to, job[s].from) EXCEPT ![job[s].to] = {}]
    BY <1>6 DEF Undo
  <2>2. /\ job[s].from \in Dirs /\ job[s].to \in Dirs /\ job[s].from # job[s].to
    BY <1>6, MoverFacts DEF Undo, Throws
  <2>3. PICK h : /\ h = Renamed(S, job[s].to, job[s].from) /\ h \in [Dirs -> SUBSET Pieces]
                 /\ \A d \in Dirs : \A p, q \in h[d] : p[1] = q[1] => p = q
    BY <1>4, <2>2, RenamedFacts DEF WorkInv
  <2>4. \A d \in Dirs : holds'[d] = IF d = job[s].to THEN {} ELSE h[d]
    BY <2>1, <2>2, <2>3
  <2>5. QED
    BY <2>3, <2>4 DEF OnePieceEach
<1>7. QED
  BY <1>2, <1>3, <1>5, <1>6

(* Pieces of different files are as many as the files.                     *)
LEMMA AsManyFiles ==
  ASSUME NEW S \in SUBSET Pieces, \A p, q \in S : p[1] = q[1] => p = q
  PROVE  Cardinality(S) = Cardinality({p[1] : p \in S})
<1> DEFINE files == {p[1] : p \in S}
           f == [p \in S |-> p[1]]
<1>1. f \in Bijection(S, files)
  <2>1. f \in [S -> files] /\ \A p, q \in S : f[p] = f[q] => p = q
    OBVIOUS
  <2>2. \A i \in files : \E p \in S : f[p] = i
    OBVIOUS
  <2>3. QED
    BY <2>1, <2>2, Fun_IsBij
<1>2. IsFiniteSet(files)
  <2>1. files \subseteq Items
    BY DEF Pieces
  <2>2. QED
    BY <2>1, ItemsToMove, FS_Subset
<1>3. ExistsBijection(files, S)
  BY <1>1, Fun_BijInverse DEF ExistsBijection
<1>4. PICK n \in Nat : ExistsBijection(1 .. n, files)
  BY <1>2, FS_NatBijection
<1>5. ExistsBijection(1 .. n, S)
  BY <1>3, <1>4, Fun_ExistsBijTransitive
<1>6. IsFiniteSet(S)
  BY <1>5, FS_NatBijection
<1>7. QED
  BY <1>2, <1>4, <1>5, <1>6, FS_CountingElements

LEMMA WorkstreamsFit == WorkInv /\ StreamsFit => WorkstreamsTypeOK
<1> SUFFICES ASSUME WorkInv, StreamsFit PROVE WorkstreamsTypeOK
  OBVIOUS
<1>1. \A d \in Dirs : holds[d] \in SUBSET Pieces /\ Cardinality(holds[d]) = Cardinality(FilesIn(d))
  BY AsManyFiles DEF WorkInv, DirsInv, StreamsFit, OnePieceEach, FilesIn
<1>2. QED
  BY <1>1 DEF WorkInv, DirsInv, StreamsFit, DirsKnown, Pieces, WorkstreamsTypeOK

(* A directory of the planning files holds one text of each file, however  *)
(* creations, migrations, completions and their undoing overlap, and no    *)
(* directory is there but the base, the workstreams, their root and their  *)
(* archives (workstream.cjs).                                              *)
THEOREM WorkstreamsTyped == WorkstreamsSpec => []WorkstreamsTypeOK
<1>1. WorkstreamsInit => WorkInv /\ StreamsFit
  <2>1. WorkstreamsInit => DirsKnown /\ JobsNamed
    BY KindsDiffer, IdleIsAJob DEF WorkstreamsInit, DirsKnown, JobsNamed
  <2>2. WorkstreamsInit => OnePieceEach
    BY DEF WorkstreamsInit, OnePieceEach
  <2>3. QED
    BY <2>1, <2>2, WorkstreamsInitInv DEF StreamsFit
<1>2. WorkInv /\ StreamsFit /\ [WorkstreamsNext]_workstreamVars => (WorkInv /\ StreamsFit)'
  BY WorkstreamsNextInv, JobsStayNamed, DirsStayKnown, PiecesStaySingle DEF StreamsFit
<1>3. WorkInv /\ StreamsFit => WorkstreamsTypeOK
  BY WorkstreamsFit
<1>4. QED
  BY <1>1, <1>2, <1>3, PTL DEF WorkstreamsSpec
=============================================================================
