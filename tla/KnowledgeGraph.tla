--------------------------- MODULE KnowledgeGraph ---------------------------
(***************************************************************************)
(* The knowledge graph of the code (graphify.cjs): the builds that the     *)
(* graphify skill runs, what status and diff say of the files that they    *)
(* left, and what a query finds under a budget.                            *)
(*                                                                         *)
(* A graph is a set of nodes and a sequence of edges, which may end in a   *)
(* node that is not listed.  The size of an answer is the number of its    *)
(* nodes and edges; the age of the file, which decides the other stale     *)
(* flag, and the version check, which only warns, are left out.            *)
(***************************************************************************)
EXTENDS FiniteSets, Integers, Sequences

CONSTANTS Builders,        \* the sessions that build
          GraphsOfCode,    \* the graphs that graphify may extract
          MatchesOf,       \* the nodes whose label or description has a term
          Budgets,         \* the budgets of queries; 0 is none
          MaxGraphCommits

(* The edges are a list; --budget is parsed as an integer.                 *)
ASSUME GraphsAssumption ==
    /\ \A g \in GraphsOfCode :
         /\ IsFiniteSet(g.nodes)
         /\ Len(g.edges) \in Nat /\ DOMAIN g.edges = 1 .. Len(g.edges)
    /\ Budgets \subseteq Int

VARIABLES
    history,    \* the ancestors of each commit, with itself
    codeOf,   \* the graph of each commit's code
    commitsKept,   \* the commits that the repository still has
    gitHead,
    graphOut,   \* graphify-out/graph.json
    graphJson,  \* .planning/graphs/graph.json
    snapshot,   \* .planning/graphs/.last-build-snapshot.json
    builder,    \* how far each session's build is
    unrecorded  \* whether a build ended before its snapshot, since the last

graphVars ==
    <<history, codeOf, commitsKept, gitHead, graphOut, graphJson, snapshot, builder,
      unrecorded>>

gitVars == <<history, codeOf, commitsKept, gitHead>>

NoGraph == [built_at |-> 0, graph |-> [nodes |-> {}, edges |-> <<>>]]

GraphInit ==
    /\ \E g \in GraphsOfCode : codeOf = <<g>>
    /\ history = <<{1}>> /\ commitsKept = {1} /\ gitHead = 1
    /\ graphOut = NoGraph /\ graphJson = NoGraph /\ snapshot = NoGraph
    /\ builder = [b \in Builders |-> "idle"] /\ unrecorded = FALSE

(* ---------------------------- the repository --------------------------- *)

(* A commit, on top of the head or, amended, in its place.                 *)
CommitCode ==
    /\ Len(history) < MaxGraphCommits
    /\ \E g \in GraphsOfCode, amend \in BOOLEAN :
         LET new == Len(history) + 1 IN
         /\ history' = Append(history, {new} \cup IF amend THEN history[gitHead] \ {gitHead}
                                                  ELSE history[gitHead])
         /\ codeOf' = Append(codeOf, g)
         /\ commitsKept' = {new} \cup IF amend THEN commitsKept \ {gitHead} ELSE commitsKept
         /\ gitHead' = new
    /\ UNCHANGED <<graphOut, graphJson, snapshot, builder, unrecorded>>

CheckoutCode ==
    /\ gitHead' \in commitsKept
    /\ UNCHANGED <<history, codeOf, commitsKept, graphOut, graphJson, snapshot, builder, unrecorded>>

(* -------------------------------- the build ---------------------------- *)

Builds(b, from, to) == builder[b] = from /\ builder' = [builder EXCEPT ![b] = to]

(* The checks before a build; graphify is enabled and installed.           *)
GraphifyBuild(b) ==
    /\ Builds(b, "idle", "update")
    /\ UNCHANGED <<gitVars, graphOut, graphJson, snapshot, unrecorded>>

Extract(b) ==
    /\ Builds(b, "update", "copy")
    /\ graphOut' = [built_at |-> gitHead, graph |-> codeOf[gitHead]]
    /\ UNCHANGED <<gitVars, graphJson, snapshot, unrecorded>>

CopyGraph(b) ==
    /\ Builds(b, "copy", "snapshot")
    /\ graphJson' = graphOut
    /\ UNCHANGED <<gitVars, graphOut, snapshot, unrecorded>>

WriteSnapshot(b) ==
    /\ Builds(b, "snapshot", "idle") /\ unrecorded' = FALSE
    /\ snapshot' = graphJson
    /\ UNCHANGED <<gitVars, graphOut, graphJson>>

(* The chain ends at the first command that fails.                         *)
BuildFails(b) ==
    /\ builder[b] # "idle" /\ Builds(b, builder[b], "idle")
    /\ unrecorded' = (unrecorded \/ builder[b] = "snapshot")
    /\ UNCHANGED <<gitVars, graphOut, graphJson, snapshot>>

GraphNext ==
    \/ CommitCode \/ CheckoutCode
    \/ \E b \in Builders :
         GraphifyBuild(b) \/ Extract(b) \/ CopyGraph(b) \/ WriteSnapshot(b) \/ BuildFails(b)

GraphSpec == GraphInit /\ [][GraphNext]_graphVars

(* ---------------------------- status and diff -------------------------- *)

Unknown == -1   \* null

(* git rev-list --count from..to                                           *)
CountCommitsBetween(from, to) ==
    IF from \in commitsKept THEN Cardinality(history[to] \ history[from]) ELSE Unknown

(* Mutant: what is not known is not more than nothing. *)
CommitStale_UnknownIsFresh ==
    IF graphJson.built_at = 0 THEN "unknown"
    ELSE IF CountCommitsBetween(graphJson.built_at, gitHead) > 0 THEN "stale" ELSE "fresh"

CommitStale ==
    LET behind == CountCommitsBetween(graphJson.built_at, gitHead) IN
    IF graphJson.built_at = 0 \/ behind = Unknown THEN "unknown"
    ELSE IF behind > 0 THEN "stale" ELSE "fresh"

(* A diff tells edges apart by their relation, a query by their label.     *)
Relation(e) == IF e.relation # "" THEN e.relation ELSE e.label
EdgeKey(e) == <<e.source, e.target, Relation(e)>>
EdgeKeys(g) == {EdgeKey(g.edges[i]) : i \in DOMAIN g.edges}

(* The last edge of a key stands for all of them.                          *)
LastOfKey(g, k) ==
    g.edges[CHOOSE i \in DOMAIN g.edges :
              /\ EdgeKey(g.edges[i]) = k
              /\ \A j \in DOMAIN g.edges : EdgeKey(g.edges[j]) = k => j <= i]

NoDifference == [nodes |-> {}, edges |-> {}]

GraphifyDiff ==
    LET new == graphJson.graph
        old == snapshot.graph
    IN IF snapshot = NoGraph \/ graphJson = NoGraph THEN NoDifference
       ELSE [nodes |-> (new.nodes \ old.nodes) \cup (old.nodes \ new.nodes),
             edges |-> (EdgeKeys(new) \ EdgeKeys(old)) \cup (EdgeKeys(old) \ EdgeKeys(new))
                         \cup {k \in EdgeKeys(new) \cap EdgeKeys(old) :
                                 LastOfKey(new, k) # LastOfKey(old, k)}]

(* --------------------------------- queries ----------------------------- *)

(* The neighbours come from either end of an edge; of the edges that agree *)
(* in their ends and label only the first is collected.                    *)
QueryKey(e) == <<e.source, e.target, e.label>>
EdgesAt(g, nodes) ==
    {i \in DOMAIN g.edges :
       /\ {g.edges[i].source, g.edges[i].target} \cap nodes # {}
       /\ \A j \in 1..(i - 1) : QueryKey(g.edges[j]) # QueryKey(g.edges[i])}
EndsOf(g, edges) == UNION {{g.edges[i].source, g.edges[i].target} : i \in edges}

Hops == 2

Expanded(g, seeds) ==
    LET after[hop \in 0..Hops] ==
          IF hop = 0 THEN [visited |-> seeds, frontier |-> seeds, edges |-> {}]
          ELSE LET before == after[hop - 1]
                   found == EdgesAt(g, before.frontier)
               IN [visited |-> before.visited \cup EndsOf(g, found),
                   frontier |-> EndsOf(g, found) \ before.visited,
                   edges |-> before.edges \cup found]
    IN after[Hops]

SeedAndExpand(g, term) ==
    LET seeds == MatchesOf[term] \cap g.nodes
        found == Expanded(g, seeds)
    IN [nodes |-> found.visited \cap g.nodes, edges |-> found.edges, seeds |-> seeds]

ConfidenceOrder == <<"AMBIGUOUS", "INFERRED", "EXTRACTED">>

(* The first edges that fit go; if none do, all that have a grade.         *)
EstimateTokens(nodes, edges) == Cardinality(nodes) + Cardinality(edges)

WithoutTiers(g, edges, n) ==
    {i \in edges : \A t \in 1..n : g.edges[i].confidence # ConfidenceOrder[t]}

TiersDropped(g, found, budget) ==
    LET fits == {n \in 0..3 :
                   EstimateTokens(found.nodes, WithoutTiers(g, found.edges, n)) <= budget}
    IN IF fits = {} THEN 3 ELSE CHOOSE n \in fits : \A other \in fits : n <= other

ApplyBudget(g, found, budget) ==
    IF budget = 0 THEN found
    ELSE LET edges == WithoutTiers(g, found.edges, TiersDropped(g, found, budget)) IN
         [found EXCEPT !.edges = edges,
                       !.nodes = @ \cap (found.seeds \cup EndsOf(g, edges))]

GraphifyQuery(g, term, budget) == ApplyBudget(g, SeedAndExpand(g, term), budget)

(* ------------------------------ properties ----------------------------- *)

GraphTypeOK ==
    /\ gitHead \in commitsKept /\ commitsKept \subseteq DOMAIN history
    /\ DOMAIN codeOf = DOMAIN history
    /\ \A c \in DOMAIN history : c \in history[c] /\ history[c] \subseteq 1..c
    /\ {graphOut.built_at, graphJson.built_at, snapshot.built_at} \subseteq 0..Len(history)
    /\ builder \in [Builders -> {"idle", "update", "copy", "snapshot"}]
    /\ unrecorded \in BOOLEAN

(* The snapshot is taken of the graph that was just copied, so whatever    *)
(* changes between two builds, and whichever of two sessions runs them, a  *)
(* difference shows only while, or because, a build did not get to its     *)
(* snapshot.  ("Show changes since last build" is what the skill offers.)  *)
OnlyUnfinishedBuildsDiffer ==
    GraphifyDiff # NoDifference => unrecorded \/ \E b \in Builders : builder[b] = "snapshot"

(* The three answers of status: a graph is only called fresh when its      *)
(* commit is in the repository and has everything that the head has; one   *)
(* whose commit was amended away is unknown.                               *)
FreshMissesNothing ==
    CommitStale = "fresh" =>
      /\ graphJson.built_at \in commitsKept
      /\ history[gitHead] \subseteq history[graphJson.built_at]

(* A path of edges that the answer has, from a node that the term matched. *)
ReachedBy(g, answer) ==
    LET reach[n \in 0..Len(g.edges)] ==
          IF n = 0 THEN answer.seeds
          ELSE reach[n - 1]
                 \cup UNION {IF ends \cap reach[n - 1] # {} THEN ends ELSE {} :
                               ends \in {{g.edges[i].source, g.edges[i].target} :
                                           i \in answer.edges}}
    IN reach[Len(g.edges)]

(* What a budget takes away is never on a path of the edges that it left.  *)
BudgetKeepsPaths ==
    graphJson # NoGraph =>
      \A term \in DOMAIN MatchesOf, budget \in Budgets :
         LET g == graphJson.graph
             answer == GraphifyQuery(g, term, budget)
         IN ReachedBy(g, answer) \cap g.nodes \subseteq answer.nodes

(* An answer fits its budget, unless all the edges that it may drop are    *)
(* gone, although what goes is decided before the nodes that lose their    *)
(* edges are taken off.                                                    *)
BudgetIsKept ==
    graphJson # NoGraph =>
      \A term \in DOMAIN MatchesOf, budget \in Budgets \ {0} :
         LET g == graphJson.graph
             all == GraphifyQuery(g, term, 0)
             answer == GraphifyQuery(g, term, budget)
             graded == {i \in all.edges : g.edges[i].confidence \in
                          {ConfidenceOrder[t] : t \in DOMAIN ConfidenceOrder}}
         IN \/ EstimateTokens(answer.nodes, answer.edges) <= budget
            \/ answer.edges \cap graded = {}

(* What status, diff and query say is true of the graph that was built.    *)
AnswersFitTheGraph ==
    OnlyUnfinishedBuildsDiffer /\ FreshMissesNothing /\ BudgetKeepsPaths /\ BudgetIsKept
=============================================================================
