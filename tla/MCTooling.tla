----------------------------- MODULE MCTooling -----------------------------
(***************************************************************************)
(* The parts of gsd-tools that keep their state in files of their own, one *)
(* instance of each.                                                       *)
(***************************************************************************)
EXTENDS Tooling, MCWorktreeCleanup, TLC

(* ---------------------------- the instances ---------------------------- *)

(* Two plans share a prefix; references are by id, by prefix, and to a     *)
(* plan of another phase.                                                  *)
MCPlanFiles == <<<<"1", "a">>, <<"1", "b">>, <<"2", "">>>>
MCDependsOn ==
    {refs \in SUBSET (Range(MCPlanFiles) \cup {<<"1", "">>}) : Cardinality(refs) <= 2}
    \cup {{<<"0", "">>}}
MCWaves(a, b, c) == <<"1", "a">> :> a @@ <<"1", "b">> :> b @@ <<"2", "">> :> c
MCDeclared == {MCWaves(1, 1, 2), MCWaves(2, 1, 2), MCWaves(0, 1, 2), MCWaves(1, 2, 3),
               MCWaves(2, 1, NoWave)}

MCValues == {"default", "other"}
MCSet(keys) == [k \in Keys |-> IF k \in keys THEN "other" ELSE Unset]
MCLayouts ==
    {[root |-> {}, stream |-> {}],
     [root |-> {MCSet({Flat("research"), Flat("branching")})}, stream |-> {}],
     [root |-> {MCSet({Flat("branching"), Flat("sub_repos")})},
      stream |-> {MCSet({Nested("research"), Flat("branching"), Nested("sub_repos")})}]}

MCVersions == {<<1, 1>>, <<1, 1, 0>>, <<1, 2>>}

(* A chain of requirements that ends in a skill that is not installed. *)
MCSkills == {"plan", "execute", "help"}
MCRequires == "plan" :> {"execute"} @@ "execute" :> {"retired"} @@ "help" :> {"plan"}
MCCallsAgents == "plan" :> {"planner", "tools"} @@ "execute" :> {"executor"} @@ "help" :> {}
MCClusters == "core" :> {"plan"} @@ "work" :> {"execute"}
MCProfiles == "core" :> {"plan"}
MCProfileChoices == {{"core", "custom"}, {"full"}}
MCAdditions == {{}, {"plan"}}

MCRepoOf == "roadmap" :> "root" @@ "code" :> "sub"
MCBranchOf == "roadmap" :> "phase-1"

MCAgentModels == "quality" :> "opus" @@ "balanced" :> "sonnet" @@ "budget" :> "haiku"
MCBuiltIn ==
    [runtime \in {"claude", "codex"} |->
       [tier \in Aliases |-> [model |-> runtime \o "-" \o tier,
                              effort |-> IF runtime = "codex" THEN "for-" \o tier ELSE None]]]
MCNoEntries == [tier \in Aliases |-> [model |-> None, effort |-> None]]
MCEntries == {MCNoEntries, [MCNoEntries EXCEPT !["opus"].model = "mine"],
              [MCNoEntries EXCEPT !["opus"].effort = "low"]}
MCRoutedModels == "light" :> "m1" @@ "standard" :> "m2" @@ "heavy" :> "m3"
MCNoRouting == [enabled |-> FALSE, escalates |-> TRUE, max |-> -1, models |-> MCRoutedModels]
MCRoutings == [enabled : {TRUE}, escalates : BOOLEAN, max : {-1, 0, 2},
               models : {MCRoutedModels, [MCRoutedModels EXCEPT !["standard"] = None]}]
MCModelConfigs ==
    [runtime : {None, "claude", "codex", "kilo"}, entries : MCEntries,
     profile : {"quality", "budget", "inherit", "typo"},
     phase : {None, "opus", "inherit", "typo"}, ids : {"omit", "full", "alias"},
     override : {None}, routing : {MCNoRouting}]
    \cup [runtime : {"codex"}, entries : {MCNoEntries}, profile : {"budget"},
          phase : {None}, ids : {"alias"}, override : {None, "mine"}, routing : MCRoutings]

(* The projects share a text, and one of them has it twice. *)
MCLearningsOf == "arm" :> <<"calibrate", "calibrate">> @@ "rail" :> <<"calibrate">>

(* A chain of edges of every grade, with an end that is not listed; the    *)
(* same with an edge twice and one edge less; and a graph without edges.   *)
MCEdge(from, to, label, grade) ==
    [source |-> from, target |-> to, label |-> label, relation |-> "", confidence |-> grade]
MCChain == <<MCEdge("a", "b", "calls", "EXTRACTED"), MCEdge("c", "b", "uses", "INFERRED"),
             MCEdge("c", "d", "uses", "AMBIGUOUS"), MCEdge("d", "lost", "calls", "none")>>
MCGraphs == {[nodes |-> {"a", "b", "c", "d"}, edges |-> MCChain],
             [nodes |-> {"a", "b", "c"},
              edges |-> <<MCEdge("b", "a", "uses", "AMBIGUOUS"), MCChain[2],
                          [MCChain[2] EXCEPT !.relation = "owns", !.confidence = "EXTRACTED"]>>],
             [nodes |-> {"a"}, edges |-> <<>>]}
MCMatchesOf == "motor" :> {"a"} @@ "gpio" :> {"b", "d"}

MCEntry(box, row) == [box |-> box, row |-> row]
MCRequirementEntries ==
    {"R1" :> MCEntry("open", "Pending") @@ "R2" :> MCEntry(box, "Pending") :
       box \in {"open", "none"}}
MCRequirementsOf == "1" :> {"R1"} @@ "2" :> {"R2"}

(* The new release has a line of the old one's less, a line of the user's  *)
(* of its own accord, and one inside a longer line.                        *)
MCOldRelease == "workflow" :> {"step 1", "step 2"} @@ "agent" :> {}
MCNewRelease == "workflow" :> {"step 1", "mine too"} @@ "agent" :> {"role, mine"}
MCUserLines == "workflow" :> {"mine", "mine too", "}"} @@ "agent" :> {"mine"}
MCInside == {<<"mine", "mine too">>, <<"mine", "role, mine">>}

(* ----------------------------- the behaviours -------------------------- *)

(* ToolingInit, but a part that does not run is in one initial state. *)
MCToolingInit ==
    /\ part \in Parts
    /\ (part # "waves" => dependsOn = [p \in PlanIds |-> {}]) /\ WavesInit
    /\ (part # "workstreams" => holds = [d \in Dirs |-> {}]) /\ WorkstreamsInit
    /\ CleanupInit /\ (part # "cleanup" => strayed \cup dirty \cup deleting = {} /\ tip = head)
    /\ ConfigInit /\ (part # "config" => present = {} /\ repositories = Unset)
    /\ (part # "health" => config = {"json", "custom"}) /\ HealthInit
    /\ (part # "surface" => marker = NoProfile) /\ SurfaceInit
    /\ CommitsInit /\ (part # "commits" => strategy = "none" /\ tips["phase-1"] = NoBranchYet)
    /\ part # "routing" => known = FALSE /\ models = CHOOSE c \in MCModelConfigs : TRUE
    /\ RoutingInit
    /\ LearningsInit
    /\ GraphInit /\ (part # "graph" => codeOf[1].edges = <<>>)
    /\ TrackingInit /\ (part # "tracking" => document["R2"].box = "open")
    /\ PatchesInit /\ (part # "patches" => pristine = OldRelease)

MCToolingSpec == MCToolingInit /\ [][ToolingNext]_toolingVars
=============================================================================
