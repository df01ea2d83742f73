SPECIFICATION MCToolingSpec
CONSTANTS
    PlanFiles <- MCPlanFiles
    DependsOn <- MCDependsOn
    DeclaredWaves <- MCDeclared
    Sessions = {"s1", "s2"}
    Scoped = {"s1"}
    Names = {"a", "b"}
    Texts = {"t"}
    MaxCommands = 3
    MaxFaults = 2
    Manifest <- MCManifest
    MaxEdits = 1
    MaxReruns = 1
    MaxGitFaults = 1
    Processes = {"p1", "p2"}
    Values <- MCValues
    Layouts <- MCLayouts
    MaxConfigCommands = 2
    Versions <- MCVersions
    MaxHealthEdits = 4
    MaxRepairFaults = 1
    Skills <- MCSkills
    Requires <- MCRequires
    CallsAgents <- MCCallsAgents
    GsdAgents = {"planner", "executor"}
    Clusters <- MCClusters
    Profiles <- MCProfiles
    ProfileChoices <- MCProfileChoices
    Additions <- MCAdditions
    Removals <- MCAdditions
    UserFiles = {"mine"}
    MaxSurfaceFaults = 1
    Committers = {"c1", "c2"}
    RepoOf <- MCRepoOf
    BranchOf <- MCBranchOf
    MaxTexts = 2
    MaxCommits = 2
    AgentModels <- MCAgentModels
    BuiltIn <- MCBuiltIn
    Effortful = {"codex"}
    ModelConfigs <- MCModelConfigs
    DefaultTiers = {"none", "light", "standard"}
    MaxAttempts = 4
    Learners = {"l1", "l2"}
    LearningsOf <- MCLearningsOf
    Ages = {0, 1}
    MaxDays = 2
    MaxStoreCommands = 3
    Builders = {"g1", "g2"}
    GraphsOfCode <- MCGraphs
    MatchesOf <- MCMatchesOf
    Budgets = {0, 2, 5, 7}
    MaxGraphCommits = 2
    Clerks = {"k1", "k2"}
    Entries <- MCRequirementEntries
    RequirementsOf <- MCRequirementsOf
    Todos = {"todo"}
    MaxTrackingCommands = 3
    PatchedFiles = {"workflow", "agent"}
    OldRelease <- MCOldRelease
    NewRelease <- MCNewRelease
    UserLines <- MCUserLines
    Significant = {"step 1", "step 2", "mine", "mine too", "role, mine"}
    Inside <- MCInside
INVARIANT ToolingTypeOK
INVARIANT ScheduleIsSound
INVARIANT SettingsHold
INVARIANT RoutingIsSound
INVARIANT StoreIsFaithful
 
INVARIANT GateIsRight
 
PROPERTY CleanupIsSafe
PROPERTY RepairsConverge
PROPERTY SurfaceConverges
 
PROPERTY TrackingAgrees
CHECK_DEADLOCK FALSE
