------------------------------ MODULE Tooling ------------------------------
(***************************************************************************)
(* The parts of gsd-tools that keep their state in files of their own.     *)
(* Their modules share no variable, so a behaviour is one of a single      *)
(* part, while the others stay in an initial state.                        *)
(***************************************************************************)
EXTENDS WaveSchedule, Workstreams, WorktreeCleanup, ConfigStore, PlanningHealth,
        SkillSurface, DocumentCommits, ModelRouting, LearningsStore, KnowledgeGraph,
        TrackingFiles, LocalPatches

VARIABLE part   \* the part that runs

Parts == {"waves", "workstreams", "cleanup", "config", "health", "surface",
          "commits", "routing", "learnings", "graph", "tracking", "patches"}

toolingVars ==
    <<part, waveVars, workstreamVars, cleanupVars, configVars, healthVars, surfaceVars,
      commitVars, routingVars, learningVars, graphVars, trackingVars, patchVars>>

ToolingInit ==
    /\ part \in Parts
    /\ WavesInit /\ WorkstreamsInit /\ CleanupInit /\ ConfigInit
    /\ HealthInit /\ SurfaceInit /\ CommitsInit /\ RoutingInit
    /\ LearningsInit /\ GraphInit /\ TrackingInit /\ PatchesInit

(* Only part p takes steps; the variables of the others stay. *)
Only(p, others) == part = p /\ UNCHANGED <<part, others>>

ToolingNext ==
    \/ /\ Only("waves", <<workstreamVars, cleanupVars, configVars, healthVars,
                          surfaceVars, commitVars, routingVars, learningVars,
                          graphVars, trackingVars, patchVars>>)
       /\ WavesNext
    \/ /\ Only("workstreams", <<waveVars, cleanupVars, configVars, healthVars,
                                surfaceVars, commitVars, routingVars,
                                learningVars, graphVars, trackingVars,
                                patchVars>>)
       /\ WorkstreamsNext
    \/ /\ Only("cleanup", <<waveVars, workstreamVars, configVars, healthVars,
                            surfaceVars, commitVars, routingVars,
                            learningVars, graphVars, trackingVars,
                            patchVars>>)
       /\ CleanupNext
    \/ /\ Only("config", <<waveVars, workstreamVars, cleanupVars, healthVars,
                           surfaceVars, commitVars, routingVars, learningVars,
                           graphVars, trackingVars, patchVars>>)
       /\ ConfigNext
    \/ /\ Only("health", <<waveVars, workstreamVars, cleanupVars, configVars,
                           surfaceVars, commitVars, routingVars, learningVars,
                           graphVars, trackingVars, patchVars>>)
       /\ HealthNext
    \/ /\ Only("surface", <<waveVars, workstreamVars, cleanupVars, configVars,
                            healthVars, commitVars, routingVars, learningVars,
                            graphVars, trackingVars, patchVars>>)
       /\ SurfaceNext
    \/ /\ Only("commits", <<waveVars, workstreamVars, cleanupVars, configVars,
                            healthVars, surfaceVars, routingVars,
                            learningVars, graphVars, trackingVars,
                            patchVars>>)
       /\ CommitsNext
    \/ /\ Only("routing", <<waveVars, workstreamVars, cleanupVars, configVars,
                            healthVars, surfaceVars, commitVars, learningVars,
                            graphVars, trackingVars, patchVars>>)
       /\ RoutingNext
    \/ /\ Only("learnings", <<waveVars, workstreamVars, cleanupVars,
                              configVars, healthVars, surfaceVars, commitVars,
                              routingVars, graphVars, trackingVars,
                              patchVars>>)
       /\ LearningsNext
    \/ /\ Only("graph", <<waveVars, workstreamVars, cleanupVars, configVars,
                          healthVars, surfaceVars, commitVars, routingVars,
                          learningVars, trackingVars, patchVars>>)
       /\ GraphNext
    \/ /\ Only("tracking", <<waveVars, workstreamVars, cleanupVars,
                             configVars, healthVars, surfaceVars, commitVars,
                             routingVars, learningVars, graphVars,
                             patchVars>>)
       /\ TrackingNext
    \/ /\ Only("patches", <<waveVars, workstreamVars, cleanupVars, configVars,
                            healthVars, surfaceVars, commitVars, routingVars,
                            learningVars, graphVars, trackingVars>>)
       /\ PatchesNext

ToolingSpec == ToolingInit /\ [][ToolingNext]_toolingVars

(* ------------------------------ properties ----------------------------- *)

(* The values that the variables take, whichever part runs.                *)
ToolingTypeOK ==
    /\ part \in Parts
    /\ WavesTypeOK /\ WorkstreamsTypeOK /\ CleanupTypeOK /\ ConfigTypeOK
    /\ HealthTypeOK /\ SurfaceTypeOK /\ CommitsTypeOK /\ RoutingTypeOK
    /\ LearningsTypeOK /\ GraphTypeOK /\ TrackingTypeOK /\ PatchesTypeOK
=============================================================================
