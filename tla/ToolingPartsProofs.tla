-------------------------- MODULE ToolingPartsProofs -------------------------
(***************************************************************************)
(* The parts side by side: what is proved of a part holds of it in Tooling *)
(* too, where a step of one part leaves the variables of the others alone. *)
(***************************************************************************)
EXTENDS Tooling, ToolingProofs, WorkflowProofs

LEMMA PartsStep ==
  [ToolingNext]_toolingVars =>
    /\ [WavesNext]_waveVars /\ [WorkstreamsNext]_workstreamVars
    /\ [CleanupNext]_cleanupVars /\ [ConfigNext]_configVars /\ [HealthNext]_healthVars
    /\ [SurfaceNext]_surfaceVars /\ [CommitsNext]_commitVars /\ [RoutingNext]_routingVars
    /\ [LearningsNext]_learningVars /\ [GraphNext]_graphVars
    /\ [TrackingNext]_trackingVars /\ [PatchesNext]_patchVars
BY Zenon DEF ToolingNext, Only, toolingVars

(* Every behaviour of the parts together is one of each part.              *)
LEMMA PartsRun ==
  ToolingSpec =>
    /\ WavesSpec /\ WorkstreamsSpec /\ CleanupSpec /\ ConfigSpec /\ HealthSpec
    /\ SurfaceSpec /\ CommitsSpec /\ RoutingSpec /\ LearningsSpec /\ GraphSpec
    /\ TrackingSpec /\ PatchesSpec
BY PartsStep, PTL
   DEF ToolingSpec, ToolingInit, WavesSpec, WorkstreamsSpec, CleanupSpec, ConfigSpec, HealthSpec,
       SurfaceSpec, CommitsSpec, RoutingSpec, LearningsSpec, GraphSpec, TrackingSpec, PatchesSpec

(* Whichever part runs, the variables of every part have the values that   *)
(* its module says.                                                        *)
THEOREM ToolingTyped == ToolingSpec => []ToolingTypeOK
<1>1. ToolingSpec => [](part \in Parts)
  <2>1. part \in Parts /\ [ToolingNext]_toolingVars => (part \in Parts)'
    BY DEF ToolingNext, Only, toolingVars
  <2>2. QED
    BY <2>1, PTL DEF ToolingSpec, ToolingInit
<1>2. QED
  BY <1>1, PartsRun, WavesTyped, WorkstreamsTyped, CleanupTyped, ConfigTyped, HealthTyped,
     SurfaceTyped, CommitsTyped, RoutingTyped, LearningsTyped, GraphTyped, TrackingTyped,
     PatchesTyped, PTL DEF ToolingTypeOK

(* Whichever part runs, what is promised of each holds.                    *)
THEOREM ToolingHolds ==
  ToolingSpec =>
    /\ [](ScheduleIsSound /\ SettingsHold /\ RoutingIsSound /\ StoreIsFaithful
          /\ AnswersFitTheGraph /\ GateIsRight)
    /\ WorkSurvives /\ CleanupIsSafe /\ RepairsConverge /\ SurfaceConverges
    /\ NoTextIsLost /\ TrackingAgrees
BY PartsRun, ScheduleHolds, SettingsAreKept, RoutingHolds, StoreHolds, AnswersHold, GateHolds,
   WorkIsSafe, CleanupHolds, RepairsHold, SurfaceHolds, CommitsKeepTexts, MarksAndTodosHold, PTL
=============================================================================
