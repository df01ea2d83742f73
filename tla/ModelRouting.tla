---------------------------- MODULE ModelRouting ----------------------------
(***************************************************************************)
(* Which model an agent is started with: resolveModelInternal,             *)
(* resolveModelForTier and resolveReasoningEffortInternal in core.cjs over *)
(* the tables of model-catalog.cjs.  An orchestrator starts the agent, and *)
(* after a soft failure starts it again with the next attempt, for which a *)
(* stronger tier of the dynamic routing may be used.                       *)
(***************************************************************************)
EXTENDS Integers, Sequences, SequencesExt

CONSTANTS AgentModels,    \* the tier of a known agent in each profile
          BuiltIn,        \* the entries of each runtime that has any, by tier
          Effortful,      \* the runtimes that accept a reasoning effort
          ModelConfigs,   \* the configurations that are tried
          DefaultTiers,   \* the routing tiers that agents have, or none
          MaxAttempts

None == "none"
Aliases == {"opus", "sonnet", "haiku"}
RoutingTiers == <<"light", "standard", "heavy">>

(* Every profile gives an agent an alias; claude and a runtime that takes  *)
(* an effort have a model for each of them; max_escalations is only read   *)
(* as a number.                                                            *)
ASSUME RoutingAssumption ==
    /\ "balanced" \in DOMAIN AgentModels /\ MaxAttempts \in Nat
    /\ DefaultTiers \subseteq Range(RoutingTiers) \cup {None}
    /\ \A profile \in DOMAIN AgentModels : AgentModels[profile] \in Aliases
    /\ Effortful \subseteq DOMAIN BuiltIn \ {None, "claude"}
    /\ "claude" \in DOMAIN BuiltIn
    /\ \A runtime \in Effortful \cup {"claude"}, tier \in Aliases :
         BuiltIn[runtime][tier].model # None
    /\ \A m \in ModelConfigs : m.routing.max \in Int

VARIABLES
    models,     \* the part of the configuration that is about models
    known,      \* whether the catalog has the agent
    default,    \* its default tier in the dynamic routing
    attempts     \* the model of every attempt, from attempt 0 on

routingVars == <<models, known, default, attempts>>

RoutingInit ==
    /\ models \in ModelConfigs
    /\ known \in BOOLEAN
    /\ default \in IF known THEN DefaultTiers ELSE {None}
    /\ attempts = <<>>

(* ------------------------------ the tables ----------------------------- *)

(* The user's entry for a tier fills, field by field, the built-in one. *)
Entry(tier) ==
    LET builtIn == IF models.runtime \in DOMAIN BuiltIn THEN BuiltIn[models.runtime][tier]
                   ELSE [model |-> None, effort |-> None]
        user == models.entries[tier]
    IN [field \in {"model", "effort"} |->
          IF user[field] # None THEN user[field] ELSE builtIn[field]]

OfProfile ==
    IF models.profile \in DOMAIN AgentModels THEN AgentModels[models.profile]
    ELSE AgentModels["balanced"]

(* A tier of the phase type beats the profile; a misspelt one is ignored. *)
Tier ==
    IF known /\ models.phase \in Aliases \cup {"inherit"} THEN models.phase
    ELSE IF models.profile = "inherit" THEN "inherit"
    ELSE IF known THEN OfProfile ELSE None

(* ----------------------------- the resolution -------------------------- *)

OfUnknownAgent ==
    CASE models.profile = "quality" -> "opus" [] models.profile = "budget" -> "haiku"
      [] models.profile = "inherit" -> "inherit" [] OTHER -> "sonnet"

(* Mutant: a runtime without a model for the tier is asked all the same. *)
ResolveModel_NoFallback ==
    IF models.override # None THEN models.override
    ELSE IF models.runtime \notin {None, "claude"} /\ Tier \in Aliases THEN Entry(Tier).model
    ELSE IF models.ids = "omit" THEN ""
    ELSE IF ~known THEN OfUnknownAgent
    ELSE IF models.ids = "full" /\ Tier # "inherit" THEN BuiltIn["claude"][Tier].model
    ELSE Tier

(* The user's model for the agent, the runtime's for its tier, none at all *)
(* when the runtime is to choose, and the tier's alias or its full name.   *)
ResolveModel ==
    IF models.override # None THEN models.override
    ELSE IF /\ models.runtime \notin {None, "claude"} /\ Tier \in Aliases
            /\ Entry(Tier).model # None THEN Entry(Tier).model
    ELSE IF models.ids = "omit" THEN ""
    ELSE IF ~known THEN OfUnknownAgent
    ELSE IF models.ids = "full" /\ Tier # "inherit" THEN BuiltIn["claude"][Tier].model
    ELSE Tier

ResolveEffort ==
    IF \/ models.runtime \notin Effortful \/ models.override # None \/ ~known
       \/ Tier = "inherit"
    THEN None ELSE Entry(Tier).effort

(* ---------------------------- dynamic routing -------------------------- *)

Smaller(m, n) == IF m < n THEN m ELSE n
Place(tier) == CHOOSE i \in 1 .. 3 : RoutingTiers[i] = tier

(* Mutant: the attempts are not limited to max_escalations. *)
Escalations_Unlimited(attempt) == IF models.routing.escalates THEN attempt ELSE 0

(* max_escalations is 1 where none, or a negative one, is given. *)
Escalations(attempt) ==
    IF ~models.routing.escalates THEN 0
    ELSE Smaller(attempt, IF models.routing.max < 0 THEN 1 ELSE models.routing.max)

(* So many tiers above the default one, or the strongest. *)
RoutedTier(attempt) == RoutingTiers[Smaller(Place(default) + Escalations(attempt), 3)]

ResolveModelForTier(attempt) ==
    IF \/ models.override # None \/ ~models.routing.enabled \/ default = None
       \/ models.routing.models[RoutedTier(attempt)] = None
    THEN ResolveModel ELSE models.routing.models[RoutedTier(attempt)]

(* The next attempt at the same work. *)
StartAgent ==
    /\ Len(attempts) < MaxAttempts
    /\ attempts' = Append(attempts, ResolveModelForTier(Len(attempts)))
    /\ UNCHANGED <<models, known, default>>

RoutingNext == StartAgent
RoutingSpec == RoutingInit /\ [][RoutingNext]_routingVars

(* ------------------------------ properties ----------------------------- *)

(* The values that the variables of the routing take. *)
RoutingTypeOK ==
    /\ models \in ModelConfigs /\ known \in BOOLEAN
    /\ default \in DefaultTiers \cup {None}
    /\ Len(attempts) <= MaxAttempts
    /\ \A i \in DOMAIN attempts : attempts[i] # None

(* A reasoning effort comes with the model of the same tier, whichever of  *)
(* phase type, profile and the user's entries named that tier (#3023,      *)
(* #3030): a model is never given the effort that is meant for another.    *)
EffortFitsModel ==
    attempts # <<>> /\ ResolveEffort # None =>
        \E tier \in Aliases : /\ ResolveEffort = Entry(tier).effort
                              /\ ResolveModel = Entry(tier).model

(* Two attempts differ in their model only where routing is on and may     *)
(* escalate, and only until max_escalations is reached; where every tier   *)
(* has a model, a later attempt never gets one of a weaker tier.           *)
EscalationIsBounded ==
    \A j \in DOMAIN attempts : \A i \in 1 .. j - 1 : attempts[i] # attempts[j] =>
        /\ models.routing.enabled /\ models.routing.escalates /\ models.override = None
        /\ i - 1 < (IF models.routing.max < 0 THEN 1 ELSE models.routing.max)
        /\ (\A tier \in Range(RoutingTiers) : models.routing.models[tier] # None) =>
             \E m, n \in 1 .. 3 : /\ m < n
                                  /\ attempts[i] = models.routing.models[RoutingTiers[m]]
                                  /\ attempts[j] = models.routing.models[RoutingTiers[n]]

(* Model and effort of every attempt are those that the settings say.      *)
RoutingIsSound == EffortFitsModel /\ EscalationIsBounded
=============================================================================
