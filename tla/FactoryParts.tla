---------------------------- MODULE FactoryParts ----------------------------
(***************************************************************************)
(* Components of the factory and of the swarm that share no state, side by *)
(* side: a behaviour is one of one part, and the others stand where they   *)
(* start.                                                                  *)
(***************************************************************************)
EXTENDS TaskState, BuildApi, EvolutionBatch, GoalFeedback, SwarmRound, PaperTrading, AntiHerding

VARIABLE part   \* the component that runs

Parts == {"task state", "build api", "evolution", "feedback", "round", "paper", "herding"}

partsVars == <<part, vars, apiVars, evoVars, goalVars, roundVars, paperVars, items>>

\* A part that does not run has one way to stand.
PartsInit ==
    /\ part \in Parts
    /\ IF part = "task state" THEN Init ELSE Init /\ wants = [p \in Procs |-> CHOOSE w \in Jobs \X States : TRUE]
    /\ ApiInit
    /\ EvoInit /\ (part = "evolution" \/ (trace = NoStage /\ kernelLog = <<>> /\ streak = 0))
    /\ FeedbackInit
    /\ RoundInit
    /\ PaperInit /\ (part = "paper" \/ (readiness = {} /\ ~stop))
    /\ HerdingInit

PartsNext ==
    \/ /\ part = "task state" /\ Next
       /\ UNCHANGED <<part, apiVars, evoVars, goalVars, roundVars, paperVars, items>>
    \/ /\ part = "build api" /\ ApiNext
       /\ UNCHANGED <<part, vars, evoVars, goalVars, roundVars, paperVars, items>>
    \/ /\ part = "evolution" /\ EvoNext
       /\ UNCHANGED <<part, vars, apiVars, goalVars, roundVars, paperVars, items>>
    \/ /\ part = "feedback" /\ FeedbackNext
       /\ UNCHANGED <<part, vars, apiVars, evoVars, roundVars, paperVars, items>>
    \/ /\ part = "round" /\ RoundNext
       /\ UNCHANGED <<part, vars, apiVars, evoVars, goalVars, paperVars, items>>
    \/ /\ part = "paper" /\ PaperNext
       /\ UNCHANGED <<part, vars, apiVars, evoVars, goalVars, roundVars, items>>
    \/ /\ part = "herding" /\ Contribute
       /\ UNCHANGED <<part, vars, apiVars, evoVars, goalVars, roundVars, paperVars>>

PartsSpec == PartsInit /\ [][PartsNext]_partsVars

\* Every variable of every part has its type.
PartsTypeOK ==
    /\ TypeOK /\ ApiTypeOK /\ EvoTypeOK /\ FeedbackTypeOK
    /\ RoundTypeOK /\ PaperTypeOK /\ HerdingTypeOK
=============================================================================
