----------------------------- MODULE SwarmParts -----------------------------
(***************************************************************************)
(* The evaluation of the swarm and the sale of its artifacts, side by      *)
(* side: a behaviour is one of one part, and the other stands where it     *)
(* starts.  What the two have in common, the evaluations table, is score   *)
(* in the one and judged in the other.                                     *)
(***************************************************************************)
EXTENDS SwarmEvaluation, SwarmMarket

VARIABLE part   \* the component that runs

swarmVars == <<part, vars, marketVars>>

\* The evaluation has one way to start; a service that is not used is not ready.
SwarmPartsInit ==
    /\ part \in {"evaluation", "market"}
    /\ Init
    /\ MarketInit /\ (part = "market" \/ ~ready)

SwarmPartsNext ==
    \/ part = "evaluation" /\ Next /\ UNCHANGED <<part, marketVars>>
    \/ part = "market" /\ MarketNext /\ UNCHANGED <<part, vars>>

\* The fairness of both parts; the clock is the evaluation's, and stands still while
\* the market is looked at.
SwarmPartsSpec ==
    /\ SwarmPartsInit /\ [][SwarmPartsNext]_swarmVars
    /\ WF_swarmVars(part = "evaluation" /\ Tick /\ UNCHANGED <<part, marketVars>>)
    /\ \A e \in Evaluators : WF_vars(Cycle(e))
    /\ MarketFairness

\* Every variable of both parts has its type.
SwarmPartsTypeOK == TypeOK /\ MarketTypeOK
=============================================================================
