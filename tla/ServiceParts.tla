---------------------------- MODULE ServiceParts ----------------------------
(***************************************************************************)
(* The work kernel and the app-server with its clients, which share no     *)
(* state, side by side: a behaviour is one of one part, and the other      *)
(* stands where it starts.                                                 *)
(***************************************************************************)
EXTENDS WorkKernel, AppServer

VARIABLE part   \* the component that runs

serviceVars == <<part, workVars, appVars>>

\* The app-server has one way to start, and so has a kernel that is not looked at.
ServiceInit ==
    /\ part \in {"kernel", "app server"}
    /\ WorkInit
    /\ \/ part = "kernel"
       \/ damage = 0 /\ \E r \in Runs, p \in Plans :
            run = [k \in Coordinators |-> r] /\ plan = [k \in Coordinators |-> p]
    /\ AppInit

ServiceNext ==
    \/ part = "kernel" /\ WorkNext /\ UNCHANGED <<part, appVars>>
    \/ part = "app server" /\ AppNext /\ UNCHANGED <<part, workVars>>

\* The fairness of both parts, each over its own variables.
ServiceSpec ==
    /\ ServiceInit /\ [][ServiceNext]_serviceVars
    /\ WorkFairness
    /\ AppFairness

\* Every variable of both parts has its type.
ServiceTypeOK == StoreTypeOK /\ ReadTypeOK /\ AppTypeOK
=============================================================================
