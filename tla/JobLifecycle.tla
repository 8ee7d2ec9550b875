---------------------------- MODULE JobLifecycle ----------------------------
(***************************************************************************)
(* What the job queue promises of its job files, whatever processes do the *)
(* work: incoming -> leased -> done | failed (README.md, "Execution        *)
(* Model"), with leases that may be taken back, one job executed at a time,*)
(* and one report for a job, which tells where its file ended up.          *)
(***************************************************************************)
EXTENDS Sequences

CONSTANT Jobs

VARIABLES
    place,    \* place[j]: the directory of j
    running,  \* the jobs being executed
    report    \* report[j]: the rows of metrics.jsonl about j

vars == <<place, running, report>>

Final == {"done", "failed"}

Init ==
    /\ place = [j \in Jobs |-> "none"]
    /\ running = {}
    /\ report = [j \in Jobs |-> <<>>]

Move(j, from, to) ==
    /\ place[j] = from
    /\ place' = [place EXCEPT ![j] = to]

Submit(j) == Move(j, "none", "incoming") /\ UNCHANGED <<running, report>>
Lease(j) == Move(j, "incoming", "leased") /\ UNCHANGED <<running, report>>

\* A lease is taken back, from an abandoned job or from one being executed.
TakeBack(j) == Move(j, "leased", "incoming") /\ UNCHANGED <<running, report>>

Begin(j) ==
    /\ running = {}
    /\ place[j] = "leased"
    /\ running' = {j}
    /\ UNCHANGED <<place, report>>

Finish(j) ==
    /\ j \in running
    /\ \E how \in Final : Move(j, "leased", how)
    /\ UNCHANGED <<running, report>>

Report(j) ==
    /\ running = {j}
    /\ place[j] \in Final
    /\ report[j] = <<>>
    /\ report' = [report EXCEPT ![j] = <<place[j]>>]
    /\ running' = {}
    /\ UNCHANGED place

\* The execution is killed, or finds its file gone, and reports nothing.
Abandon ==
    /\ running # {}
    /\ running' = {}
    /\ UNCHANGED <<place, report>>

Next ==
    \/ \E j \in Jobs :
        Submit(j) \/ Lease(j) \/ TakeBack(j) \/ Begin(j) \/ Finish(j)
        \/ Report(j)
    \/ Abandon

Spec == Init /\ [][Next]_vars
=============================================================================
