-------------------------- MODULE SwarmEvaluation --------------------------
(***************************************************************************)
(* The evaluation of the swarm (factory/swarm): processes that share an    *)
(* append-only SQLite store.  Predictions are stored, and evaluators score *)
(* those that are due from a file of observed outcomes.  Every transaction *)
(* of ArtifactStore is a step; what happens between two transactions of    *)
(* one process is up to the others.                                        *)
(***************************************************************************)
EXTENDS Integers

CONSTANTS
    Predictions,
    Evaluators,   \* processes that run evaluate_due
    None,
    Due,          \* Due[p]: evaluation_at of the prediction
    MaxTime,      \* bound: the clock
    MaxStarts     \* bound: how often evaluators are started

ASSUME NoneAssumption == None \notin Predictions \union Evaluators
ASSUME DueAssumption == Due \in [Predictions -> Nat]
ASSUME BoundsAssumption == MaxTime \in Nat /\ MaxStarts \in Nat

VARIABLES
    stored,     \* the predictions in artifacts
    score,      \* score[p]: its row in evaluations: by whom, observed when
    outcomes,   \* outcomes[p]: the evaluators that stored an outcome for it
    credits,    \* credits[p]: the evaluators with a budget event for it
    anomalies,  \* predictions with a temporal contamination on record
    clock, feed,             \* time, and the outcomes file
    epc, enow, etodo, eat,   \* an evaluator: its state, run_at, what it read of the
                             \* file for the due predictions, the one at hand
    starts

store == <<stored, score, outcomes, credits, anomalies>>
world == <<clock, feed>>
eval  == <<epc, enow, etodo, eat, starts>>
vars  == <<store, world, eval>>

\* An observation of the feed: a time, nothing, or what fails validation.
NoOutcome == -1
Malformed == -2
Times == 0 .. MaxTime
Observations == Times \union {NoOutcome, Malformed}

\* Nothing to do in a cycle, and a prediction that has no row in evaluations.
NothingDue == [p \in Predictions |-> NoOutcome]
NoScore == [by |-> None, at |-> 0]

TypeOK ==
    /\ stored \subseteq Predictions
    /\ score \in [Predictions -> [by : Evaluators \union {None}, at : Times]]
    /\ outcomes \in [Predictions -> SUBSET Evaluators]
    /\ credits \in [Predictions -> SUBSET Evaluators]
    /\ anomalies \subseteq Predictions
    /\ clock \in 0 .. MaxTime
    /\ feed \in [Predictions -> Observations]
    /\ epc \in [Evaluators -> {"off", "wait", "cycle", "outcome", "credit"}]
    /\ enow \in [Evaluators -> 0 .. MaxTime]
    /\ etodo \in [Evaluators -> [Predictions -> Observations]]
    /\ eat \in [Evaluators -> Predictions \union {None}]
    /\ starts \in 0 .. MaxStarts

Evaluated(p) == score[p].by # None

Init ==
    /\ stored = {}
    /\ score = [p \in Predictions |-> NoScore]
    /\ outcomes = [p \in Predictions |-> {}]
    /\ credits = [p \in Predictions |-> {}]
    /\ anomalies = {}
    /\ clock = 0
    /\ feed = [p \in Predictions |-> NoOutcome]
    /\ epc = [e \in Evaluators |-> "off"]
    /\ enow = [e \in Evaluators |-> 0]
    /\ etodo = [e \in Evaluators |-> NothingDue]
    /\ eat = [e \in Evaluators |-> None]
    /\ starts = 0
-----------------------------------------------------------------------------
(* The world: the clock, and the connector that fills the outcomes file.   *)

Tick ==
    /\ clock < MaxTime
    /\ clock' = clock + 1
    /\ UNCHANGED <<store, feed, eval>>

\* An entry is added, or corrected after a contamination.
Publish(p) ==
    /\ p \in stored /\ (feed[p] = NoOutcome \/ p \in anomalies)
    /\ \E o \in Observations \ {NoOutcome} : feed' = [feed EXCEPT ![p] = o]
    /\ UNCHANGED <<store, clock, eval>>
-----------------------------------------------------------------------------
(* append_artifact of a prediction, by a round or by the CLI.              *)

Store(p) ==
    /\ p \notin stored
    /\ stored' = stored \union {p}
    /\ UNCHANGED <<score, outcomes, credits, anomalies, world, eval>>
-----------------------------------------------------------------------------
(* evaluate_due, once (cli evaluate) or again and again (evaluation-daemon). *)

EvalGoes(e, to) == epc' = [epc EXCEPT ![e] = to]

StartEvaluator(e) ==
    /\ epc[e] = "off" /\ starts < MaxStarts
    /\ starts' = starts + 1
    /\ EvalGoes(e, "wait")
    /\ UNCHANGED <<store, world, enow, etodo, eat>>

\* Mutant of DueNow: a contaminated prediction is not looked at again.
DueOnce == {p \in stored : ~Evaluated(p) /\ Due[p] <= clock /\ p \notin anomalies}

\* due_predictions
DueNow == {p \in stored : ~Evaluated(p) /\ Due[p] <= clock}

\* Mutant of Poll: the run is dated at the end of its cycle.
PollAhead(e) ==
    /\ epc[e] = "wait"
    /\ enow' = [enow EXCEPT ![e] = clock + 1]
    /\ etodo' = [etodo EXCEPT ![e] =
                     [p \in Predictions |-> IF p \in DueNow THEN feed[p] ELSE NoOutcome]]
    /\ EvalGoes(e, "cycle")
    /\ UNCHANGED <<store, world, eat, starts>>

\* A cycle: the time, the outcomes file and the due predictions are read; those
\* without an outcome are passed over.
Poll(e) ==
    /\ epc[e] = "wait"
    /\ enow' = [enow EXCEPT ![e] = clock]
    /\ etodo' = [etodo EXCEPT ![e] =
                     [p \in Predictions |-> IF p \in DueNow THEN feed[p] ELSE NoOutcome]]
    /\ EvalGoes(e, "cycle")
    /\ UNCHANGED <<store, world, eat, starts>>

\* Mutant of InWindow: only the run is looked at.
InWindowEarly(e, p, at) == at <= enow[e]

\* The outcome was observed between the maturity and the run.
InWindow(e, p, at) == Due[p] <= at /\ at <= enow[e]

\* The prediction p, with an outcome observed then, is next in the cycle of e.
AtHand(e, p, at) == epc[e] = "cycle" /\ etodo[e][p] = at
Settled(e, p) == etodo' = [etodo EXCEPT ![e][p] = NoOutcome]

\* The outcome was observed too early or too late: an anomaly is stored.
Contaminated(e, p) ==
    /\ \E at \in Times : AtHand(e, p, at) /\ ~InWindow(e, p, at)
    /\ anomalies' = anomalies \union {p}
    /\ Settled(e, p)
    /\ UNCHANGED <<stored, score, outcomes, credits, world, epc, enow, eat, starts>>

\* Mutant of Evaluate: prediction_artifact_id is not UNIQUE.
EvaluateAgain(e, p) ==
    /\ \E at \in Times :
        /\ AtHand(e, p, at) /\ InWindow(e, p, at)
        /\ score' = [score EXCEPT ![p] = [by |-> e, at |-> at]]
    /\ Settled(e, p)
    /\ eat' = [eat EXCEPT ![e] = p]
    /\ EvalGoes(e, "outcome")
    /\ UNCHANGED <<stored, outcomes, credits, anomalies, world, enow, starts>>

\* append_evaluation
Evaluate(e, p) ==
    /\ ~Evaluated(p)
    /\ \E at \in Times :
        /\ AtHand(e, p, at) /\ InWindow(e, p, at)
        /\ score' = [score EXCEPT ![p] = [by |-> e, at |-> at]]
    /\ Settled(e, p)
    /\ eat' = [eat EXCEPT ![e] = p]
    /\ EvalGoes(e, "outcome")
    /\ UNCHANGED <<stored, outcomes, credits, anomalies, world, enow, starts>>

\* The outcome artifact, a child of the prediction.
StoreOutcome(e) ==
    /\ epc[e] = "outcome"
    /\ outcomes' = [outcomes EXCEPT ![eat[e]] = @ \union {e}]
    /\ EvalGoes(e, "credit")
    /\ UNCHANGED <<stored, score, credits, anomalies, world, enow, etodo, eat, starts>>

\* _apply_worker_budget: up or down.
Credit(e) ==
    /\ epc[e] = "credit"
    /\ credits' = [credits EXCEPT ![eat[e]] = @ \union {e}]
    /\ eat' = [eat EXCEPT ![e] = None]
    /\ EvalGoes(e, "cycle")
    /\ UNCHANGED <<stored, score, outcomes, anomalies, world, enow, etodo, starts>>

\* The cycle is over: the daemon waits poll_seconds.
EndCycle(e) ==
    /\ epc[e] = "cycle" /\ etodo[e] = NothingDue
    /\ enow' = [enow EXCEPT ![e] = 0]
    /\ EvalGoes(e, "wait")
    /\ UNCHANGED <<store, world, etodo, eat, starts>>

EndsEvaluator(e) ==
    /\ EvalGoes(e, "off")
    /\ enow' = [enow EXCEPT ![e] = 0]
    /\ etodo' = [etodo EXCEPT ![e] = NothingDue]
    /\ eat' = [eat EXCEPT ![e] = None]
    /\ UNCHANGED <<store, world, starts>>

\* A malformed outcome, or a prediction that was scored meanwhile (the table allows
\* one evaluation of it), raises through run_forever.
RaiseEvaluator(e, p) ==
    /\ \/ AtHand(e, p, Malformed)
       \/ Evaluated(p) /\ \E at \in Times : AtHand(e, p, at) /\ InWindow(e, p, at)
    /\ EndsEvaluator(e)

\* evaluate ends after its cycle; and the process can be killed anywhere.
StopEvaluator(e) == epc[e] # "off" /\ EndsEvaluator(e)

Cycle(e) ==
    \/ Poll(e) \/ StoreOutcome(e) \/ Credit(e) \/ EndCycle(e)
    \/ \E p \in Predictions : Contaminated(e, p) \/ Evaluate(e, p) \/ RaiseEvaluator(e, p)

Next ==
    \/ Tick
    \/ \E p \in Predictions : Store(p) \/ Publish(p)
    \/ \E e \in Evaluators : StartEvaluator(e) \/ Cycle(e) \/ StopEvaluator(e)

Spec == Init /\ [][Next]_vars

\* A daemon that is not stopped takes its next step, and time passes.
FairSpec == Spec /\ WF_vars(Tick) /\ \A e \in Evaluators : WF_vars(Cycle(e))
-----------------------------------------------------------------------------
(* What is promised.                                                       *)

\* However many evaluators read the same due predictions, a prediction is followed
\* by one outcome artifact and one change of its author's budget at most, both by
\* the evaluator of its score: evaluate_due's three transactions.
OneScore == \A p \in Predictions :
    credits[p] \subseteq outcomes[p] /\ outcomes[p] \subseteq {score[p].by} \ {None}

\* A score uses an outcome that was observed after the maturity of the prediction
\* and not after the run that stored it: the leakage guard of evaluate_due.
NoLeak == \A p \in Predictions :
    Evaluated(p) => Due[p] <= score[p].at /\ score[p].at <= clock

\* A daemon that stays up scores every stored prediction whose outcome, in the file
\* for good, was observed at its maturity or later, whatever contaminated it before.
EveryScored == \A e \in Evaluators, p \in Predictions :
    <>[](epc[e] # "off" /\ p \in stored /\ feed[p] \in Due[p] .. MaxTime) => <>Evaluated(p)
=============================================================================
