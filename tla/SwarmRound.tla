---------------------------- MODULE SwarmRound ----------------------------
(***************************************************************************)
(* A round of the swarm (factory/swarm/orchestration.py): workers with a   *)
(* budget are asked for an artifact each; an artifact is stored and the    *)
(* workers whose artifacts it builds on are rewarded; whatever raises      *)
(* stores a failure and penalises the worker.  Every transaction of the    *)
(* store is a step, and several processes run rounds on one store, beside  *)
(* evaluators that score predictions.                                      *)
(***************************************************************************)
EXTENDS Integers, FiniteSets, Sequences, SequencesExt

CONSTANTS
    Workers,       \* the registered workers, numbered
    InitialBudget, \* in units of 0.25
    Rounds,        \* processes of run_round
    WorkerLimit,
    MinArtifacts, MinPattern, \* thresholds of SpecializationDetector
    Scores,        \* what an evaluation may come to, in thirds
    MaxLog,        \* bound: artifacts
    MaxLinks,      \* bound: references of an answer
    MaxScored,     \* bound: evaluations
    MaxFaults      \* bound: transactions that raise, processes that are killed

ASSUME WorkersAssumption ==
    Workers \subseteq Nat \ {0} /\ IsFiniteSet(Workers) /\ IsFiniteSet(Rounds)
ASSUME LimitsAssumption ==
    {InitialBudget, MaxLog, MaxLinks, MaxScored, MaxFaults} \subseteq Nat
    /\ {WorkerLimit, MinArtifacts, MinPattern} \subseteq Nat \ {0}
ASSUME ScoresAssumption == Scores \subseteq 0 .. 3

VARIABLES
    log,          \* the artifacts, by rowid
    score,        \* score[a]: the quality that the evaluation of a gives it
    budget,       \* budget[w]: virtual_budget
    ledger,       \* worker_budget_events
    hint,         \* hint[w]: behavioral_pattern
    xpc,          \* xpc[x]: where a round stands
    asked,        \* the workers that have not answered
    turn,         \* the answer at hand
    found,        \* the patterns that a round has detected and not yet persisted
    faults

swarmStore == <<log, score, budget, ledger, hint>>
roundVars == <<swarmStore, xpc, asked, turn, found, faults>>

Reward == 1    \* 0.25
Penalty == -4  \* -1.0
Kinds == {"prediction", "critique"}
NoPattern == "no pattern"
NoScore == -1
Nobody == 0
Ids == 1 .. MaxLog
Artifacts == [by : Workers, lineage : SUBSET Ids, kind : Kinds, failed : BOOLEAN]
NoTurn == [who |-> Nobody, lineage |-> {}, kind |-> "critique", todo |-> {}]

RoundTypeOK ==
    /\ log \in Seq(Artifacts)
    /\ score \in [Ids -> Scores \union {NoScore}]
    /\ budget \in [Workers -> Nat]
    /\ ledger \in Seq([who : Workers, delta : Int, why : {"reuse", "failed"}, about : Ids])
    /\ hint \in [Workers -> {"market_analysis", "evidence_criticism", NoPattern}]
    /\ xpc \in [Rounds -> {"idle", "collect", "store", "reward", "fail", "punish", "persist"}]
    /\ asked \in [Rounds -> SUBSET Workers]
    /\ turn \in [Rounds -> [who : Workers \union {Nobody}, lineage : SUBSET Ids,
                            kind : Kinds, todo : SUBSET Ids]]
    /\ \A x \in Rounds : \A w \in DOMAIN found[x] : w \in Workers
    /\ faults \in 0 .. MaxFaults

\* bootstrap: register_workers gives every worker the same budget and no pattern.
RoundInit ==
    /\ log = <<>> /\ ledger = <<>>
    /\ score = [a \in Ids |-> NoScore]
    /\ budget = [w \in Workers |-> InitialBudget]
    /\ hint = [w \in Workers |-> NoPattern]
    /\ xpc = [x \in Rounds |-> "idle"]
    /\ asked = [x \in Rounds |-> {}]
    /\ turn = [x \in Rounds |-> NoTurn]
    /\ found = [x \in Rounds |-> <<>>]
    /\ faults = 0
-----------------------------------------------------------------------------
(* Transactions of ArtifactStore.                                          *)

Stored == DOMAIN log

\* Mutant of Book: the budget does not stop at 0.
BookBelow(w, delta, why, about) ==
    /\ ledger' = Append(ledger, [who |-> w, delta |-> delta, why |-> why, about |-> about])
    /\ budget' = [budget EXCEPT ![w] = @ + delta]

\* Mutant of Book: the ledger gets the change that was asked for.
BookAsked(w, delta, why, about) ==
    LET next == IF budget[w] + delta < 0 THEN 0 ELSE budget[w] + delta
    IN  /\ ledger' = Append(ledger, [who |-> w, delta |-> delta, why |-> why, about |-> about])
        /\ budget' = [budget EXCEPT ![w] = next]

\* append_budget_event: the budget stops at 0, the ledger gets the applied change.
Book(w, delta, why, about) ==
    LET next == IF budget[w] + delta < 0 THEN 0 ELSE budget[w] + delta
    IN  /\ ledger' = Append(ledger, [who |-> w, delta |-> next - budget[w], why |-> why, about |-> about])
        /\ budget' = [budget EXCEPT ![w] = next]

\* append_artifact, of references that exist.
AppendArtifact(w, t, failed) ==
    /\ t.lineage \subseteq Stored /\ Len(log) < MaxLog
    /\ log' = Append(log, [by |-> w, lineage |-> t.lineage, kind |-> t.kind, failed |-> failed])

ChildrenOf(a) == {c \in Stored : a \in log[c].lineage}
-----------------------------------------------------------------------------
(* SpecializationDetector: the pattern of a worker's artifacts with the    *)
(* best mean quality, which is that of its evaluation, or without one how  *)
(* often it is built on, up to three times; in thirds.                     *)

PatternOf(kind) == IF kind = "prediction" THEN "market_analysis" ELSE "evidence_criticism"

Works(w) == {a \in Stored : log[a].by = w}
OfPattern(w, s) == {a \in Works(w) : PatternOf(log[a].kind) = s}
ReuseOf(a) == IF Cardinality(ChildrenOf(a)) > 3 THEN 3 ELSE Cardinality(ChildrenOf(a))
QualitySum(S) == SumFunction([a \in S |-> IF score[a] # NoScore THEN score[a] ELSE ReuseOf(a)])

\* max over pattern_scores: the mean, how many, the name.
Ahead(w, s, t) ==
    LET S == OfPattern(w, s)
        T == OfPattern(w, t)
        q == QualitySum(S) * Cardinality(T)
        r == QualitySum(T) * Cardinality(S)
    IN  \/ q > r
        \/ q = r /\ Cardinality(S) > Cardinality(T)
        \/ q = r /\ Cardinality(S) = Cardinality(T) /\ s = "market_analysis"

Patterns(w) == {PatternOf(log[a].kind) : a \in Works(w)}
TopPattern(w) == CHOOSE s \in Patterns(w) : \A t \in Patterns(w) : s = t \/ Ahead(w, s, t)

\* Mutant of Advantage: no better than the others is good enough.
AdvantageAtAll(S, T) == QualitySum(S) * (IF T = {} THEN 1 ELSE Cardinality(T)) >= QualitySum(T) * Cardinality(S)

\* The mean quality of S exceeds that of the other artifacts by 0.1.
Advantage(S, T) ==
    LET q == QualitySum(S) * (IF T = {} THEN 1 ELSE Cardinality(T))
        r == QualitySum(T) * Cardinality(S)
    IN  10 * (q - r) >= 3 * Cardinality(S) * (IF T = {} THEN 1 ELSE Cardinality(T))

\* detect
Detected(w) ==
    IF Works(w) = {} THEN NoPattern
    ELSE LET S == OfPattern(w, TopPattern(w))
             reusable ==
                /\ Cardinality(Works(w)) >= MinArtifacts
                /\ Cardinality(S) >= MinPattern
                /\ 10 * Cardinality(S) >= 4 * Cardinality(Works(w))
                /\ Advantage(S, Works(w) \ S)
         IN  IF reusable THEN TopPattern(w) ELSE NoPattern
-----------------------------------------------------------------------------
(* run_round                                                               *)

Goto(x, to) == xpc' = [xpc EXCEPT ![x] = to]

\* The richest come first, then the lower id.
Before(v, w) == budget[v] > budget[w] \/ (budget[v] = budget[w] /\ v < w)

\* Workers with a budget, at most WorkerLimit of them, are asked; what they are shown is
\* select_observations of module AntiHerding, and nothing keeps them to it.
Begin(x) ==
    /\ xpc[x] = "idle" /\ Len(log) < MaxLog
    /\ LET rich == {w \in Workers : budget[w] > 0}
       IN  asked' = [asked EXCEPT ![x] =
                {w \in rich : Cardinality({v \in rich : Before(v, w)}) < WorkerLimit}]
    /\ Goto(x, "collect")
    /\ UNCHANGED <<swarmStore, turn, found, faults>>

\* Artifact.validate and _validate_worker_output: its own worker and the round's
\* subject, all fields in order, and no reference twice.
Validate(w, o) == o.by = w /\ o.sound /\ o.parents \intersect o.derived = {}

Lineage(o) == o.parents \union o.derived

\* What a client may answer: references to whatever is stored.  A sound artifact has its
\* fields, its probability, its prediction if it is one, and no secrets or references to
\* what is not there.
Answers ==
    {o \in [by : Workers, sound : BOOLEAN, parents : SUBSET Stored, derived : SUBSET Stored, kind : Kinds] :
        Cardinality(Lineage(o)) <= MaxLinks}

\* The answer of w, in any order of the workers; a client that raises answers nothing
\* sound.
Collect(x, w) ==
    /\ xpc[x] = "collect" /\ w \in asked[x] /\ Len(log) < MaxLog
    /\ asked' = [asked EXCEPT ![x] = @ \ {w}]
    /\ LET sound == {o \in Answers : Validate(w, o)}
       IN  \/ /\ \E o \in sound : turn' = [turn EXCEPT ![x] =
                    [who |-> w, lineage |-> Lineage(o), kind |-> o.kind, todo |-> Lineage(o)]]
              /\ Goto(x, "store")
           \/ /\ Answers # sound
              /\ turn' = [turn EXCEPT ![x] = [NoTurn EXCEPT !.who = w]]
              /\ Goto(x, "fail")
    /\ UNCHANGED <<swarmStore, found, faults>>

Store(x) ==
    /\ xpc[x] = "store"
    /\ AppendArtifact(turn[x].who, turn[x], FALSE)
    /\ turn' = [turn EXCEPT ![x] = [NoTurn EXCEPT !.who = turn[x].who, !.todo = turn[x].todo]]
    /\ Goto(x, "reward")
    /\ UNCHANGED <<score, budget, ledger, hint, asked, found, faults>>

\* Artifacts of the worker itself are not rewarded.
Rewarded(x, a) == log[a].by # turn[x].who

\* _reward_downstream_reuse, the next reference in the order of the ids.
RewardNext(x) ==
    /\ xpc[x] = "reward" /\ turn[x].todo # {}
    /\ LET a == CHOOSE b \in turn[x].todo : \A c \in turn[x].todo : b <= c
       IN  /\ turn' = [turn EXCEPT ![x].todo = @ \ {a}]
           /\ IF Rewarded(x, a) THEN Book(log[a].by, Reward, "reuse", a)
                                ELSE UNCHANGED <<budget, ledger>>
    /\ UNCHANGED <<log, score, hint, xpc, asked, found, faults>>

Rewards(x) ==
    /\ xpc[x] = "reward" /\ turn[x].todo = {}
    /\ turn' = [turn EXCEPT ![x] = NoTurn]
    /\ Goto(x, "collect")
    /\ UNCHANGED <<swarmStore, asked, found, faults>>

\* The failure is stored: a critique with status FAILED.
Fail(x) ==
    /\ xpc[x] = "fail"
    /\ AppendArtifact(turn[x].who, NoTurn, TRUE)
    /\ turn' = [turn EXCEPT ![x].todo = {Len(log) + 1}]
    /\ Goto(x, "punish")
    /\ UNCHANGED <<score, budget, ledger, hint, asked, found, faults>>

Punish(x) ==
    /\ xpc[x] = "punish"
    /\ \E a \in turn[x].todo : Book(turn[x].who, Penalty, "failed", a)
    /\ turn' = [turn EXCEPT ![x] = NoTurn]
    /\ Goto(x, "collect")
    /\ UNCHANGED <<log, score, hint, asked, found, faults>>

Ends(x) ==
    /\ Goto(x, "idle")
    /\ asked' = [asked EXCEPT ![x] = {}]
    /\ turn' = [turn EXCEPT ![x] = NoTurn]
    /\ found' = [found EXCEPT ![x] = <<>>]

\* detect for every worker, its queries taken together.
Detect(x) ==
    /\ xpc[x] = "collect" /\ asked[x] = {}
    /\ found' = [found EXCEPT ![x] = [w \in Workers |-> Detected(w)]]
    /\ Goto(x, "persist")
    /\ UNCHANGED <<swarmStore, asked, turn, faults>>

\* set_behavioral_pattern for the next worker, whatever another round wrote meanwhile.
Persist(x) ==
    /\ xpc[x] = "persist" /\ found[x] # <<>>
    /\ LET left == DOMAIN found[x]
           w == CHOOSE v \in left : \A u \in left : v <= u
       IN  /\ hint' = [hint EXCEPT ![w] = found[x][w]]
           /\ found' = [found EXCEPT ![x] = [v \in left \ {w} |-> @[v]]]
    /\ UNCHANGED <<log, score, budget, ledger, xpc, asked, turn, faults>>

Finish(x) ==
    /\ xpc[x] = "persist" /\ found[x] = <<>>
    /\ Ends(x)
    /\ UNCHANGED <<swarmStore, faults>>

Fault == faults < MaxFaults /\ faults' = faults + 1

\* A transaction of the try block raises: the artifact may be stored already, and
\* some of the rewards paid.
Raise(x) ==
    /\ Fault /\ xpc[x] \in {"store", "reward"}
    /\ turn' = [turn EXCEPT ![x] = [NoTurn EXCEPT !.who = turn[x].who]]
    /\ Goto(x, "fail")
    /\ UNCHANGED <<swarmStore, asked, found>>

\* One of the handler raises, through run_round, or the process is killed.
Abort(x) ==
    /\ Fault /\ xpc[x] # "idle"
    /\ Ends(x)
    /\ UNCHANGED swarmStore

\* append_evaluation, by an evaluator of module SwarmEvaluation: one for a prediction.
Evaluate(a) ==
    /\ a \in Stored /\ log[a].kind = "prediction" /\ score[a] = NoScore
    /\ Cardinality({b \in Stored : score[b] # NoScore}) < MaxScored
    /\ \E q \in Scores : score' = [score EXCEPT ![a] = q]
    /\ UNCHANGED <<log, budget, ledger, hint, xpc, asked, turn, found, faults>>

RoundNext ==
    \/ \E x \in Rounds :
        \/ Begin(x) \/ (\E w \in Workers : Collect(x, w)) \/ Store(x) \/ RewardNext(x) \/ Rewards(x)
        \/ Fail(x) \/ Punish(x) \/ Detect(x) \/ Persist(x) \/ Finish(x) \/ Raise(x) \/ Abort(x)
    \/ \E a \in Ids : Evaluate(a)

RoundSpec == RoundInit /\ [][RoundNext]_roundVars
-----------------------------------------------------------------------------
(* What is promised.                                                       *)

Entries(w) == {i \in DOMAIN ledger : ledger[i].who = w}
RowsAbout(why, a) == {i \in DOMAIN ledger : ledger[i].why = why /\ ledger[i].about = a}

\* The append-only ledger explains every budget, the penalties that found less than
\* they wanted to take included.
BudgetIsLedger == \A w \in Workers :
    budget[w] = InitialBudget + SumFunction([i \in Entries(w) |-> ledger[i].delta])

\* A worker is penalised once for a failure, and only for a failure of its own that
\* is on record.
PenaltyHasFailure == \A a \in Ids :
    /\ Cardinality(RowsAbout("failed", a)) <= 1
    /\ \A i \in RowsAbout("failed", a) : a \in Stored /\ log[a].failed /\ log[a].by = ledger[i].who

\* A worker is rewarded for an artifact at most once for every artifact that another
\* worker built on it.
RewardIsReuse == \A a \in Ids :
    LET others == {c \in Stored : a \in log[c].lineage /\ log[c].by # log[a].by}
    IN  /\ Cardinality(RowsAbout("reuse", a)) <= Cardinality(others)
        /\ \A i \in RowsAbout("reuse", a) : ledger[i].who = log[a].by

RoundsHold == BudgetIsLedger /\ PenaltyHasFailure /\ RewardIsReuse

\* A hint is kept only for a worker with enough artifacts, one of which, of the pattern
\* hinted at, has been built on or scored above nothing: no pattern without evidence.
HintIsEarned == \A w \in Workers : hint[w] # NoPattern =>
    /\ Cardinality(Works(w)) >= MinArtifacts
    /\ \E a \in OfPattern(w, hint[w]) : ChildrenOf(a) # {} \/ score[a] > 0
=============================================================================
