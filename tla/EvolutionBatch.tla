--------------------------- MODULE EvolutionBatch ---------------------------
(***************************************************************************)
(* The safe mode of evolution_eval: orchestrate_safe.sh runs a preflight   *)
(* and batches of baseline and kernel runs, kernel_orchestrator.py repairs *)
(* and repeats a kernel run, run_logger.py classifies and logs every run,  *)
(* and the gates (preflight_gate.py, validity_gate.py over analyze.py, and *)
(* safety_controller.py) read the logs.  transition_matrix.py reconstructs *)
(* from the kernel log what happened in the runs.                          *)
(***************************************************************************)
EXTENDS Integers, FiniteSets, Sequences, SequencesExt

CONSTANTS
    Stages,           \* what an exit trace may name
    Marks,            \* what the output may be searched for
    PreflightRuns, BatchSize, MaxBatches,
    DependencyStop,   \* dependency_error_stop_threshold
    DependencyTenths, \* dependency_error_ratio_max
    MaxRuns,          \* max_runs
    StabilityTenths,  \* stability_threshold
    Patience,         \* no_improvement_patience
    MaxEarlier        \* bound: rows that earlier campaigns left in the kernel log

ASSUME EvolutionAssumption ==
    /\ {PreflightRuns, BatchSize, MaxBatches, DependencyStop, DependencyTenths,
        MaxRuns, StabilityTenths, Patience} \subseteq Nat \ {0}
    /\ MaxEarlier \in Nat
    /\ StabilityTenths <= 10   \* "at/above this ratio"

VARIABLES
    phase, batch, left,  \* orchestrate_safe.sh: the runs left in the phase
    trace,               \* the stage in the last line of factory_exit_trace.log
    kernelRun,           \* the kernel run under way
    baselineLog, kernelLog,  \* the rows of the two JSONL files
    streak,              \* no_improvement_streak in safety_state.json
    truth                \* what happened in the runs of kernelLog (history)

evoVars == <<phase, batch, left, trace, kernelRun, baselineLog, kernelLog, streak, truth>>

NoStage == "none"
NoReason == "None"
NoRun == [at |-> "idle"]
EvoPhases == {"preflight", "baseline", "kernel", "judge", "stopped"}
-----------------------------------------------------------------------------
(* run_logger.py                                                           *)

\* What the rows are made from: the exit, the stage in the trace, and what of the marks
\* the output has.  classify looks for "status=block" in a decision status that is cut
\* off behind "status=", so no run is a pause at the decision limit.
RunArtifacts == [ok : BOOLEAN, stage : Stages \union {NoStage}, marks : SUBSET Marks]

\* classify: the first of its tests that applies.
Reason(a) ==
    IF a.ok THEN NoReason
    ELSE IF a.stage = "quality_gate" THEN "QUALITY_GATE_FAIL"
    ELSE IF a.stage = "post_gate" THEN "POST_GATE_REJECT"
    ELSE IF a.stage = "reflex" THEN "REFLEX_BLOCK"
    ELSE IF "format" \in a.marks THEN "GENERATION_FORMAT_ERROR"
    ELSE IF "local" \in a.marks THEN "LOCAL_COMPLETION_UNAVAILABLE"
    ELSE IF "fallback" \in a.marks THEN "LOCAL_FALLBACK_FAILURE"
    ELSE IF a.stage = "generator" THEN "DEPENDENCY_ERROR"
    ELSE IF "policy" \in a.marks THEN "HARD_POLICY_BLOCK"
    ELSE IF "dependency" \in a.marks THEN "DEPENDENCY_ERROR"
    ELSE "UNKNOWN_NONZERO"

\* _normalize_status
Status(a) == IF Reason(a) = NoReason THEN "SUCCESS" ELSE "FAIL"

Row(a, attempted, repaired) ==
    [status |-> Status(a), reason |-> Reason(a), attempted |-> attempted, repaired |-> repaired]

Failed(rows) == {i \in DOMAIN rows : rows[i].status = "FAIL"}
DependencyErrors(rows) == {i \in DOMAIN rows : rows[i].reason = "DEPENDENCY_ERROR"}
-----------------------------------------------------------------------------
(* The gates.                                                              *)

\* preflight_gate.py
PreflightStops == Cardinality(DependencyErrors(baselineLog)) >= DependencyStop

\* summarize of analyze.py, and validity_gate.py: both failure rates are strictly between
\* none and all, and dependency errors are rare in both logs.
ValidLog(rows) ==
    /\ 0 < Cardinality(Failed(rows)) /\ Cardinality(Failed(rows)) < Len(rows)
    /\ 10 * Cardinality(DependencyErrors(rows)) < DependencyTenths * Len(rows)
ValidExperiment == ValidLog(baselineLog) /\ ValidLog(kernelLog)

\* classify_row of safety_controller.py.  It compares the status with "failure", and its
\* other classes need reasons that the logger does not write.
RowClass(row) ==
    IF row.status = "failure" /\ row.reason \in {"POST_GATE_REJECT", "HARD_POLICY_BLOCK"}
    THEN "REAL_FAILURE" ELSE "UNKNOWN_OR_SUCCESS"

\* failure_rate of safety_controller.py is a share of these.
SafetyFailures(rows) == {i \in DOMAIN rows : rows[i].status = "failure"}

\* absolute_improvement <= 0, the rates multiplied out; no rows are a rate of 0.
NoImprovement ==
    IF Len(kernelLog) = 0 \/ Len(baselineLog) = 0 THEN SafetyFailures(baselineLog) = {}
    ELSE Cardinality(SafetyFailures(baselineLog)) * Len(kernelLog)
             <= Cardinality(SafetyFailures(kernelLog)) * Len(baselineLog)

Dominant(rows) == \E class \in {"REAL_FAILURE", "UNKNOWN_OR_SUCCESS"} :
    10 * Cardinality({i \in DOMAIN rows : RowClass(rows[i]) = class}) >= StabilityTenths * Len(rows)

\* Besides max_duration_seconds: max_runs, a dominant class, both arms failing in full, or no improvement for long.
SafetyStops(newStreak) ==
    \/ Len(baselineLog) + Len(kernelLog) >= MaxRuns
    \/ Dominant(baselineLog \o kernelLog)
    \/ /\ SafetyFailures(baselineLog) = DOMAIN baselineLog
       /\ SafetyFailures(kernelLog) = DOMAIN kernelLog
    \/ newStreak >= Patience
-----------------------------------------------------------------------------
(* The transition matrix of the kernel log.                                *)

HowMany(rows, S, attempted) ==
    Cardinality({i \in DOMAIN rows : rows[i].status \in S /\ rows[i].attempted = attempted})

\* build_matrix: the origins and the transitions; a row without a repair that is a success
\* counts nowhere.
Matrix(rows) ==
    LET failed == HowMany(rows, {"FAIL"}, TRUE)
        mended == HowMany(rows, {"SUCCESS"}, TRUE)
        plain == HowMany(rows, {"FAIL"}, FALSE)
    IN  [S0 |-> failed + mended + plain, S1 |-> failed + mended,
         S0S1 |-> failed + mended, S0S2 |-> mended, S0S3 |-> failed + plain,
         S1S2 |-> mended, S1S3 |-> failed]

\* compute_causal_repair_lift and the table of odds_ratio_with_ci.
RepairTable(rows) ==
    [repairSuccess |-> HowMany(rows, {"SUCCESS"}, TRUE), repairFail |-> HowMany(rows, {"FAIL"}, TRUE),
     plainSuccess |-> HowMany(rows, {"SUCCESS"}, FALSE), plainFail |-> HowMany(rows, {"FAIL"}, FALSE)]

\* compute_repair_metrics
RepairMetrics(rows) ==
    [attempts |-> Cardinality({i \in DOMAIN rows : rows[i].attempted}),
     successes |-> Cardinality({i \in DOMAIN rows : rows[i].repaired})]
-----------------------------------------------------------------------------
EvoTypeOK ==
    /\ phase \in EvoPhases /\ batch \in 0 .. MaxBatches
    /\ left \in 0 .. PreflightRuns + BatchSize
    /\ trace \in Stages \union {NoStage}
    /\ kernelRun.at \in {"idle", "classify", "repair", "rerun", "log"}
    /\ streak \in 0 .. Patience + MaxBatches
    /\ Len(kernelLog) = Len(truth)

\* A row of an earlier campaign with what happened in its run: no dependency error, one
\* that the repairer did not get to, or one that was followed by a second execution.
Earlier(a, first, executions) ==
    [row |-> Row(a, first = "DEPENDENCY_ERROR", executions = 2 /\ a.ok),
     run |-> [first |-> first, executions |-> executions, ok |-> a.ok]]
EarlierRuns ==
    {Earlier(a, Reason(a), 1) : a \in RunArtifacts}
        \union {Earlier(a, "DEPENDENCY_ERROR", 2) : a \in RunArtifacts}

\* A campaign starts with the kernel log, the exit trace and the streak of those before; a
\* streak beyond Patience is like Patience.
EvoInit ==
    /\ phase = "preflight" /\ batch = 0 /\ left = PreflightRuns
    /\ trace \in Stages \union {NoStage}
    /\ kernelRun = NoRun
    /\ baselineLog = <<>>
    /\ \E n \in 0 .. MaxEarlier : \E runs \in [1 .. n -> EarlierRuns] :
        /\ kernelLog = [i \in 1 .. n |-> runs[i].row]
        /\ truth = [i \in 1 .. n |-> runs[i].run]
    /\ streak \in 0 .. Patience

\* ./factory.sh run.  What fails leaves a trace, unless it was killed or never got there;
\* the artifact has the stage of the last trace that is there.
Outcomes == {a \in RunArtifacts : a.stage \in IF a.ok THEN {trace} ELSE Stages \union {trace}}
-----------------------------------------------------------------------------
(* baseline_runner.sh: one execution and one row a run.                    *)

BaselineRun ==
    /\ phase \in {"preflight", "baseline"} /\ left > 0
    /\ left' = left - 1
    /\ \E a \in Outcomes :
        trace' = a.stage /\ baselineLog' = Append(baselineLog, Row(a, FALSE, FALSE))
    /\ UNCHANGED <<phase, batch, kernelRun, kernelLog, streak, truth>>

\* A missing command gives every run of the runner a row of a stage that classify does
\* not look for, and no trace.
BaselineUnavailable ==
    /\ \/ phase = "preflight" /\ left = PreflightRuns
       \/ phase = "baseline" /\ left = BatchSize
    /\ left' = 0
    /\ baselineLog' = baselineLog \o
           [i \in 1 .. left |-> Row([ok |-> FALSE, stage |-> NoStage, marks |-> {}], FALSE, FALSE)]
    /\ UNCHANGED <<phase, batch, trace, kernelRun, kernelLog, streak, truth>>

Campaign(to, n) == phase' = to /\ left' = n

PreflightGate ==
    /\ phase = "preflight" /\ left = 0
    /\ IF PreflightStops THEN Campaign("stopped", 0) /\ UNCHANGED batch
                         ELSE Campaign("baseline", BatchSize) /\ batch' = 1
    /\ UNCHANGED <<trace, kernelRun, baselineLog, kernelLog, streak, truth>>

\* A batch does not start when max_duration_seconds are over.
OutOfTime ==
    /\ phase = "baseline" /\ left = BatchSize
    /\ Campaign("stopped", 0)
    /\ UNCHANGED <<batch, trace, kernelRun, baselineLog, kernelLog, streak, truth>>

BaselineDone ==
    /\ phase = "baseline" /\ left = 0
    /\ Campaign("kernel", BatchSize)
    /\ UNCHANGED <<batch, trace, kernelRun, baselineLog, kernelLog, streak, truth>>
-----------------------------------------------------------------------------
(* run_kernel_pipeline                                                     *)

OnlyTheRun == UNCHANGED <<phase, batch, left, baselineLog, kernelLog, streak, truth>>

KernelExecute ==
    /\ phase = "kernel" /\ left > 0 /\ kernelRun = NoRun
    /\ \E a \in Outcomes :
        trace' = a.stage /\ kernelRun' = [at |-> "classify", artifact |-> a, executions |-> 1]
    /\ OnlyTheRun

\* Mutant of RepairTriggered: every failure is repaired.
RepairTriggeredAlways(a) == Status(a) = "FAIL"

RepairTriggered(a) == Status(a) = "FAIL" /\ Reason(a) = "DEPENDENCY_ERROR"

KernelClassify ==
    /\ kernelRun.at = "classify"
    /\ LET a == kernelRun.artifact
       IN  kernelRun' = [at |-> IF RepairTriggered(a) THEN "repair" ELSE "log", artifact |-> a,
                         executions |-> 1, first |-> Reason(a), attempted |-> FALSE, repaired |-> FALSE]
    /\ UNCHANGED trace /\ OnlyTheRun

\* The repairer: no generated project or no package.json is a failure.
KernelRepair ==
    /\ kernelRun.at = "repair"
    /\ \E done \in BOOLEAN :
        kernelRun' = [kernelRun EXCEPT !.at = IF done THEN "rerun" ELSE "log", !.attempted = TRUE]
    /\ UNCHANGED trace /\ OnlyTheRun

KernelRerun ==
    /\ kernelRun.at = "rerun"
    /\ \E a \in Outcomes :
        /\ trace' = a.stage
        /\ kernelRun' = [kernelRun EXCEPT !.at = "log", !.artifact = a, !.executions = @ + 1,
                                          !.repaired = Status(a) = "SUCCESS"]
    /\ OnlyTheRun

\* The artifact is written; run_logger.py classifies it again and appends the row.
KernelLog ==
    /\ kernelRun.at = "log"
    /\ LET r == kernelRun
       IN  /\ kernelLog' = Append(kernelLog, Row(r.artifact, r.attempted, r.repaired))
           /\ truth' = Append(truth, [first |-> r.first, executions |-> r.executions, ok |-> r.artifact.ok])
    /\ kernelRun' = NoRun
    /\ left' = left - 1
    /\ UNCHANGED <<phase, batch, trace, baselineLog, streak>>
-----------------------------------------------------------------------------
(* analyze.py, validity_gate.py, safety_controller.py                      *)

ValidityGate ==
    /\ phase = "kernel" /\ left = 0
    /\ Campaign(IF ValidExperiment THEN "judge" ELSE "stopped", 0)
    /\ UNCHANGED <<batch, trace, kernelRun, baselineLog, kernelLog, streak, truth>>

SafetyController ==
    /\ phase = "judge"
    /\ streak' = IF NoImprovement THEN streak + 1 ELSE 0
    /\ \E late \in BOOLEAN :
        IF late \/ SafetyStops(streak') \/ batch = MaxBatches
        THEN Campaign("stopped", 0) /\ UNCHANGED batch
        ELSE Campaign("baseline", BatchSize) /\ batch' = batch + 1
    /\ UNCHANGED <<trace, kernelRun, baselineLog, kernelLog, truth>>

EvoNext ==
    \/ BaselineRun \/ BaselineUnavailable \/ PreflightGate \/ OutOfTime \/ BaselineDone
    \/ KernelExecute \/ KernelClassify \/ KernelRepair \/ KernelRerun \/ KernelLog
    \/ ValidityGate \/ SafetyController

EvoSpec == EvoInit /\ [][EvoNext]_evoVars
-----------------------------------------------------------------------------
\* A repair is attempted where the first execution was classified as a dependency error
\* and nowhere else, it is followed by at most one execution, and a row says that it
\* succeeded exactly when that one did.
RepairIsEarned == \A i \in DOMAIN kernelLog :
    LET row == kernelLog[i]
    IN  /\ row.attempted <=> truth[i].first = "DEPENDENCY_ERROR"
        /\ truth[i].executions = 2 => row.attempted
        /\ row.repaired <=> truth[i].executions = 2 /\ truth[i].ok

\* transition_matrix.py sees only the last status and what was attempted, and yet counts
\* the runs that failed at first (S0), those that were repaired (S1) and where they went;
\* the odds and the repair metrics agree with it.  S0->S3 are all runs that were lost, with
\* and without a repair: its docstring has it count those without one.
MatrixIsTrue ==
    LET matrix == Matrix(kernelLog)
        table == RepairTable(kernelLog)
        runs(P(_)) == Cardinality({i \in DOMAIN truth : P(truth[i])})
        failedFirst(run) == run.first # NoReason
        mended(run) == run.first # NoReason /\ run.ok
        lost(run) == ~run.ok
    IN  /\ matrix.S0 = runs(failedFirst) /\ matrix.S0S2 = runs(mended) /\ matrix.S0S3 = runs(lost)
        /\ matrix.S1 = matrix.S1S2 + matrix.S1S3 /\ matrix.S0 = matrix.S0S2 + matrix.S0S3
        /\ table.repairSuccess + table.repairFail = RepairMetrics(kernelLog).attempts
        /\ matrix.S1S2 = RepairMetrics(kernelLog).successes

\* No kernel run follows a preflight with too many dependency errors, however the log of
\* the baseline grows after it.
GatesStop ==
    phase = "kernel" =>
        Cardinality(DependencyErrors(SubSeq(baselineLog, 1, PreflightRuns))) < DependencyStop

EvolutionHolds == RepairIsEarned /\ MatrixIsTrue /\ GatesStop
=============================================================================
