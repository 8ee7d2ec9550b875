# Verification of AgentOS / Factory OS

This directory holds TLA+ models of the parts of this repository whose
correctness depends on the order in which processes act, on crashes and on state
kept in files and databases; the TLC configurations that check them on small
instances; and TLAPS proofs of every safety property those runs check.

    tlc -workers 2 -config MCJobQueue_safety.cfg MCJobQueue
    tlapm JobQueueProofs.tla

## 1. Inventory: the system and its parts

Factory OS turns ideas into projects. Ideas are files in `queue/incoming`; shell
scripts move them through the queue and run a generation pipeline on each.
Beside it live a work kernel that reads evidence under a plan, and a swarm that
collects, scores and sells predictions. Nothing shares memory across processes:
the parts interact through renames, lock files, FIFOs, JSON files and SQLite.

| part | state | operations | what is hard | what makes it correct |
|---|---|---|---|---|
| **Job queue**: `factory/os/watch_queue.sh`, `queue/lease_one.sh`, `queue/rescue_leases.sh`, `os/run_job.sh` | job files in `queue/{incoming,leased,done,failed}`, `watch_queue.lock`, `runtime/task_state.json`, `runtime/metrics.jsonl` | submit, lease, rescue, run, repair, finalize | a rescue that runs without the lock, orphans that keep it, kills anywhere | one run at a time; young jobs run once; finished jobs stay; stale leases come back; every job finishes once no more watchers are started |
| **Task state**: `factory/state/task_state.py` | `runtime/task_state.json` | load, set, save | no lock, truncating write | updates are not lost while they do not overlap |
| **Repair queue**: `factory/repair/codex_fix.sh`, `factory/agent/codex_daemon.py` | `runtime/repair_queue/*`, results, `daemon.pid` | app-server, daemon or direct repair; lease, execute, report, file | timeouts while the work goes on, torn results, two daemons, crashes | executed once, success is earned, one agent edits the target, calls end |
| **App-server client**: `factory/agent/codex_app_client.py`, `session_manager.py`, `app_server_control.sh` | two FIFOs, `app_server.lock`, `codex_sessions.json` | start, stop, request, session get and set | late answers, opens, writes and reads that block, ids that repeat | answers belong to their request; one session an app; clients end if the server reads and finishes its lines |
| **Work kernel**: `.agents/skills/gpt6-work-platform/scripts/work_kernel.py` | tables `runs` and `blobs`; tasks, attempts, semaphore | claim, read, finish, answer; execute a plan | competing coordinators, crash between claim and finish, denial during retries | no replay, one receipt, evidence with it, bounded concurrency, nothing after a denial; an end, with cooperative adapters |
| **Swarm evaluation**: `factory/swarm/evaluation.py`, `scheduler.py` | append-only tables of artifacts, evaluations, budget events; an outcomes file | poll, score, store the outcome, credit | three transactions an operation, evaluators beside each other, a clock | one score a prediction, no leak of outcomes, every due prediction scored |
| **Swarm rounds**: `orchestration.py`, `specialization.py`, `anti_herding.py`, `baselines.py` | artifacts, workers with budgets and hints, ledger | ask workers, store, reward, penalise, detect; cluster, vote, select | faults between transactions, two rounds on one store | ledger, budgets and artifacts explain each other; one vote a cluster; the minority is kept |
| **Swarm sales**: `commerce.py`, `http_api.py` | purchases, receipts, demand | select, settle, look up, record, reuse, credit | retries of one payment in several threads, kills between transactions | one receipt a payment, demand for sales only, only what was evaluated or validated is sold, who paid is served |
| **Goal feedback**: `agentos_adapter.py`, `fitness.py` | goal events and snapshots | record an event, recommend, snapshot | read and append in two transactions | the signal is the fold of the events; advice has evidence |
| **Paper trading**: `paper.py` | cash, positions, average prices, profit | process a signal | long sequences of legal fills | books balance, risk is bounded |
| **Control plane**: `factory.sh`, `os/status.sh`, `api/api_control.sh`, `selftest.sh` | pid files, systemd units | start, stop, restart, repair, health | starts and kills during work | restarts lose nothing |
| **Build API**: `factory/api/server.py` | files in `queue/incoming` | POST /build, GET /job | names chosen by test and open, jobs that move while they are looked for | every idea is kept, every answered job is found |
| **Generation pipeline**: `factory/brain`, `generator`, `roles`, `parser`, `publish`, `nervous`, `memory` | files of one run | decide, generate, gate, publish | retries of gates | sequential; its exit code is what the queue sees |
| **Evolution evaluation**: `evolution_eval/` | JSONL logs, exit trace, safety state | preflight, baseline and kernel runs, repair, gates, matrix | traces and logs of earlier runs, what a log row still tells | repairs are earned, the matrix is true, the preflight gate stops |
| **Legacy watchers**: `factory_queue_watch*.sh`, `factory_git_push.sh` | lists of seen files | watch, run, push | files that arrive during a run | superseded by the job queue |
| Tools, diagnostics, templates, `factory/analysis`, `factory/snapshot`, `install.sh` | | | none | not modelled |

How they meet: the API, the user and `install.sh` put files into `incoming`; the
watcher leases one and starts `run_job.sh`, which runs the pipeline, calls
`codex_fix.sh` when validation fails, and `task_state.py` at every stage;
`codex_fix.sh` asks the app-server, then the daemon, then `codex` itself;
`factory.sh` starts and kills all of them. The work kernel and the swarm are
used beside the queue. `PROJECT.json` lists for each part what is modelled, and
under `hazards` every place of the code that is hard to test, with the property
that watches it.

## 2. Plan

Done, in this order: the job queue and its abstract life cycle; the repair queue;
the task state file; the app-server client; the evidence store, the read executor
and their composition; the evaluation of the swarm; then the sales, the rounds,
clustering and selection, paper trading, goal feedback, the build API and the
campaigns of `evolution_eval`; then the proofs, component by component, and of the
compositions.

Next, most important first:
1. The queue composed with `TaskState` (rows written by the three steps of
   `task_state.py` rather than at once), with `RepairQueue`, and with `BuildApi` in
   the place of `Submit`.
2. `SwarmRound`, `SwarmEvaluation` and `SwarmMarket` over one store, so that
   rewards, scores and demand meet in one ledger.
3. Proofs: that `WorkKernel` implements an abstract read-once service, and the action
   properties of the compositions above.

## 3. Modules

| module | models | proofs |
|---|---|---|
| `JobLifecycle` | the abstract queue: what happens to a file, one execution, one report | |
| `JobQueue` | the four scripts of the job queue | `JobQueueProofs` |
| `TaskState` | `task_state.py`'s updates | `FactoryPartsProofs` |
| `RepairQueue` | `codex_fix.sh` and `codex_daemon.py` | `RepairQueueProofs` |
| `AppServer` | FIFO client, sessions, server | `AppServerProofs` |
| `EvidenceStore` | the transactions of `EvidenceStore` and `run_reads` around them | `WorkKernelProofs` |
| `ReadRun` | the coroutines of one `run_reads` | `WorkKernelProofs` |
| `WorkKernel` | both: a coordinator of `EvidenceStore` that executes `ReadRun` | `WorkKernelProofs` |
| `SwarmEvaluation` | `evaluate_due`, its daemon and the store they write | `SwarmPartsProofs` |
| `SwarmMarket` | paid requests of `commerce.py` and the tables behind them | `SwarmPartsProofs` |
| `SwarmRound` | `run_round`, its ledger, and the specialization detector | `SwarmRoundProofs` |
| `AntiHerding` | clusters, votes and selections as operators; the baselines | `SwarmFoldProofs` |
| `PaperTrading` | the paper trade engine | `SwarmFoldProofs` |
| `GoalFeedback` | goal events, signal, recommendation, snapshots | `SwarmFoldProofs` |
| `BuildApi` | POST /build and GET /job beside worker and rescue | `FactoryPartsProofs` |
| `EvolutionBatch` | `orchestrate_safe.sh` with runner, logger, gates and matrix | `FactoryPartsProofs` |
| `FactoryParts`, `SwarmParts`, `ServiceParts` | components that share no state, side by side | `FactoryPartsProofs`, `SwarmPartsProofs`; those of the parts |
| `MC*` | the instances of TLC | |

A definition whose comment says "Mutant of X" is a plausible bug of X. No
specification uses it; put in the place of X it must break the property that
`PROJECT.json` names, which shows that the property depends on that code.

### JobQueue

A *slot* is one `watch_queue.sh` process together with the one child it waits
for: a rescue, a run, or the `inotifywait` or `sleep` it pauses with. Its state is
its program counter (`wpc`), the child's (`kid`), the job it leased (`cur`), the list and the stale files of a rescue
(`scan`, `due`) and the verdict and attempts of a run. A job is a file: `loc` is its
directory, and `old` says whether its mtime is more than LEASE_TIMEOUT_SEC ago.
`row` is its entry in `task_state.json`, `metric` its rows in `metrics.jsonl`.
`exec` counts executions and exists for the properties.

* `Start`, `Kill`, `KillTree`: start by hand or by a service manager;
  `pkill -f watch_queue.sh`, which leaves the child; systemd's stop, which does
  not. Descriptor 9 is inherited by every child: after `Kill` the orphan keeps the lock,
  be it a run or the `inotifywait` or `sleep` of an idle watcher, until it ends
  (`LockAfter`). An orphaned `sleep` ends at its time, an `inotifywait` at the next event.
* `RescueBegin` ... `RescueEnd`: the loop of `rescue_leases.sh`, one file and one
  command a step; a `stat` or `mv` that fails ends it (`set -e`).
* `TryLock`, `LeaseOne`, `NothingToLease`, `Launch`, `Arm`: the watcher; `Pause` and `Wake`
  are the begin and the end of its `inotifywait` or `sleep`.
* `RunStart` ... `WriteMetric`: `run_job.sh`, with the loop over MAX_FIX repairs;
  what the factory command, the gates and the push return is nondeterministic.

Abstracted: `find` and `mv` of `lease_one.sh` are one step, under its own lock; a
kill inside it is a lease followed by a kill; exit code 3 (a busy lease lock) is
not retried; a renamed file keeps its identity; swarm feedback after a run is
external. Each `set-state` is one step here, and `TaskState` takes it apart.
`factory start` and `factory repair` rescue once more before they start a
watcher, which is the rescue of a `Start` that then finds the lock taken.
The factory command of a run does not read the leased file (it looks at files
directly in `queue/`), so the contents of jobs play no part.

### TaskState

Each process makes one update at a time in three steps: load (a file that cannot
be parsed has no rows), truncate, write. A write over somebody else's may leave
a mixture, which is `Broken`. `said` is the last update a process reported.

### RepairQueue

A call is one `codex_fix.sh`; its request carries its number. `Call` to
`DirectEnds` are its way: app-server, then the daemon if `daemon.pid` names a
living one, then `codex exec`. A daemon leases (`Lease`), refuses or executes,
opens, writes and files. An *agent* is a `codex exec` at work, and outlives who
waits for it. `earned`, `runs`, `gaveUp`, `misled` and `hung` are history. Not
modelled: REPAIR_DAEMON_MOCK, disk errors of the daemon, a lost client of the
app-server (it may stay "inapp" for ever: no fairness).

### AppServer

A line is tagged with the client it belongs to, which the code cannot see; ids
are 1 for `initialize` and 2 for `command/exec` of every client, as in
`_next_id`. Client steps: `Lock`, `Open` (blocks without a server), `Send` (blocks while the
FIFO is full), `Skip`, `Take`, then the session (`NoSession` or `OldSession`, which are
`get_session`; `SetSession`; `UpdateLastUsed`), then the second request. `Deadline`, `Kill`,
`StopServer`, `StartServer`, `Accept`, `BeginAnswer` and `Reply` are the rest; replies come in
any order, as JSON-RPC allows. An answer may arrive in pieces: `half` is the one whose
line the server has begun, and `begun` says where that piece is. A client that reads a
piece is in `readline()` (`Block`), out of reach of its deadline, until the line is
finished or the server ends; a piece read by a client that goes away is lost, and the
rest of the line is no JSON. What the FIFO holds is counted in requests (`Room`). The busy
loop on an end of file changes nothing and is a stutter.

### EvidenceStore, ReadRun, WorkKernel

`EvidenceStore` has a step for every SQLite transaction of a coordinator; a crash
may come between any two, and stands for a database busy for more than ten
seconds too. `FinishRejected` is a blob that an earlier run has stored and that was altered since,
so damage may have been done before the run starts. Receipts are named by the
coordinator that made them. `ReadRun`
executes a plan: `StartLevel` gathers a level, a task waits for the semaphore,
calls, returns, fails for good, fails transiently and sleeps, or is denied, which
stops the others. Which waiting task gets a slot is left open. Plans are acyclic,
as `validate_plan` ensures. In `WorkKernel` the coordinator `Observed` makes the
steps of `ReadRun` between its claim and its `Finish`, while the others claim,
read, finish and crash beside it.

### SwarmEvaluation

Evaluators share the store. `Poll` reads the time, the outcomes file and the due
predictions; the code reads them one after the other, and a prediction or an
outcome that arrives in between is one that arrives later here. Then every due
prediction with an outcome is `Contaminated`, scored (`Evaluate`, `StoreOutcome`,
`Credit`: three transactions) or raises, which ends the daemon. The predictions of
a cycle are taken in any order. `Publish` is the connector that fills
the file: any value, corrected after a contamination. Rejected and failed
predictions are left out, for they are never due; a further anomaly for the same
prediction changes nothing. The amounts of budget events are left out.

### SwarmMarket

A request is a thread of the API server: `Ask` takes the best validated artifact of a
product, with the payment of whatever product was bought before (`Best`, by the mean of calibrations along the lineage, compared as fractions),
`Settle` or `Decline` is the payment verifier, `Look` is `purchase_by_payment_id`,
and then `Reuse`, or `Issue` and `Demand`, which are transactions of their own, or
`Raise`: UNIQUE violations and blank consumer names. `Shelve` and `Judge` are what
rounds and evaluations append meanwhile. `CrashServer` ends all threads.
`receipts` is history. A trusted validator's artifact may also have been put on sale
(`Commercialized`), which validates itself and not its ancestors. Free and refused requests change nothing and are no steps.

### SwarmRound

Each transaction of `run_round` is a step: `Begin` selects the richest workers, `Collect`
takes an answer or its rejection, then `Store` and `RewardNext` for each reference, or `Fail` and `Punish`;
`Raise` is an exception inside the `try`, after which the failure handler runs even
though the artifact may be stored already; `Abort` is one in the handler, or a
kill. At the end `Detect` finds the patterns of all workers and `Persist` writes one
worker's hint at a time, beside other rounds that do the same. The quality of an artifact
is that of its evaluation, the mean of calibration, usefulness and uniqueness here taken as
one number (`Scores`, in thirds), and without one its reuse. `Evaluate` is the evaluator
beside the rounds. What the workers are shown is left out: an answer may refer to
whatever is stored (`MaxLinks` references), as validation accepts. Amounts are in
units of 0.25.

### AntiHerding

The state is the list of artifacts so far, each with sources of its own and parents, given
or not (`Elsewhere`), so that every list up to a length is a
state and every promise an invariant. `RootSources` is the recursion of the code along
the lineage. The union-find of `cluster_by_evidence` is a fold that joins the trees
pair by pair in the order of the code (`Merged`); its reference, `Connected`, is
Warshall's closure of the common sources.

### PaperTrading

Money is in whole units in which slippage and fee have no remainder; averages and
profits are fractions. Pieces are whole where the code has eight decimal places,
so the rounding of the quantities is there and its size is not the code's. Slippage may be
negative, since `process` compares it with its maximum only; above -100 %, so that prices
stay positive.
A signal that any check refuses changes nothing and is no step.

### GoalFeedback

A process of the command line records one event (`BeginEvent`, `KeepEvidence`,
`ReadSignal`, `AppendEvent`, `Recommend`) or one snapshot (`CheckVector`, `Snapshot`), a
transaction a step, and may end between any two (`Leave`; also where a snapshot is about an
artifact that does not exist). `serene` is history: the goals whose
records never overlapped.

### BuildApi

A build thread chooses a candidate (`AcceptBuild`), tests it (`TestName`), opens it (an
existing file is truncated) and writes. A file is known by the request that made
it, and carries the idea it holds; `Renamed` stands for the names that `lease_one.sh` and
the others make of a taken one. `CheckDirectory` is one `isfile` of `_job_state`. `raced` is
history: requests whose name was taken between its test and its open, by another request
of that second or by a rescue that brings a lease back, and whoever took it.

### EvolutionBatch

`orchestrate_safe.sh` goes from phase to phase, one run at a time. What a run was is
an artifact: its exit, the stage in the last line of the exit trace, which an earlier
run may have left, and the marks found in its output. `Reason` is the order of the
tests of `classify`. Kernel runs are classified, repaired and repeated; every run is
logged. A campaign starts with the kernel log, the trace and the streak of earlier ones
(`EarlierRuns`, up to `MaxEarlier` rows), since nothing empties them; `BaselineUnavailable` is a
runner whose command is missing. `truth` is history. The gates, the controller and the matrix are operators on the
logs.

### FactoryParts, SwarmParts, ServiceParts

`part` chooses one component at the start; the others stand where they begin. The
state spaces add up instead of multiplying, and nothing is lost, because the
components share no variables. `SwarmParts` and `ServiceParts` (the work kernel and the
app-server) have the fairness of both their parts.

## 4. Runs

| run | bounds | shows |
|---|---|---|
| `queue_safety` | 2 jobs, 2 slots, MAX_FIX 1, any number of supervised starts, 1 kill, inotify | types; `OneRunner`; `FreshRunOnce`; `MetricMatchesFile`; `JobQueue` implements `JobLifecycle` |
| `queue_polling` | 2 jobs, 2 slots, 2 starts, 1 kill, polling | stale leases return, every job finishes once starts are over, the state file agrees with the directories until a second watcher is started |
| `queue_duplicate` | 1 job, 2 starts, no kill | violated: a job is executed twice |
| `queue_restart` | 1 job, 2 starts, 1 kill | violated: a restart leaves no watcher |
| `repair` | 2 calls, 2 daemons, 1 fault | executed once, success is earned, one agent, calls end |
| `repair_leased` | 1 call, 1 daemon, 1 fault | violated: a leased request of a killed daemon stays |
| `factory_parts` | each component alone: task state of 2 processes, 2 jobs, 1 kill; 2 build requests in 2 seconds, 1 rescue; campaigns of 1 preflight run and batches of 2 after up to 1 earlier row; 2 processes on 1 goal, 3 events, 1 snapshot; 2 rounds of 2 workers, 3 artifacts with 1 reference each, 1 evaluation, 1 fault; 3 signals, 2 prices, 4 slippages, one of them negative; lists of 3 artifacts over 2 sources, with at most 3 sources and parents each and 3 voices | types; `CalmFileIsComplete`; `ApiHolds`; `EvolutionHolds`; `FeedbackHolds`; `RoundsHold`; `HintIsEarned`; `PaperHolds`; `HerdingHolds` |
| `taskstate_overlap` | 2 processes, 2 jobs, no kill | violated: an update is lost from a file that can be read |
| `services` | the kernel: 2 coordinators, 1 run, 2 plans, 1 damage; 4 tasks, 2 slots, 1 retry; or the app-server: 2 clients of 1 app, room for 1 request, 2 deadlines, 1 kill, 1 stop | the whole of `run_reads`: adapters called once a run, one receipt, evidence, denial, end; whose answer a client takes, one session, clients end |
| `appserver_foreign` | 2 clients, 1 deadline | violated: a success is another repair's |
| `swarm_parts` | 2 evaluators, 2 starts, 2 predictions due at 0 and 1, clock to 1; or 2 threads, 1 payment, 2 products, 4 artifacts, 3 of them in a chain, 1 kill of the server | one score, no leak, every due prediction scored; `SalesHold`, `PaidIsServed` |
| `swarm_sale` | the same | violated: what nobody has evaluated or validated is sold |

**Why the bounds are enough to be interesting.** Two slots are the watcher that
works and the one that rescues beside it; with supervision a slot is started
again and again, so later watchers are covered too; two jobs are needed for a
rescue to skip one and for a second lease. One repair attempt has the loop's
first and last round. Two calls and two daemons are the call given up and the
one misled by it, and the daemon restarted beside the old one. Two task state
processes are all a lost update takes. In `services` three tasks compete for two
slots and one depends on two of them, with one retry; two clients are the one that gives
up and the one that takes its answer, and a FIFO with room for one request makes the
second wait. In `swarm_parts` an
outcome can be early (for the prediction due at 1), late (dated after the run)
and in time, and two evaluators can hold the same prediction;
two threads are what it takes to look for one payment at once, and in a chain of
three there is one to sell whose ancestor was judged and one whose descendant was
approved. In `factory_parts` two build requests of one second meet at one name, and the
second of the clock lets a name be given away again; a goal needs three events to
reach both ends of its signal, and two processes to lose one; two rounds of two
workers reward, penalise and detect beside each other, with one reference an answer
(`MaxLinks`), one evaluation (`MaxScored`) and processes that are alike (`SYMMETRY Alike`,
sound here because no property of the run is temporal); three trades open, turn and close a
position; one earlier row of the kernel log is what the matrix and the controller must count too.
In `AntiHerding` an artifact with two sources and a parent can join three clusters;
`Voiced` has two directions, enough for a majority and a tie, and a counter; `DOWN`,
`NO_SIGNAL` and artifacts of no direction are left to the theorem `HerdingCorrect`.
Kills are bounded to one because the
damage of each is to leave a lease, a lock, a request or a row behind; the
theorems hold without any of these bounds.

**Fairness.** Processes that run go on (the scheduler of the OS), so weak
fairness of each process: `Watch \/ Wake \/ Rescue \/ RunJob` of a slot, `Fix` of a call,
`Client` of an app-server client, every coroutine of a plan, `Cycle` of an evaluator.
Deadlines and time come: `Age`, `Deadline`, `Tick`. A thread of the server that was
started goes on; the client of a recorded purchase asks again until it has its
receipt, and neither the verifier nor a blank consumer name is in its way for ever
(strong fairness in `MarketFairness`). Three assumptions are about programs the code
does not control: an adapter of the work kernel returns, raises or lets itself be
cancelled at its timeout ("async timeouts require cooperative trusted adapters",
`work_kernel.py:331`); the `codex exec` of a direct repair ends, since `codex_fix.sh:141`
gives it no timeout; and so do the factory command and the gates of a run. Nothing is
assumed of kills, submissions, agents that nobody waits for, daemons (only in
`repair_leased`, where the unit file says `Restart=always`) or the app-server.

What a liveness property needs beyond that is a premise in the property, not in the
specification, and each premise is a place where the code does not help itself:

* `StaleLeasesReturn` and `EveryJobFinishes` ask for a watcher that stays up, and
  `EveryJobFinishes` for an end of starts (`NoMoreStarts`) too. `factory start` starts
  the nohup watcher and the `Restart=always` unit beside it (`factory.sh:466-468`). The one that loses
  the lock is started again every 3 s, and each time its boot rescue takes back the file
  of a run that is older than LEASE_TIMEOUT_SEC: such a job is executed again and again,
  and need never finish, although a watcher stays up.
* `EveryClientEnds` asks for an app-server that stays up, goes on reading and finishes
  the lines it begins. `open`, `write` and `readline` of the client have no deadline.
* `RunEnds` excepts a dead coordinator and damaged evidence, `EveryScored` asks for an
  evaluator that stays up.

An inotify watcher that waits has no timeout, so liveness is checked in polling
mode: a job that arrives between the last sweep and `inotifywait`, or a lease that
becomes stale while it waits, stays until the next arrival.

`CHECK_DEADLOCK FALSE` is set where the system may come to rest: no job or call
left, every coordinator done, no evaluator started.

## 5. What disagrees with the documents

* `queue_duplicate`: README.md says "Leasing prevents duplicate execution." The
  rescue of a second start looks at the mtime of the job file, which is when it was
  written, not when it was leased, and does not need the lock: it returns a job
  that is running. `FreshRunOnce` is what does hold.
* `queue_restart`: "The system is restart-safe." A restart kills the watcher; its
  run, or the `inotifywait` or `sleep` of an idle one, keeps the lock it inherited, and the
  new watcher exits. Nothing is lost
  (`FinishedStaysFinished`, a theorem, and `OneRunner`), but no watcher is left.
* `repair_leased`: "Daemon moves leased file to `done/` or `failed/`." Nobody looks
  at `leased/` after a crash.
* `taskstate_overlap`: "Runtime state is persisted in ... task_state.json". An
  update that loads while another has the file open finds it empty, and writes its row
  back alone; the row of the other is lost, and the file is readable. (After a kill
  between truncation and write the next update starts from no rows, too.)
* `appserver_foreign`: "app-server repair success" may be that of an earlier repair.
* `swarm_sale`: `docs/luna-swarm-revenue-strategy.md:113` denies paid access unless the
  artifact has an outcome evaluation or a validation descendant. `_truth_score` averages
  over the lineage, so the unevaluated child of an evaluated prediction is sold too.
  `Validated` is what the code does.

Known and not shown by a run of its own: with a service manager a second watcher
is restarted for ever, and takes long runs back (section 4); a client of the
app-server blocks while it opens a FIFO whose server has ended, while it writes to one that does not read, and in the middle of a
line; lines that the client has buffered are not seen by
`select`; a direct repair starts beside an agent that was given up (hence the
premise of `OneAgent`); in the swarm, an evaluator killed after a score never
makes up for the outcome artifact and the budget event, and a malformed outcome ends the
daemon; two events of a goal at once lose one.

In the sales, rounds and requests:

* The receipt of a reused purchase names the artifact that was bought; the body that
  comes with it is the artifact that is best at that moment (`commerce.py:275-290`).
* `docs/luna-swarm-revenue-strategy.md:81-83` gives a cluster one vote. In the premium answer
  `independent_cluster_vote` gets predictions only, so a lineage that leads through
  another kind of artifact does not join its clusters. `OneVoteEach` is about calls
  that pass the lineage too.
* A POST /build file is visible before its idea is in it, and after a lease its name is
  free again within the second: two jobs of one id, of which `GET /job` reports one.

In `evolution_eval`:

* `safety_controller.py:48,59` asks for `status == "failure"`, and `run_logger.py` writes `FAIL`.
  Every row of the program's own logs is of one class, which is dominant at once, so a
  campaign ends with its first batch, where `evolution_eval/README.md:78-88` has it go on until a class
  dominates, both arms fail or nothing improves. Nothing is promised about it here:
  `GatesStop` is about the preflight only. `no_improvement_streak` never falls, and outlives
  the campaign.
* `S0->S3` of the transition matrix counts the runs that were lost in spite of a repair
  (`transition_matrix.py:90`), where its docstring (71) has it count those without one.
  `MatrixIsTrue` states what it counts.
* `classify` looks for `status=block` in a text that was cut off behind `status=`: no run is
  ever a pause at the decision limit, and none is excluded as one.
* The counterfactual subset of `analyze.py` keeps rows whose reason is
  `DEPENDENCY_ERROR`, which no success has: its success rate is 0 by construction.
* A run that leaves no exit trace is classified by the trace of an earlier one, and the
  preflight empties the baseline log only.

## 6. Proofs

The theorems are about the specification of each component without fairness (`Spec` where
the component has a module of proofs to itself, otherwise `ApiSpec`, `EvoSpec`, `FeedbackSpec`,
`PaperSpec`, `HerdingSpec`, `RoundSpec`, `MarketSpec`, `ReadSpec`, `StoreSpec`, `AppSpec`) and about the
compositions (`WorkSpec`, `SwarmPartsSpec`, `PartsSpec`); a behaviour of `ServiceSpec` is one
of `WorkSpec` and of `AppSpec`, whose variables it keeps apart, for every value of the
constants that satisfies the named assumptions: disjoint names, bounds that are naturals,
and finite sets where something is counted or summed (workers, rounds, subjects, payments,
requests). A few say more: artifacts, workers and build requests are numbered from 1 and the
parents of an artifact are older than it; minority fractions are at most one half, as
`select_observations` demands; slippages are above -100 % and their limit below 100 %; the signal's
range holds 0; and the stability threshold of the phase gate is at most 1.0
(`StabilityTenths <= 10`: it is a rate, 0.9 in the configuration).

* **JobQueueProofs**: `TypeCorrect`, then the inductive invariant `IInv`. The
  invariants alone are not inductive: `OneRunner` needs that whoever runs, or is in
  a locked part of the watcher, holds the lock (`LockHeld`), that children fit their
  watchers (`ChildFits`) and that a slot has one job from lease to end (`OneJob`).
  `FreshRunOnce` needs that a rescue moves only what was old when it read the
  clock (`DueIsOld`), and what a young job has behind it in each place
  (`FreshHistory`). `MetricMatchesFile` needs `MetricHistory`. From `IInv` follow the
  invariants, `FinishedStaysFinished` as an action property, and the refinement
  of `JobLifecycle` step by step (`LifecycleCorrect`). `FinishedRowAgrees` has an invariant of
  its own (`LoneInv`): with one start by hand one slot has processes at all, so nobody
  moves a file between a rescue's `mv` and its set-state, or writes between a run's
  verdict and its `mv`.
* **RepairQueueProofs**: `IInv` says that a working daemon holds a leased request
  of its own (`OneHolder`), which nobody has run before (`NotYetRun`), and that a
  success is earned all the way from agent to client (`Earned`); hence
  `DaemonRunsOnce`, `OkIsEarned` and `MisledByGivenUp`. For `OneAgent`: while nobody has given
  up, the call of every request that is not yet answered polls for it (`Awaited`), so every
  agent is waited for (`AgentsFit`), and one active call waits for one.
* **AppServerProofs**: lines carry no owner, so `OwnOrAbandoned` needs to know where
  every second request and every reply to one is: until a client leaves one behind
  there is one at most, in one of the pipes, the server or a buffer (`Single`), and its
  client holds the lock and waits for it (`Owned`, `LockHeld`), so that a taken reply was
  the last. `SessionKept` follows from `OneSession`: a client makes a session only while
  there is none, and who used one used the registered one.
* **WorkKernelProofs**. The store: a coordinator between claim and finish is alone with
  its run and owns its row (`OneClaim`, `ReadersClaim`); hence `ReadOnce`, `SameAnswer`,
  `ReceiptHasEvidence` and `ReceiptStays`, for any number of coordinators. The executor, for
  every plan and number of slots: what has begun depends only on what has ended
  (`Dependable`), and the busy tasks grow only below the bound; hence `BoundedConcurrency`,
  `CalledOnEvidence`, `OkMeansAllRead`, `NoCallAfterDenial`, `SkippedForAReason`. The composition:
  `WorkImplementsParts` maps every step of `WorkSpec` to a step or a stutter of both
  specifications, so it inherits the promises of both.
* **SwarmPartsProofs**. The evaluation: an evaluator after its score owns the prediction
  (`Owns`), because the table takes one row for it, and runs are dated in the past
  (`RunsInThePast`); hence `OneScore` and `NoLeak`. The market: shelves and judgements only
  grow, so what was for sale stays for sale (`HasOrder`, `CandidateStays`); a thread that
  reuses has found a purchase, and one that credits has recorded its own
  (`FindsPurchase`); and the demand of an artifact plus the threads about to add to it
  are at most its purchases (`DemandFits`: without the threads it is not inductive).
  Hence `SalesHold`, and all of it again for `SwarmPartsSpec`. That what was sold is
  `Validated` in the sense of the code is part of the invariant (`SoldIsValidated`).
* **SwarmRoundProofs**: a budget is the sum of its ledger (`BudgetIsLedger`), which needs the
  sum over a set to be a sum (below); the rewards of an artifact together with the
  rounds about to pay one are at most its references (`RewardsFit`), and a round in the
  middle of a worker's turn knows what it has stored (`TurnIsSound`). A hint in hand is
  earned by artifacts that were built on or evaluated, and neither artifacts nor
  evaluations are ever removed (`FoundIsEarned`). Hence
  `RoundsHold` and `HintIsEarned`.
* **SwarmFoldProofs**. Goals: the signal a process has read is current while its goal is
  serene (`SereneIsCurrent`), so what it appends continues the fold of the events
  (`SerenesAddUp`, `SignalsAreEarned`); hence `FeedbackHolds`. Paper trading: what a fill does
  to cash, to the value of what is held and to the fees cancels out (`Worth`,
  `HeldChange`, `FillWorth`), so the books balance after any number of fills and the
  limits that a buy tests hold after it; hence `PaperHolds`. Clusters and votes: after the
  pairs that were looked at, two artifacts have one root exactly if a chain of common
  sources among those pairs joins them (`TreeSteps`, `MergedJoins`), and Warshall's closure
  through the first `k` artifacts is transitive through them (`ReachSteps`, `ThroughLinks`);
  a cluster has one voter, the first of its order (`VoterFacts`), and the selection takes the
  reserve from the first of the minority (`SelectionOrder`, `ReserveFacts`); hence `HerdingHolds`.
* **FactoryPartsProofs**. While updates of the task state do not overlap, the one under way
  carries every last update and its own (`OneUpdate`); hence `CalmFileIsComplete`. The build
  API: requests that hold one name at once, or whose name a rescue brought back, had raced for it (`RivalsRaced`, `TakenRaced`), the
  indices below a taken one are in use (`IndicesInUse`, so the search for a free name ends),
  and a job that is looked for is in the directory looked into or in one that comes
  later (`AheadOfPoll`); hence `ApiHolds`. The
  campaigns: each logged row says what was run and repaired (`RowsAreTrue`), and the gates have seen
  the logs they judge (`CampaignIsSound`), so the matrix counts the runs; hence `EvolutionHolds`. `PartsImplementParts` maps the steps of `PartsSpec` to those of
  the seven components, and `PartsCorrect` collects their invariants.

**Recursion over data.** Sums, signals, clusters and selections are folds and recursive functions.
The induction theorems of the library have an operator for a parameter and cannot be used
here; the proofs argue by a smallest counterexample instead, which needs a set only: a
smallest set of which the recursive function would be wrong (`SmallestSubset`,
`FiniteRecursion`, `SolutionsAgree`, then `SumRecursion` and `TotalRecursion`), or a least number
of rounds (`LeastNumber`). A sort is stated by `CHOOSE` of an ordered
permutation, whose existence is proved the same way (`FirstOfOrder`, `ListOfOrder`, `LastFirst`).

Only model-checked: the liveness properties (`EveryJobFinishes`, `StaleLeasesReturn`,
`EveryCallEnds`, `EveryClientEnds`, `RunEnds`, `EveryScored`, `PaidIsServed`), since fairness and
ENABLED are out of the prover's reach. Every safety property of the passing runs is the
subject of a theorem (`ServiceTypeOK` in its three parts).

Only proved: `FinishedIsIdle`, `FinishedStaysFinished`, `MisledByGivenUp`, `FiledAsReported`,
`ReadTypeOK`, `BoundedConcurrency`, `SkippedForAReason` and `ReceiptStays` hold for every value of the
constants by their theorems, and no run repeats them.

## 7. Not modelled

The generation pipeline, diagnostics and templates are sequential programs over
text; their results enter as nondeterministic exit codes. Of the work kernel
`compile_context`, `migration_gate`, `route_intent` and the preflight report are pure
functions of text. Of `evolution_eval` the statistics are left out (Wilson and bootstrap
intervals, Fisher's test, sensitivity sweeps, null simulation): they compute real numbers,
partly from random samples; so are reports, failure injection and workspace cleaning. Of the
swarm the discovery documents, the catalog, payment headers and the text of the command
line are formatting, and fitness vectors are means of given numbers. Of the API the routes
that only read, among them `_diagnose`, are left out. Two app-server starts at once,
colliding renames within one second and errors of the disk are left out. `codex`, git, the
payment verifier and the services that fill the outcomes file are external and may
answer anything.
