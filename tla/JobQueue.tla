------------------------------ MODULE JobQueue ------------------------------
(***************************************************************************)
(* The job queue of Factory OS and the processes that move files through   *)
(* it: factory/os/watch_queue.sh (the watcher), factory/queue/lease_one.sh,*)
(* factory/queue/rescue_leases.sh and factory/os/run_job.sh.               *)
(*                                                                         *)
(* A watcher slot is one watch_queue.sh process and the one child it waits *)
(* for: a rescue_leases.sh, a run_job.sh, or what it pauses with, the      *)
(* inotifywait or the sleep of its loop.  The child inherits file          *)
(* descriptor 9, so the flock on watch_queue.lock outlives a watcher that  *)
(* is killed while its child runs.  A job is a file; where the code renames*)
(* a file whose name is taken, the file keeps its identity here.  Job      *)
(* numbers are the order `sort` and the shell's glob put the names in.     *)
(***************************************************************************)
EXTENDS Integers, Sequences, FiniteSets

CONSTANTS
    Jobs,        \* the job files, numbered in the order of their names
    Watchers,    \* slots for watch_queue.sh processes
    NoWatcher,   \* nobody holds watch_queue.lock
    MaxFix,      \* MAX_FIX, the number of repair attempts
    Inotify,     \* TRUE: inotifywait is installed; FALSE: polling
    Supervised,  \* TRUE: a service manager may start a watcher at any time
    MaxStarts,   \* bound: starts by hand (factory start, restart, repair)
    MaxKills,    \* bound: kills of a watcher, alone or with its child
    RunCap       \* bound: executions of one job are counted up to here

ASSUME JobsAssumption == Jobs \subseteq Nat
ASSUME WatchersAssumption == NoWatcher \notin Watchers
ASSUME BoundsAssumption ==
    /\ MaxFix \in Nat
    /\ Inotify \in BOOLEAN
    /\ Supervised \in BOOLEAN
    /\ MaxStarts \in Nat
    /\ MaxKills \in Nat
    /\ RunCap \in Nat \ {0, 1}

VARIABLES
    loc,       \* loc[j]: the queue directory that holds j's file
    old,       \* old[j]: the file's mtime is more than LEASE_TIMEOUT_SEC ago
    row,       \* row[j]: the state of j in runtime/task_state.json
    wpc,       \* wpc[w]: where watch_queue.sh stands
    kid,       \* kid[w]: where the child of slot w stands
    cur,       \* cur[w]: {} or the job the slot leased and runs
    scan,      \* scan[w]: what the rescue loop of slot w has yet to look at
    due,       \* due[w]: the files that were too old when that loop began
    verdict,   \* verdict[w]: how the run of slot w ends
    attempts,  \* attempts[w]: the repair attempts of the run
    wake,      \* wake[w]: an event came while the inotifywait of slot w watched
    lock,      \* the slot whose processes hold watch_queue.lock
    exec,      \* exec[j]: how often the factory ran for j (history)
    metric,    \* metric[j]: the rows of metrics.jsonl about j, in order
    starts,    \* starts by hand so far
    kills      \* kills so far

files == <<loc, old, row>>
procs == <<wpc, kid, cur, scan, due, verdict, attempts, wake, lock>>
vars == <<loc, old, row, wpc, kid, cur, scan, due, verdict, attempts, wake,
          lock, exec, metric, starts, kills>>

Locations == {"none", "incoming", "leased", "done", "failed"}
Rows == {"none", "queued", "leased", "running", "validating", "repairing",
         "pushing", "done", "failed"}
WatcherStates == {"off", "boot", "lock", "sweep", "process", "leased", "run",
                  "resweep", "arm", "wait"}
RescueStates == {"check", "stat", "move", "mark"}
RunStates == {"start", "factory", "validate", "fix", "revalidate", "push",
              "finalize", "metric"}
Verdicts == {"done", "failed"}

TypeFiles ==
    /\ loc \in [Jobs -> Locations]
    /\ old \in [Jobs -> BOOLEAN]
    /\ row \in [Jobs -> Rows]
TypeProcs ==
    /\ wpc \in [Watchers -> WatcherStates]
    /\ kid \in [Watchers -> {"idle", "pause"} \union RescueStates \union RunStates]
    /\ cur \in [Watchers -> SUBSET Jobs]
    /\ lock \in Watchers \union {NoWatcher}
TypeLoops ==
    /\ scan \in [Watchers -> SUBSET Jobs]
    /\ due \in [Watchers -> SUBSET Jobs]
    /\ wake \in [Watchers -> BOOLEAN]
TypeRun ==
    /\ verdict \in [Watchers -> Verdicts]
    /\ attempts \in [Watchers -> 0 .. MaxFix]
TypeHistory ==
    /\ exec \in [Jobs -> 0 .. RunCap]
    /\ metric \in [Jobs -> Seq(Verdicts)]
    /\ starts \in 0 .. MaxStarts
    /\ kills \in 0 .. MaxKills

\* The type of every variable; the bounds on the repair attempts of a run and
\* on the budgets are part of it.
TypeOK == TypeFiles /\ TypeProcs /\ TypeLoops /\ TypeRun /\ TypeHistory

In(place) == {j \in Jobs : loc[j] = place}
IsFirst(j, S) == j \in S /\ \A k \in S : j <= k

\* A file appeared in incoming/: inotifywait reports it to whoever watches.
Notified == [w \in Watchers |-> wake[w] \/ (Inotify /\ kid[w] = "pause")]
-----------------------------------------------------------------------------
(* The environment: submitters, time, operators and the service manager.   *)

\* Somebody puts a job file into queue/incoming.
Submit(j) ==
    /\ loc[j] = "none"
    /\ loc' = [loc EXCEPT ![j] = "incoming"]
    /\ wake' = Notified
    /\ UNCHANGED <<old, row, wpc, kid, cur, scan, due, verdict, attempts,
                   lock, exec, metric, starts, kills>>

\* LEASE_TIMEOUT_SEC passes after the last write of the file.  The lease does
\* not count: mv keeps the mtime, so the clock runs from the submission.
Age(j) ==
    /\ loc[j] \in {"incoming", "leased"}
    /\ ~old[j]
    /\ old' = [old EXCEPT ![j] = TRUE]
    /\ UNCHANGED <<loc, row, procs, exec, metric, starts, kills>>

\* watch_queue.sh is started in a free slot: by hand, or by Restart=always.
Start(w) ==
    /\ wpc[w] = "off"
    /\ kid[w] = "idle"
    /\ Supervised \/ starts < MaxStarts
    /\ starts' = IF Supervised THEN starts ELSE starts + 1
    /\ wpc' = [wpc EXCEPT ![w] = "boot"]
    /\ UNCHANGED <<files, kid, cur, scan, due, verdict, attempts, wake, lock,
                   exec, metric, kills>>

LockAfter(w) == IF lock = w THEN NoWatcher ELSE lock

\* Mutant of Kill: the child does not inherit descriptor 9.
KillFreesLock(w) ==
    /\ wpc[w] # "off"
    /\ kills < MaxKills
    /\ kills' = kills + 1
    /\ wpc' = [wpc EXCEPT ![w] = "off"]
    /\ lock' = LockAfter(w)
    /\ cur' = IF kid[w] = "idle" THEN [cur EXCEPT ![w] = {}] ELSE cur
    /\ UNCHANGED <<files, kid, scan, due, verdict, attempts, wake, exec, metric,
                   starts>>

\* `factory stop` sends SIGTERM to watch_queue.sh only.  bash dies at once, the
\* child it was waiting for, the inotifywait or sleep of an idle watcher too, goes
\* on and keeps the inherited lock.
Kill(w) ==
    /\ wpc[w] # "off"
    /\ kills < MaxKills
    /\ kills' = kills + 1
    /\ wpc' = [wpc EXCEPT ![w] = "off"]
    /\ IF kid[w] = "idle"
       THEN lock' = LockAfter(w) /\ cur' = [cur EXCEPT ![w] = {}]
       ELSE UNCHANGED <<lock, cur>>
    /\ UNCHANGED <<files, kid, scan, due, verdict, attempts, wake, exec, metric,
                   starts>>

\* The service manager stops the unit, or the machine goes down: the whole
\* process tree of the slot dies where it stands.
KillTree(w) ==
    /\ wpc[w] # "off" \/ kid[w] # "idle"
    /\ kills < MaxKills
    /\ kills' = kills + 1
    /\ wpc' = [wpc EXCEPT ![w] = "off"]
    /\ kid' = [kid EXCEPT ![w] = "idle"]
    /\ cur' = [cur EXCEPT ![w] = {}]
    /\ scan' = [scan EXCEPT ![w] = {}]
    /\ due' = [due EXCEPT ![w] = {}]
    /\ wake' = [wake EXCEPT ![w] = FALSE]
    /\ lock' = LockAfter(w)
    /\ UNCHANGED <<files, verdict, attempts, exec, metric, starts>>
-----------------------------------------------------------------------------
(* What all children share: the end of the child.                          *)

\* Where watch_queue.sh goes on when its child has ended.
AfterChild(pc) ==
    CASE pc = "boot"    -> "lock"
      [] pc = "sweep"   -> "process"
      [] pc = "resweep" -> "arm"
      [] pc = "run"     -> "process"
      [] pc = "wait"    -> IF Inotify THEN "process" ELSE "sweep"
      [] OTHER          -> pc

\* The child of slot w ends; an orphan gives the lock back by ending.
ChildEnds(w) ==
    /\ kid' = [kid EXCEPT ![w] = "idle"]
    /\ wpc' = [wpc EXCEPT ![w] = AfterChild(@)]
    /\ lock' = IF wpc[w] = "off" THEN LockAfter(w) ELSE lock
    /\ cur' = [cur EXCEPT ![w] = {}]
    /\ scan' = [scan EXCEPT ![w] = {}]
    /\ due' = [due EXCEPT ![w] = {}]

ChildGoesOn(w, to) ==
    /\ kid' = [kid EXCEPT ![w] = to]
    /\ UNCHANGED <<wpc, lock, cur>>
-----------------------------------------------------------------------------
(* watch_queue.sh                                                          *)

\* The child rescue_leases.sh reads the clock and lists leased/.  On boot this
\* happens before the lock is taken.
RescueBegin(w) ==
    /\ wpc[w] \in {"boot", "sweep", "resweep"}
    /\ kid[w] = "idle"
    /\ kid' = [kid EXCEPT ![w] = "check"]
    /\ scan' = [scan EXCEPT ![w] = In("leased")]
    /\ due' = [due EXCEPT ![w] = {j \in In("leased") : old[j]}]
    /\ UNCHANGED <<files, wpc, cur, verdict, attempts, wake, lock, exec,
                   metric, starts, kills>>

\* flock -n 9: the second watcher says "already running" and exits.
TryLock(w) ==
    /\ wpc[w] = "lock"
    /\ IF lock = NoWatcher
       THEN lock' = w /\ wpc' = [wpc EXCEPT ![w] = "sweep"]
       ELSE lock' = lock /\ wpc' = [wpc EXCEPT ![w] = "off"]
    /\ UNCHANGED <<files, kid, cur, scan, due, verdict, attempts, wake, exec,
                   metric, starts, kills>>

\* lease_one.sh moves the first file of incoming/ to leased/.
LeaseOne(w) ==
    /\ wpc[w] = "process"
    /\ \E j \in Jobs :
        /\ IsFirst(j, In("incoming"))
        /\ loc' = [loc EXCEPT ![j] = "leased"]
        /\ cur' = [cur EXCEPT ![w] = {j}]
    /\ wpc' = [wpc EXCEPT ![w] = "leased"]
    /\ UNCHANGED <<old, row, kid, scan, due, verdict, attempts, wake, lock,
                   exec, metric, starts, kills>>

\* The watcher waits for an inotifywait or a sleep.
Pause(w) ==
    /\ wpc' = [wpc EXCEPT ![w] = "wait"]
    /\ kid' = [kid EXCEPT ![w] = "pause"]

\* Mutant of NothingToLease: the polling loop forgets the rescue.
NothingToLeaseNoSweep(w) ==
    /\ wpc[w] = "process"
    /\ In("incoming") = {}
    /\ wpc' = [wpc EXCEPT ![w] = IF Inotify THEN "resweep" ELSE "process"]
    /\ UNCHANGED <<files, kid, cur, scan, due, verdict, attempts, wake, lock,
                   exec, metric, starts, kills>>

\* lease_one.sh exits 2: nothing to lease, leave the processing loop.  The polling
\* loop sleeps and then sweeps; before its first pass it sweeps at once.
NothingToLease(w) ==
    /\ wpc[w] = "process"
    /\ In("incoming") = {}
    /\ \/ wpc' = [wpc EXCEPT ![w] = IF Inotify THEN "resweep" ELSE "sweep"] /\ kid' = kid
       \/ ~Inotify /\ Pause(w)
    /\ UNCHANGED <<files, cur, scan, due, verdict, attempts, wake, lock,
                   exec, metric, starts, kills>>

\* Record "leased" and call run_job.sh, then wait for it.
Launch(w) ==
    /\ wpc[w] = "leased"
    /\ row' = [j \in Jobs |-> IF j \in cur[w] THEN "leased" ELSE row[j]]
    /\ wpc' = [wpc EXCEPT ![w] = "run"]
    /\ kid' = [kid EXCEPT ![w] = "start"]
    /\ attempts' = [attempts EXCEPT ![w] = 0]
    /\ verdict' = [verdict EXCEPT ![w] = "failed"]
    /\ UNCHANGED <<loc, old, cur, scan, due, wake, lock, exec, metric, starts,
                   kills>>

\* inotifywait sets its watch: what is in incoming/ already goes unnoticed.
Arm(w) ==
    /\ wpc[w] = "arm"
    /\ Pause(w)
    /\ wake' = [wake EXCEPT ![w] = FALSE]
    /\ UNCHANGED <<files, cur, scan, due, verdict, attempts, lock, exec,
                   metric, starts, kills>>

\* inotifywait returns at an event, with or without its watcher; sleep at its time.
Wake(w) ==
    /\ kid[w] = "pause"
    /\ Inotify => wake[w]
    /\ ChildEnds(w)
    /\ wake' = [wake EXCEPT ![w] = FALSE]
    /\ UNCHANGED <<files, verdict, attempts, exec, metric, starts, kills>>
-----------------------------------------------------------------------------
(* rescue_leases.sh: no lock; under `set -e` a file that vanishes under it *)
(* ends the whole loop.                                                    *)

\* The loop is over.
RescueEnd(w) ==
    /\ kid[w] = "check"
    /\ scan[w] = {}
    /\ ChildEnds(w)
    /\ UNCHANGED <<files, verdict, attempts, wake, exec, metric, starts,
                   kills>>

\* [ -e "$f" ] || continue
RescueCheck(w) ==
    /\ kid[w] = "check"
    /\ \E j \in Jobs :
        /\ IsFirst(j, scan[w])
        /\ IF loc[j] = "leased"
           THEN ChildGoesOn(w, "stat") /\ UNCHANGED scan
           ELSE ChildGoesOn(w, "check")
                /\ scan' = [scan EXCEPT ![w] = @ \ {j}]
    /\ UNCHANGED <<files, due, verdict, attempts, wake, exec, metric, starts,
                   kills>>

\* Mutant of RescueStat: every leased file is rescued, whatever its age.
RescueStatAgeless(w) ==
    /\ kid[w] = "stat"
    /\ \E j \in Jobs :
        /\ IsFirst(j, scan[w])
        /\ \/ loc[j] # "leased" /\ ChildEnds(w)
           \/ /\ loc[j] = "leased"
              /\ ChildGoesOn(w, "move")
              /\ UNCHANGED <<scan, due>>
    /\ UNCHANGED <<files, verdict, attempts, wake, exec, metric, starts,
                   kills>>

\* stat and the age test; stat fails if the file has vanished meanwhile.
RescueStat(w) ==
    /\ kid[w] = "stat"
    /\ \E j \in Jobs :
        /\ IsFirst(j, scan[w])
        /\ \/ /\ loc[j] # "leased"
              /\ ChildEnds(w)
           \/ /\ loc[j] = "leased"
              /\ j \in due[w]
              /\ ChildGoesOn(w, "move")
              /\ UNCHANGED <<scan, due>>
           \/ /\ loc[j] = "leased"
              /\ j \notin due[w]
              /\ ChildGoesOn(w, "check")
              /\ scan' = [scan EXCEPT ![w] = @ \ {j}]
              /\ UNCHANGED due
    /\ UNCHANGED <<files, verdict, attempts, wake, exec, metric, starts,
                   kills>>

\* Mutant of RescueMove: the file stays in leased/, only its state is set.
RescueMoveForgotten(w) ==
    /\ kid[w] = "move"
    /\ ChildGoesOn(w, "mark")
    /\ wake' = Notified
    /\ UNCHANGED <<loc, old, row, scan, due, verdict, attempts, exec, metric,
                   starts, kills>>

\* mv leased/f incoming/f; mv fails if the file has vanished meanwhile.
RescueMove(w) ==
    /\ kid[w] = "move"
    /\ \E j \in Jobs :
        /\ IsFirst(j, scan[w])
        /\ \/ /\ loc[j] = "leased"
              /\ loc' = [loc EXCEPT ![j] = "incoming"]
              /\ wake' = Notified
              /\ ChildGoesOn(w, "mark")
              /\ UNCHANGED <<scan, due>>
           \/ /\ loc[j] # "leased"
              /\ ChildEnds(w)
              /\ UNCHANGED <<loc, wake>>
    /\ UNCHANGED <<old, row, verdict, attempts, exec, metric, starts, kills>>

\* task_state.py set-state <job> queued
RescueMark(w) ==
    /\ kid[w] = "mark"
    /\ \E j \in Jobs :
        /\ IsFirst(j, scan[w])
        /\ row' = [row EXCEPT ![j] = "queued"]
        /\ scan' = [scan EXCEPT ![w] = @ \ {j}]
    /\ ChildGoesOn(w, "check")
    /\ UNCHANGED <<loc, old, due, verdict, attempts, wake, exec, metric,
                   starts, kills>>

Rescue(w) ==
    \/ RescueBegin(w) \/ RescueEnd(w) \/ RescueCheck(w) \/ RescueStat(w)
    \/ RescueMove(w) \/ RescueMark(w)
-----------------------------------------------------------------------------
(* run_job.sh                                                              *)

\* The run goes to another stage and records a state for its job.
Stage(w, j, to, state) ==
    /\ ChildGoesOn(w, to)
    /\ row' = [row EXCEPT ![j] = state]
    /\ UNCHANGED <<loc, old, scan, due, wake, metric, starts, kills>>

\* Mutant of Conclude: the state of the job is recorded later, or never.
ConcludeSilently(w, j, how) ==
    /\ ChildGoesOn(w, "finalize")
    /\ verdict' = [verdict EXCEPT ![w] = how]
    /\ UNCHANGED <<files, scan, due, wake, metric, starts, kills>>

\* state_update failed|done, before the file is moved.
Conclude(w, j, how) ==
    /\ Stage(w, j, "finalize", how)
    /\ verdict' = [verdict EXCEPT ![w] = how]

\* Refuse a file that is no longer in leased/; else start the factory.
RunStart(w) ==
    /\ kid[w] = "start"
    /\ \E j \in cur[w] :
        \/ /\ loc[j] # "leased"
           /\ ChildEnds(w)
           /\ UNCHANGED <<files, wake, exec, metric, starts, kills>>
        \/ /\ loc[j] = "leased"
           /\ Stage(w, j, "factory", "running")
           /\ exec' = [exec EXCEPT ![j] = IF @ < RunCap THEN @ + 1 ELSE @]
    /\ UNCHANGED <<verdict, attempts>>

\* The factory command fails or times out, or leaves a target directory.
Factory(w) ==
    /\ kid[w] = "factory"
    /\ \E j \in cur[w] :
        \/ Conclude(w, j, "failed")
        \/ Stage(w, j, "validate", "validating") /\ UNCHANGED verdict
    /\ UNCHANGED <<attempts, exec>>

\* Mutant of RepairOrGiveUp: one attempt too many.
RepairOnceMore(w, j, n) ==
    IF n <= MaxFix + 1
    THEN /\ Stage(w, j, "fix", "repairing")
         /\ attempts' = [attempts EXCEPT ![w] = n]
         /\ UNCHANGED verdict
    ELSE /\ Conclude(w, j, "failed")
         /\ attempts' = [attempts EXCEPT ![w] = MaxFix]

\* The head of the repair loop, with n attempts counted.
RepairOrGiveUp(w, j, n) ==
    IF n <= MaxFix
    THEN /\ Stage(w, j, "fix", "repairing")
         /\ attempts' = [attempts EXCEPT ![w] = n]
         /\ UNCHANGED verdict
    ELSE /\ Conclude(w, j, "failed")
         /\ attempts' = [attempts EXCEPT ![w] = MaxFix]

ReadyToPush(w, j) == Stage(w, j, "push", "pushing") /\ UNCHANGED verdict

\* The first validation.
Validate(w) ==
    /\ kid[w] = "validate"
    /\ \E j \in cur[w] :
        \/ ReadyToPush(w, j) /\ attempts' = [attempts EXCEPT ![w] = 0]
        \/ RepairOrGiveUp(w, j, 1)
    /\ UNCHANGED exec

\* codex_fix.sh: its failure ends the run, its success is validated.
Fix(w) ==
    /\ kid[w] = "fix"
    /\ \E j \in cur[w] :
        \/ Conclude(w, j, "failed")
        \/ Stage(w, j, "revalidate", "validating") /\ UNCHANGED verdict
    /\ UNCHANGED <<attempts, exec>>

\* The validation after a repair.
Revalidate(w) ==
    /\ kid[w] = "revalidate"
    /\ \E j \in cur[w] :
        \/ ReadyToPush(w, j) /\ UNCHANGED attempts
        \/ RepairOrGiveUp(w, j, attempts[w] + 1)
    /\ UNCHANGED exec

\* factory_git_push.sh succeeds or fails.
Push(w) ==
    /\ kid[w] = "push"
    /\ \E j \in cur[w], how \in Verdicts : Conclude(w, j, how)
    /\ UNCHANGED <<attempts, exec>>

\* Mutant of Finalize: a failing mv is ignored and the metric is written.
FinalizeRegardless(w) ==
    /\ kid[w] = "finalize"
    /\ \E j \in cur[w] :
        loc' = IF loc[j] = "leased"
               THEN [loc EXCEPT ![j] = verdict[w]] ELSE loc
    /\ ChildGoesOn(w, "metric")
    /\ UNCHANGED <<old, row, scan, due, verdict, attempts, wake, exec, metric,
                   starts, kills>>

\* finalize_job_file: under `set -e` a failing mv ends run_job.sh.
Finalize(w) ==
    /\ kid[w] = "finalize"
    /\ \E j \in cur[w] :
        \/ /\ loc[j] = "leased"
           /\ loc' = [loc EXCEPT ![j] = verdict[w]]
           /\ ChildGoesOn(w, "metric")
           /\ UNCHANGED <<scan, due>>
        \/ /\ loc[j] # "leased"
           /\ ChildEnds(w)
           /\ UNCHANGED loc
    /\ UNCHANGED <<old, row, verdict, attempts, wake, exec, metric, starts,
                   kills>>

\* write_metric, and the end of the run.
WriteMetric(w) ==
    /\ kid[w] = "metric"
    /\ \E j \in cur[w] :
        metric' = [metric EXCEPT ![j] = Append(@, verdict[w])]
    /\ ChildEnds(w)
    /\ UNCHANGED <<files, verdict, attempts, wake, exec, starts, kills>>

RunJob(w) ==
    \/ RunStart(w) \/ Factory(w) \/ Validate(w) \/ Fix(w) \/ Revalidate(w)
    \/ Push(w) \/ Finalize(w) \/ WriteMetric(w)
-----------------------------------------------------------------------------
Watch(w) ==
    \/ TryLock(w) \/ LeaseOne(w) \/ NothingToLease(w) \/ Launch(w) \/ Arm(w)

Init ==
    /\ loc = [j \in Jobs |-> "none"]
    /\ old = [j \in Jobs |-> FALSE]
    /\ row = [j \in Jobs |-> "none"]
    /\ wpc = [w \in Watchers |-> "off"]
    /\ kid = [w \in Watchers |-> "idle"]
    /\ cur = [w \in Watchers |-> {}]
    /\ scan = [w \in Watchers |-> {}]
    /\ due = [w \in Watchers |-> {}]
    /\ verdict = [w \in Watchers |-> "failed"]
    /\ attempts = [w \in Watchers |-> 0]
    /\ wake = [w \in Watchers |-> FALSE]
    /\ lock = NoWatcher
    /\ exec = [j \in Jobs |-> 0]
    /\ metric = [j \in Jobs |-> <<>>]
    /\ starts = 0
    /\ kills = 0

Next ==
    \/ \E j \in Jobs : Submit(j) \/ Age(j)
    \/ \E w \in Watchers :
        \/ Start(w) \/ Kill(w) \/ KillTree(w)
        \/ Watch(w) \/ Wake(w) \/ Rescue(w) \/ RunJob(w)

Spec == Init /\ [][Next]_vars

\* The processes that are running go on running, and time passes.
FairSpec ==
    /\ Spec
    /\ \A w \in Watchers : WF_vars(Watch(w) \/ Wake(w) \/ Rescue(w) \/ RunJob(w))
    /\ \A j \in Jobs : WF_vars(Age(j))
-----------------------------------------------------------------------------
(* Properties                                                              *)

Running(w) == kid[w] \in RunStates
Final == {"done", "failed"}

\* At most one run_job.sh is alive, even after a watcher was killed and another
\* one was started: the run inherits the lock of its watcher.
OneRunner ==
    \A v, w \in Watchers : Running(v) /\ Running(w) => v = w

\* A job whose file is younger than the lease timeout is executed at most once,
\* whatever is killed, restarted or rescued.
FreshRunOnce ==
    \A j \in Jobs : ~old[j] => exec[j] <= 1

\* metrics.jsonl has at most one row for a job, and it names the directory the
\* file is in: a run that lost its file records nothing.
MetricMatchesFile ==
    \A j \in Jobs : metric[j] # <<>> => metric[j] = <<loc[j]>>

\* Nobody works on a job whose file is in done/ or failed/, but for the run
\* that moved it there and has yet to write its metric.
FinishedIsIdle ==
    \A j \in Jobs, w \in Watchers :
        loc[j] \in Final /\ j \in cur[w] => kid[w] = "metric"

\* A job that reached done/ or failed/ stays there and is never executed again,
\* although rescues work without a lock on lists that may be out of date.
FinishedStaysFinished ==
    [][\A j \in Jobs : loc[j] \in Final =>
            loc'[j] = loc[j] /\ exec'[j] = exec[j]]_vars

\* task_state.json says of a finished job what its directory says, as long as
\* no second watcher is started: the set-state of another rescue may come late.
FinishedRowAgrees ==
    ~Supervised /\ starts <= 1 =>
        \A j \in Jobs : loc[j] \in Final => row[j] = loc[j]

(* The inductive invariant behind the safety properties.                   *)

\* Where a watcher holds the lock, and the processes that hold it with it.
LockedStates == {"sweep", "process", "leased", "run", "resweep", "arm", "wait"}
Holds(w) == wpc[w] \in LockedStates \/ Running(w) \/ kid[w] = "pause"
LockHeld == \A w \in Watchers : Holds(w) => lock = w

\* A watcher waits for the child it started; an orphan has no watcher.
ChildFits ==
    \A w \in Watchers :
        /\ kid[w] \in RescueStates => wpc[w] \in {"boot", "sweep", "resweep", "off"}
        /\ Running(w) => wpc[w] \in {"run", "off"}
        /\ wpc[w] = "run" => Running(w)
        /\ kid[w] = "pause" => wpc[w] \in {"wait", "off"}
        /\ wpc[w] = "wait" => kid[w] = "pause"

\* A slot has a job exactly from the lease to the end of the run.
OneJob ==
    \A w \in Watchers :
        IF Running(w) \/ wpc[w] = "leased"
        THEN \E j \in Jobs : cur[w] = {j}
        ELSE cur[w] = {}

Control == ChildFits /\ LockHeld /\ OneJob

\* A rescue only moves what was too old when it read the clock.
DueIsOld ==
    \A w \in Watchers :
        /\ \A j \in due[w] : old[j]
        /\ kid[w] = "move" => \A j \in Jobs : IsFirst(j, scan[w]) => j \in due[w]

\* A young job has not been executed before its first lease, nor between the
\* lease and the start of its run.
FreshHistory ==
    \A j \in Jobs : ~old[j] =>
        /\ exec[j] <= 1
        /\ loc[j] \in {"none", "incoming"} => exec[j] = 0
        /\ \A w \in Watchers :
            j \in cur[w] /\ (kid[w] = "start" \/ wpc[w] = "leased") => exec[j] = 0

\* Who writes a metric has just moved the file to where the metric will say.
MetricHistory ==
    /\ \A j \in Jobs : metric[j] # <<>> => loc[j] \in Final /\ metric[j] = <<loc[j]>>
    /\ \A w \in Watchers : \A j \in cur[w] :
        kid[w] = "metric" => loc[j] = verdict[w] /\ metric[j] = <<>>

IInv == Control /\ DueIsOld /\ FreshHistory /\ MetricHistory /\ FinishedIsIdle

\* The queue as its users see it.
Executing == {j \in Jobs : \E w \in Watchers :
                  j \in cur[w] /\ kid[w] \in RunStates \ {"start"}}
Lifecycle == INSTANCE JobLifecycle
                WITH place <- loc, running <- Executing, report <- metric

\* The processes keep the promise of JobLifecycle.
ImplementsLifecycle == Lifecycle!Spec

\* From some time on a watcher is up and holds the lock.
WatcherStays == <>[](\E w \in Watchers : lock = w /\ wpc[w] # "off")

\* From some time on no watcher is started.  A service manager that starts one again
\* and again beside the one that stays up does not grant this: the boot rescue of
\* every new one takes the file of a run that is older than LEASE_TIMEOUT_SEC.
NoMoreStarts == <>[][\A w \in Watchers : wpc[w] = "off" => wpc'[w] = "off"]_wpc

\* A job in incoming/ is finished in the end, if a watcher stays up and no others
\* are started for ever.
EveryJobFinishes ==
    WatcherStays /\ NoMoreStarts => \A j \in Jobs : loc[j] = "incoming" ~> loc[j] \in Final

\* "Leasing prevents duplicate execution": no job is executed twice as long as
\* no process is killed.
NoDuplicateExecution ==
    kills = 0 => \A j \in Jobs : exec[j] <= 1

Abandoned(j) == loc[j] = "leased" /\ old[j] /\ \A w \in Watchers : j \notin cur[w]

\* "Stale leases are detected automatically. Abandoned jobs return to
\* incoming": a stale lease that no run holds does not stay, if a watcher does.
StaleLeasesReturn ==
    WatcherStays => \A j \in Jobs : Abandoned(j) ~> ~Abandoned(j)

\* "The system is restart-safe": `factory restart`, a kill of the only watcher
\* and then a start, leaves a watcher running.
RestartLeavesWatcher ==
    []((kills = 1 /\ starts = 1 /\ <>(starts = 2)) =>
            <>(\E w \in Watchers : wpc[w] # "off" /\ lock = w))
=============================================================================
