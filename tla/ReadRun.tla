------------------------------- MODULE ReadRun ------------------------------
(***************************************************************************)
(* What run_reads of the work kernel does between the claim and the finish *)
(* of a run: it calls the adapters of the tasks of its plan, level by      *)
(* level, at most Concurrency at a time, and retries reads that fail for a *)
(* transient reason.  A denied read stops everything that has not started. *)
(***************************************************************************)
EXTENDS FiniteSets, Naturals

CONSTANTS
    Tasks,         \* the tasks of the plan
    Deps(_),       \* depends_on
    Concurrency,   \* the slots of the semaphore
    Retries        \* how often a transient failure is retried

ASSUME TasksAssumption == IsFiniteSet(Tasks) /\ \A t \in Tasks : Deps(t) \subseteq Tasks
ASSUME BoundsAssumption == Concurrency \in Nat \ {0} /\ Retries \in Nat

VARIABLES
    level,   \* the tasks of the level that is gathered
    st,      \* st[t]: where the coroutine of the task stands, or its event
    tries,   \* tries[t]: the attempts of its event
    stop,    \* permission_stop
    status   \* the status of the receipt, once it is written

readVars == <<level, st, tries, stop, status>>

Ended == {"ok", "error", "denied", "skipped"}

ReadTypeOK ==
    /\ level \subseteq Tasks
    /\ st \in [Tasks -> {"todo", "wait", "call", "sleep"} \union Ended]
    /\ tries \in [Tasks -> 0 .. Retries + 1]
    /\ stop \in BOOLEAN
    /\ status \in {"none", "ok", "incomplete"}

ReadInit ==
    /\ level = {}
    /\ st = [t \in Tasks |-> "todo"]
    /\ tries = [t \in Tasks |-> 0]
    /\ stop = FALSE
    /\ status = "none"
-----------------------------------------------------------------------------
Done(t) == st[t] \in Ended
TaskGoesTo(t, to) == st' = [st EXCEPT ![t] = to]

\* The semaphore is held during the calls and the pauses between them.
Busy == {t \in Tasks : st[t] \in {"call", "sleep"}}

\* Mutant of Ready: the tasks all of whose dependencies were read.
ReadyRead == {t \in Tasks : st[t] = "todo" /\ \A d \in Deps(t) : st[d] = "ok"}

\* The tasks all of whose dependencies are in the levels before.
Ready == {t \in Tasks : st[t] = "todo" /\ \A d \in Deps(t) : Done(d)}

\* The next level is gathered when every task of the last one has ended.
StartLevel ==
    /\ status = "none"
    /\ \A t \in level : Done(t)
    /\ Ready # {}
    /\ level' = Ready
    /\ st' = [t \in Tasks |-> IF t \in Ready THEN "wait" ELSE st[t]]
    /\ UNCHANGED <<tries, stop, status>>

FailedDep(t) == \E d \in Deps(t) : st[d] # "ok"

\* A dependency was not read.
SkipDependent(t) ==
    /\ st[t] = "wait"
    /\ FailedDep(t)
    /\ TaskGoesTo(t, "skipped")
    /\ UNCHANGED <<level, tries, stop, status>>

Free == Cardinality(Busy) < Concurrency

\* The task enters the semaphore after a denial.
SkipStopped(t) ==
    /\ st[t] = "wait" /\ ~FailedDep(t) /\ Free
    /\ stop
    /\ TaskGoesTo(t, "skipped")
    /\ UNCHANGED <<level, tries, stop, status>>

\* Mutant of Call: the dependencies are not looked at.
CallAnyway(t) ==
    /\ st[t] = "wait" /\ Free
    /\ ~stop
    /\ TaskGoesTo(t, "call")
    /\ tries' = [tries EXCEPT ![t] = 1]
    /\ UNCHANGED <<level, stop, status>>

\* The task enters the semaphore and calls its adapter.
Call(t) ==
    /\ st[t] = "wait" /\ ~FailedDep(t) /\ Free
    /\ ~stop
    /\ TaskGoesTo(t, "call")
    /\ tries' = [tries EXCEPT ![t] = 1]
    /\ UNCHANGED <<level, stop, status>>

\* The adapter returns evidence, or what is no evidence, raises, or times out.
Returns(t) ==
    /\ st[t] = "call"
    /\ \E to \in {"ok", "error"} : TaskGoesTo(t, to)
    /\ UNCHANGED <<level, tries, stop, status>>

\* TransientReadError: a pause, or the last attempt.
Transient(t) ==
    /\ st[t] = "call"
    /\ TaskGoesTo(t, IF tries[t] <= Retries THEN "sleep" ELSE "error")
    /\ UNCHANGED <<level, tries, stop, status>>

\* PermissionError
Denied(t) ==
    /\ st[t] = "call"
    /\ TaskGoesTo(t, "denied")
    /\ stop' = TRUE
    /\ UNCHANGED <<level, tries, status>>

\* Mutant of Retry: a pause that began before a denial ends in a call.
RetryAnyway(t) ==
    /\ st[t] = "sleep"
    /\ TaskGoesTo(t, "call")
    /\ tries' = [tries EXCEPT ![t] = @ + 1]
    /\ UNCHANGED <<level, stop, status>>

\* The pause is over: the next attempt, unless something was denied meanwhile.
Retry(t) ==
    /\ st[t] = "sleep"
    /\ IF stop
       THEN TaskGoesTo(t, "skipped") /\ UNCHANGED tries
       ELSE TaskGoesTo(t, "call") /\ tries' = [tries EXCEPT ![t] = @ + 1]
    /\ UNCHANGED <<level, stop, status>>

\* Mutant of Conclude: the status is that of the last level.
ConcludeLastLevel ==
    /\ status = "none"
    /\ \A t \in Tasks : Done(t)
    /\ status' = IF \A t \in level : st[t] = "ok" THEN "ok" ELSE "incomplete"
    /\ UNCHANGED <<level, st, tries, stop>>

\* The receipt: ok only if every event is.
Conclude ==
    /\ status = "none"
    /\ \A t \in Tasks : Done(t)
    /\ status' = IF \A t \in Tasks : st[t] = "ok" THEN "ok" ELSE "incomplete"
    /\ UNCHANGED <<level, st, tries, stop>>

TaskStep(t) ==
    \/ SkipDependent(t) \/ SkipStopped(t) \/ Call(t)
    \/ Returns(t) \/ Transient(t) \/ Denied(t) \/ Retry(t)

ReadNext == StartLevel \/ Conclude \/ \E t \in Tasks : TaskStep(t)

ReadSpec == ReadInit /\ [][ReadNext]_readVars
-----------------------------------------------------------------------------
(* Properties                                                              *)

\* No more adapters are called at a time than the semaphore has slots.
BoundedConcurrency == Cardinality(Busy) <= Concurrency

\* An adapter is called only when all its dependencies have been read.
CalledOnEvidence ==
    \A t \in Tasks : tries[t] > 0 => \A d \in Deps(t) : st[d] = "ok"

\* "Permission failure stops queued work and pending retries": after a denial no
\* adapter is called any more.
NoCallAfterDenial == [][stop => tries' = tries]_readVars

\* A denial and a stop are the same thing, and nothing is skipped without one of
\* the two reasons.
SkippedForAReason ==
    /\ stop <=> \E t \in Tasks : st[t] = "denied"
    /\ \A t \in Tasks : st[t] = "skipped" => stop \/ FailedDep(t)

\* A receipt says ok exactly if every task was read, with every attempt counted.
OkMeansAllRead ==
    status = "ok" => \A t \in Tasks : st[t] = "ok" /\ tries[t] \in 1 .. Retries + 1

\* The inductive invariant: evidence of what an adapter was called on.
Dependable ==
    /\ \A t \in Tasks : st[t] \in {"todo", "wait"} => tries[t] = 0
    /\ \A t \in Tasks : st[t] = "sleep" => tries[t] <= Retries
    /\ \A t \in Tasks : st[t] \in {"call", "sleep", "ok", "error", "denied"} =>
            tries[t] > 0
    /\ \A t \in Tasks : st[t] # "todo" => \A d \in Deps(t) : Done(d)

ReadInv ==
    /\ Dependable /\ CalledOnEvidence /\ SkippedForAReason /\ OkMeansAllRead
    /\ BoundedConcurrency
=============================================================================
