----------------------------- MODULE TaskState ------------------------------
(***************************************************************************)
(* runtime/task_state.json as factory/state/task_state.py keeps it: every  *)
(* update reads the whole file, changes the row of one job, truncates the  *)
(* file and writes it again, without a lock.  Updates come from run_job.sh *)
(* and from the rescue of every watcher that starts.                       *)
(***************************************************************************)
EXTENDS FiniteSets, Naturals

CONSTANTS
    Jobs, States,  \* the rows and what they say
    NoRow,         \* there is no row
    Broken,        \* the file is empty or no JSON
    Procs,         \* processes of task_state.py, one update at a time
    MaxKills       \* bound: how many of them are killed

ASSUME NamesAssumption == NoRow \notin States /\ Broken \notin [Jobs -> States \union {NoRow}]
ASSUME BoundsAssumption == MaxKills \in Nat

VARIABLES
    file,    \* the rows of the file, or Broken
    pc,      \* pc[p]: where the process stands
    data,    \* data[p]: the rows it is going to write
    blank,   \* the file is empty: nobody has written since it was truncated
    said,    \* said[j]: the state of the last update that succeeded (history)
    wants,   \* wants[p]: the job and the state of its update
    calm,    \* no two updates overlapped, none was killed writing (history)
    kills    \* kills so far

vars == <<file, pc, data, blank, said, wants, calm, kills>>

Rows == [Jobs -> States \union {NoRow}]
NoRows == [j \in Jobs |-> NoRow]

TypeOK ==
    /\ file \in Rows \union {Broken}
    /\ pc \in [Procs -> {"off", "loaded", "open"}]
    /\ data \in [Procs -> Rows]
    /\ blank \in BOOLEAN
    /\ said \in Rows
    /\ wants \in [Procs -> Jobs \X States]
    /\ calm \in BOOLEAN
    /\ kills \in 0 .. MaxKills

Init ==
    /\ file = NoRows
    /\ pc = [p \in Procs |-> "off"]
    /\ data = [p \in Procs |-> NoRows]
    /\ blank = FALSE
    /\ said = NoRows
    /\ wants \in [Procs -> Jobs \X States]
    /\ calm = TRUE
    /\ kills = 0

\* load_state: what cannot be read has no rows.
LoadState == IF file = Broken THEN NoRows ELSE file

Idle(p) == pc[p] = "off"

\* Mutant of Update: the row is written without the rows of the other jobs.
UpdateForgets(p) ==
    /\ pc[p] = "off"
    /\ pc' = [pc EXCEPT ![p] = "loaded"]
    /\ \E j \in Jobs, s \in States :
        /\ wants' = [wants EXCEPT ![p] = <<j, s>>]
        /\ data' = [data EXCEPT ![p] = [NoRows EXCEPT ![j] = s]]
    /\ calm' = (calm /\ \A q \in Procs : Idle(q))
    /\ UNCHANGED <<file, blank, said, kills>>

\* cmd_update, cmd_set_state: load the file and set the row of a job.
Update(p) ==
    /\ pc[p] = "off"
    /\ pc' = [pc EXCEPT ![p] = "loaded"]
    /\ \E j \in Jobs, s \in States :
        /\ wants' = [wants EXCEPT ![p] = <<j, s>>]
        /\ data' = [data EXCEPT ![p] = [LoadState EXCEPT ![j] = s]]
    /\ calm' = (calm /\ \A q \in Procs : Idle(q))
    /\ UNCHANGED <<file, blank, said, kills>>

\* write_text opens the file: it is empty.
Truncate(p) ==
    /\ pc[p] = "loaded"
    /\ pc' = [pc EXCEPT ![p] = "open"]
    /\ file' = Broken
    /\ blank' = TRUE
    /\ UNCHANGED <<data, said, wants, calm, kills>>

\* write_text writes at the start of the file; the end of a longer text that
\* somebody else has written meanwhile stays.
Write(p) ==
    /\ pc[p] = "open"
    /\ pc' = [pc EXCEPT ![p] = "off"]
    /\ file' \in IF blank THEN {data[p]} ELSE {data[p], Broken}
    /\ blank' = FALSE
    /\ said' = [said EXCEPT ![wants[p][1]] = wants[p][2]]
    /\ UNCHANGED <<data, wants, calm, kills>>

\* The process is killed, with the tree of its caller or by a power loss.
Kill(p) ==
    /\ pc[p] # "off"
    /\ kills < MaxKills
    /\ kills' = kills + 1
    /\ pc' = [pc EXCEPT ![p] = "off"]
    /\ calm' = (calm /\ pc[p] # "open")
    /\ UNCHANGED <<file, data, blank, said, wants>>

Next == \E p \in Procs : Update(p) \/ Truncate(p) \/ Write(p) \/ Kill(p)

Spec == Init /\ [][Next]_vars
-----------------------------------------------------------------------------
(* Properties                                                              *)

Quiet == \A p \in Procs : Idle(p)

\* As long as no two updates overlapped and none was killed while it
\* wrote, the file holds the last update of every job.
CalmFileIsComplete == calm /\ Quiet => file = said

\* The inductive invariant behind it: one update at a time, whose rows are the
\* last updates and its own.
OneUpdate ==
    calm =>
        /\ \A p, q \in Procs : ~Idle(p) /\ ~Idle(q) => p = q
        /\ \A p \in Procs : ~Idle(p) =>
            data[p] = [said EXCEPT ![wants[p][1]] = wants[p][2]]
        /\ \A p \in Procs : pc[p] = "open" => blank
        /\ (\A p \in Procs : pc[p] # "open") => file = said

\* "Runtime state is persisted in runtime/task_state.json ... The system is
\* restart-safe": when nobody writes, a file that can be read holds the last update of
\* every job, and not the row that another update had read before it.
UpdatesPersist == Quiet /\ file # Broken => file = said
=============================================================================
