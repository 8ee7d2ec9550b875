----------------------------- MODULE RepairQueue -----------------------------
(***************************************************************************)
(* The repair of a failed output: factory/repair/codex_fix.sh, called by   *)
(* run_job.sh, and factory/agent/codex_daemon.py, which serves the requests*)
(* that codex_fix.sh puts into runtime/repair_queue.                       *)
(*                                                                         *)
(* A call is one codex_fix.sh process and the request it may put into the  *)
(* queue.  An agent is a `codex exec` that edits the target directory, on  *)
(* behalf of a call: started by codex_fix.sh ("direct"), by the persistent *)
(* app-server ("app") or by the daemon's app-server ("daemon").  Calls come*)
(* one at a time, as the runs of JobQueue do (OneRunner).                  *)
(***************************************************************************)
EXTENDS Integers, FiniteSets

CONSTANTS
    Calls,       \* calls of codex_fix.sh, numbered in the order of their names
    Daemons,     \* slots for codex_daemon.py processes
    Nobody,      \* there is no daemon.pid
    NoCall,      \* a daemon that has leased nothing
    MaxFaults    \* bound: ends of daemons and kills of calls

ASSUME CallsAssumption == Calls \subseteq Nat /\ NoCall \notin Calls
ASSUME DaemonsAssumption == Nobody \notin Daemons
ASSUME BoundsAssumption == MaxFaults \in Nat

VARIABLES
    client,    \* client[c]: where codex_fix.sh stands
    req,       \* req[c]: the directory of the request
    result,    \* result[c]: results/<request_id>.json
    dpc,       \* dpc[d]: where the daemon stands
    dreq,      \* dreq[d]: the request it leased
    dok,       \* dok[d]: what its repair came to
    pidfile,   \* the daemon that daemon.pid names
    agents,    \* the agents at work: pairs of a call and a way
    earned,    \* the calls some agent of which succeeded (history)
    runs,      \* runs[c]: how often a daemon executed the request (history)
    gaveUp,    \* the calls that were given up or killed (history)
    misled,    \* calls that took the answer to another call (history)
    ends,      \* ends of daemons so far
    hung       \* a daemon stopped waiting for an agent (history)

calls == <<client, req, result>>
daemons == <<dpc, dreq, dok, pidfile>>
history == <<earned, runs, gaveUp, misled, ends, hung>>
vars == <<client, req, result, dpc, dreq, dok, pidfile, agents, earned, runs,
          gaveUp, misled, ends, hung>>

Active == {"app", "inapp", "pick", "queue", "poll", "direct", "indirect"}
Over == {"ok", "failed", "timeout", "killed"}
Ways == {"app", "daemon", "direct"}
DaemonStates == {"off", "boot", "idle", "leased", "exec", "result", "write",
                 "file"}

TypeOK ==
    /\ client \in [Calls -> {"none"} \union Active \union Over]
    /\ req \in [Calls -> {"none", "incoming", "leased", "done", "failed"}]
    /\ result \in [Calls -> {"none", "torn", "ok", "failed"}]
    /\ dpc \in [Daemons -> DaemonStates]
    /\ dreq \in [Daemons -> Calls \union {NoCall}]
    /\ dok \in [Daemons -> BOOLEAN]
    /\ pidfile \in Daemons \union {Nobody}
    /\ agents \subseteq Calls \X Ways
    /\ earned \subseteq Calls
    /\ runs \in [Calls -> Nat]
    /\ gaveUp \subseteq Calls
    /\ misled \subseteq Calls
    /\ ends \in 0 .. MaxFaults
    /\ hung \in BOOLEAN

Init ==
    /\ client = [c \in Calls |-> "none"]
    /\ req = [c \in Calls |-> "none"]
    /\ result = [c \in Calls |-> "none"]
    /\ dpc = [d \in Daemons |-> "off"]
    /\ dreq = [d \in Daemons |-> NoCall]
    /\ dok = [d \in Daemons |-> FALSE]
    /\ pidfile = Nobody
    /\ agents = {}
    /\ earned = {}
    /\ runs = [c \in Calls |-> 0]
    /\ gaveUp = {}
    /\ misled = {}
    /\ ends = 0
    /\ hung = FALSE
-----------------------------------------------------------------------------
(* codex_fix.sh                                                            *)

GoesTo(c, to) == client' = [client EXCEPT ![c] = to]

\* The bound on what may go wrong is not used up.
FaultLeft ==
    /\ ends < MaxFaults
    /\ ends + Cardinality({c \in Calls : client[c] = "killed"}) < MaxFaults

\* An agent ends; its success counts for its call, whoever still cares.
AgentEnds(c, way, well) ==
    /\ agents' = agents \ {<<c, way>>}
    /\ earned' = IF well THEN earned \union {c} ELSE earned

\* run_job.sh calls codex_fix.sh for a target directory.
Call(c) ==
    /\ client[c] = "none"
    /\ \A b \in Calls : client[b] \notin Active
    /\ GoesTo(c, "app")
    /\ UNCHANGED <<req, result, daemons, agents, history>>

\* The persistent app-server is up, and its client asks it for a repair.
AskAppServer(c) ==
    /\ client[c] = "app"
    /\ GoesTo(c, "inapp")
    /\ agents' = agents \union {<<c, "app">>}
    /\ UNCHANGED <<req, result, daemons, history>>

\* It is not up, or its client fails before a repair is started.
NoAppServer(c) ==
    /\ client[c] = "app"
    /\ GoesTo(c, "pick")
    /\ UNCHANGED <<req, result, daemons, agents, history>>

\* The app-server answers: exit 0, or fall back to the daemon.  Every client
\* numbers its requests from 1: the late answer to a repair that was given up
\* is taken for the answer to this one.
AppServerAnswers(c) ==
    /\ client[c] = "inapp"
    /\ \E b \in Calls, well \in BOOLEAN :
        /\ <<b, "app">> \in agents
        /\ AgentEnds(b, "app", well)
        /\ GoesTo(c, IF well THEN "ok" ELSE "pick")
        /\ misled' = IF b = c THEN misled ELSE misled \union {c}
    /\ UNCHANGED <<req, result, daemons, runs, gaveUp, ends, hung>>

\* Its client gives up with 124, and so does codex_fix.sh.
AppServerTimeout(c) ==
    /\ client[c] = "inapp"
    /\ GoesTo(c, "timeout")
    /\ gaveUp' = gaveUp \union {c}
    /\ UNCHANGED <<req, result, daemons, agents, earned, runs, misled, ends, hung>>

\* daemon.pid names a process that lives and is a codex_daemon.py.
Alive == pidfile # Nobody /\ dpc[pidfile] # "off"

Pick(c) ==
    /\ client[c] = "pick"
    /\ GoesTo(c, IF Alive THEN "queue" ELSE "direct")
    /\ UNCHANGED <<req, result, daemons, agents, history>>

\* Mutant of Queue: the wait for the result is left out.
QueueAndFix(c) ==
    /\ client[c] = "queue"
    /\ req' = [req EXCEPT ![c] = "incoming"]
    /\ GoesTo(c, "direct")
    /\ UNCHANGED <<result, daemons, agents, history>>

\* mv <request>.json.tmp <request>.json
Queue(c) ==
    /\ client[c] = "queue"
    /\ req' = [req EXCEPT ![c] = "incoming"]
    /\ GoesTo(c, "poll")
    /\ UNCHANGED <<result, daemons, agents, history>>

\* The result is there: under `set -e` a file that is no JSON ends the call.
SeeResult(c) ==
    /\ client[c] = "poll"
    /\ result[c] # "none"
    /\ GoesTo(c, IF result[c] = "ok" THEN "ok" ELSE "failed")
    /\ UNCHANGED <<req, result, daemons, agents, history>>

\* Mutant of GiveUp: the deadline is only looked at beside a result.
GiveUpOnResult(c) ==
    /\ client[c] = "poll"
    /\ result[c] # "none"
    /\ GoesTo(c, "direct")
    /\ gaveUp' = gaveUp \union {c}
    /\ UNCHANGED <<req, result, daemons, agents, earned, runs, misled, ends, hung>>

\* REPAIR_TIMEOUT_SEC is over: repair directly, the request stays in the queue.
GiveUp(c) ==
    /\ client[c] = "poll"
    /\ GoesTo(c, "direct")
    /\ gaveUp' = gaveUp \union {c}
    /\ UNCHANGED <<req, result, daemons, agents, earned, runs, misled, ends, hung>>

\* codex exec in the target directory
Direct(c) ==
    /\ client[c] = "direct"
    /\ GoesTo(c, "indirect")
    /\ agents' = agents \union {<<c, "direct">>}
    /\ UNCHANGED <<req, result, daemons, history>>

DirectEnds(c) ==
    /\ client[c] = "indirect"
    /\ \E well \in BOOLEAN :
        /\ AgentEnds(c, "direct", well)
        /\ GoesTo(c, IF well THEN "ok" ELSE "failed")
    /\ UNCHANGED <<req, result, daemons, runs, gaveUp, misled, ends, hung>>

\* The process tree of the run is killed, its direct agent with it.
KillCall(c) ==
    /\ client[c] \in Active
    /\ FaultLeft
    /\ GoesTo(c, "killed")
    /\ agents' = agents \ {<<c, "direct">>}
    /\ gaveUp' = gaveUp \union {c}
    /\ UNCHANGED <<req, result, daemons, earned, runs, misled, ends, hung>>

Fix(c) ==
    \/ AskAppServer(c) \/ NoAppServer(c) \/ AppServerAnswers(c)
    \/ AppServerTimeout(c) \/ Pick(c) \/ Queue(c) \/ SeeResult(c) \/ GiveUp(c)
    \/ Direct(c) \/ DirectEnds(c)
-----------------------------------------------------------------------------
(* codex_daemon.py                                                         *)

Turns(d, from, to) ==
    /\ dpc[d] = from
    /\ dpc' = [dpc EXCEPT ![d] = to]

\* The daemon writes its pid, then starts its app-server.
StartDaemon(d) ==
    /\ Turns(d, "off", "boot")
    /\ pidfile' = d
    /\ dreq' = [dreq EXCEPT ![d] = NoCall]
    /\ UNCHANGED <<calls, dok, agents, history>>

Ready(d) ==
    /\ Turns(d, "boot", "idle")
    /\ UNCHANGED <<calls, dreq, dok, pidfile, agents, history>>

Incoming == {c \in Calls : req[c] = "incoming"}
First(c) == c \in Incoming /\ \A b \in Incoming : c <= b

\* Mutant of Lease: the request is read where it is and moved later.
LeaseKeeps(d) ==
    /\ Turns(d, "idle", "leased")
    /\ \E c \in Calls : First(c) /\ dreq' = [dreq EXCEPT ![d] = c]
    /\ UNCHANGED <<calls, dok, pidfile, agents, history>>

\* Mutant of Lease: an empty queue is not noticed.
LeaseUnchecked(d) ==
    /\ Turns(d, "idle", "leased")
    /\ dreq' \in {[dreq EXCEPT ![d] = c] : c \in Incoming \union {NoCall}}
    /\ req' = [c \in Calls |-> IF c = dreq'[d] THEN "leased" ELSE req[c]]
    /\ UNCHANGED <<client, result, dok, pidfile, agents, history>>

\* lease_one: the first request of incoming/, under the lock of the queue.
Lease(d) ==
    /\ Turns(d, "idle", "leased")
    /\ \E c \in Calls :
        /\ First(c)
        /\ dreq' = [dreq EXCEPT ![d] = c]
        /\ req' = [req EXCEPT ![c] = "leased"]
    /\ UNCHANGED <<client, result, dok, pidfile, agents, history>>

\* No agent is started: the target is refused, the request cannot be read, or
\* the daemon's app-server is gone.
Refuse(d) ==
    /\ Turns(d, "leased", "result")
    /\ dok' = [dok EXCEPT ![d] = FALSE]
    /\ UNCHANGED <<calls, dreq, pidfile, agents, history>>

\* command/exec
Execute(d) ==
    /\ Turns(d, "leased", "exec")
    /\ agents' = agents \union {<<dreq[d], "daemon">>}
    /\ runs' = [runs EXCEPT ![dreq[d]] = @ + 1]
    /\ UNCHANGED <<calls, dreq, dok, pidfile, earned, gaveUp, misled, ends, hung>>

\* The agent ends, and its exit code tells.
Executed(d) ==
    /\ Turns(d, "exec", "result")
    /\ \E well \in BOOLEAN :
        /\ AgentEnds(dreq[d], "daemon", well)
        /\ dok' = [dok EXCEPT ![d] = well]
    /\ UNCHANGED <<calls, dreq, pidfile, runs, gaveUp, misled, ends, hung>>

\* The app-server does not answer within repair_timeout + 60 seconds.
ExecTimeout(d) ==
    /\ Turns(d, "exec", "result")
    /\ dok' = [dok EXCEPT ![d] = FALSE]
    /\ hung' = TRUE
    /\ UNCHANGED <<calls, dreq, pidfile, agents, earned, runs, gaveUp, misled, ends>>

\* write_json opens the file, which is empty until it is written.
OpenResult(d) ==
    /\ Turns(d, "result", "write")
    /\ result' = [result EXCEPT ![dreq[d]] = "torn"]
    /\ UNCHANGED <<client, req, dreq, dok, pidfile, agents, history>>

Outcome(d) == IF dok[d] THEN "ok" ELSE "failed"

\* Mutant of WriteResult: results are named after the job, not the request.
WriteResultOfJob(d) ==
    /\ Turns(d, "write", "file")
    /\ result' = [c \in Calls |-> Outcome(d)]
    /\ UNCHANGED <<client, req, dreq, dok, pidfile, agents, history>>

WriteResult(d) ==
    /\ Turns(d, "write", "file")
    /\ result' = [result EXCEPT ![dreq[d]] = Outcome(d)]
    /\ UNCHANGED <<client, req, dreq, dok, pidfile, agents, history>>

\* The request goes to done/ or failed/.
File(d) ==
    /\ Turns(d, "file", "idle")
    /\ req' = [req EXCEPT ![dreq[d]] = IF dok[d] THEN "done" ELSE "failed"]
    /\ dreq' = [dreq EXCEPT ![d] = NoCall]
    /\ UNCHANGED <<client, result, dok, pidfile, agents, history>>

Work(d) ==
    \/ Ready(d) \/ Lease(d) \/ Refuse(d) \/ Execute(d) \/ Executed(d)
    \/ ExecTimeout(d) \/ OpenResult(d) \/ WriteResult(d) \/ File(d)

\* The daemon is killed: `factory stop`, a unit that stops, an error while its
\* app-server starts.  Its agent may die with it or go on.
Crash(d) ==
    /\ dpc[d] # "off"
    /\ FaultLeft
    /\ ends' = ends + 1
    /\ dpc' = [dpc EXCEPT ![d] = "off"]
    /\ agents' \in {agents, agents \ {<<dreq[d], "daemon">>}}
    /\ UNCHANGED <<calls, dreq, dok, pidfile, earned, runs, gaveUp, misled, hung>>

\* The daemon leaves its loop by an error or an interrupt, and removes
\* daemon.pid, whoever it names by then.
Quit(d) ==
    /\ dpc[d] \notin {"off", "boot"}
    /\ pidfile' = Nobody
    /\ FaultLeft
    /\ ends' = ends + 1
    /\ dpc' = [dpc EXCEPT ![d] = "off"]
    /\ agents' = agents \ {<<dreq[d], "daemon">>}
    /\ UNCHANGED <<calls, dreq, dok, earned, runs, gaveUp, misled, hung>>

\* An agent that nobody waits for ends some time.
Waiting(c, way) ==
    \/ way = "direct" /\ client[c] = "indirect"
    \/ way = "app" /\ client[c] = "inapp"
    \/ way = "daemon" /\ \E d \in Daemons : dpc[d] = "exec" /\ dreq[d] = c

Orphan(c, way) ==
    /\ <<c, way>> \in agents
    /\ ~Waiting(c, way)
    /\ \E well \in BOOLEAN : AgentEnds(c, way, well)
    /\ UNCHANGED <<calls, daemons, runs, gaveUp, misled, ends, hung>>

Next ==
    \/ \E c \in Calls :
        \/ Call(c) \/ Fix(c) \/ KillCall(c)
        \/ \E way \in Ways : Orphan(c, way)
    \/ \E d \in Daemons : StartDaemon(d) \/ Work(d) \/ Crash(d) \/ Quit(d)

Spec == Init /\ [][Next]_vars

\* codex_fix.sh goes on, and every codex exec ends.  Nothing is assumed of the
\* daemons, nor of the client of the app-server: it opens FIFOs without a timeout.
CallSpec == Spec /\ \A c \in Calls : WF_vars(client[c] # "inapp" /\ Fix(c))

\* With Restart=always a daemon that ended is started again, and goes on.
FairSpec == CallSpec /\ \A d \in Daemons : WF_vars(Work(d)) /\ WF_vars(StartDaemon(d))
-----------------------------------------------------------------------------
(* Properties                                                              *)

\* No request is executed twice, whichever daemons crash and are restarted and
\* however many of them serve the queue.
DaemonRunsOnce == \A c \in Calls : runs[c] <= 1

\* A call that reports success was repaired: an agent that worked for this very
\* call, and for no other, ended well, or the answer to a call that was given
\* up misled it.
OkIsEarned == \A c \in Calls : client[c] = "ok" => c \in earned \union misled

\* Nobody is misled before a call was given up or killed.
MisledByGivenUp == misled # {} => gaveUp # {}

\* A request in done/ has the result ok, a request in failed/ the result failed.
FiledAsReported ==
    \A c \in Calls : req[c] \in {"done", "failed"} =>
        result[c] = IF req[c] = "done" THEN "ok" ELSE "failed"

\* Only one agent edits the target, until a call or a daemon stops waiting for
\* an agent that is still at work.
OneAgent ==
    gaveUp = {} /\ ends = 0 /\ ~hung => Cardinality(agents) <= 1

\* Every call that turns to the daemon ends, whatever happens to the daemons.
EveryCallEnds ==
    \A c \in Calls : client[c] \in Active \ {"app", "inapp"} ~> client[c] \in Over

(* The inductive invariant behind the safety properties.                   *)

Working(d) == dpc[d] \in {"leased", "exec", "result", "write", "file"}

\* A daemon at work has a request of its own, which is in leased/.
OneHolder ==
    /\ \A d \in Daemons : Working(d) => dreq[d] \in Calls /\ req[dreq[d]] = "leased"
    /\ \A d, e \in Daemons : Working(d) /\ Working(e) /\ dreq[d] = dreq[e] => d = e

\* A request has not been executed before it is leased, nor by its holder.
NotYetRun ==
    /\ \A c \in Calls : req[c] \in {"none", "incoming"} => runs[c] = 0
    /\ \A d \in Daemons : dpc[d] = "leased" => runs[dreq[d]] = 0

\* A success was earned, all the way from the agent to the client.
Earned ==
    /\ \A d \in Daemons : dpc[d] \in {"result", "write", "file"} /\ dok[d] =>
            dreq[d] \in earned
    /\ \A c \in Calls : result[c] = "ok" => c \in earned

Reported ==
    \A d \in Daemons : dpc[d] = "file" => result[dreq[d]] = Outcome(d)

\* Calls come one at a time, and an agent of the app-server that its call does
\* not wait for was given up by some call.
OneActive == \A b, c \in Calls : client[b] \in Active /\ client[c] \in Active => b = c

AppAgents ==
    \A c \in Calls : <<c, "app">> \in agents => client[c] = "inapp" \/ gaveUp # {}

Held ==
    /\ OneHolder /\ NotYetRun /\ Earned /\ Reported
    /\ DaemonRunsOnce /\ OkIsEarned /\ FiledAsReported

IInv == Held /\ OneActive /\ AppAgents /\ MisledByGivenUp

\* "Daemon moves leased file to done/ or failed/": a request that was leased
\* leaves leased/, with a daemon that is restarted when it ends.
LeasedIsFiled ==
    \A c \in Calls : req[c] = "leased" ~> req[c] # "leased"
=============================================================================
