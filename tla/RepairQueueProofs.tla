-------------------------- MODULE RepairQueueProofs --------------------------
(***************************************************************************)
(* Proofs about the repair queue, for any number of calls and of daemons.  *)
(***************************************************************************)
EXTENDS RepairQueue, FiniteSetTheorems, TLAPS

LEMMA TypeInit == Init => TypeOK
<1>. SUFFICES ASSUME Init PROVE TypeOK
  OBVIOUS
<1>1. ends \in 0 .. MaxFaults
  BY BoundsAssumption DEF Init
<1>2. agents \subseteq Calls \X Ways /\ earned \subseteq Calls /\ gaveUp \subseteq Calls
  BY DEF Init
<1>. QED
  BY <1>1, <1>2 DEF Init, TypeOK, Active, Over, DaemonStates

LEMMA FixType ==
    ASSUME TypeOK, NEW c \in Calls, Call(c) \/ Fix(c) \/ KillCall(c)
    PROVE  TypeOK'
<1>. USE DEF TypeOK, Active, Over, Ways, GoesTo, daemons, history
<1>1. CASE Call(c)
  BY <1>1 DEF Call
<1>2. CASE AskAppServer(c) \/ NoAppServer(c)
  BY <1>2 DEF AskAppServer, NoAppServer
<1>3. CASE AppServerAnswers(c)
  BY <1>3 DEF AppServerAnswers, AgentEnds
<1>4. CASE AppServerTimeout(c) \/ Pick(c) \/ Queue(c)
  BY <1>4 DEF AppServerTimeout, Pick, Queue
<1>5. CASE SeeResult(c) \/ GiveUp(c) \/ Direct(c)
  BY <1>5 DEF SeeResult, GiveUp, Direct
<1>6. CASE DirectEnds(c)
  BY <1>6 DEF DirectEnds, AgentEnds
<1>7. CASE KillCall(c)
  BY <1>7 DEF KillCall
<1>. QED  BY <1>1, <1>2, <1>3, <1>4, <1>5, <1>6, <1>7 DEF Fix

LEMMA WorkType ==
    ASSUME TypeOK, OneHolder, NEW d \in Daemons, Work(d)
    PROVE  TypeOK'
<1>. USE DEF TypeOK, DaemonStates, Ways, Turns, calls, history
<1>0. Working(d) => dreq[d] \in Calls
  BY DEF OneHolder
<1>1. CASE Ready(d) \/ Refuse(d)
  BY <1>1 DEF Ready, Refuse
<1>2. CASE Lease(d)
  BY <1>2 DEF Lease
<1>3. CASE Execute(d)
  BY <1>0, <1>3 DEF Execute, Working
<1>4. CASE Executed(d)
  BY <1>0, <1>4 DEF Executed, AgentEnds, Working
<1>5. CASE ExecTimeout(d)
  BY <1>5 DEF ExecTimeout
<1>6. CASE OpenResult(d) \/ WriteResult(d)
  BY <1>6 DEF OpenResult, WriteResult, Outcome
<1>7. CASE File(d)
  BY <1>7 DEF File
<1>. QED  BY <1>1, <1>2, <1>3, <1>4, <1>5, <1>6, <1>7 DEF Work

LEMMA TypeStep == TypeOK /\ OneHolder /\ [Next]_vars => TypeOK'
<1>. SUFFICES ASSUME TypeOK, OneHolder, [Next]_vars PROVE TypeOK'
  OBVIOUS
<1>1. ASSUME NEW c \in Calls, NEW way \in Ways, Orphan(c, way) PROVE TypeOK'
  BY <1>1 DEF TypeOK, Orphan, AgentEnds, calls, daemons
<1>2. ASSUME NEW d \in Daemons, StartDaemon(d) PROVE TypeOK'
  BY <1>2 DEF TypeOK, StartDaemon, Turns, DaemonStates, calls, history
<1>3. ASSUME NEW d \in Daemons, Crash(d) \/ Quit(d) PROVE TypeOK'
  BY <1>3, BoundsAssumption DEF TypeOK, Crash, Quit, FaultLeft, DaemonStates, calls
<1>4. CASE UNCHANGED vars
  BY <1>4 DEF TypeOK, vars
<1>. QED  BY <1>1, <1>2, <1>3, <1>4, FixType, WorkType DEF Next

(***************************************************************************)
(* A step of a call leaves the daemons and every lease alone.              *)
(***************************************************************************)

LEMMA InvInit == Init => Held
BY DEF Init, Held, OneHolder, NotYetRun, Earned, Reported, DaemonRunsOnce,
   OkIsEarned, FiledAsReported, Working

\* A call puts its request into incoming/ before any daemon knows it, and
\* reports success only if an agent or a result says so.
LEMMA CallInv ==
    ASSUME TypeOK, Held, UNCHANGED <<dpc, dreq, dok, result, runs>>,
           earned \subseteq earned', misled \subseteq misled',
           \A c \in Calls : req'[c] # req[c] => req[c] = "none" /\ req'[c] = "incoming",
           \A c \in Calls : client'[c] = "ok" => (client[c] = "ok" \/ c \in earned' \union misled')
    PROVE  Held'
<1>1. OneHolder'
  BY DEF Held, OneHolder, Working
<1>2. NotYetRun'
  BY DEF Held, NotYetRun
<1>3. Earned' /\ Reported'
  BY DEF Held, OneHolder, Working, Earned, Reported, Outcome
<1>4. DaemonRunsOnce' /\ OkIsEarned' /\ FiledAsReported'
  BY DEF Held, DaemonRunsOnce, OkIsEarned, FiledAsReported
<1>. QED  BY <1>1, <1>2, <1>3, <1>4 DEF Held

\* A request is put into the queue once: a call queues before it polls.
QueuedOnce == \A c \in Calls :
    client[c] \in {"none", "app", "inapp", "pick", "queue"} => req[c] = "none"

LEMMA QueuedInit == Init => QueuedOnce
BY DEF Init, QueuedOnce

LEMMA QueuedStep ==
    ASSUME TypeOK, QueuedOnce, OneHolder, [Next]_vars
    PROVE  QueuedOnce'
<1>1. ASSUME UNCHANGED <<client, req>> PROVE QueuedOnce'
  BY <1>1 DEF QueuedOnce
<1>2. ASSUME NEW c \in Calls, Call(c) \/ Fix(c) \/ KillCall(c)
      PROVE  QueuedOnce'
  <2>. DEFINE early == {"none", "app", "inapp", "pick", "queue"}
  <2>1. PICK to : client' = [client EXCEPT ![c] = to]
    BY <1>2 DEF Call, Fix, KillCall, AskAppServer, NoAppServer,
       AppServerAnswers, AppServerTimeout, Pick, Queue, SeeResult, GiveUp,
       Direct, DirectEnds, GoesTo
  <2>2. client'[c] = to /\ \A b \in Calls \ {c} : client'[b] = client[b]
    BY <2>1 DEF TypeOK
  <2>3. \A b \in Calls \ {c} : req'[b] = req[b]
    BY <1>2 DEF Call, Fix, KillCall, AskAppServer, NoAppServer,
       AppServerAnswers, AppServerTimeout, Pick, Queue, SeeResult, GiveUp,
       Direct, DirectEnds, TypeOK
  <2>4. ASSUME client'[c] \in early PROVE client[c] \in early /\ req' = req
    <3>1. CASE Call(c) \/ AskAppServer(c) \/ NoAppServer(c) \/ Pick(c)
      BY <3>1 DEF Call, AskAppServer, NoAppServer, Pick
    <3>2. CASE AppServerAnswers(c)
      BY <3>2 DEF AppServerAnswers
    <3>3. CASE AppServerTimeout(c) \/ Queue(c) \/ SeeResult(c) \/ GiveUp(c)
      BY <2>4, <3>3 DEF AppServerTimeout, Queue, SeeResult, GiveUp, GoesTo, TypeOK
    <3>4. CASE Direct(c) \/ DirectEnds(c) \/ KillCall(c)
      BY <2>4, <3>4 DEF Direct, DirectEnds, KillCall, GoesTo, TypeOK
    <3>. QED  BY <1>2, <3>1, <3>2, <3>3, <3>4 DEF Fix
  <2>. QED  BY <2>2, <2>3, <2>4 DEF QueuedOnce
<1>3. ASSUME NEW c \in Calls, NEW way \in Ways, Orphan(c, way)
      PROVE  QueuedOnce'
  BY <1>1, <1>3 DEF Orphan, calls
<1>4. ASSUME NEW d \in Daemons, StartDaemon(d) \/ Crash(d) \/ Quit(d)
      PROVE  QueuedOnce'
  BY <1>1, <1>4 DEF StartDaemon, Crash, Quit, calls
<1>5. ASSUME NEW d \in Daemons, Work(d) PROVE QueuedOnce'
  <2>1. client' = client
    BY <1>5 DEF Work, Ready, Lease, Refuse, Execute, Executed, ExecTimeout,
       OpenResult, WriteResult, File, calls
  <2>2. CASE Lease(d)
    <3>1. PICK c \in Calls : /\ req[c] = "incoming"
                             /\ req' = [req EXCEPT ![c] = "leased"]
      BY <2>2 DEF Lease, First, Incoming
    <3>. QED  BY <2>1, <3>1 DEF QueuedOnce, TypeOK
  <2>3. CASE File(d)
    <3>1. dreq[d] \in Calls /\ req[dreq[d]] = "leased"
      BY <2>3 DEF File, Turns, OneHolder, Working
    <3>2. \A c \in Calls : req'[c] = req[c] \/ req[c] = "leased"
      BY <2>3, <3>1 DEF File, TypeOK
    <3>. QED  BY <2>1, <3>2 DEF QueuedOnce
  <2>4. CASE ~Lease(d) /\ ~File(d)
    BY <1>1, <1>5, <2>1, <2>4 DEF Work, Ready, Refuse, Execute, Executed,
       ExecTimeout, OpenResult, WriteResult, calls
  <2>. QED  BY <2>2, <2>3, <2>4
<1>6. CASE UNCHANGED vars
  BY <1>1, <1>6 DEF vars
<1>. QED  BY <1>2, <1>3, <1>4, <1>5, <1>6 DEF Next

LEMMA FixInv ==
    ASSUME TypeOK, QueuedOnce, Held, NEW c \in Calls,
           Call(c) \/ Fix(c) \/ KillCall(c)
    PROVE  Held'
<1>0. /\ UNCHANGED <<dpc, dreq, dok, result, runs>>
      /\ earned \subseteq earned' /\ misled \subseteq misled'
  BY DEF Call, Fix, KillCall, AskAppServer, NoAppServer, AppServerAnswers,
     AppServerTimeout, Pick, Queue, SeeResult, GiveUp, Direct, DirectEnds,
     AgentEnds, daemons, history
<1>1. \A b \in Calls :
          req'[b] # req[b] => req[b] = "none" /\ req'[b] = "incoming"
  <2>1. CASE Queue(c)
    <3>1. client[c] = "queue" /\ req' = [req EXCEPT ![c] = "incoming"]
      BY <2>1 DEF Queue
    <3>. QED  BY <3>1 DEF QueuedOnce, TypeOK
  <2>2. CASE ~Queue(c)
    BY <2>2 DEF Call, Fix, KillCall, AskAppServer, NoAppServer,
       AppServerAnswers, AppServerTimeout, Pick, SeeResult, GiveUp, Direct,
       DirectEnds
  <2>. QED  BY <2>1, <2>2
<1>2. \A b \in Calls : client'[b] = "ok" => (client[b] = "ok" \/ b \in earned' \union misled')
  <2>1. CASE SeeResult(c)
    BY <2>1 DEF SeeResult, GoesTo, Held, Earned, TypeOK, history
  <2>2. CASE DirectEnds(c)
    BY <2>2 DEF DirectEnds, GoesTo, AgentEnds, TypeOK
  <2>4. CASE AppServerAnswers(c)
    <3>1. PICK d \in Calls, well \in BOOLEAN :
            /\ AgentEnds(d, "app", well)
            /\ GoesTo(c, IF well THEN "ok" ELSE "pick")
            /\ misled' = IF d = c THEN misled ELSE misled \union {c}
      BY <2>4 DEF AppServerAnswers
    <3>2. \A b \in Calls \ {c} : client'[b] = client[b]
      BY <3>1 DEF GoesTo, TypeOK
    <3>3. client'[c] = "ok" => c \in earned' \union misled'
      BY <3>1 DEF GoesTo, AgentEnds, TypeOK
    <3>. QED  BY <3>2, <3>3
  <2>3. CASE ~SeeResult(c) /\ ~AppServerAnswers(c) /\ ~DirectEnds(c)
    BY <2>3 DEF Call, Fix, KillCall, AskAppServer, NoAppServer,
       AppServerTimeout, Pick, Queue, GiveUp, Direct, GoesTo, TypeOK
  <2>. QED  BY <2>1, <2>2, <2>4, <2>3
<1>. QED  BY <1>0, <1>1, <1>2, CallInv

(***************************************************************************)
(* A step of a daemon at work touches only the request it holds.           *)
(***************************************************************************)

LEMMA LeaseInv ==
    ASSUME TypeOK, Held, NEW d \in Daemons, Lease(d)
    PROVE  Held'
<1>1. PICK c \in Calls : /\ req[c] = "incoming"
                         /\ dreq' = [dreq EXCEPT ![d] = c]
                         /\ req' = [req EXCEPT ![c] = "leased"]
  BY DEF Lease, First, Incoming
<1>2. /\ UNCHANGED <<client, result, dok, runs, earned, misled>>
      /\ dpc' = [dpc EXCEPT ![d] = "leased"]
  BY DEF Lease, Turns, history
<1>3. /\ dpc'[d] = "leased" /\ dreq'[d] = c
      /\ \A e \in Daemons \ {d} : dpc'[e] = dpc[e] /\ dreq'[e] = dreq[e]
      /\ req'[c] = "leased" /\ \A b \in Calls \ {c} : req'[b] = req[b]
  BY <1>1, <1>2 DEF TypeOK
<1>4. \A e \in Daemons : Working(e) => dreq[e] # c
  BY <1>1 DEF Held, OneHolder
<1>5. OneHolder'
  BY <1>3, <1>4 DEF Held, OneHolder, Working
<1>6. NotYetRun'
  BY <1>1, <1>2, <1>3, <1>4 DEF Held, NotYetRun, Working
<1>7. Earned' /\ Reported'
  BY <1>2, <1>3 DEF Held, Earned, Reported, Outcome
<1>8. DaemonRunsOnce' /\ OkIsEarned' /\ FiledAsReported'
  BY <1>2, <1>3 DEF Held, DaemonRunsOnce, OkIsEarned, FiledAsReported
<1>. QED  BY <1>5, <1>6, <1>7, <1>8 DEF Held

\* What a daemon that is already at work may do to the rest of the state.
LEMMA StageInv ==
    ASSUME TypeOK, Held, NEW d \in Daemons, NEW to,
           Working(d), dpc' = [dpc EXCEPT ![d] = to],
           to \in {"exec", "result", "write", "file"},
           UNCHANGED <<client, req, dreq, misled>>,
           \A e \in Daemons \ {d} : dok'[e] = dok[e],
           \A c \in Calls : c # dreq[d] => result'[c] = result[c] /\ runs'[c] = runs[c],
           runs'[dreq[d]] <= 1, earned \subseteq earned',
           to \in {"result", "write", "file"} /\ dok'[d] => dreq[d] \in earned',
           result'[dreq[d]] = "ok" => dreq[d] \in earned',
           to = "file" => result'[dreq[d]] = Outcome(d)'
    PROVE  Held'
<1>1. /\ dpc'[d] = to /\ dreq[d] \in Calls /\ req[dreq[d]] = "leased"
      /\ \A e \in Daemons \ {d} : dpc'[e] = dpc[e]
  BY DEF TypeOK, Held, OneHolder
<1>2. \A e \in Daemons \ {d} : Working(e) => dreq[e] \in Calls /\ dreq[e] # dreq[d]
  BY DEF Held, OneHolder
<1>3. OneHolder'
  BY <1>1 DEF Held, OneHolder, Working
<1>4. NotYetRun'
  BY <1>1, <1>2 DEF Held, NotYetRun, Working
<1>5. Earned'
  BY <1>1, <1>2 DEF Held, Earned, Working
<1>6. Reported'
  BY <1>1, <1>2 DEF Held, Reported, Outcome, Working
<1>7. DaemonRunsOnce' /\ OkIsEarned' /\ FiledAsReported'
  BY <1>1 DEF Held, DaemonRunsOnce, OkIsEarned, FiledAsReported
<1>. QED  BY <1>3, <1>4, <1>5, <1>6, <1>7 DEF Held

LEMMA FileInv ==
    ASSUME TypeOK, Held, NEW d \in Daemons, File(d)
    PROVE  Held'
<1>. DEFINE c == dreq[d]
<1>1. dpc[d] = "file" /\ c \in Calls /\ req[c] = "leased"
  BY DEF File, Turns, Held, OneHolder, Working
<1>2. /\ UNCHANGED <<client, result, dok, runs, earned, misled>>
      /\ dpc'[d] = "idle" /\ req'[c] = IF dok[d] THEN "done" ELSE "failed"
      /\ \A e \in Daemons \ {d} : dpc'[e] = dpc[e] /\ dreq'[e] = dreq[e]
      /\ \A b \in Calls \ {c} : req'[b] = req[b]
  BY <1>1 DEF File, Turns, TypeOK, history
<1>3. \A e \in Daemons \ {d} : Working(e) => dreq[e] # c
  BY <1>1 DEF Held, OneHolder, Working
<1>4. result[c] = IF dok[d] THEN "ok" ELSE "failed"
  BY <1>1 DEF Held, Reported, Outcome
<1>. HIDE DEF c
<1>5. OneHolder'
  BY <1>2, <1>3 DEF Held, OneHolder, Working
<1>6. NotYetRun'
  BY <1>2 DEF Held, NotYetRun
<1>7. Earned' /\ Reported'
  BY <1>2 DEF Held, Earned, Reported, Outcome
<1>8. DaemonRunsOnce' /\ OkIsEarned' /\ FiledAsReported'
  BY <1>2, <1>4 DEF Held, DaemonRunsOnce, OkIsEarned, FiledAsReported
<1>. QED  BY <1>5, <1>6, <1>7, <1>8 DEF Held

LEMMA WorkInv ==
    ASSUME TypeOK, Held, NEW d \in Daemons, Work(d)
    PROVE  Held'
<1>. USE DEF Turns, calls, history
<1>0. Working(d) => dreq[d] \in Calls
  BY DEF Held, OneHolder
<1>a. \A c \in Calls : runs[c] \in Nat /\ runs[c] <= 1
  BY DEF TypeOK, Held, DaemonRunsOnce
<1>1. CASE Ready(d)
  <2>1. /\ UNCHANGED <<client, req, result, dreq, dok, runs, earned, misled>>
        /\ dpc'[d] = "idle" /\ \A e \in Daemons \ {d} : dpc'[e] = dpc[e]
    BY <1>1 DEF Ready, TypeOK
  <2>. QED
    BY <2>1 DEF Held, OneHolder, NotYetRun, Earned, Reported, DaemonRunsOnce,
       OkIsEarned, FiledAsReported, Working, Outcome
<1>2. CASE Refuse(d)
  <2>1. dok' = [dok EXCEPT ![d] = FALSE] /\ dok'[d] = FALSE
    BY <1>2 DEF Refuse, TypeOK
  <2>2. Working(d) /\ UNCHANGED <<client, req, result, dreq, runs, earned, misled>>
    BY <1>2 DEF Refuse, Working
  <2>. QED
    BY <1>0, <1>2, <1>a, <2>1, <2>2, StageInv DEF Refuse, Held, Earned, TypeOK
<1>3. CASE Execute(d)
  <2>1. Working(d) /\ UNCHANGED <<client, req, result, dreq, dok, earned, misled>>
    BY <1>3 DEF Execute, Working
  <2>2. runs[dreq[d]] = 0
    BY <1>3 DEF Execute, Held, NotYetRun
  <2>3. runs'[dreq[d]] <= 1 /\ \A c \in Calls : c # dreq[d] => runs'[c] = runs[c]
    BY <1>0, <1>3, <2>1, <2>2 DEF Execute, TypeOK
  <2>. QED
    BY <1>0, <1>3, <2>1, <2>3, StageInv DEF Execute, Held, Earned
<1>4. CASE Executed(d)
  <2>1. PICK well \in BOOLEAN : /\ AgentEnds(dreq[d], "daemon", well)
                                /\ dok' = [dok EXCEPT ![d] = well]
    BY <1>4 DEF Executed
  <2>2. Working(d) /\ UNCHANGED <<client, req, result, dreq, runs, misled>>
    BY <1>4 DEF Executed, Working
  <2>3. /\ earned \subseteq earned' /\ (dok'[d] => dreq[d] \in earned')
        /\ \A e \in Daemons \ {d} : dok'[e] = dok[e]
    BY <2>1 DEF AgentEnds, TypeOK
  <2>. QED
    BY <1>0, <1>4, <1>a, <2>2, <2>3, StageInv DEF Executed, Held, Earned
<1>5. CASE ExecTimeout(d)
  <2>1. dok' = [dok EXCEPT ![d] = FALSE] /\ dok'[d] = FALSE
    BY <1>5 DEF ExecTimeout, TypeOK
  <2>2. Working(d) /\ UNCHANGED <<client, req, result, dreq, runs, earned, misled>>
    BY <1>5 DEF ExecTimeout, Working
  <2>. QED
    BY <1>0, <1>5, <1>a, <2>1, <2>2, StageInv
       DEF ExecTimeout, Held, Earned, TypeOK
<1>6. CASE OpenResult(d)
  <2>1. Working(d) /\ UNCHANGED <<client, req, dok, dreq, runs, earned, misled>>
    BY <1>6 DEF OpenResult, Working
  <2>2. /\ result'[dreq[d]] = "torn"
        /\ \A c \in Calls : c # dreq[d] => result'[c] = result[c]
    BY <1>0, <1>6, <2>1 DEF OpenResult, TypeOK
  <2>3. dok[d] => dreq[d] \in earned
    BY <1>6 DEF OpenResult, Held, Earned
  <2>. QED
    BY <1>0, <1>6, <1>a, <2>1, <2>2, <2>3, StageInv DEF OpenResult
<1>7. CASE WriteResult(d)
  <2>1. Working(d) /\ UNCHANGED <<client, req, dok, dreq, runs, earned, misled>>
    BY <1>7 DEF WriteResult, Working
  <2>2. /\ result'[dreq[d]] = Outcome(d)
        /\ \A c \in Calls : c # dreq[d] => result'[c] = result[c]
    BY <1>0, <1>7, <2>1 DEF WriteResult, TypeOK
  <2>3. dok[d] => dreq[d] \in earned
    BY <1>7 DEF WriteResult, Held, Earned
  <2>4. Outcome(d)' = Outcome(d) /\ (Outcome(d) = "ok" => dok[d])
    BY <2>1 DEF Outcome
  <2>. QED
    BY <1>0, <1>7, <1>a, <2>1, <2>2, <2>3, <2>4, StageInv DEF WriteResult
<1>. QED
  BY <1>1, <1>2, <1>3, <1>4, <1>5, <1>6, <1>7, LeaseInv, FileInv DEF Work

LEMMA EndInv ==
    ASSUME TypeOK, Held, NEW d \in Daemons,
           StartDaemon(d) \/ Crash(d) \/ Quit(d)
    PROVE  Held'
<1>1. /\ UNCHANGED <<client, req, result, dok, runs, earned, misled>>
      /\ dpc'[d] \in {"off", "boot"}
      /\ \A e \in Daemons \ {d} : dpc'[e] = dpc[e] /\ dreq'[e] = dreq[e]
  BY DEF StartDaemon, Crash, Quit, Turns, calls, history, TypeOK
<1>. QED
  BY <1>1 DEF Held, OneHolder, NotYetRun, Earned, Reported, DaemonRunsOnce,
     OkIsEarned, FiledAsReported, Working, Outcome

LEMMA InvStep == TypeOK /\ QueuedOnce /\ Held /\ [Next]_vars => Held'
<1>. SUFFICES ASSUME TypeOK, QueuedOnce, Held, [Next]_vars PROVE Held'
  OBVIOUS
<1>1. ASSUME NEW c \in Calls, NEW way \in Ways, Orphan(c, way) PROVE Held'
  <2>1. /\ UNCHANGED <<client, req, result, dpc, dreq, dok, runs, misled>>
        /\ earned \subseteq earned'
    BY <1>1 DEF Orphan, AgentEnds, calls, daemons
  <2>2. \A b \in Calls : client'[b] = client[b] /\ req'[b] = req[b]
    BY <2>1
  <2>. QED  BY <2>1, <2>2, CallInv
<1>2. CASE UNCHANGED vars
  <2>1. UNCHANGED <<client, req, result, dpc, dreq, dok, runs, earned, misled>>
    BY <1>2 DEF vars
  <2>2. \A b \in Calls : client'[b] = client[b] /\ req'[b] = req[b]
    BY <2>1
  <2>. QED  BY <2>1, <2>2, CallInv
<1>. QED  BY <1>1, <1>2, FixInv, WorkInv, EndInv DEF Next

(***************************************************************************)
(* The app-server: an answer to somebody else needs a call that was given  *)
(* up, since calls come one at a time.                                     *)
(***************************************************************************)

AppInv == OneActive /\ AppAgents /\ MisledByGivenUp

LEMMA AppInit == Init => AppInv
BY DEF Init, AppInv, OneActive, AppAgents, MisledByGivenUp, Active

\* What keeps AppInv: no call becomes active, and every agent that its call
\* stops waiting for is gone or its call is given up.
LEMMA AppKept ==
    ASSUME AppInv, gaveUp \subseteq gaveUp',
           \A c \in Calls : client'[c] \in Active => client[c] \in Active,
           misled' # {} => gaveUp' # {},
           \A c \in Calls : <<c, "app">> \in agents' =>
               \/ <<c, "app">> \in agents /\ (client[c] = "inapp" => client'[c] = "inapp")
               \/ client'[c] = "inapp"
               \/ gaveUp' # {}
    PROVE  AppInv'
BY DEF AppInv, OneActive, AppAgents, MisledByGivenUp

LEMMA AppFix ==
    ASSUME TypeOK, AppInv, NEW c \in Calls, Call(c) \/ Fix(c) \/ KillCall(c)
    PROVE  AppInv'
<1>. USE DEF TypeOK, GoesTo
<1>1. CASE Call(c)
  <2>1. /\ UNCHANGED <<agents, gaveUp, misled>> /\ client[c] = "none"
        /\ client' = [client EXCEPT ![c] = "app"]
        /\ \A b \in Calls : client[b] \notin Active
    BY <1>1 DEF Call, history
  <2>2. OneActive'
    BY <2>1 DEF OneActive
  <2>3. AppAgents'
    BY <2>1 DEF AppInv, AppAgents
  <2>4. MisledByGivenUp'
    BY <2>1 DEF AppInv, MisledByGivenUp
  <2>. QED  BY <2>2, <2>3, <2>4 DEF AppInv
<1>2. CASE AskAppServer(c)
  <2>1. /\ UNCHANGED <<gaveUp, misled>> /\ agents' = agents \union {<<c, "app">>}
        /\ client[c] = "app" /\ client'[c] = "inapp"
        /\ \A b \in Calls \ {c} : client'[b] = client[b]
    BY <1>2 DEF AskAppServer, history
  <2>. QED  BY <2>1, AppKept DEF Active, AppInv, MisledByGivenUp
<1>3. CASE AppServerAnswers(c)
  <2>1. PICK b \in Calls, well \in BOOLEAN :
          /\ <<b, "app">> \in agents
          /\ AgentEnds(b, "app", well)
          /\ GoesTo(c, IF well THEN "ok" ELSE "pick")
          /\ misled' = IF b = c THEN misled ELSE misled \union {c}
    BY <1>3 DEF AppServerAnswers
  <2>2. client[c] = "inapp" /\ UNCHANGED gaveUp
    BY <1>3 DEF AppServerAnswers
  <2>3. /\ \A a \in Calls \ {c} : client'[a] = client[a]
        /\ agents' = agents \ {<<b, "app">>}
    BY <2>1 DEF AgentEnds
  <2>4. b # c => client[b] # "inapp"
    BY <2>2 DEF AppInv, OneActive, Active
  <2>5. b # c => gaveUp # {}
    BY <2>1, <2>4 DEF AppInv, AppAgents
  <2>. QED  BY <2>1, <2>2, <2>3, <2>5, AppKept DEF Active, AppInv, MisledByGivenUp
<1>4. CASE AppServerTimeout(c) \/ GiveUp(c)
  <2>1. /\ client[c] \in Active /\ gaveUp' = gaveUp \union {c}
        /\ \A b \in Calls \ {c} : client'[b] = client[b]
    BY <1>4 DEF AppServerTimeout, GiveUp, Active
  <2>. QED  BY <2>1, AppKept
<1>5. CASE KillCall(c)
  <2>1. /\ client[c] \in Active /\ gaveUp' = gaveUp \union {c}
        /\ \A b \in Calls \ {c} : client'[b] = client[b]
    BY <1>5 DEF KillCall
  <2>. QED  BY <2>1, AppKept
<1>6. CASE NoAppServer(c) \/ Pick(c) \/ Queue(c) \/ SeeResult(c)
  <2>1. /\ UNCHANGED <<agents, gaveUp, misled>>
        /\ client[c] \in Active /\ client[c] # "inapp"
        /\ \A b \in Calls \ {c} : client'[b] = client[b]
    BY <1>6 DEF NoAppServer, Pick, Queue, SeeResult, history, Active
  <2>. QED  BY <2>1, AppKept DEF AppInv, MisledByGivenUp
<1>7. CASE Direct(c)
  <2>1. /\ UNCHANGED <<gaveUp, misled>> /\ agents' = agents \union {<<c, "direct">>}
        /\ client[c] = "direct" /\ \A b \in Calls \ {c} : client'[b] = client[b]
    BY <1>7 DEF Direct, history
  <2>. QED  BY <2>1, AppKept DEF AppInv, MisledByGivenUp, Active
<1>8. CASE DirectEnds(c)
  <2>1. /\ UNCHANGED <<gaveUp, misled>> /\ agents' \subseteq agents
        /\ client[c] = "indirect" /\ \A b \in Calls \ {c} : client'[b] = client[b]
    BY <1>8 DEF DirectEnds, AgentEnds
  <2>. QED  BY <2>1, AppKept DEF AppInv, MisledByGivenUp, Active
<1>. QED  BY <1>1, <1>2, <1>3, <1>4, <1>5, <1>6, <1>7, <1>8 DEF Fix

LEMMA AppStep == TypeOK /\ AppInv /\ [Next]_vars => AppInv'
<1>. SUFFICES ASSUME TypeOK, AppInv, [Next]_vars PROVE AppInv'
  OBVIOUS
<1>0. ASSUME UNCHANGED <<client, gaveUp, misled>>,
             \A c \in Calls : <<c, "app">> \in agents' => <<c, "app">> \in agents
      PROVE  AppInv'
  BY <1>0, AppKept DEF AppInv, MisledByGivenUp
<1>1. ASSUME NEW c \in Calls, NEW way \in Ways, Orphan(c, way) PROVE AppInv'
  BY <1>0, <1>1 DEF Orphan, AgentEnds, calls
<1>2. ASSUME NEW d \in Daemons, Work(d) PROVE AppInv'
  <2>1. CASE Execute(d)
    BY <1>0, <2>1 DEF Execute, calls
  <2>2. CASE Executed(d)
    BY <1>0, <2>2 DEF Executed, AgentEnds, calls
  <2>3. CASE ~Execute(d) /\ ~Executed(d)
    BY <1>0, <1>2, <2>3 DEF Work, Ready, Lease, Refuse, ExecTimeout,
       OpenResult, WriteResult, File, calls, history
  <2>. QED  BY <2>1, <2>2, <2>3
<1>3. ASSUME NEW d \in Daemons, StartDaemon(d) \/ Crash(d) \/ Quit(d)
      PROVE  AppInv'
  BY <1>0, <1>3 DEF StartDaemon, Crash, Quit, calls, history
<1>4. CASE UNCHANGED vars
  BY <1>0, <1>4 DEF vars
<1>. QED  BY <1>1, <1>2, <1>3, <1>4, AppFix DEF Next

(***************************************************************************)
(* Until a call is given up, a daemon ends or stops waiting, every agent   *)
(* is one that somebody waits for.                                         *)
(***************************************************************************)

Calm == gaveUp = {} /\ ends = 0 /\ ~hung

\* There is no result before a request.
ResultLast == \A c \in Calls : req[c] = "none" => result[c] = "none"

\* A request that no daemon has finished has its call waiting for it.
AtPoll(c) == client[c] = "poll" /\ result[c] = "none"
Awaited ==
    /\ \A c \in Calls : req[c] = "incoming" => AtPoll(c)
    /\ \A d \in Daemons : dpc[d] \in {"leased", "exec", "result"} => AtPoll(dreq[d])

AgentsFit == \A c \in Calls, way \in Ways : <<c, way>> \in agents => Waiting(c, way)

CalmInv == ResultLast /\ (Calm => Awaited /\ AgentsFit)

LEMMA CalmInit == Init => CalmInv
BY DEF Init, CalmInv, ResultLast, Awaited, AgentsFit

\* Calm never returns.
LEMMA CalmBefore == ASSUME TypeOK, [Next]_vars, Calm' PROVE Calm
<1>. USE DEF Calm, TypeOK, calls, daemons, history
<1>1. ASSUME NEW c \in Calls, Call(c) \/ Fix(c) \/ KillCall(c) PROVE Calm
  BY <1>1 DEF Call, Fix, KillCall, AskAppServer, NoAppServer, AppServerAnswers, AppServerTimeout,
     Pick, Queue, SeeResult, GiveUp, Direct, DirectEnds
<1>2. ASSUME NEW d \in Daemons, StartDaemon(d) \/ Work(d) PROVE Calm
  BY <1>2 DEF StartDaemon, Work, Ready, Lease, Refuse, Execute, Executed, ExecTimeout, OpenResult,
     WriteResult, File
<1>3. ASSUME NEW d \in Daemons, Crash(d) \/ Quit(d) PROVE Calm
  BY <1>3, BoundsAssumption DEF Crash, Quit
<1>4. ASSUME NEW c \in Calls, NEW way \in Ways, Orphan(c, way) PROVE Calm
  BY <1>4 DEF Orphan
<1>5. CASE UNCHANGED vars
  BY <1>5 DEF vars
<1>. QED  BY <1>1, <1>2, <1>3, <1>4, <1>5 DEF Next

LEMMA ResultStep == ASSUME TypeOK, OneHolder, ResultLast, [Next]_vars PROVE ResultLast'
<1>. USE DEF TypeOK, ResultLast, calls, daemons, history
<1>1. ASSUME NEW c \in Calls, Call(c) \/ Fix(c) \/ KillCall(c) PROVE ResultLast'
  BY <1>1 DEF Call, Fix, KillCall, AskAppServer, NoAppServer, AppServerAnswers, AppServerTimeout,
     Pick, Queue, SeeResult, GiveUp, Direct, DirectEnds
<1>2. ASSUME NEW d \in Daemons, Lease(d) PROVE ResultLast'
  BY <1>2 DEF Lease
<1>3. ASSUME NEW d \in Daemons, OpenResult(d) \/ WriteResult(d) \/ File(d) PROVE ResultLast'
  <2>1. dreq[d] \in Calls /\ req[dreq[d]] = "leased"
    BY <1>3 DEF OpenResult, WriteResult, File, Turns, OneHolder, Working
  <2>. QED  BY <1>3, <2>1 DEF OpenResult, WriteResult, File, Outcome
<1>4. ASSUME NEW d \in Daemons,
             StartDaemon(d) \/ Ready(d) \/ Refuse(d) \/ Execute(d) \/ Executed(d) \/ ExecTimeout(d)
             \/ Crash(d) \/ Quit(d)
      PROVE  ResultLast'
  BY <1>4 DEF StartDaemon, Ready, Refuse, Execute, Executed, ExecTimeout, Crash, Quit
<1>5. ASSUME NEW c \in Calls, NEW way \in Ways, Orphan(c, way) PROVE ResultLast'
  BY <1>5 DEF Orphan
<1>6. CASE UNCHANGED vars
  BY <1>6 DEF vars
<1>. QED  BY <1>1, <1>2, <1>3, <1>4, <1>5, <1>6 DEF Next, Work

\* What a step of a call must keep: its own agents and its own request.
LEMMA CallFits ==
    ASSUME TypeOK, OneHolder, Awaited, AgentsFit, NEW c \in Calls,
           UNCHANGED <<result, dpc, dreq>>,
           \A b \in Calls \ {c} : client'[b] = client[b] /\ req'[b] = req[b],
           \A b \in Calls \ {c}, way \in Ways : <<b, way>> \in agents' => <<b, way>> \in agents,
           \A way \in Ways : <<c, way>> \in agents' => Waiting(c, way)',
           client[c] = "poll" /\ result[c] = "none" => client'[c] = "poll",
           req'[c] = "incoming" => req[c] = "incoming" \/ (client'[c] = "poll" /\ result[c] = "none")
    PROVE  Awaited' /\ AgentsFit'
<1>1. \A d \in Daemons : dpc[d] \in {"leased", "exec", "result"} => dreq[d] \in Calls
  BY DEF OneHolder, Working
<1>2. Awaited'
  BY <1>1 DEF Awaited, AtPoll
<1>3. AgentsFit'
  BY DEF AgentsFit, Waiting
<1>. QED  BY <1>2, <1>3

LEMMA CallCalm ==
    ASSUME TypeOK, OneHolder, QueuedOnce, OneActive, ResultLast, Awaited, AgentsFit, NEW c \in Calls,
           gaveUp' = {}, Call(c) \/ Fix(c) \/ KillCall(c)
    PROVE  Awaited' /\ AgentsFit'
<1>. USE DEF TypeOK, GoesTo, daemons, history
<1>1. \A way \in Ways : <<c, way>> \in agents => Waiting(c, way)
  BY DEF AgentsFit
<1>2. CASE Call(c) \/ AskAppServer(c) \/ NoAppServer(c) \/ Pick(c)
  <2>1. \A way \in Ways : <<c, way>> \notin agents
    BY <1>1, <1>2 DEF Call, AskAppServer, NoAppServer, Pick, Waiting, Awaited, AtPoll
  <2>2. \A way \in Ways : <<c, way>> \in agents' => Waiting(c, way)'
    BY <1>2, <2>1 DEF Call, AskAppServer, NoAppServer, Pick, Waiting
  <2>. QED  BY <1>2, <2>2, CallFits DEF Call, AskAppServer, NoAppServer, Pick
<1>3. CASE AppServerAnswers(c)
  <2>1. PICK b \in Calls, well \in BOOLEAN : /\ <<b, "app">> \in agents
                                             /\ AgentEnds(b, "app", well)
                                             /\ GoesTo(c, IF well THEN "ok" ELSE "pick")
    BY <1>3 DEF AppServerAnswers
  <2>2. client[c] = "inapp" /\ UNCHANGED <<req, result, dpc, dreq>>
    BY <1>3 DEF AppServerAnswers
  <2>3. client[b] = "inapp"
    BY <2>1 DEF AgentsFit, Waiting, Ways
  <2>4. b = c
    BY <2>2, <2>3 DEF OneActive, Active
  <2>5. agents' = agents \ {<<c, "app">>}
    BY <2>1, <2>4 DEF AgentEnds
  <2>6. \A way \in Ways : <<c, way>> \notin agents'
    BY <1>1, <2>2, <2>5 DEF Waiting, Awaited, AtPoll
  <2>. QED  BY <2>1, <2>2, <2>5, <2>6, CallFits
<1>4. CASE Queue(c)
  <2>1. \A way \in Ways : <<c, way>> \notin agents
    BY <1>1, <1>4 DEF Queue, Waiting, Awaited, AtPoll
  <2>2. result[c] = "none"
    BY <1>4 DEF Queue, QueuedOnce, ResultLast
  <2>. QED  BY <1>4, <2>1, <2>2, CallFits DEF Queue
<1>5. CASE SeeResult(c)
  <2>1. \A way \in Ways : <<c, way>> \notin agents
    BY <1>1, <1>5 DEF SeeResult, Waiting, Awaited, AtPoll
  <2>. QED  BY <1>5, <2>1, CallFits DEF SeeResult
<1>6. CASE Direct(c)
  <2>1. \A way \in Ways : <<c, way>> \notin agents
    BY <1>1, <1>6 DEF Direct, Waiting, Awaited, AtPoll
  <2>2. \A way \in Ways : <<c, way>> \in agents' => Waiting(c, way)'
    BY <1>6, <2>1 DEF Direct, Waiting
  <2>. QED  BY <1>6, <2>2, CallFits DEF Direct
<1>7. CASE DirectEnds(c)
  <2>1. \A way \in Ways : <<c, way>> \notin agents'
    BY <1>1, <1>7 DEF DirectEnds, AgentEnds, Waiting, Awaited, AtPoll
  <2>. QED  BY <1>7, <2>1, CallFits DEF DirectEnds, AgentEnds
<1>8. CASE AppServerTimeout(c) \/ GiveUp(c) \/ KillCall(c)
  BY <1>8 DEF AppServerTimeout, GiveUp, KillCall
<1>. QED  BY <1>2, <1>3, <1>4, <1>5, <1>6, <1>7, <1>8 DEF Fix

LEMMA WorkCalm ==
    ASSUME TypeOK, OneHolder, Awaited, AgentsFit, NEW d \in Daemons, ~hung', Work(d)
    PROVE  Awaited' /\ AgentsFit'
<1>. USE DEF TypeOK, Turns, calls, history
<1>1. Working(d) => dreq[d] \in Calls /\ \A e \in Daemons \ {d} : Working(e) => dreq[e] # dreq[d]
  BY DEF OneHolder
<1>2. CASE Ready(d) \/ Refuse(d)
  <2>1. UNCHANGED <<client, req, result, dreq, agents>> /\ dpc[d] \in {"boot", "leased"}
        /\ dpc'[d] \in {"idle", "result"} /\ (dpc'[d] = "result" => dpc[d] = "leased")
        /\ \A e \in Daemons \ {d} : dpc'[e] = dpc[e]
    BY <1>2 DEF Ready, Refuse
  <2>2. Awaited'
    BY <2>1 DEF Awaited, AtPoll
  <2>3. AgentsFit'
    BY <2>1 DEF AgentsFit, Waiting
  <2>. QED  BY <2>2, <2>3
<1>3. CASE Lease(d)
  <2>1. PICK c \in Calls : First(c) /\ dreq' = [dreq EXCEPT ![d] = c]
                           /\ req' = [req EXCEPT ![c] = "leased"]
    BY <1>3 DEF Lease
  <2>2. req[c] = "incoming" /\ AtPoll(c)
    BY <2>1 DEF First, Incoming, Awaited
  <2>3. UNCHANGED <<client, result, agents>> /\ dpc[d] = "idle" /\ dpc' = [dpc EXCEPT ![d] = "leased"]
    BY <1>3 DEF Lease
  <2>4. Awaited'
    BY <2>1, <2>2, <2>3 DEF Awaited, AtPoll
  <2>5. AgentsFit'
    BY <2>1, <2>3 DEF AgentsFit, Waiting
  <2>. QED  BY <2>4, <2>5
<1>4. CASE Execute(d)
  <2>1. UNCHANGED <<client, req, result, dreq>> /\ dpc[d] = "leased"
        /\ dpc' = [dpc EXCEPT ![d] = "exec"] /\ agents' = agents \union {<<dreq[d], "daemon">>}
    BY <1>4 DEF Execute
  <2>2. Awaited'
    BY <2>1 DEF Awaited, AtPoll
  <2>3. AgentsFit'
    BY <2>1 DEF AgentsFit, Waiting
  <2>. QED  BY <2>2, <2>3
<1>5. CASE Executed(d)
  <2>1. UNCHANGED <<client, req, result, dreq>> /\ dpc[d] = "exec"
        /\ dpc' = [dpc EXCEPT ![d] = "result"] /\ agents' = agents \ {<<dreq[d], "daemon">>}
    BY <1>5 DEF Executed, AgentEnds
  <2>2. Awaited'
    BY <2>1 DEF Awaited, AtPoll
  <2>3. AgentsFit'
    BY <2>1 DEF AgentsFit, Waiting
  <2>. QED  BY <2>2, <2>3
<1>6. CASE OpenResult(d) \/ WriteResult(d) \/ File(d)
  <2>1. /\ client' = client /\ agents' = agents
        /\ dpc[d] \in {"result", "write", "file"} /\ dpc'[d] \notin {"leased", "exec", "result"}
        /\ \A e \in Daemons \ {d} : dpc'[e] = dpc[e] /\ dreq'[e] = dreq[e]
    BY <1>6 DEF OpenResult, WriteResult, File
  <2>2. dreq[d] \in Calls /\ \A c \in Calls \ {dreq[d]} : req'[c] = req[c] /\ result'[c] = result[c]
    BY <1>1, <1>6, <2>1 DEF OpenResult, WriteResult, File, Working
  <2>3. req'[dreq[d]] # "incoming"
    BY <1>1, <1>6, <2>1 DEF OpenResult, WriteResult, File, Working, OneHolder
  <2>4. \A e \in Daemons : dpc'[e] \in {"leased", "exec", "result"} =>
            e # d /\ dpc[e] = dpc'[e] /\ dreq'[e] = dreq[e] /\ dreq[e] # dreq[d] /\ dreq[e] \in Calls
    BY <1>1, <2>1 DEF Working, OneHolder
  <2>5. Awaited'
    BY <2>1, <2>2, <2>3, <2>4 DEF Awaited, AtPoll
  <2>6. AgentsFit'
    BY <2>1 DEF AgentsFit, Waiting
  <2>. QED  BY <2>5, <2>6
<1>7. CASE ExecTimeout(d)
  BY <1>7 DEF ExecTimeout
<1>. QED  BY <1>2, <1>3, <1>4, <1>5, <1>6, <1>7 DEF Work

LEMMA CalmStep ==
    ASSUME TypeOK, QueuedOnce, OneHolder, OneActive, CalmInv, [Next]_vars
    PROVE  CalmInv'
<1>1. ResultLast /\ ResultLast'
  BY ResultStep DEF CalmInv
<1>. SUFFICES ASSUME Calm' PROVE Awaited' /\ AgentsFit'
  BY <1>1 DEF CalmInv
<1>2. Awaited /\ AgentsFit
  BY CalmBefore DEF CalmInv
<1>3. gaveUp' = {} /\ ends' = 0 /\ ~hung'
  BY DEF Calm
<1>4. ASSUME NEW c \in Calls, Call(c) \/ Fix(c) \/ KillCall(c) PROVE Awaited' /\ AgentsFit'
  BY <1>1, <1>2, <1>3, <1>4, CallCalm
<1>5. ASSUME NEW d \in Daemons, Work(d) PROVE Awaited' /\ AgentsFit'
  BY <1>2, <1>3, <1>5, WorkCalm
<1>6. ASSUME NEW d \in Daemons, StartDaemon(d) PROVE Awaited' /\ AgentsFit'
  <2>1. /\ UNCHANGED <<client, req, result, agents>> /\ dpc[d] = "off" /\ dpc'[d] = "boot"
        /\ \A e \in Daemons \ {d} : dpc'[e] = dpc[e] /\ dreq'[e] = dreq[e]
    BY <1>6 DEF StartDaemon, Turns, calls, history, TypeOK
  <2>. QED  BY <1>2, <2>1 DEF Awaited, AtPoll, AgentsFit, Waiting
<1>7. ASSUME NEW d \in Daemons, Crash(d) \/ Quit(d) PROVE FALSE
  BY <1>3, <1>7 DEF Crash, Quit, TypeOK
<1>8. ASSUME NEW c \in Calls, NEW way \in Ways, Orphan(c, way) PROVE FALSE
  BY <1>2, <1>8 DEF Orphan, AgentsFit
<1>9. CASE UNCHANGED vars
  BY <1>2, <1>9 DEF vars, Awaited, AtPoll, AgentsFit, Waiting
<1>. QED  BY <1>4, <1>5, <1>6, <1>7, <1>8, <1>9 DEF Next

\* Calls come one at a time, and each stands where one agent at most is waited for.
LEMMA FitsOne ==
    ASSUME TypeOK, OneActive, Awaited, AgentsFit
    PROVE  Cardinality(agents) <= 1
<1>1. ASSUME NEW p \in agents, NEW q \in agents PROVE p = q
  <2>1. PICK b \in Calls, v \in Ways : p = <<b, v>>
    BY DEF TypeOK
  <2>2. PICK c \in Calls, w \in Ways : q = <<c, w>>
    BY DEF TypeOK
  <2>3. Waiting(b, v) /\ Waiting(c, w)
    BY <2>1, <2>2 DEF AgentsFit
  <2>4. /\ <<v, client[b]>> \in {<<"direct", "indirect">>, <<"app", "inapp">>, <<"daemon", "poll">>}
        /\ <<w, client[c]>> \in {<<"direct", "indirect">>, <<"app", "inapp">>, <<"daemon", "poll">>}
    BY <2>3 DEF Waiting, Awaited, AtPoll
  <2>5. b = c
    BY <2>4 DEF OneActive, Active
  <2>. QED  BY <2>1, <2>2, <2>4, <2>5
<1>2. agents = {} \/ \E p \in agents : agents = {p}
  BY <1>1
<1>3. Cardinality({}) = 0 /\ \A p : Cardinality({p}) = 1
  BY FS_EmptySet, FS_Singleton
<1>4. CASE agents = {}
  BY <1>3, <1>4
<1>5. ASSUME NEW p \in agents, agents = {p} PROVE Cardinality(agents) <= 1
  <2>1. Cardinality(agents) = 1
    BY <1>3, <1>5, Zenon
  <2>. QED  BY <2>1
<1>. QED  BY <1>2, <1>4, <1>5

LEMMA AllInductive == Spec => [](TypeOK /\ QueuedOnce /\ Held /\ AppInv /\ CalmInv)
<1>1. Init => TypeOK /\ QueuedOnce /\ Held /\ AppInv /\ CalmInv
  BY TypeInit, QueuedInit, InvInit, AppInit, CalmInit
<1>2. TypeOK /\ QueuedOnce /\ Held /\ AppInv /\ CalmInv /\ [Next]_vars
        => (TypeOK /\ QueuedOnce /\ Held /\ AppInv /\ CalmInv)'
  BY TypeStep, QueuedStep, InvStep, AppStep, CalmStep DEF Held, AppInv
<1>. QED  BY <1>1, <1>2, PTL DEF Spec

\* Every variable of the repair queue keeps its type.
THEOREM TypeCorrect == Spec => []TypeOK
BY AllInductive, PTL

\* Leases are exclusive, and a success is passed on only where it was earned:
\* the strengthening that the results below follow from.
THEOREM InvariantCorrect == Spec => []IInv
BY AllInductive, PTL DEF IInv, AppInv

\* No request is executed twice by daemons, however many of them there are and
\* however often they crash.
THEOREM DaemonRunsOnceCorrect == Spec => []DaemonRunsOnce
BY AllInductive, PTL DEF Held

\* A call that reports success was repaired by an agent of its own, or misled.
THEOREM OkIsEarnedCorrect == Spec => []OkIsEarned
BY AllInductive, PTL DEF Held

\* As long as no call is given up, nobody takes the answer to another call.
THEOREM MisledByGivenUpCorrect == Spec => []MisledByGivenUp
BY AllInductive, PTL DEF AppInv

\* done/ and failed/ hold what the results say.
THEOREM FiledAsReportedCorrect == Spec => []FiledAsReported
BY AllInductive, PTL DEF Held

\* Until a call is given up, a daemon ends or stops waiting for its agent: whichever way
\* the repairs take, and however many daemons there are, one agent at most edits the target.
THEOREM OneAgentCorrect == Spec => []OneAgent
<1>1. TypeOK /\ AppInv /\ CalmInv => OneAgent
  BY FitsOne DEF AppInv, CalmInv, Calm, OneAgent
<1>. QED  BY <1>1, AllInductive, PTL
=============================================================================
