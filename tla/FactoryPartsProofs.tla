------------------------- MODULE FactoryPartsProofs -------------------------
(***************************************************************************)
(* Proofs about the parts of the factory and of the swarm: task_state.json,*)
(* POST /build and the evolution evaluation, for any jobs, processes and   *)
(* requests, clocks, campaigns and logs; and of all the parts side by side.*)
(***************************************************************************)
EXTENDS FactoryParts, SwarmFoldProofs
-----------------------------------------------------------------------------
(* task_state.json.                                                        *)

LEMMA StateTypeInit == Init => TypeOK
<1>1. Init => kills \in 0 .. MaxKills
  BY BoundsAssumption DEF Init
<1>2. Init => blank \in BOOLEAN /\ calm \in BOOLEAN
  BY Zenon DEF Init
<1>. QED  BY <1>1, <1>2 DEF Init, TypeOK, Rows, NoRows

LEMMA StateLoadType == TypeOK => LoadState \in Rows
BY DEF TypeOK, LoadState, Rows, NoRows

LEMMA StateTypeStep == TypeOK /\ [Next]_vars => TypeOK'
<1>. SUFFICES ASSUME TypeOK, [Next]_vars PROVE TypeOK'
  OBVIOUS
<1>. USE DEF TypeOK
<1>1. ASSUME NEW p \in Procs, Update(p) PROVE TypeOK'
  <2>1. PICK j \in Jobs, s \in States :
          /\ wants' = [wants EXCEPT ![p] = <<j, s>>]
          /\ data' = [data EXCEPT ![p] = [LoadState EXCEPT ![j] = s]]
    BY <1>1 DEF Update
  <2>2. [LoadState EXCEPT ![j] = s] \in Rows
    BY StateLoadType DEF Rows
  <2>. QED  BY <1>1, <2>1, <2>2 DEF Update
<1>2. ASSUME NEW p \in Procs, Truncate(p) PROVE TypeOK'
  BY <1>2 DEF Truncate
<1>3. ASSUME NEW p \in Procs, Write(p) PROVE TypeOK'
  <2>1. wants[p][1] \in Jobs /\ wants[p][2] \in States
    OBVIOUS
  <2>2. [said EXCEPT ![wants[p][1]] = wants[p][2]] \in Rows
    BY <2>1 DEF Rows
  <2>. QED  BY <1>3, <2>2 DEF Write
<1>4. ASSUME NEW p \in Procs, Kill(p) PROVE TypeOK'
  BY <1>4, BoundsAssumption DEF Kill
<1>5. CASE UNCHANGED vars
  BY <1>5 DEF vars
<1>. QED  BY <1>1, <1>2, <1>3, <1>4, <1>5 DEF Next

LEMMA OneUpdateInit == Init => OneUpdate
BY DEF Init, OneUpdate, Idle

LEMMA OneUpdateStep == TypeOK /\ OneUpdate /\ [Next]_vars => OneUpdate'
<1>. SUFFICES ASSUME TypeOK, OneUpdate, [Next]_vars, calm' PROVE OneUpdate'
  BY DEF OneUpdate
<1>1. ASSUME NEW p \in Procs, Update(p) PROVE OneUpdate'
  <2>1. calm /\ \A q \in Procs : Idle(q)
    BY <1>1 DEF Update
  <2>2. file = said /\ LoadState = said
    BY <2>1, NamesAssumption DEF OneUpdate, Idle, LoadState, TypeOK, Rows
  <2>3. PICK j \in Jobs, s \in States :
          /\ wants' = [wants EXCEPT ![p] = <<j, s>>]
          /\ data' = [data EXCEPT ![p] = [said EXCEPT ![j] = s]]
    BY <1>1, <2>2 DEF Update
  <2>4. /\ wants'[p] = <<j, s>> /\ data'[p] = [said EXCEPT ![j] = s]
        /\ pc'[p] = "loaded" /\ \A q \in Procs \ {p} : pc'[q] = "off"
        /\ UNCHANGED <<file, said>>
    BY <1>1, <2>1, <2>3 DEF Update, TypeOK, Idle
  <2>. QED  BY <2>2, <2>4 DEF OneUpdate, Idle
<1>2. ASSUME NEW p \in Procs, Truncate(p) PROVE OneUpdate'
  <2>1. /\ calm /\ pc[p] = "loaded" /\ pc'[p] = "open" /\ blank'
        /\ \A q \in Procs \ {p} : pc'[q] = pc[q]
        /\ UNCHANGED <<data, said, wants>>
    BY <1>2 DEF Truncate, TypeOK
  <2>. QED  BY <2>1 DEF OneUpdate, Idle
<1>3. ASSUME NEW p \in Procs, Write(p) PROVE OneUpdate'
  <2>1. calm /\ pc[p] = "open" /\ blank /\ \A q \in Procs \ {p} : pc[q] = "off"
    BY <1>3 DEF Write, OneUpdate, Idle
  <2>2. file' = data[p] /\ said' = data[p] /\ \A q \in Procs : pc'[q] = "off"
    BY <1>3, <2>1 DEF Write, OneUpdate, Idle, TypeOK
  <2>. QED  BY <2>2 DEF OneUpdate, Idle
<1>4. ASSUME NEW p \in Procs, Kill(p) PROVE OneUpdate'
  <2>1. /\ calm /\ pc[p] = "loaded" /\ pc'[p] = "off"
        /\ \A q \in Procs \ {p} : pc'[q] = pc[q]
        /\ UNCHANGED <<file, data, blank, said, wants>>
    BY <1>4 DEF Kill, TypeOK
  <2>. QED  BY <2>1 DEF OneUpdate, Idle
<1>5. CASE UNCHANGED vars
  BY <1>5 DEF vars, OneUpdate, Idle
<1>. QED  BY <1>1, <1>2, <1>3, <1>4, <1>5 DEF Next

LEMMA StateInductive == Spec => [](TypeOK /\ OneUpdate)
<1>1. Init => TypeOK /\ OneUpdate
  BY StateTypeInit, OneUpdateInit
<1>2. TypeOK /\ OneUpdate /\ [Next]_vars => (TypeOK /\ OneUpdate)'
  BY StateTypeStep, OneUpdateStep
<1>. QED  BY <1>1, <1>2, PTL DEF Spec

\* Every variable keeps its type; the file is never anything but rows or broken.
THEOREM StateTypeCorrect == Spec => []TypeOK
BY StateInductive, PTL

\* One update at a time carries the last updates of all jobs and its own.
THEOREM OneUpdateCorrect == Spec => []OneUpdate
BY StateInductive, PTL

\* Without overlapping updates and without a kill while the file is open,
\* task_state.json loses no update of any job.
THEOREM CalmFileIsCompleteCorrect == Spec => []CalmFileIsComplete
<1>1. OneUpdate => CalmFileIsComplete
  BY DEF OneUpdate, CalmFileIsComplete, Quiet, Idle
<1>. QED  BY <1>1, StateInductive, PTL
-----------------------------------------------------------------------------
(* POST /build: the invariant.                                             *)

Holding == {"open", "answered"}

\* A file is there when its request has opened it, under the request's job id or renamed.
FileHasName == \A f \in Requests : place[f] # "none" =>
    thread[f] \in Holding /\ name[f] \in {jobId[f], Renamed}

\* The lower indices of a second are the job ids of other requests.
IndicesInUse == \A r \in Requests : \A i \in 0 .. jobId[r][2] - 1 :
    \E g \in Requests \ {r} : thread[g] \in Holding /\ jobId[g] = <<jobId[r][1], i>>

\* Two that stand between the test of one name and its open have raced,
RivalsRaced == \A p, q \in Requests :
    thread[p] = "free" /\ thread[q] = "free" /\ p # q /\ jobId[p] = jobId[q] => {p, q} \subseteq raced

\* and so have a request and the file that took the name it had found free.
TakenRaced == \A q \in Requests : thread[q] = "free" =>
    \A f \in Named("incoming", jobId[q]) : {f, q} \subseteq raced

\* Who did not race writes its own file, and no one else does.
OwnFile == \A r \in Requests : thread[r] \in Holding =>
    /\ opened[r] \in Requests
    /\ r \notin raced => opened[r] = r /\ place[r] # "none"
    /\ opened[r] # r => opened[r] \in raced

\* Where a poll that has come to directory d, and the ones before it, may still look.
Onward(d) ==
    CASE d = "incoming" -> Queue [] d = "leased" -> Queue \ {"incoming"}
      [] d = "done" -> {"done", "failed"} [] d = "failed" -> {"failed"} [] OTHER -> {}

\* A job id that was given away names a file in some directory,
JobExists == \A r \in Requests : thread[r] \in Holding => \E d \in Queue : Named(d, jobId[r]) # {}

\* and a poll has not passed all of them, unless one went back.
AheadOfPoll == looking \in Queue /\ ~wentBack => \E d \in Onward(looking) : Named(d, wanted) # {}

ApiInv ==
    /\ ApiTypeOK /\ FileHasName /\ IndicesInUse /\ RivalsRaced /\ TakenRaced
    /\ OwnFile /\ JobExists /\ AheadOfPoll /\ ApiHolds
-----------------------------------------------------------------------------
(* The types.  The index of a name is bounded by the number of requests:   *)
(* the loop that looks for a free name ends.                               *)

\* A job id is no renamed file's name.
LEMMA IdIsNotRenamed == Renamed \notin JobIds
BY ApiAssumption DEF Renamed, JobIds

\* A candidate that is taken, and the ones below it, are the job ids of other requests.
LEMMA CandidateInUse ==
    ASSUME ApiInv, NEW r \in Requests, thread[r] = "naming", Named("incoming", jobId[r]) # {}
    PROVE  \A i \in 0 .. jobId[r][2] :
              \E g \in Requests \ {r} : thread[g] \in Holding /\ jobId[g] = <<jobId[r][1], i>>
<1> DEFINE n == jobId[r][2]
           sec == jobId[r][1]
<1>0. jobId[r] \in JobIds /\ jobId[r] = <<sec, n>> /\ n \in Nat
  BY ApiAssumption, FS_CardinalityType DEF ApiInv, ApiTypeOK, JobIds
<1>1. PICK f \in Requests : place[f] = "incoming" /\ name[f] = jobId[r]
  BY DEF Named
<1>2. thread[f] \in Holding /\ jobId[f] = <<sec, n>> /\ f # r
  BY <1>0, <1>1, IdIsNotRenamed DEF ApiInv, FileHasName, Holding
<1> SUFFICES ASSUME NEW i \in 0 .. n
             PROVE  \E g \in Requests \ {r} : thread[g] \in Holding /\ jobId[g] = <<sec, i>>
  OBVIOUS
<1>3. CASE i = n
  BY <1>2, <1>3
<1>4. CASE i # n
  <2>1. i \in 0 .. jobId[r][2] - 1
    BY <1>0, <1>4
  <2> QED  BY <2>1 DEF ApiInv, IndicesInUse
<1> QED  BY <1>3, <1>4

\* So there are more requests than indices below it.
LEMMA IndexIsBounded ==
    ASSUME ApiInv, NEW r \in Requests, thread[r] = "naming", Named("incoming", jobId[r]) # {}
    PROVE  jobId[r][2] + 1 \in 0 .. Cardinality(Requests)
<1> DEFINE n == jobId[r][2]
           sec == jobId[r][1]
           user == [i \in 0 .. n |->
               CHOOSE g \in Requests \ {r} : thread[g] \in Holding /\ jobId[g] = <<sec, i>>]
<1>0. n \in Nat /\ Cardinality(Requests) \in Nat
  BY ApiAssumption, FS_CardinalityType DEF ApiInv, ApiTypeOK, JobIds
<1>3. \A i \in 0 .. n : \E g \in Requests \ {r} : thread[g] \in Holding /\ jobId[g] = <<sec, i>>
  BY CandidateInUse
<1>4. \A i \in 0 .. n : user[i] \in Requests \ {r} /\ jobId[user[i]] = <<sec, i>>
  BY <1>3
<1>5. user \in Injection(0 .. n, Requests \ {r})
  <2>1. user \in [0 .. n -> Requests \ {r}]
    BY <1>4
  <2>2. \A i, j \in 0 .. n : user[i] = user[j] => i = j
    <3> SUFFICES ASSUME NEW i \in 0 .. n, NEW j \in 0 .. n, user[i] = user[j] PROVE i = j
      OBVIOUS
    <3>1. <<sec, i>> = <<sec, j>>
      BY <1>4
    <3> QED  BY <3>1
  <2> HIDE DEF user
  <2> QED  BY <2>1, <2>2 DEF Injection, IsInjective
<1> HIDE DEF user
<1>6. IsFiniteSet(Requests \ {r}) /\ Cardinality(Requests \ {r}) = Cardinality(Requests) - 1
  BY FS_RemoveElement, ApiAssumption
<1>7. Cardinality(0 .. n) <= Cardinality(Requests \ {r})
  BY <1>5, <1>6, FS_Injection
<1>8. Cardinality(0 .. n) = n + 1
  BY <1>0, FS_Interval
<1> QED  BY <1>0, <1>6, <1>7, <1>8

\* Every step keeps the types.
LEMMA ApiTypeStep == ASSUME ApiInv, [ApiNext]_apiVars PROVE ApiTypeOK'
<1> USE DEF ApiTypeOK, buildVars, fileVars, pollVars
<1>0. ApiTypeOK /\ Requests \subseteq Nat \ {0} /\ NoFile \notin Requests
  BY ApiAssumption DEF ApiInv, NoFile
<1>1. CASE NextSecond
  BY <1>0, <1>1, ApiAssumption DEF NextSecond
<1>2. CASE LeaseFile
  BY <1>0, <1>2 DEF LeaseFile, MoveFile, Queue
<1>3. CASE EndRun
  BY <1>0, <1>3 DEF EndRun, MoveFile, Queue
<1>4. CASE RescueLease
  <2>1. PICK f \in Requests :
           LET rivals == {r \in Requests : thread[r] = "free" /\ jobId[r] = name[f]}
           IN  /\ MoveFile(f, "incoming")
               /\ raced' = IF rivals = {} THEN raced ELSE raced \union rivals \union {f}
    BY <1>4 DEF RescueLease
  <2>2. raced' \subseteq Requests
    BY <1>0, <2>1
  <2> QED  BY <1>0, <1>4, <2>1, <2>2, ApiAssumption DEF RescueLease, MoveFile, Queue
<1>5. CASE AskJob
  <2>1. PICK r \in Requests : wanted' = jobId[r]
    BY <1>5 DEF AskJob
  <2>2. wanted' \in JobIds
    BY <1>0, <2>1
  <2> QED  BY <1>0, <1>5, <2>2 DEF AskJob, Queue
<1>6. CASE CheckDirectory
  BY <1>0, <1>6 DEF CheckDirectory, Queue, NextCheck
<1>7. ASSUME NEW r \in Requests, RefuseBuild(r) PROVE ApiTypeOK'
  BY <1>0, <1>7 DEF RefuseBuild, ThreadGoes
<1>8. ASSUME NEW r \in Requests, AcceptBuild(r) PROVE ApiTypeOK'
  <2>1. <<second, 0>> \in JobIds
    BY <1>0, ApiAssumption, FS_CardinalityType DEF JobIds
  <2> QED  BY <1>0, <1>8, <2>1 DEF AcceptBuild, ThreadGoes
<1>9. ASSUME NEW r \in Requests, TestName(r) PROVE ApiTypeOK'
  <2>1. CASE Named("incoming", jobId[r]) # {}
    <3>1. jobId[r][2] + 1 \in 0 .. Cardinality(Requests)
      BY <1>9, <2>1, IndexIsBounded DEF TestName
    <3>2. jobId' = [jobId EXCEPT ![r][2] = @ + 1] /\ UNCHANGED <<thread, raced>>
      BY <1>9, <2>1 DEF TestName
    <3>3. jobId \in [Requests -> JobIds] /\ jobId[r] \in JobIds
      BY <1>0
    <3>4. [jobId[r] EXCEPT ![2] = @ + 1] = <<jobId[r][1], jobId[r][2] + 1>>
      BY <3>3 DEF JobIds
    <3>5. <<jobId[r][1], jobId[r][2] + 1>> \in JobIds
      BY <3>1, <3>3 DEF JobIds
    <3>6. jobId' \in [Requests -> JobIds]
      BY <3>2, <3>3, <3>4, <3>5
    <3> QED  BY <1>0, <1>9, <3>2, <3>6 DEF TestName
  <2>2. CASE Named("incoming", jobId[r]) = {}
    <3>1. raced' \subseteq Requests
      BY <1>0, <1>9, <2>2 DEF TestName
    <3>2. UNCHANGED jobId /\ ThreadGoes(r, "free")
      BY <1>9, <2>2 DEF TestName
    <3> QED  BY <1>0, <1>9, <3>1, <3>2 DEF TestName, ThreadGoes
  <2> QED  BY <2>1, <2>2
<1>10. ASSUME NEW r \in Requests, OpenFile(r) PROVE ApiTypeOK'
  BY <1>0, <1>10 DEF OpenFile, ThreadGoes, Named, Queue, Blank
<1>11. ASSUME NEW r \in Requests, WriteIdea(r) PROVE ApiTypeOK'
  BY <1>0, <1>11 DEF WriteIdea, ThreadGoes
<1>12. CASE UNCHANGED apiVars
  BY <1>0, <1>12 DEF apiVars
<1> QED  BY <1>1, <1>2, <1>3, <1>4, <1>5, <1>6, <1>7, <1>8, <1>9, <1>10, <1>11, <1>12 DEF ApiNext
-----------------------------------------------------------------------------
(* The files.                                                              *)

\* A file that is moved changes its name only where another one has it: no name
\* vanishes from the directory it goes to.
LEMMA MoveFacts ==
    ASSUME ApiTypeOK, NEW f \in Requests, NEW dir \in Queue, place[f] # dir, MoveFile(f, dir)
    PROVE  /\ place'[f] = dir /\ name'[f] \in {name[f], Renamed}
           /\ \A g \in Requests \ {f} : place'[g] = place[g] /\ name'[g] = name[g]
           /\ \E g \in Requests : place'[g] = dir /\ name'[g] = name[f]
<1>1. /\ place'[f] = dir /\ name'[f] = IF Named(dir, name[f]) = {} THEN name[f] ELSE Renamed
      /\ \A g \in Requests \ {f} : place'[g] = place[g] /\ name'[g] = name[g]
  BY DEF MoveFile, ApiTypeOK
<1>2. CASE Named(dir, name[f]) = {}
  BY <1>1, <1>2
<1>3. CASE Named(dir, name[f]) # {}
  <2>1. PICK g \in Requests : place[g] = dir /\ name[g] = name[f]
    BY <1>3 DEF Named
  <2> QED  BY <1>1, <1>3, <2>1
<1> QED  BY <1>1, <1>2, <1>3

\* The steps that move files: the worker, and a rescue, after which the file and whoever
\* had found its name free have raced.
Moves(f, dir) ==
    /\ f \in Requests /\ dir \in Queue /\ place[f] \in Queue /\ place[f] # dir
    /\ raced \subseteq raced'
    /\ dir = "incoming" =>
          /\ wentBack'
          /\ \A r \in Requests : thread[r] = "free" /\ jobId[r] = name[f] => {f, r} \subseteq raced'
    /\ dir # "incoming" => dir \in Onward(place[f])
    /\ MoveFile(f, dir)
    /\ UNCHANGED <<buildVars, idea, wanted, looking>>

LEMMA LeaseMoves == ASSUME ApiInv, LeaseFile PROVE UNCHANGED wentBack /\ \E f, dir : Moves(f, dir)
<1>1. PICK f \in Requests : place[f] = "incoming" /\ MoveFile(f, "leased")
  BY DEF LeaseFile
<1>2. Moves(f, "leased")
  BY <1>1 DEF LeaseFile, Moves, Queue, Onward, pollVars
<1> QED  BY <1>2 DEF LeaseFile, pollVars

LEMMA EndMoves ==
    ASSUME ApiInv, EndRun
    PROVE  UNCHANGED wentBack /\ (UNCHANGED <<buildVars, fileVars, pollVars, raced>> \/ \E f, dir : Moves(f, dir))
<1>1. CASE UNCHANGED <<place, name>>
  BY <1>1 DEF EndRun, fileVars, pollVars
<1>2. CASE place[job] = "leased" /\ \E dir \in {"done", "failed"} : MoveFile(job, dir)
  <2>1. PICK dir \in {"done", "failed"} : MoveFile(job, dir)
    BY <1>2
  <2>2. job \in Requests
    BY DEF EndRun, ApiInv, ApiTypeOK
  <2>3. Moves(job, dir)
    BY <1>2, <2>1, <2>2 DEF EndRun, Moves, Queue, Onward, pollVars
  <2> QED  BY <2>3 DEF EndRun, pollVars
<1> QED  BY <1>1, <1>2 DEF EndRun

LEMMA RescueMoves == ASSUME ApiInv, RescueLease PROVE wentBack' /\ \E f, dir : Moves(f, dir)
<1>1. PICK f \in Requests :
         LET rivals == {r \in Requests : thread[r] = "free" /\ jobId[r] = name[f]}
         IN  /\ place[f] = "leased" /\ MoveFile(f, "incoming")
             /\ raced' = IF rivals = {} THEN raced ELSE raced \union rivals \union {f}
  BY DEF RescueLease
<1>2. raced \subseteq raced' /\ \A r \in Requests : thread[r] = "free" /\ jobId[r] = name[f] => {f, r} \subseteq raced'
  BY <1>1
<1>3. Moves(f, "incoming")
  BY <1>1, <1>2 DEF RescueLease, Moves, Queue
<1> QED  BY <1>3 DEF RescueLease

\* What is named by a job id in a directory from which polls look onward stays so.
LEMMA MoveKeepsNames ==
    ASSUME ApiInv, NEW f, NEW dir, Moves(f, dir), NEW id \in JobIds
    PROVE  /\ (\E d \in Queue : Named(d, id) # {}) => \E d \in Queue : Named(d, id)' # {}
           /\ \A from \in Queue : dir # "incoming" /\ (\E d \in Onward(from) : Named(d, id) # {})
                  => \E d \in Onward(from) : Named(d, id)' # {}
<1>0. /\ f \in Requests /\ place'[f] = dir /\ dir \in Queue /\ name'[f] \in {name[f], Renamed}
      /\ \A g \in Requests \ {f} : place'[g] = place[g] /\ name'[g] = name[g]
      /\ \E g \in Requests : place'[g] = dir /\ name'[g] = name[f]
  BY MoveFacts DEF Moves, ApiInv
<1>1. ASSUME NEW d \in Queue, NEW g \in Named(d, id) PROVE Named(d, id)' # {} \/ (d = place[f] /\ Named(dir, id)' # {})
  <2>1. CASE g = f
    BY <1>0, <1>1, <2>1 DEF Named
  <2>2. CASE g # f
    BY <1>0, <1>1, <2>2 DEF Named
  <2> QED  BY <2>1, <2>2
<1>2. ASSUME NEW from \in Queue, NEW d \in Onward(from), d = place[f], dir # "incoming"
      PROVE  dir \in Onward(from)
  BY <1>2 DEF Moves, Onward, Queue
<1>3. \A from \in Queue : Onward(from) \subseteq Queue
  BY DEF Onward, Queue
<1>4. dir \in Queue
  BY <1>0
<1> QED  BY <1>1, <1>2, <1>3, <1>4
-----------------------------------------------------------------------------
(* The inductive step, for the moves of files.                             *)

\* The conjuncts that speak of threads and files.
Building == FileHasName /\ IndicesInUse /\ RivalsRaced /\ TakenRaced /\ OwnFile /\ JobExists /\ IdeasAreKept

LEMMA MoveStep == ASSUME ApiInv, NEW f, NEW dir, Moves(f, dir) PROVE Building'
<1>0. /\ f \in Requests /\ place'[f] = dir /\ dir \in Queue /\ name'[f] \in {name[f], Renamed}
      /\ \A g \in Requests \ {f} : place'[g] = place[g] /\ name'[g] = name[g]
  BY MoveFacts DEF Moves, ApiInv
<1>1. UNCHANGED <<thread, jobId, opened, idea>> /\ raced \subseteq raced'
  BY DEF Moves, buildVars
<1>2. FileHasName'
  BY <1>0, <1>1 DEF ApiInv, FileHasName, Moves, Queue
<1>3. IndicesInUse' /\ RivalsRaced'
  BY <1>1 DEF ApiInv, IndicesInUse, RivalsRaced
<1>4. TakenRaced'
  <2> SUFFICES ASSUME NEW q \in Requests, thread[q] = "free",
                      NEW g \in Requests, place'[g] = "incoming", name'[g] = jobId[q]
               PROVE  {g, q} \subseteq raced'
    BY <1>1 DEF TakenRaced, Named
  <2>1. name'[g] # Renamed
    BY IdIsNotRenamed DEF ApiInv, ApiTypeOK
  <2>2. CASE g = f
    BY <1>0, <2>1, <2>2 DEF Moves
  <2>3. CASE g # f
    BY <1>0, <1>1, <2>3 DEF ApiInv, TakenRaced, Named
  <2> QED  BY <2>2, <2>3
<1>5. OwnFile'
  BY <1>0, <1>1 DEF ApiInv, OwnFile, Queue
<1>6. JobExists'
  <2> SUFFICES ASSUME NEW r \in Requests, thread[r] \in Holding
               PROVE  \E d \in Queue : Named(d, jobId[r])' # {}
    BY <1>1 DEF JobExists, Named
  <2>1. jobId[r] \in JobIds /\ \E d \in Queue : Named(d, jobId[r]) # {}
    BY DEF ApiInv, ApiTypeOK, JobExists
  <2> QED  BY <2>1, <1>1, MoveKeepsNames DEF Named
<1>7. IdeasAreKept'
  BY <1>0, <1>1 DEF ApiInv, ApiHolds, IdeasAreKept, Queue
<1> QED  BY <1>2, <1>3, <1>4, <1>5, <1>6, <1>7 DEF Building

\* A move forward passes no poll.
LEMMA MoveForward ==
    ASSUME ApiInv, NEW f, NEW dir, Moves(f, dir), UNCHANGED wentBack
    PROVE  AheadOfPoll'
<1> SUFFICES ASSUME looking' \in Queue, ~wentBack'
             PROVE  \E d \in Onward(looking)' : Named(d, wanted)' # {}
  BY DEF AheadOfPoll
<1>1. UNCHANGED <<wanted, looking>>
  BY DEF Moves
<1>2. looking \in Queue /\ wanted \in JobIds /\ \E d \in Onward(looking) : Named(d, wanted) # {}
  BY <1>1 DEF ApiInv, ApiTypeOK, AheadOfPoll
<1>3. dir # "incoming"
  BY DEF Moves
<1>4. PICK d \in Onward(looking) : Named(d, wanted)' # {}
  <2> DEFINE id == wanted
  <2>1. id \in JobIds
    BY <1>2
  <2>2. \E d \in Onward(looking) : {g \in Requests : place'[g] = d /\ name'[g] = id} # {}
    BY <1>2, <1>3, MoveKeepsNames DEF Named
  <2> QED  BY <1>1, <2>2 DEF Named
<1> QED  BY <1>1, <1>4 DEF Onward
-----------------------------------------------------------------------------
(* The inductive step, for the build threads.                              *)

LEMMA RefuseStep == ASSUME ApiInv, NEW r \in Requests, RefuseBuild(r) PROVE Building'
<1>1. /\ thread[r] = "off" /\ thread' = [thread EXCEPT ![r] = "refused"]
      /\ UNCHANGED <<jobId, opened, place, name, idea, raced>>
  BY DEF RefuseBuild, ThreadGoes, fileVars
<1>2. \A q \in Requests : thread'[q] = IF q = r THEN "refused" ELSE thread[q]
  BY <1>1 DEF ApiInv, ApiTypeOK
<1>3. FileHasName' /\ RivalsRaced'
  BY <1>1, <1>2 DEF ApiInv, FileHasName, RivalsRaced, Holding
<1>4. IndicesInUse'
  <2>1. \A g \in Requests : thread[g] \in Holding => thread'[g] \in Holding
    BY <1>1, <1>2 DEF Holding
  <2> QED  BY <1>1, <2>1 DEF ApiInv, IndicesInUse
<1>5. TakenRaced' /\ JobExists'
  BY <1>1, <1>2 DEF ApiInv, TakenRaced, JobExists, Named, Holding
<1>6. OwnFile' /\ IdeasAreKept'
  BY <1>1, <1>2 DEF ApiInv, OwnFile, ApiHolds, IdeasAreKept, Holding
<1> QED  BY <1>3, <1>4, <1>5, <1>6 DEF Building

LEMMA AcceptStep == ASSUME ApiInv, NEW r \in Requests, AcceptBuild(r) PROVE Building'
<1>1. /\ thread[r] = "off" /\ thread' = [thread EXCEPT ![r] = "naming"]
      /\ jobId' = [jobId EXCEPT ![r] = <<second, 0>>]
      /\ UNCHANGED <<opened, place, name, idea, raced>>
  BY DEF AcceptBuild, ThreadGoes, fileVars
<1>2. \A q \in Requests : /\ thread'[q] = IF q = r THEN "naming" ELSE thread[q]
                          /\ jobId'[q] = IF q = r THEN <<second, 0>> ELSE jobId[q]
  BY <1>1 DEF ApiInv, ApiTypeOK
<1>3. FileHasName' /\ RivalsRaced'
  BY <1>1, <1>2 DEF ApiInv, FileHasName, RivalsRaced, Holding
<1>4. IndicesInUse'
  <2> SUFFICES ASSUME NEW q \in Requests, NEW i \in 0 .. jobId'[q][2] - 1
               PROVE  \E g \in Requests \ {q} : thread'[g] \in Holding /\ jobId'[g] = <<jobId'[q][1], i>>
    BY DEF IndicesInUse
  <2>1. q # r
    BY <1>2
  <2>2. PICK g \in Requests \ {q} : thread[g] \in Holding /\ jobId[g] = <<jobId[q][1], i>>
    BY <1>2, <2>1 DEF ApiInv, IndicesInUse
  <2> QED  BY <1>1, <1>2, <2>1, <2>2 DEF Holding
<1>5. TakenRaced' /\ JobExists'
  BY <1>1, <1>2 DEF ApiInv, TakenRaced, JobExists, Named, Holding
<1>6. OwnFile' /\ IdeasAreKept'
  BY <1>1, <1>2 DEF ApiInv, OwnFile, ApiHolds, IdeasAreKept, Holding
<1> QED  BY <1>3, <1>4, <1>5, <1>6 DEF Building

\* The next index, or a name that no file has: those that found it free before raced.
LEMMA TestStep == ASSUME ApiInv, NEW r \in Requests, TestName(r) PROVE Building'
<1>0. thread[r] = "naming" /\ UNCHANGED <<opened, place, name, idea>>
  BY DEF TestName, fileVars
<1>1. CASE Named("incoming", jobId[r]) # {}
  <2>1. jobId' = [jobId EXCEPT ![r][2] = @ + 1] /\ UNCHANGED <<thread, raced>>
    BY <1>1 DEF TestName
  <2>2. /\ \A q \in Requests \ {r} : jobId'[q] = jobId[q]
        /\ jobId'[r] = <<jobId[r][1], jobId[r][2] + 1>> /\ jobId[r][2] \in Nat
    <3>1. jobId \in [Requests -> JobIds] /\ jobId[r] \in JobIds
      BY DEF ApiInv, ApiTypeOK
    <3>2. [jobId[r] EXCEPT ![2] = @ + 1] = <<jobId[r][1], jobId[r][2] + 1>> /\ jobId[r][2] \in Nat
      BY <3>1 DEF JobIds
    <3> QED  BY <2>1, <3>1, <3>2
  <2>3. FileHasName' /\ RivalsRaced' /\ OwnFile' /\ IdeasAreKept'
    BY <1>0, <2>1, <2>2 DEF ApiInv, FileHasName, RivalsRaced, OwnFile, ApiHolds, IdeasAreKept, Holding
  <2>4. IndicesInUse'
    <3> SUFFICES ASSUME NEW q \in Requests, NEW i \in 0 .. jobId'[q][2] - 1
                 PROVE  \E g \in Requests \ {q} : thread'[g] \in Holding /\ jobId'[g] = <<jobId'[q][1], i>>
      BY DEF IndicesInUse
    <3>1. PICK g \in Requests \ {q} : thread[g] \in Holding /\ jobId[g] = <<jobId[q][1], i>>
      <4>1. CASE q = r
        <5>1. i \in 0 .. jobId[r][2]
          BY <2>2, <4>1
        <5> QED  BY <1>0, <1>1, <4>1, <5>1, CandidateInUse
      <4>2. CASE q # r
        BY <2>2, <4>2 DEF ApiInv, IndicesInUse
      <4> QED  BY <4>1, <4>2
    <3>2. g # r /\ jobId'[q][1] = jobId[q][1]
      BY <1>0, <2>2, <3>1 DEF Holding
    <3> QED  BY <2>1, <2>2, <3>1, <3>2
  <2>5. TakenRaced' /\ JobExists'
    BY <1>0, <2>1, <2>2 DEF ApiInv, TakenRaced, JobExists, Named, Holding
  <2> QED  BY <2>3, <2>4, <2>5 DEF Building
<1>2. CASE Named("incoming", jobId[r]) = {}
  <2> DEFINE rivals == {q \in Requests : thread[q] = "free" /\ jobId[q] = jobId[r]}
  <2>1. /\ thread' = [thread EXCEPT ![r] = "free"] /\ UNCHANGED jobId
        /\ raced' = IF rivals = {} THEN raced ELSE raced \union rivals \union {r}
    BY <1>2 DEF TestName, ThreadGoes
  <2>2. /\ \A q \in Requests : thread'[q] = IF q = r THEN "free" ELSE thread[q]
        /\ raced \subseteq raced' /\ raced' \subseteq raced \union rivals \union {r}
        /\ rivals \subseteq raced' /\ (rivals # {} => r \in raced')
    BY <2>1 DEF ApiInv, ApiTypeOK
  <2> HIDE DEF rivals
  <2>3. FileHasName' /\ IndicesInUse'
    BY <1>0, <2>1, <2>2 DEF ApiInv, FileHasName, IndicesInUse, Holding
  <2>4. RivalsRaced'
    <3> SUFFICES ASSUME NEW p \in Requests, NEW q \in Requests, p # q,
                        thread'[p] = "free", thread'[q] = "free", jobId[p] = jobId[q]
                 PROVE  {p, q} \subseteq raced'
      BY <2>1 DEF RivalsRaced
    <3>1. CASE p = r
      BY <2>2, <3>1 DEF rivals
    <3>2. CASE q = r
      BY <2>2, <3>2 DEF rivals
    <3>3. CASE p # r /\ q # r
      BY <2>2, <3>3 DEF ApiInv, RivalsRaced
    <3> QED  BY <3>1, <3>2, <3>3
  <2>5. TakenRaced'
    <3> SUFFICES ASSUME NEW q \in Requests, thread'[q] = "free", NEW f \in Named("incoming", jobId[q])
                 PROVE  {f, q} \subseteq raced'
      BY <1>0, <2>1 DEF TakenRaced, Named
    <3>1. q # r
      BY <1>2
    <3> QED  BY <2>2, <3>1 DEF ApiInv, TakenRaced
  <2>6. OwnFile' /\ IdeasAreKept'
    BY <1>0, <2>2 DEF ApiInv, OwnFile, ApiHolds, IdeasAreKept, Holding
  <2>7. JobExists'
    BY <1>0, <2>1, <2>2 DEF ApiInv, JobExists, Named, Holding
  <2> QED  BY <2>3, <2>4, <2>5, <2>6, <2>7 DEF Building
<1> QED  BY <1>1, <1>2

\* Who did not race opens a file of its own; the file of another one has raced.
LEMMA OpenStep == ASSUME ApiInv, NEW r \in Requests, OpenFile(r) PROVE Building'
<1> DEFINE old == Named("incoming", jobId[r])
           f == IF old = {} THEN r ELSE CHOOSE o \in old : TRUE
<1>1. /\ thread[r] = "free" /\ thread' = [thread EXCEPT ![r] = "open"] /\ UNCHANGED <<jobId, raced>>
      /\ opened' = [opened EXCEPT ![r] = f] /\ idea' = [idea EXCEPT ![f] = Blank]
      /\ place' = [place EXCEPT ![f] = "incoming"] /\ name' = [name EXCEPT ![f] = jobId[r]]
  BY DEF OpenFile, ThreadGoes
<1>2. /\ f \in Requests
      /\ \/ f = r /\ place[f] = "none"
         \/ f \in raced /\ r \in raced /\ place[f] = "incoming" /\ name[f] = jobId[r] /\ thread[f] \in Holding
  <2>1. CASE old = {}
    BY <1>1, <2>1 DEF ApiInv, FileHasName, Holding
  <2>2. CASE old # {}
    <3>1. f \in old
      BY <2>2
    <3>2. f \in Requests /\ place[f] = "incoming" /\ name[f] = jobId[r]
      BY <3>1 DEF Named
    <3>3. {f, r} \subseteq raced
      BY <1>1, <3>1 DEF ApiInv, TakenRaced
    <3> QED  BY <3>2, <3>3 DEF ApiInv, FileHasName
  <2> QED  BY <2>1, <2>2
<1> HIDE DEF f
<1>3. /\ \A q \in Requests : thread'[q] = IF q = r THEN "open" ELSE thread[q]
      /\ \A q \in Requests : opened'[q] = IF q = r THEN f ELSE opened[q]
      /\ \A g \in Requests : /\ idea'[g] = IF g = f THEN Blank ELSE idea[g]
                             /\ place'[g] = IF g = f THEN "incoming" ELSE place[g]
                             /\ name'[g] = IF g = f THEN jobId[r] ELSE name[g]
  BY <1>1, <1>2 DEF ApiInv, ApiTypeOK
<1>4. FileHasName'
  BY <1>1, <1>2, <1>3 DEF ApiInv, FileHasName, Holding
<1>5. IndicesInUse'
  <2>1. \A g \in Requests : thread[g] \in Holding => thread'[g] \in Holding
    BY <1>3 DEF Holding
  <2> QED  BY <1>1, <2>1 DEF ApiInv, IndicesInUse
<1>6. RivalsRaced'
  BY <1>1, <1>3 DEF ApiInv, RivalsRaced
<1>7. TakenRaced'
  <2> SUFFICES ASSUME NEW q \in Requests, thread'[q] = "free",
                      NEW g \in Requests, place'[g] = "incoming", name'[g] = jobId[q]
               PROVE  {g, q} \subseteq raced
    BY <1>1 DEF TakenRaced, Named
  <2>0. thread[q] = "free" /\ q # r
    BY <1>3
  <2>1. CASE g = f /\ f = r
    BY <1>1, <1>3, <2>0, <2>1 DEF ApiInv, RivalsRaced
  <2>2. CASE g # f \/ f # r
    <3>1. place[g] = "incoming" /\ name[g] = jobId[q]
      BY <1>2, <1>3, <2>2
    <3> QED  BY <2>0, <3>1 DEF ApiInv, TakenRaced, Named
  <2> QED  BY <2>1, <2>2
<1>8. OwnFile'
  BY <1>1, <1>2, <1>3 DEF ApiInv, OwnFile, Holding
<1>9. JobExists'
  <2> SUFFICES ASSUME NEW q \in Requests, thread'[q] \in Holding
               PROVE  \E d \in Queue, g \in Requests : place'[g] = d /\ name'[g] = jobId[q]
    BY <1>1 DEF JobExists, Named
  <2>1. CASE q = r
    BY <1>2, <1>3, <2>1 DEF Queue
  <2>2. CASE q # r
    <3>1. PICK d \in Queue, g \in Requests : place[g] = d /\ name[g] = jobId[q]
      BY <1>3, <2>2 DEF ApiInv, JobExists, Named
    <3>2. place'[g] = d /\ name'[g] = jobId[q]
      BY <1>2, <1>3, <3>1 DEF Queue
    <3> QED  BY <3>1, <3>2
  <2> QED  BY <2>1, <2>2
<1>10. IdeasAreKept'
  BY <1>1, <1>2, <1>3 DEF ApiInv, ApiHolds, IdeasAreKept
<1> QED  BY <1>4, <1>5, <1>6, <1>7, <1>8, <1>9, <1>10 DEF Building

LEMMA WriteStep == ASSUME ApiInv, NEW r \in Requests, WriteIdea(r) PROVE Building'
<1>1. /\ thread[r] = "open" /\ thread' = [thread EXCEPT ![r] = "answered"]
      /\ idea' = [idea EXCEPT ![opened[r]] = r]
      /\ UNCHANGED <<jobId, opened, place, name, raced>>
  BY DEF WriteIdea, ThreadGoes
<1>2. \A q \in Requests : thread'[q] = IF q = r THEN "answered" ELSE thread[q]
  BY <1>1 DEF ApiInv, ApiTypeOK
<1>3. /\ opened[r] \in Requests /\ (r \notin raced => opened[r] = r /\ place[r] # "none")
      /\ (opened[r] # r => opened[r] \in raced)
      /\ \A g \in Requests : idea'[g] = IF g = opened[r] THEN r ELSE idea[g]
  BY <1>1 DEF ApiInv, ApiTypeOK, OwnFile, Holding
<1>4. FileHasName' /\ RivalsRaced' /\ OwnFile'
  BY <1>1, <1>2 DEF ApiInv, FileHasName, RivalsRaced, OwnFile, Holding
<1>5. IndicesInUse'
  <2>1. \A g \in Requests : thread[g] \in Holding => thread'[g] \in Holding
    BY <1>2 DEF Holding
  <2> QED  BY <1>1, <2>1 DEF ApiInv, IndicesInUse
<1>6. TakenRaced' /\ JobExists'
  BY <1>1, <1>2 DEF ApiInv, TakenRaced, JobExists, Named, Holding
<1>7. IdeasAreKept'
  BY <1>1, <1>2, <1>3 DEF ApiInv, ApiHolds, IdeasAreKept
<1> QED  BY <1>4, <1>5, <1>6, <1>7 DEF Building
-----------------------------------------------------------------------------
(* The inductive step, for the polls, and the invariant.                   *)

\* While no name vanishes from a directory, a poll that waits stays ahead.
LEMMA PollWaits ==
    ASSUME ApiInv, UNCHANGED <<wanted, looking, wentBack>>,
           \A g \in Requests : place[g] \in Queue => place'[g] = place[g] /\ name'[g] = name[g]
    PROVE  AheadOfPoll' /\ JobIsKnown'
<1>1. JobIsKnown'
  BY DEF ApiInv, ApiHolds, JobIsKnown
<1> SUFFICES ASSUME looking \in Queue, ~wentBack
             PROVE  \E d \in Onward(looking) : Named(d, wanted)' # {}
  BY <1>1 DEF AheadOfPoll, Onward
<1>2. PICK d \in Onward(looking) : Named(d, wanted) # {}
  BY DEF ApiInv, AheadOfPoll
<1>3. d \in Queue
  BY <1>2 DEF Onward, Queue
<1> QED  BY <1>2, <1>3 DEF Named

LEMMA OpenWaits == ASSUME ApiInv, NEW r \in Requests, OpenFile(r) PROVE AheadOfPoll' /\ JobIsKnown'
<1>1. \A g \in Requests : place[g] \in Queue => place'[g] = place[g] /\ name'[g] = name[g]
  <2> DEFINE old == Named("incoming", jobId[r])
             f == IF old = {} THEN r ELSE CHOOSE o \in old : TRUE
  <2>1. /\ place' = [place EXCEPT ![f] = "incoming"] /\ name' = [name EXCEPT ![f] = jobId[r]]
        /\ thread[r] = "free"
    BY DEF OpenFile
  <2>2. f \in Requests /\ (place[f] \in Queue => place[f] = "incoming" /\ name[f] = jobId[r])
    <3>1. CASE old = {}
      BY <2>1, <3>1 DEF ApiInv, FileHasName, Holding, Queue
    <3>2. CASE old # {}
      <4>1. f \in old
        BY <3>2
      <4> QED  BY <4>1 DEF Named
    <3> QED  BY <3>1, <3>2
  <2> HIDE DEF f
  <2> QED  BY <2>1, <2>2 DEF ApiInv, ApiTypeOK
<1> QED  BY <1>1, PollWaits DEF OpenFile, pollVars

LEMMA AskStep == ASSUME ApiInv, AskJob PROVE AheadOfPoll' /\ JobIsKnown'
<1>1. PICK r \in Requests : thread[r] = "answered" /\ wanted' = jobId[r]
  BY DEF AskJob
<1>2. looking' = "incoming" /\ UNCHANGED <<place, name>>
  BY DEF AskJob, fileVars
<1>3. \E d \in Queue : Named(d, jobId[r]) # {}
  BY <1>1 DEF ApiInv, JobExists, Holding
<1> QED  BY <1>1, <1>2, <1>3 DEF AheadOfPoll, JobIsKnown, Onward, Named

LEMMA CheckStep == ASSUME ApiInv, CheckDirectory PROVE AheadOfPoll' /\ JobIsKnown'
<1>1. looking \in Queue /\ UNCHANGED <<place, name, wanted, wentBack>>
  BY DEF CheckDirectory, fileVars
<1>2. looking' = IF Named(looking, wanted) # {} THEN "found" ELSE NextCheck(looking)
  BY DEF CheckDirectory
<1> SUFFICES ASSUME ~wentBack PROVE AheadOfPoll' /\ JobIsKnown'
  BY <1>1 DEF AheadOfPoll, JobIsKnown
<1>3. PICK d \in Onward(looking) : Named(d, wanted) # {}
  BY <1>1 DEF ApiInv, AheadOfPoll
<1>4. CASE Named(looking, wanted) # {}
  BY <1>2, <1>4 DEF AheadOfPoll, JobIsKnown, Queue
<1>5. CASE Named(looking, wanted) = {}
  <2>1. d # looking /\ looking' = NextCheck(looking)
    BY <1>2, <1>3, <1>5
  <2>2. d \in Onward(looking')
    BY <1>1, <1>3, <2>1 DEF Onward, NextCheck, Queue
  <2>3. looking' # "unknown"
    BY <2>2 DEF Onward
  <2> QED  BY <1>1, <1>3, <2>2, <2>3 DEF AheadOfPoll, JobIsKnown, Onward, Named
<1> QED  BY <1>4, <1>5

\* Where neither threads nor files change, what the invariant says of them stays.
LEMMA StandStill == ASSUME ApiInv, UNCHANGED <<buildVars, fileVars, raced>> PROVE Building'
<1>1. UNCHANGED <<thread, jobId, opened, place, name, idea, raced>>
  BY DEF buildVars, fileVars
<1>2. FileHasName' /\ IndicesInUse' /\ RivalsRaced'
  BY <1>1 DEF ApiInv, FileHasName, IndicesInUse, RivalsRaced
<1>3. TakenRaced' /\ JobExists'
  BY <1>1 DEF ApiInv, TakenRaced, JobExists, Named
<1>4. OwnFile' /\ IdeasAreKept'
  BY <1>1 DEF ApiInv, OwnFile, ApiHolds, IdeasAreKept
<1> QED  BY <1>2, <1>3, <1>4 DEF Building

\* The threads, the files and the polls stay as the invariant wants them.
LEMMA ApiStep == ASSUME ApiInv, [ApiNext]_apiVars PROVE Building' /\ AheadOfPoll' /\ JobIsKnown'
<1>1. ASSUME UNCHANGED <<buildVars, fileVars, pollVars, raced>>
      PROVE  Building' /\ AheadOfPoll' /\ JobIsKnown'
  BY <1>1, StandStill, PollWaits DEF fileVars, pollVars
<1>2. ASSUME NEW f, NEW dir, Moves(f, dir), UNCHANGED wentBack
      PROVE  Building' /\ AheadOfPoll' /\ JobIsKnown'
  BY <1>2, MoveStep, MoveForward DEF Moves, ApiInv, ApiHolds, JobIsKnown
<1>3. CASE RescueLease
  BY <1>3, MoveStep, RescueMoves DEF AheadOfPoll, JobIsKnown
<1>4. CASE LeaseFile
  BY <1>2, <1>4, LeaseMoves
<1>5. CASE EndRun
  BY <1>1, <1>2, <1>5, EndMoves
<1>6. CASE AskJob
  <2>1. Building'
    BY <1>6, StandStill DEF AskJob
  <2> QED  BY <1>6, <2>1, AskStep
<1>7. CASE CheckDirectory
  <2>1. Building'
    BY <1>7, StandStill DEF CheckDirectory
  <2> QED  BY <1>7, <2>1, CheckStep
<1>8. ASSUME NEW r \in Requests, RefuseBuild(r) \/ AcceptBuild(r) \/ TestName(r) \/ WriteIdea(r)
      PROVE  Building' /\ AheadOfPoll' /\ JobIsKnown'
  <2>1. UNCHANGED <<place, name, pollVars>>
    BY <1>8 DEF RefuseBuild, AcceptBuild, TestName, WriteIdea, fileVars
  <2>2. AheadOfPoll' /\ JobIsKnown'
    BY <2>1, PollWaits DEF pollVars
  <2> QED  BY <1>8, <2>2, RefuseStep, AcceptStep, TestStep, WriteStep
<1>9. ASSUME NEW r \in Requests, OpenFile(r)
      PROVE  Building' /\ AheadOfPoll' /\ JobIsKnown'
  BY <1>9, OpenStep, OpenWaits
<1>10. CASE NextSecond \/ UNCHANGED apiVars
  BY <1>1, <1>10 DEF NextSecond, apiVars
<1> QED  BY <1>3, <1>4, <1>5, <1>6, <1>7, <1>8, <1>9, <1>10 DEF ApiNext

LEMMA ApiInitInv == ApiInit => ApiInv
<1> SUFFICES ASSUME ApiInit PROVE ApiInv
  OBVIOUS
<1>1. ApiTypeOK
  <2>1. <<0, 0>> \in JobIds /\ second \in 0 .. MaxSeconds /\ rescues \in 0 .. MaxRescues
    BY ApiAssumption, FS_CardinalityType DEF JobIds, ApiInit
  <2> QED  BY <2>1 DEF ApiInit, ApiTypeOK
<1>2. FileHasName /\ IndicesInUse /\ RivalsRaced /\ TakenRaced /\ OwnFile /\ JobExists
  BY DEF ApiInit, FileHasName, IndicesInUse, RivalsRaced, TakenRaced, OwnFile, JobExists, Holding
<1>3. AheadOfPoll /\ ApiHolds
  BY DEF ApiInit, AheadOfPoll, ApiHolds, JobIsKnown, IdeasAreKept, Queue
<1> QED  BY <1>1, <1>2, <1>3 DEF ApiInv

LEMMA ApiInductive == ApiSpec => []ApiInv
<1>1. ApiInv /\ [ApiNext]_apiVars => ApiInv'
  BY ApiTypeStep, ApiStep DEF ApiInv, ApiHolds, Building
<1> QED  BY <1>1, ApiInitInv, PTL DEF ApiSpec

\* Every variable keeps its type; in particular the loop of do_POST that looks for a free
\* name gives up no later than at as many indices as there are requests.
THEOREM ApiTypeCorrect == ApiSpec => []ApiTypeOK
<1>1. ApiInv => ApiTypeOK
  BY DEF ApiInv
<1> QED  BY <1>1, ApiInductive, PTL

\* A job that was answered is found by _job_state unless a rescue took it back meanwhile,
\* and the idea of an answered build is on disk in a file of its own unless it raced.
THEOREM ApiCorrect == ApiSpec => []ApiHolds
<1>1. ApiInv => ApiHolds
  BY DEF ApiInv
<1> QED  BY <1>1, ApiInductive, PTL
-----------------------------------------------------------------------------
(* Evolution: the invariant.                                               *)

FailureReasons == {NoReason, "QUALITY_GATE_FAIL", "POST_GATE_REJECT", "REFLEX_BLOCK", "GENERATION_FORMAT_ERROR",
                   "LOCAL_COMPLETION_UNAVAILABLE", "LOCAL_FALLBACK_FAILURE", "DEPENDENCY_ERROR",
                   "HARD_POLICY_BLOCK", "UNKNOWN_NONZERO"}
EvoRows == [status : {"SUCCESS", "FAIL"}, reason : FailureReasons, attempted : BOOLEAN, repaired : BOOLEAN]
EvoTruths == [first : FailureReasons, executions : {1, 2}, ok : BOOLEAN]

LogsTyped == baselineLog \in Seq(EvoRows) /\ kernelLog \in Seq(EvoRows) /\ truth \in Seq(EvoTruths)

\* What a row says of the run that it is about.
RowIsTrue(row, run) ==
    /\ row.status = "SUCCESS" <=> run.ok
    /\ row.attempted <=> run.first = "DEPENDENCY_ERROR"
    /\ row.repaired <=> run.executions = 2 /\ run.ok
    /\ run.executions = 2 => row.attempted
    /\ row.attempted /\ run.ok => run.executions = 2
    /\ ~row.attempted => (row.status = "FAIL" <=> run.first # NoReason)

RowsAreTrue == \A i \in DOMAIN kernelLog : RowIsTrue(kernelLog[i], truth[i])

\* The kernel run under way, and that there is one only in the kernel phase.
Classifying == [at : {"classify"}, artifact : RunArtifacts, executions : {1}]
Classified == [at : {"repair", "rerun", "log"}, artifact : RunArtifacts, executions : {1, 2},
               first : FailureReasons, attempted : BOOLEAN, repaired : BOOLEAN]

RunIsSound ==
    \/ kernelRun = NoRun
    \/ /\ phase = "kernel" /\ left > 0
       /\ \/ kernelRun \in Classifying
          \/ /\ kernelRun \in Classified
             /\ kernelRun.at \in {"repair", "rerun"} =>
                    /\ kernelRun.first = "DEPENDENCY_ERROR" /\ kernelRun.executions = 1 /\ ~kernelRun.repaired
                    /\ ~kernelRun.artifact.ok /\ (kernelRun.at = "rerun" => kernelRun.attempted)
             /\ kernelRun.at = "log" => RowIsTrue(Row(kernelRun.artifact, kernelRun.attempted, kernelRun.repaired),
                    [first |-> kernelRun.first, executions |-> kernelRun.executions, ok |-> kernelRun.artifact.ok])

\* The preflight is counted in full before its gate, and there is one batch.
PreflightErrors == Cardinality(DependencyErrors(SubSeq(baselineLog, 1, PreflightRuns)))
CampaignIsSound ==
    /\ phase = "preflight" => left + Len(baselineLog) = PreflightRuns
    /\ phase \in {"baseline", "kernel", "judge"} =>
           PreflightRuns <= Len(baselineLog) /\ PreflightErrors < DependencyStop
    /\ batch <= 1 /\ streak <= Patience + 1 /\ (phase # "stopped" => streak <= Patience)

EvoInv == EvoTypeOK /\ LogsTyped /\ RowsAreTrue /\ RunIsSound /\ CampaignIsSound
-----------------------------------------------------------------------------
(* Evolution: the rows and the logs.                                       *)

\* classify names a reason exactly for what failed.
LEMMA RowFacts ==
    ASSUME NEW a \in RunArtifacts, NEW attempted \in BOOLEAN, NEW repaired \in BOOLEAN
    PROVE  /\ Reason(a) \in FailureReasons /\ (Reason(a) = NoReason <=> a.ok) /\ a.ok \in BOOLEAN
           /\ Status(a) \in {"SUCCESS", "FAIL"} /\ (Status(a) = "SUCCESS" <=> a.ok)
           /\ Row(a, attempted, repaired) \in EvoRows
           /\ Row(a, attempted, repaired).status = Status(a)
           /\ Row(a, attempted, repaired).attempted = attempted
           /\ Row(a, attempted, repaired).repaired = repaired
<1>1. a.ok \in BOOLEAN
  BY DEF RunArtifacts
<1>2. Reason(a) \in FailureReasons /\ (Reason(a) = NoReason <=> a.ok)
  BY <1>1 DEF Reason, FailureReasons, NoReason
<1>3. Status(a) \in {"SUCCESS", "FAIL"} /\ (Status(a) = "SUCCESS" <=> a.ok)
  BY <1>2 DEF Status
<1> QED  BY <1>1, <1>2, <1>3 DEF Row, EvoRows

LEMMA OutcomeFacts == ASSUME NEW a \in Outcomes PROVE a \in RunArtifacts /\ a.stage \in Stages \union {trace, NoStage}
BY DEF Outcomes, RunArtifacts

\* The domain of a sequence, and what one more element does to it.
LEMMA SeqGrows ==
    ASSUME NEW S, NEW s \in Seq(S), NEW e \in S, NEW t, t = Append(s, e)
    PROVE  /\ t \in Seq(S) /\ Len(s) \in Nat /\ Len(t) = Len(s) + 1
           /\ DOMAIN s = 1 .. Len(s) /\ DOMAIN t = 1 .. Len(s) + 1
           /\ \A i \in 1 .. Len(s) : t[i] = s[i]
           /\ t[Len(s) + 1] = e
BY AppendProperties, LenProperties

\* What was counted in the preflight stays what it was.
LEMMA PreflightStands ==
    ASSUME NEW S, NEW s \in Seq(S), NEW e \in S, NEW n \in 0 .. Len(s)
    PROVE  SubSeq(Append(s, e), 1, n) = SubSeq(s, 1, n)
<1>0. Len(s) \in Nat
  BY LenProperties
<1>1. CASE n = 0
  BY <1>1, SubSeqEmpty
<1>2. CASE n # 0
  <2>1. Append(s, e) = s \o <<e>> /\ <<e>> \in Seq(S)
    BY AppendIsConcat
  <2>2. 1 \in 1 .. Len(s) /\ n \in 1 .. Len(s)
    BY <1>0, <1>2
  <2> QED  BY <2>1, <2>2, SubSeqOfConcat1
<1> QED  BY <1>1, <1>2

\* The one class that the controller knows for the statuses that are logged.
LEMMA OneClass ==
    ASSUME NEW rows \in Seq(EvoRows)
    PROVE  Dominant(rows)
<1> DEFINE c == "UNKNOWN_OR_SUCCESS"
           S == {i \in DOMAIN rows : RowClass(rows[i]) = c}
<1>1. Len(rows) \in Nat /\ DOMAIN rows = 1 .. Len(rows) /\ \A i \in DOMAIN rows : rows[i] \in EvoRows
  BY LenProperties, ElementOfSeq
<1>2. S = 1 .. Len(rows)
  BY <1>1 DEF RowClass, EvoRows
<1>3. Cardinality(S) = Len(rows)
  <2>1. \A n \in Nat : Cardinality(1 .. n) = n
    BY FS_Interval
  <2> QED  BY <1>1, <1>2, <2>1
<1>4. StabilityTenths \in Nat /\ StabilityTenths <= 10
  BY EvolutionAssumption
<1>5. 10 * Len(rows) >= StabilityTenths * Len(rows)
  BY <1>1, <1>4
<1>6. 10 * Cardinality(S) >= StabilityTenths * Len(rows)
  BY <1>3, <1>5
<1> HIDE DEF c
<1> QED  BY <1>6 DEF Dominant, c
-----------------------------------------------------------------------------
(* Evolution: the inductive step.                                          *)

\* The rows of earlier campaigns are true of their runs.
LEMMA EarlierFacts ==
    ASSUME NEW e \in EarlierRuns
    PROVE  e.row \in EvoRows /\ e.run \in EvoTruths /\ RowIsTrue(e.row, e.run)
<1>1. ASSUME NEW a \in RunArtifacts, NEW first \in FailureReasons, NEW executions \in {1, 2},
             (first = Reason(a) /\ executions = 1) \/ (first = "DEPENDENCY_ERROR" /\ executions = 2)
      PROVE  LET x == Earlier(a, first, executions)
             IN  x.row \in EvoRows /\ x.run \in EvoTruths /\ RowIsTrue(x.row, x.run)
  <2> DEFINE attempted == first = "DEPENDENCY_ERROR"
             repaired == executions = 2 /\ a.ok
             row == Row(a, attempted, repaired)
             run == [first |-> first, executions |-> executions, ok |-> a.ok]
  <2>1. a.ok \in BOOLEAN /\ attempted \in BOOLEAN /\ repaired \in BOOLEAN
    BY DEF RunArtifacts
  <2>2. /\ (Reason(a) = NoReason <=> a.ok) /\ row \in EvoRows /\ (row.status = "SUCCESS" <=> a.ok)
        /\ row.status \in {"SUCCESS", "FAIL"} /\ row.attempted = attempted /\ row.repaired = repaired
    <3> HIDE DEF attempted, repaired
    <3> QED  BY <2>1, RowFacts
  <2>3. run \in EvoTruths /\ run.first = first /\ run.executions = executions /\ run.ok = a.ok
    BY <2>1 DEF EvoTruths
  <2>4. RowIsTrue(row, run)
    <3>1. attempted <=> first = "DEPENDENCY_ERROR"
      OBVIOUS
    <3>2. repaired <=> executions = 2 /\ a.ok
      OBVIOUS
    <3> HIDE DEF row, run, attempted, repaired
    <3>3. row.status = "SUCCESS" <=> run.ok
      BY <2>2, <2>3
    <3>4. row.attempted <=> run.first = "DEPENDENCY_ERROR"
      BY <2>2, <2>3, <3>1
    <3>5. row.repaired <=> run.executions = 2 /\ run.ok
      BY <2>2, <2>3, <3>2
    <3>6. run.executions = 2 => row.attempted
      BY <1>1, <2>2, <2>3, <3>1
    <3>7. row.attempted /\ run.ok => run.executions = 2
      BY <1>1, <2>2, <2>3, <3>1 DEF NoReason
    <3>8. ~row.attempted => (row.status = "FAIL" <=> run.first # NoReason)
      BY <1>1, <2>1, <2>2, <2>3, <3>1
    <3> QED  BY <3>3, <3>4, <3>5, <3>6, <3>7, <3>8 DEF RowIsTrue
  <2>5. Earlier(a, first, executions).row = row /\ Earlier(a, first, executions).run = run
    BY DEF Earlier
  <2> QED  BY <2>2, <2>3, <2>4, <2>5
<1>2. \A a \in RunArtifacts : Reason(a) \in FailureReasons
  BY RowFacts
<1>3. PICK a \in RunArtifacts : e = Earlier(a, Reason(a), 1) \/ e = Earlier(a, "DEPENDENCY_ERROR", 2)
  BY DEF EarlierRuns
<1>6. 1 \in {1, 2} /\ 2 \in {1, 2} /\ "DEPENDENCY_ERROR" \in FailureReasons
  BY DEF FailureReasons
<1>4. CASE e = Earlier(a, Reason(a), 1)
  <2>1. Reason(a) \in FailureReasons
    BY <1>2
  <2> DEFINE x == Earlier(a, Reason(a), 1)
  <2>2. x.row \in EvoRows /\ x.run \in EvoTruths /\ RowIsTrue(x.row, x.run)
    BY <1>1, <1>6, <2>1
  <2> QED  BY <1>4, <2>2
<1>5. CASE e = Earlier(a, "DEPENDENCY_ERROR", 2)
  <2> DEFINE x == Earlier(a, "DEPENDENCY_ERROR", 2)
  <2>2. x.row \in EvoRows /\ x.run \in EvoTruths /\ RowIsTrue(x.row, x.run)
    BY <1>1, <1>6
  <2> QED  BY <1>5, <2>2
<1> QED  BY <1>3, <1>4, <1>5

LEMMA EvoStart == EvoInit => EvoInv
<1> SUFFICES ASSUME EvoInit PROVE EvoInv
  OBVIOUS
<1>0. /\ {PreflightRuns, BatchSize, MaxBatches, DependencyStop, Patience} \subseteq Nat \ {0}
  BY EvolutionAssumption
<1>1. /\ phase = "preflight" /\ batch = 0 /\ left = PreflightRuns /\ trace \in Stages \union {NoStage}
      /\ kernelRun = NoRun /\ baselineLog = << >> /\ streak \in 0 .. Patience
  BY DEF EvoInit
<1>2. PICK n \in 0 .. MaxEarlier : \E runs \in [1 .. n -> EarlierRuns] :
          kernelLog = [i \in 1 .. n |-> runs[i].row] /\ truth = [i \in 1 .. n |-> runs[i].run]
  BY DEF EvoInit
<1>3. PICK runs \in [1 .. n -> EarlierRuns] :
          kernelLog = [i \in 1 .. n |-> runs[i].row] /\ truth = [i \in 1 .. n |-> runs[i].run]
  BY <1>2
<1>4. LogsTyped /\ Len(kernelLog) = Len(truth) /\ RowsAreTrue
  <2>1. \A i \in 1 .. n : runs[i].row \in EvoRows /\ runs[i].run \in EvoTruths /\ RowIsTrue(runs[i].row, runs[i].run)
    BY EarlierFacts
  <2>2. n \in Nat
    BY EvolutionAssumption
  <2>3. kernelLog \in Seq(EvoRows) /\ truth \in Seq(EvoTruths) /\ << >> \in Seq(EvoRows)
    BY <1>3, <2>1, <2>2, SeqDef
  <2>4. Len(kernelLog) = n /\ Len(truth) = n /\ DOMAIN kernelLog = 1 .. n
    BY <1>3, <2>2, <2>3, LenProperties
  <2>5. RowsAreTrue
    BY <1>3, <2>1, <2>4 DEF RowsAreTrue
  <2> QED  BY <1>1, <2>3, <2>4, <2>5 DEF LogsTyped
<1>5. EvoTypeOK
  BY <1>0, <1>1, <1>4 DEF EvoTypeOK, EvoPhases, NoRun
<1>6. RunIsSound
  BY <1>1 DEF RunIsSound
<1>7. CampaignIsSound
  BY <1>0, <1>1 DEF CampaignIsSound
<1> QED  BY <1>4, <1>5, <1>6, <1>7 DEF EvoInv

\* A row on the kernel log with its run.
LEMMA RowsGrow ==
    ASSUME LogsTyped, RowsAreTrue, Len(kernelLog) = Len(truth), NEW row \in EvoRows, NEW run \in EvoTruths,
           RowIsTrue(row, run), kernelLog' = Append(kernelLog, row), truth' = Append(truth, run)
    PROVE  /\ kernelLog' \in Seq(EvoRows) /\ truth' \in Seq(EvoTruths) /\ Len(kernelLog') = Len(truth')
           /\ RowsAreTrue'
<1>1. /\ kernelLog' \in Seq(EvoRows) /\ Len(kernelLog) \in Nat /\ Len(kernelLog') = Len(kernelLog) + 1
      /\ DOMAIN kernelLog = 1 .. Len(kernelLog) /\ DOMAIN kernelLog' = 1 .. Len(kernelLog) + 1
      /\ \A i \in 1 .. Len(kernelLog) : kernelLog'[i] = kernelLog[i]
      /\ kernelLog'[Len(kernelLog) + 1] = row
  BY SeqGrows DEF LogsTyped
<1>2. /\ truth' \in Seq(EvoTruths) /\ Len(truth') = Len(truth) + 1
      /\ \A i \in 1 .. Len(truth) : truth'[i] = truth[i]
      /\ truth'[Len(truth) + 1] = run
  BY SeqGrows DEF LogsTyped
<1>3. RowsAreTrue'
  <2> SUFFICES ASSUME NEW i \in DOMAIN kernelLog' PROVE RowIsTrue(kernelLog'[i], truth'[i])
    BY DEF RowsAreTrue
  <2>1. CASE i = Len(kernelLog) + 1
    BY <1>1, <1>2, <2>1
  <2>2. CASE i \in 1 .. Len(kernelLog)
    BY <1>1, <1>2, <2>2 DEF RowsAreTrue
  <2> QED  BY <1>1, <2>1, <2>2
<1> QED  BY <1>1, <1>2, <1>3

\* The steps of a kernel run: the run stays sound, its artifact is one that may be.
LEMMA RunStep ==
    ASSUME EvoInv, KernelExecute \/ KernelClassify \/ KernelRepair \/ KernelRerun
    PROVE  RunIsSound' /\ trace' \in Stages \union {NoStage} /\ OnlyTheRun
           /\ kernelRun'.at \in {"idle", "classify", "repair", "rerun", "log"}
<1>0. RunIsSound /\ trace \in Stages \union {NoStage}
  BY DEF EvoInv, EvoTypeOK
<1>1. CASE KernelExecute
  <2>1. PICK a \in Outcomes :
          trace' = a.stage /\ kernelRun' = [at |-> "classify", artifact |-> a, executions |-> 1]
    BY <1>1 DEF KernelExecute
  <2>2. a \in RunArtifacts /\ trace' \in Stages \union {NoStage}
    BY <1>0, <2>1, OutcomeFacts
  <2>3. kernelRun' \in Classifying /\ kernelRun'.at = "classify"
    BY <2>1, <2>2 DEF Classifying
  <2>4. phase' = "kernel" /\ left' > 0 /\ OnlyTheRun
    BY <1>1 DEF KernelExecute, OnlyTheRun
  <2> QED  BY <2>2, <2>3, <2>4 DEF RunIsSound
<1>2. CASE KernelClassify
  <2> DEFINE a == kernelRun.artifact
  <2>1. kernelRun \in Classifying /\ phase = "kernel" /\ left > 0
    BY <1>0, <1>2 DEF KernelClassify, RunIsSound, NoRun, Classified
  <2>2. a \in RunArtifacts
    BY <2>1 DEF Classifying
  <2>3. /\ kernelRun' = [at |-> IF RepairTriggered(a) THEN "repair" ELSE "log", artifact |-> a,
                         executions |-> 1, first |-> Reason(a), attempted |-> FALSE, repaired |-> FALSE]
        /\ UNCHANGED trace /\ OnlyTheRun
    BY <1>2 DEF KernelClassify
  <2> HIDE DEF a
  <2>4. /\ kernelRun' \in Classified /\ kernelRun'.at \in {"repair", "log"} /\ kernelRun'.artifact = a
        /\ kernelRun'.executions = 1 /\ kernelRun'.first = Reason(a)
        /\ kernelRun'.attempted = FALSE /\ kernelRun'.repaired = FALSE
        /\ (kernelRun'.at = "repair" <=> RepairTriggered(a))
    BY <2>2, <2>3, RowFacts DEF Classified
  <2>5. RepairTriggered(a) <=> Reason(a) = "DEPENDENCY_ERROR"
    BY <2>2, RowFacts DEF RepairTriggered, Status, NoReason
  <2>6. kernelRun'.at = "repair" => Reason(a) = "DEPENDENCY_ERROR" /\ ~a.ok
    BY <2>2, <2>4, <2>5, RowFacts DEF NoReason
  <2>7. kernelRun'.at = "log" => RowIsTrue(Row(a, FALSE, FALSE), [first |-> Reason(a), executions |-> 1, ok |-> a.ok])
    <3> DEFINE row == Row(a, FALSE, FALSE)
               run == [first |-> Reason(a), executions |-> 1, ok |-> a.ok]
    <3>1. /\ row.status = Status(a) /\ row.attempted = FALSE /\ row.repaired = FALSE
          /\ Status(a) \in {"SUCCESS", "FAIL"} /\ (Status(a) = "SUCCESS" <=> a.ok)
          /\ (Reason(a) = NoReason <=> a.ok)
      BY <2>2, RowFacts
    <3>2. run.first = Reason(a) /\ run.executions = 1 /\ run.ok = a.ok
      OBVIOUS
    <3> HIDE DEF row, run
    <3>3. kernelRun'.at = "log" => RowIsTrue(row, run)
      BY <2>4, <2>5, <3>1, <3>2 DEF RowIsTrue
    <3> QED  BY <3>3 DEF row, run
  <2>8. phase' = "kernel" /\ left' > 0
    BY <2>1, <2>3 DEF OnlyTheRun
  <2>9. RunIsSound'
    BY <2>4, <2>6, <2>7, <2>8 DEF RunIsSound
  <2> QED  BY <1>0, <2>3, <2>4, <2>9
<1>3. CASE KernelRepair
  <2>1. /\ kernelRun \in Classified /\ phase = "kernel" /\ left > 0
        /\ kernelRun.first = "DEPENDENCY_ERROR" /\ kernelRun.executions = 1 /\ ~kernelRun.repaired
        /\ ~kernelRun.artifact.ok
    <3>1. kernelRun.at = "repair"
      BY <1>3 DEF KernelRepair
    <3>2. kernelRun # NoRun /\ kernelRun \notin Classifying
      BY <3>1 DEF NoRun, Classifying
    <3> QED  BY <1>0, <3>1, <3>2 DEF RunIsSound
  <2>2. PICK done \in BOOLEAN :
          kernelRun' = [kernelRun EXCEPT !.at = IF done THEN "rerun" ELSE "log", !.attempted = TRUE]
    BY <1>3 DEF KernelRepair
  <2>3. UNCHANGED trace /\ OnlyTheRun
    BY <1>3 DEF KernelRepair
  <2>4. /\ kernelRun' \in Classified /\ kernelRun'.at \in {"rerun", "log"}
        /\ kernelRun'.first = "DEPENDENCY_ERROR" /\ kernelRun'.executions = 1
        /\ kernelRun'.attempted = TRUE /\ kernelRun'.repaired = FALSE
        /\ kernelRun'.artifact = kernelRun.artifact /\ kernelRun'.artifact \in RunArtifacts
    BY <2>1, <2>2 DEF Classified
  <2> DEFINE a == kernelRun'.artifact
             row == Row(a, kernelRun'.attempted, kernelRun'.repaired)
             run == [first |-> kernelRun'.first, executions |-> kernelRun'.executions, ok |-> a.ok]
  <2>5. RowIsTrue(row, run)
    <3>1. /\ row.status = Status(a) /\ row.attempted = TRUE /\ row.repaired = FALSE
          /\ (Status(a) = "SUCCESS" <=> a.ok)
      BY <2>4, RowFacts
    <3>2. run.first = "DEPENDENCY_ERROR" /\ run.executions = 1 /\ run.ok = a.ok /\ ~a.ok
      BY <2>1, <2>4
    <3> HIDE DEF row, run
    <3> QED  BY <3>1, <3>2 DEF RowIsTrue
  <2>6. phase' = "kernel" /\ left' > 0
    BY <2>1, <2>3 DEF OnlyTheRun
  <2>7. RunIsSound'
    BY <2>1, <2>4, <2>5, <2>6 DEF RunIsSound
  <2> QED  BY <1>0, <2>3, <2>4, <2>7
<1>4. CASE KernelRerun
  <2>1. /\ kernelRun \in Classified /\ phase = "kernel" /\ left > 0
        /\ kernelRun.first = "DEPENDENCY_ERROR" /\ kernelRun.executions = 1 /\ kernelRun.attempted
    <3>1. kernelRun.at = "rerun"
      BY <1>4 DEF KernelRerun
    <3>2. kernelRun # NoRun /\ kernelRun \notin Classifying
      BY <3>1 DEF NoRun, Classifying
    <3> QED  BY <1>0, <3>1, <3>2 DEF RunIsSound
  <2>2. PICK a \in Outcomes :
          /\ trace' = a.stage
          /\ kernelRun' = [kernelRun EXCEPT !.at = "log", !.artifact = a, !.executions = @ + 1,
                                            !.repaired = Status(a) = "SUCCESS"]
    BY <1>4 DEF KernelRerun
  <2>3. a \in RunArtifacts /\ trace' \in Stages \union {NoStage}
    BY <1>0, <2>2, OutcomeFacts
  <2>4. /\ kernelRun' \in Classified /\ kernelRun'.at = "log"
        /\ kernelRun'.first = "DEPENDENCY_ERROR" /\ kernelRun'.executions = 2
        /\ kernelRun'.attempted = TRUE /\ kernelRun'.repaired = (Status(a) = "SUCCESS")
        /\ kernelRun'.artifact = a
    <3>1. PICK won \in BOOLEAN : won = (Status(a) = "SUCCESS")
      OBVIOUS
    <3>2. kernelRun' = [kernelRun EXCEPT !.at = "log", !.artifact = a, !.executions = @ + 1, !.repaired = won]
      BY <2>2, <3>1, Zenon
    <3>3. kernelRun' = [at |-> "log", artifact |-> a, executions |-> 2, first |-> kernelRun.first,
                        attempted |-> kernelRun.attempted, repaired |-> won]
      <4>1. kernelRun = [at |-> kernelRun.at, artifact |-> kernelRun.artifact, executions |-> 1,
                         first |-> kernelRun.first, attempted |-> kernelRun.attempted,
                         repaired |-> kernelRun.repaired]
        BY <2>1 DEF Classified
      <4>2. kernelRun.executions + 1 = 2
        BY <2>1
      <4> QED  BY <3>2, <4>1, <4>2
    <3>4. kernelRun.first \in FailureReasons /\ kernelRun.attempted \in BOOLEAN
      BY <2>1 DEF Classified
    <3>5. kernelRun' \in Classified
      BY <2>3, <3>3, <3>4 DEF Classified
    <3> QED  BY <2>1, <3>1, <3>3, <3>4, <3>5
  <2> DEFINE row == Row(kernelRun'.artifact, kernelRun'.attempted, kernelRun'.repaired)
             run == [first |-> kernelRun'.first, executions |-> kernelRun'.executions, ok |-> kernelRun'.artifact.ok]
  <2>5. RowIsTrue(row, run)
    <3>1. /\ row.status = Status(a) /\ row.attempted = TRUE /\ row.repaired = (Status(a) = "SUCCESS")
          /\ (Status(a) = "SUCCESS" <=> a.ok) /\ a.ok \in BOOLEAN
      BY <2>3, <2>4, RowFacts
    <3>2. run.first = "DEPENDENCY_ERROR" /\ run.executions = 2 /\ run.ok = a.ok
      BY <2>4
    <3> HIDE DEF row, run
    <3> QED  BY <3>1, <3>2 DEF RowIsTrue
  <2>6. phase' = "kernel" /\ left' > 0 /\ OnlyTheRun
    BY <1>4, <2>1 DEF KernelRerun, OnlyTheRun
  <2>7. RunIsSound'
    BY <2>4, <2>5, <2>6 DEF RunIsSound
  <2> QED  BY <2>3, <2>4, <2>6, <2>7
<1> QED  BY <1>1, <1>2, <1>3, <1>4

LEMMA BaselineStep == ASSUME EvoInv, BaselineRun PROVE EvoInv'
<1>0. /\ EvoTypeOK /\ LogsTyped /\ RowsAreTrue /\ RunIsSound /\ CampaignIsSound
      /\ PreflightRuns \in Nat /\ BatchSize \in Nat /\ MaxBatches \in Nat
  BY EvolutionAssumption DEF EvoInv
<1>1. /\ phase \in {"preflight", "baseline"} /\ left > 0 /\ left' = left - 1
      /\ UNCHANGED <<phase, batch, kernelRun, kernelLog, streak, truth>>
  BY DEF BaselineRun
<1>2. PICK a \in Outcomes : trace' = a.stage /\ baselineLog' = Append(baselineLog, Row(a, FALSE, FALSE))
  BY DEF BaselineRun
<1>3. Row(a, FALSE, FALSE) \in EvoRows /\ trace' \in Stages \union {NoStage}
  BY <1>0, <1>2, OutcomeFacts, RowFacts DEF EvoTypeOK
<1>4. baselineLog' \in Seq(EvoRows) /\ Len(baselineLog) \in Nat /\ Len(baselineLog') = Len(baselineLog) + 1
  <2>1. PICK row \in EvoRows : baselineLog' = Append(baselineLog, row)
    BY <1>2, <1>3
  <2> QED  BY <1>0, <2>1, SeqGrows DEF LogsTyped
<1>5. EvoTypeOK'
  BY <1>0, <1>1, <1>3 DEF EvoTypeOK
<1>6. LogsTyped' /\ RowsAreTrue' /\ RunIsSound'
  BY <1>0, <1>1, <1>4 DEF LogsTyped, RowsAreTrue, RunIsSound
<1>7. CampaignIsSound'
  <2>1. CASE phase = "preflight"
    BY <1>0, <1>1, <1>4, <2>1 DEF CampaignIsSound, EvoTypeOK
  <2>2. CASE phase = "baseline"
    <3>1. PreflightRuns \in 0 .. Len(baselineLog)
      BY <1>0, <1>4, <2>2 DEF CampaignIsSound
    <3>2. PreflightErrors' = PreflightErrors
      BY <1>0, <1>2, <1>3, <3>1, PreflightStands DEF LogsTyped, PreflightErrors
    <3> QED  BY <1>0, <1>1, <1>4, <2>2, <3>2 DEF CampaignIsSound
  <2> QED  BY <1>1, <2>1, <2>2
<1> QED  BY <1>5, <1>6, <1>7 DEF EvoInv

\* Every run that is left gets a row, before any of them was made.
LEMMA UnavailableStep == ASSUME EvoInv, BaselineUnavailable PROVE EvoInv'
<1>0. /\ EvoTypeOK /\ LogsTyped /\ RowsAreTrue /\ RunIsSound /\ CampaignIsSound
      /\ PreflightRuns \in Nat /\ BatchSize \in Nat /\ MaxBatches \in Nat
  BY EvolutionAssumption DEF EvoInv
<1> DEFINE a == [ok |-> FALSE, stage |-> NoStage, marks |-> {}]
           rows == [i \in 1 .. left |-> Row(a, FALSE, FALSE)]
<1>1. /\ (phase = "preflight" /\ left = PreflightRuns) \/ (phase = "baseline" /\ left = BatchSize)
      /\ left' = 0 /\ baselineLog' = baselineLog \o rows /\ left \in Nat
      /\ UNCHANGED <<phase, batch, trace, kernelRun, kernelLog, streak, truth>>
  BY <1>0 DEF BaselineUnavailable
<1>2. Row(a, FALSE, FALSE) \in EvoRows
  <2>1. a \in RunArtifacts
    BY DEF RunArtifacts
  <2> HIDE DEF a
  <2> QED  BY <2>1, RowFacts
<1> HIDE DEF a
<1>3. rows \in Seq(EvoRows) /\ Len(rows) = left
  <2>1. rows \in [1 .. left -> EvoRows] /\ left \in Nat
    BY <1>1, <1>2
  <2>2. rows \in Seq(EvoRows)
    BY <2>1, SeqDef
  <2>3. DOMAIN rows = 1 .. left
    OBVIOUS
  <2> HIDE DEF rows
  <2>4. DOMAIN rows = 1 .. Len(rows) /\ Len(rows) \in Nat
    BY <2>2, LenProperties
  <2>5. \A m, n \in Nat : 1 .. m = 1 .. n => m = n
    BY FS_Interval
  <2> QED  BY <1>1, <2>2, <2>3, <2>4, <2>5
<1> HIDE DEF rows
<1>4. baselineLog' \in Seq(EvoRows) /\ Len(baselineLog) \in Nat /\ Len(baselineLog') = Len(baselineLog) + left
  BY <1>0, <1>1, <1>3, ConcatProperties, LenProperties DEF LogsTyped
<1>5. EvoTypeOK'
  BY <1>0, <1>1 DEF EvoTypeOK
<1>6. LogsTyped' /\ RowsAreTrue'
  BY <1>0, <1>1, <1>4 DEF LogsTyped, RowsAreTrue
<1>7. RunIsSound'
  BY <1>0, <1>1 DEF RunIsSound
<1>8. CampaignIsSound'
  <2>1. CASE phase = "preflight"
    BY <1>0, <1>1, <1>4, <2>1 DEF CampaignIsSound
  <2>2. CASE phase = "baseline"
    <3>1. PreflightRuns \in 0 .. Len(baselineLog)
      BY <1>0, <1>4, <2>2 DEF CampaignIsSound
    <3>2. SubSeq(baselineLog \o rows, 1, PreflightRuns) = SubSeq(baselineLog, 1, PreflightRuns)
      <4>1. CASE PreflightRuns = 0
        BY <4>1, EvolutionAssumption
      <4>2. CASE PreflightRuns # 0
        <5>1. 1 \in 1 .. Len(baselineLog) /\ PreflightRuns \in 1 .. Len(baselineLog)
          BY <1>4, <3>1, <4>2
        <5> QED  BY <1>0, <1>3, <5>1, SubSeqOfConcat1 DEF LogsTyped
      <4> QED  BY <4>1, <4>2
    <3>3. PreflightErrors' = PreflightErrors
      BY <1>1, <3>2 DEF PreflightErrors
    <3> QED  BY <1>0, <1>1, <1>4, <2>2, <3>3 DEF CampaignIsSound
  <2> QED  BY <1>1, <2>1, <2>2
<1> QED  BY <1>5, <1>6, <1>7, <1>8 DEF EvoInv

LEMMA KernelLogStep == ASSUME EvoInv, KernelLog PROVE EvoInv'
<1>0. /\ EvoTypeOK /\ LogsTyped /\ RowsAreTrue /\ RunIsSound /\ CampaignIsSound
      /\ PreflightRuns \in Nat /\ BatchSize \in Nat /\ MaxBatches \in Nat
  BY EvolutionAssumption DEF EvoInv
<1> DEFINE row == Row(kernelRun.artifact, kernelRun.attempted, kernelRun.repaired)
           run == [first |-> kernelRun.first, executions |-> kernelRun.executions, ok |-> kernelRun.artifact.ok]
<1>1. /\ kernelRun.at = "log" /\ kernelLog' = Append(kernelLog, row) /\ truth' = Append(truth, run)
      /\ kernelRun' = NoRun /\ left' = left - 1 /\ UNCHANGED <<phase, batch, trace, baselineLog, streak>>
  BY DEF KernelLog
<1>2. kernelRun \in Classified /\ RowIsTrue(row, run) /\ phase = "kernel" /\ left > 0
  <2>1. kernelRun # NoRun /\ kernelRun \notin Classifying
    BY <1>1 DEF NoRun, Classifying
  <2> QED  BY <1>0, <1>1, <2>1 DEF RunIsSound
<1>3. row \in EvoRows /\ run \in EvoTruths
  <2>1. kernelRun.artifact \in RunArtifacts /\ kernelRun.attempted \in BOOLEAN /\ kernelRun.repaired \in BOOLEAN
        /\ kernelRun.first \in FailureReasons /\ kernelRun.executions \in {1, 2}
    BY <1>2 DEF Classified
  <2>2. row \in EvoRows /\ kernelRun.artifact.ok \in BOOLEAN
    BY <2>1, RowFacts
  <2> QED  BY <2>1, <2>2 DEF EvoTruths
<1> HIDE DEF row, run
<1>4. /\ kernelLog' \in Seq(EvoRows) /\ truth' \in Seq(EvoTruths) /\ Len(kernelLog') = Len(truth')
      /\ RowsAreTrue'
  BY <1>0, <1>1, <1>2, <1>3, RowsGrow DEF EvoTypeOK
<1>5. EvoTypeOK'
  BY <1>0, <1>1, <1>2, <1>4 DEF EvoTypeOK, NoRun
<1>6. LogsTyped'
  BY <1>0, <1>1, <1>4 DEF LogsTyped
<1>7. RunIsSound'
  BY <1>1 DEF RunIsSound
<1>8. CampaignIsSound'
  BY <1>0, <1>1, <1>2 DEF CampaignIsSound, PreflightErrors
<1> QED  BY <1>4, <1>5, <1>6, <1>7, <1>8 DEF EvoInv

\* The gates: what they leave alone is everything but the phase, the batch and the streak.
LEMMA GateStep ==
    ASSUME EvoInv, UNCHANGED <<trace, kernelRun, baselineLog, kernelLog, truth>>, kernelRun = NoRun,
           CampaignIsSound', phase' \in EvoPhases, left' \in 0 .. PreflightRuns + BatchSize,
           batch' \in 0 .. MaxBatches, streak' \in Nat
    PROVE  EvoInv'
<1>0. /\ EvoTypeOK /\ LogsTyped /\ RowsAreTrue /\ RunIsSound /\ Patience \in Nat /\ MaxBatches \in Nat \ {0}
  BY EvolutionAssumption DEF EvoInv
<1>1. LogsTyped' /\ RowsAreTrue' /\ RunIsSound'
  BY <1>0 DEF LogsTyped, RowsAreTrue, RunIsSound
<1>2. EvoTypeOK'
  BY <1>0 DEF EvoTypeOK, CampaignIsSound
<1> QED  BY <1>1, <1>2 DEF EvoInv

LEMMA EvoStep == EvoInv /\ [EvoNext]_evoVars => EvoInv'
<1> SUFFICES ASSUME EvoInv, [EvoNext]_evoVars PROVE EvoInv'
  OBVIOUS
<1>0. /\ EvoTypeOK /\ LogsTyped /\ RowsAreTrue /\ RunIsSound /\ CampaignIsSound
      /\ {PreflightRuns, BatchSize, MaxBatches, DependencyStop, Patience} \subseteq Nat \ {0}
  BY EvolutionAssumption DEF EvoInv
<1>1. CASE BaselineRun
  BY <1>1, BaselineStep
<1>2. CASE PreflightGate
  <2>1. phase = "preflight" /\ left = 0 /\ UNCHANGED <<trace, kernelRun, baselineLog, kernelLog, streak, truth>>
    BY <1>2 DEF PreflightGate
  <2>2. kernelRun = NoRun
    BY <1>0, <2>1 DEF RunIsSound
  <2>3. Len(baselineLog) = PreflightRuns /\ PreflightErrors = Cardinality(DependencyErrors(baselineLog))
    <3>1. Len(baselineLog) = PreflightRuns
      BY <1>0, <2>1, LenProperties DEF CampaignIsSound, LogsTyped
    <3> QED  BY <1>0, <3>1, SubSeqFull DEF LogsTyped, PreflightErrors
  <2>4. CASE PreflightStops
    <3>1. phase' = "stopped" /\ left' = 0 /\ batch' = batch
      BY <1>2, <2>4 DEF PreflightGate, Campaign
    <3>2. CampaignIsSound'
      BY <1>0, <2>1, <3>1 DEF CampaignIsSound
    <3> QED  BY <1>0, <2>1, <2>2, <3>1, <3>2, GateStep DEF EvoPhases, EvoTypeOK
  <2>5. CASE ~PreflightStops
    <3>1. phase' = "baseline" /\ left' = BatchSize /\ batch' = 1
      BY <1>2, <2>5 DEF PreflightGate, Campaign
    <3>2. PreflightErrors' = PreflightErrors /\ PreflightErrors < DependencyStop
      <4>1. PreflightErrors \in Nat
        <5>1. IsFiniteSet(DOMAIN baselineLog) /\ DependencyErrors(baselineLog) \subseteq DOMAIN baselineLog
          BY <1>0, LenProperties, FS_Interval DEF LogsTyped, DependencyErrors
        <5> QED  BY <2>3, <5>1, FS_Subset, FS_CardinalityType
      <4> QED  BY <1>0, <2>1, <2>3, <2>5, <4>1 DEF PreflightErrors, PreflightStops
    <3>3. CampaignIsSound'
      BY <1>0, <2>1, <2>3, <3>1, <3>2 DEF CampaignIsSound
    <3> QED  BY <1>0, <2>1, <2>2, <3>1, <3>3, GateStep DEF EvoPhases, EvoTypeOK
  <2> QED  BY <2>4, <2>5
<1>3. CASE OutOfTime \/ BaselineDone \/ ValidityGate
  <2>1. /\ phase \in {"baseline", "kernel"} /\ UNCHANGED <<batch, trace, kernelRun, baselineLog, kernelLog, streak, truth>>
        /\ phase' \in {"stopped", "kernel", "judge"} /\ left' \in {0, BatchSize}
        /\ (phase = "kernel" => left = 0)
    BY <1>3 DEF OutOfTime, BaselineDone, ValidityGate, Campaign
  <2>2. kernelRun = NoRun
    BY <1>0, <2>1 DEF RunIsSound
  <2>3. CampaignIsSound'
    BY <1>0, <2>1 DEF CampaignIsSound, PreflightErrors
  <2> QED  BY <1>0, <2>1, <2>2, <2>3, GateStep DEF EvoPhases, EvoTypeOK
<1>4. CASE KernelExecute \/ KernelClassify \/ KernelRepair \/ KernelRerun
  <2>1. /\ RunIsSound' /\ trace' \in Stages \union {NoStage} /\ OnlyTheRun
        /\ kernelRun'.at \in {"idle", "classify", "repair", "rerun", "log"}
    BY <1>4, RunStep
  <2>2. EvoTypeOK'
    BY <1>0, <2>1 DEF EvoTypeOK, OnlyTheRun
  <2>3. LogsTyped' /\ RowsAreTrue' /\ CampaignIsSound'
    BY <1>0, <2>1 DEF LogsTyped, RowsAreTrue, CampaignIsSound, PreflightErrors, OnlyTheRun
  <2> QED  BY <2>1, <2>2, <2>3 DEF EvoInv
<1>5. CASE KernelLog
  BY <1>5, KernelLogStep
<1>6. CASE SafetyController
  <2>1. /\ phase = "judge" /\ UNCHANGED <<trace, kernelRun, baselineLog, kernelLog, truth>>
        /\ streak' = IF NoImprovement THEN streak + 1 ELSE 0
    BY <1>6 DEF SafetyController
  <2>2. kernelRun = NoRun
    BY <1>0, <2>1 DEF RunIsSound
  <2>3. SafetyStops(streak')
    <3>1. baselineLog \o kernelLog \in Seq(EvoRows)
      BY <1>0, ConcatProperties DEF LogsTyped
    <3> QED  BY <3>1, OneClass DEF SafetyStops
  <2>4. phase' = "stopped" /\ left' = 0 /\ batch' = batch
    BY <1>6, <2>3 DEF SafetyController, Campaign
  <2>5. CampaignIsSound' /\ streak' \in Nat
    BY <1>0, <2>1, <2>4 DEF CampaignIsSound, EvoTypeOK
  <2> QED  BY <1>0, <2>1, <2>2, <2>4, <2>5, GateStep DEF EvoPhases, EvoTypeOK
<1>7. CASE UNCHANGED evoVars
  <2>1. EvoTypeOK' /\ LogsTyped' /\ RowsAreTrue'
    BY <1>0, <1>7 DEF evoVars, EvoTypeOK, LogsTyped, RowsAreTrue
  <2>2. RunIsSound' /\ CampaignIsSound'
    BY <1>0, <1>7 DEF evoVars, RunIsSound, CampaignIsSound, PreflightErrors
  <2> QED  BY <2>1, <2>2 DEF EvoInv
<1>8. CASE BaselineUnavailable
  BY <1>8, UnavailableStep
<1> QED  BY <1>1, <1>2, <1>3, <1>4, <1>5, <1>6, <1>7, <1>8 DEF EvoNext
-----------------------------------------------------------------------------
(* Evolution: what the invariant says.                                     *)

LEMMA MatrixFollows == EvoInv => MatrixIsTrue
<1> SUFFICES ASSUME EvoInv PROVE MatrixIsTrue
  OBVIOUS
<1>0. LogsTyped /\ RowsAreTrue /\ Len(kernelLog) = Len(truth)
  BY DEF EvoInv, EvoTypeOK
<1> DEFINE D == DOMAIN kernelLog
           failed == {i \in D : kernelLog[i].status \in {"FAIL"} /\ kernelLog[i].attempted = TRUE}
           mended == {i \in D : kernelLog[i].status \in {"SUCCESS"} /\ kernelLog[i].attempted = TRUE}
           plain == {i \in D : kernelLog[i].status \in {"FAIL"} /\ kernelLog[i].attempted = FALSE}
           failedFirst == {i \in D : truth[i].first # NoReason}
           well == {i \in D : truth[i].first # NoReason /\ truth[i].ok}
           lost == {i \in D : ~truth[i].ok}
           attempts == {i \in D : kernelLog[i].attempted}
           successes == {i \in D : kernelLog[i].repaired}
<1>1. DOMAIN truth = D /\ IsFiniteSet(D)
  BY <1>0, LenProperties, FS_Interval DEF LogsTyped
<1>2. ASSUME NEW i \in D
      PROVE  /\ kernelLog[i] \in EvoRows /\ truth[i] \in EvoTruths /\ RowIsTrue(kernelLog[i], truth[i])
  BY <1>0, <1>1, <1>2, ElementOfSeq, LenProperties DEF LogsTyped, RowsAreTrue
<1>3. ASSUME NEW i \in D
      PROVE  /\ i \in failedFirst <=> i \in failed \union mended \union plain
             /\ i \in well <=> i \in mended
             /\ i \in lost <=> i \in failed \union plain
             /\ i \in attempts <=> i \in failed \union mended
             /\ i \in successes <=> i \in mended
  <2>1. /\ kernelLog[i].status \in {"SUCCESS", "FAIL"} /\ kernelLog[i].attempted \in BOOLEAN
        /\ truth[i].ok \in BOOLEAN /\ RowIsTrue(kernelLog[i], truth[i])
    BY <1>2 DEF EvoRows, EvoTruths
  <2> QED  BY <2>1 DEF RowIsTrue, NoReason
<1>4. /\ failedFirst = (failed \union mended) \union plain /\ well = mended /\ lost = failed \union plain
      /\ attempts = failed \union mended /\ successes = mended
      /\ failed \intersect mended = {} /\ (failed \union mended) \intersect plain = {}
      /\ failed \intersect plain = {} /\ failed \subseteq D /\ mended \subseteq D /\ plain \subseteq D
  <2>1. failedFirst \subseteq D /\ well \subseteq D /\ lost \subseteq D /\ attempts \subseteq D /\ successes \subseteq D
        /\ failed \subseteq D /\ mended \subseteq D /\ plain \subseteq D
    OBVIOUS
  <2>2. /\ failed \intersect mended = {} /\ (failed \union mended) \intersect plain = {}
        /\ failed \intersect plain = {}
    OBVIOUS
  <2> HIDE DEF failed, mended, plain, failedFirst, well, lost, attempts, successes
  <2> QED  BY <1>3, <2>1, <2>2
<1>5. /\ Matrix(kernelLog).S0 = Cardinality(failed) + Cardinality(mended) + Cardinality(plain)
      /\ Matrix(kernelLog).S1 = Cardinality(failed) + Cardinality(mended)
      /\ Matrix(kernelLog).S0S2 = Cardinality(mended)
      /\ Matrix(kernelLog).S0S3 = Cardinality(failed) + Cardinality(plain)
      /\ Matrix(kernelLog).S1S2 = Cardinality(mended) /\ Matrix(kernelLog).S1S3 = Cardinality(failed)
      /\ RepairTable(kernelLog).repairSuccess = Cardinality(mended)
      /\ RepairTable(kernelLog).repairFail = Cardinality(failed)
      /\ RepairMetrics(kernelLog).attempts = Cardinality(attempts)
      /\ RepairMetrics(kernelLog).successes = Cardinality(successes)
  BY DEF Matrix, RepairTable, RepairMetrics, HowMany
<1>6. /\ Cardinality(failed) \in Nat /\ Cardinality(mended) \in Nat /\ Cardinality(plain) \in Nat
      /\ Cardinality(failed \union mended) = Cardinality(failed) + Cardinality(mended)
      /\ Cardinality(failed \union plain) = Cardinality(failed) + Cardinality(plain)
      /\ Cardinality((failed \union mended) \union plain)
             = Cardinality(failed) + Cardinality(mended) + Cardinality(plain)
  <2> HIDE DEF failed, mended, plain, D
  <2>1. /\ IsFiniteSet(failed) /\ IsFiniteSet(mended) /\ IsFiniteSet(plain) /\ IsFiniteSet(failed \union mended)
    BY <1>1, <1>4, FS_Subset, FS_Union
  <2>2. /\ Cardinality(failed) \in Nat /\ Cardinality(mended) \in Nat /\ Cardinality(plain) \in Nat
    BY <2>1, FS_CardinalityType
  <2>3. /\ Cardinality(failed \intersect mended) = 0 /\ Cardinality(failed \intersect plain) = 0
        /\ Cardinality((failed \union mended) \intersect plain) = 0
    BY <1>4, FS_EmptySet
  <2>4. Cardinality(failed \union mended) = Cardinality(failed) + Cardinality(mended) - Cardinality(failed \intersect mended)
    BY <2>1, FS_Union
  <2>5. Cardinality(failed \union plain) = Cardinality(failed) + Cardinality(plain) - Cardinality(failed \intersect plain)
    BY <2>1, FS_Union
  <2>6. Cardinality((failed \union mended) \union plain)
           = Cardinality(failed \union mended) + Cardinality(plain) - Cardinality((failed \union mended) \intersect plain)
    BY <2>1, FS_Union
  <2> QED  BY <2>2, <2>3, <2>4, <2>5, <2>6
<1>7. MatrixIsTrue <=>
        /\ Matrix(kernelLog).S0 = Cardinality(failedFirst) /\ Matrix(kernelLog).S0S2 = Cardinality(well)
        /\ Matrix(kernelLog).S0S3 = Cardinality(lost)
        /\ Matrix(kernelLog).S1 = Matrix(kernelLog).S1S2 + Matrix(kernelLog).S1S3
        /\ Matrix(kernelLog).S0 = Matrix(kernelLog).S0S2 + Matrix(kernelLog).S0S3
        /\ RepairTable(kernelLog).repairSuccess + RepairTable(kernelLog).repairFail
               = RepairMetrics(kernelLog).attempts
        /\ Matrix(kernelLog).S1S2 = RepairMetrics(kernelLog).successes
  BY <1>1 DEF MatrixIsTrue
<1> HIDE DEF failed, mended, plain, failedFirst, well, lost, attempts, successes
<1> QED  BY <1>4, <1>5, <1>6, <1>7

\* The evaluation keeps its types.
THEOREM EvoTypeCorrect == EvoSpec => []EvoTypeOK
<1>1. EvoInv => EvoTypeOK
  BY DEF EvoInv
<1> QED  BY <1>1, EvoStart, EvoStep, PTL DEF EvoSpec

\* Repairs are attempted where they were due, transition_matrix.py counts what happened, and no kernel run follows
\* a preflight with too many dependency errors.
THEOREM EvolutionCorrect == EvoSpec => []EvolutionHolds
<1>1. EvoInv => RepairIsEarned
  <2> SUFFICES ASSUME EvoInv, NEW i \in DOMAIN kernelLog
               PROVE  /\ kernelLog[i].attempted <=> truth[i].first = "DEPENDENCY_ERROR"
                      /\ truth[i].executions = 2 => kernelLog[i].attempted
                      /\ kernelLog[i].repaired <=> truth[i].executions = 2 /\ truth[i].ok
    BY DEF RepairIsEarned
  <2> QED  BY DEF EvoInv, RowsAreTrue, RowIsTrue
<1>2. EvoInv => GatesStop
  BY DEF EvoInv, CampaignIsSound, PreflightErrors, GatesStop
<1>3. EvoInv => EvolutionHolds
  BY <1>1, <1>2, MatrixFollows DEF EvolutionHolds
<1> QED  BY <1>3, EvoStart, EvoStep, PTL DEF EvoSpec
-----------------------------------------------------------------------------
(* All the parts side by side.                                             *)

\* Where the parts start.
LEMMA PartsStart ==
    PartsInit => Init /\ ApiInit /\ EvoInit /\ FeedbackInit /\ RoundInit /\ PaperInit /\ HerdingInit
BY DEF PartsInit

\* A step of the composition is a step of each part, or leaves it alone.
LEMMA PartsSteps ==
    [PartsNext]_partsVars =>
        /\ [Next]_vars /\ [ApiNext]_apiVars /\ [EvoNext]_evoVars /\ [FeedbackNext]_goalVars
        /\ [RoundNext]_roundVars /\ [PaperNext]_paperVars /\ [Contribute]_items
BY DEF PartsNext, partsVars

\* Every part goes its own way in the composition.
THEOREM PartsImplementParts ==
    PartsSpec => Spec /\ ApiSpec /\ EvoSpec /\ FeedbackSpec /\ RoundSpec /\ PaperSpec /\ HerdingSpec
BY PartsStart, PartsSteps, PTL
   DEF PartsSpec, Spec, ApiSpec, EvoSpec, FeedbackSpec, RoundSpec, PaperSpec, HerdingSpec

\* Every variable of every part keeps its type.
THEOREM PartsTypeCorrect == PartsSpec => []PartsTypeOK
<1>1. TypeOK /\ ApiTypeOK /\ EvoTypeOK /\ FeedbackTypeOK /\ RoundTypeOK /\ PaperTypeOK /\ HerdingTypeOK => PartsTypeOK
  BY DEF PartsTypeOK
<1> QED
  BY <1>1, PartsImplementParts, StateTypeCorrect, ApiTypeCorrect, EvoTypeCorrect, FeedbackTypeCorrect, RoundTypeCorrect,
     PaperTypeCorrect, HerdingTypeCorrect, PTL

\* What the parts promise holds side by side.
THEOREM PartsCorrect ==
    PartsSpec => [](CalmFileIsComplete /\ ApiHolds /\ EvolutionHolds /\ FeedbackHolds /\ RoundsHold /\ HintIsEarned
                    /\ PaperHolds /\ HerdingHolds)
BY PartsImplementParts, CalmFileIsCompleteCorrect, ApiCorrect, EvolutionCorrect, FeedbackCorrect, RoundsCorrect,
   HintsEarned, PaperCorrect, HerdingCorrect, PTL
=============================================================================
