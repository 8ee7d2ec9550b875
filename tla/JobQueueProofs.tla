--------------------------- MODULE JobQueueProofs ---------------------------
(***************************************************************************)
(* Proofs about the job queue, for any set of jobs and of watcher slots and*)
(* for any bounds.                                                         *)
(***************************************************************************)
EXTENDS JobQueue, TLAPS

(***************************************************************************)
(* Types.                                                                  *)
(***************************************************************************)

LEMMA TypeInit == Init => TypeOK
<1>. SUFFICES ASSUME Init PROVE TypeOK
  OBVIOUS
<1>1. TypeFiles
  BY DEF Init, TypeFiles, Locations, Rows
<1>2. TypeProcs
  BY DEF Init, TypeProcs, WatcherStates
<1>3. TypeLoops
  BY DEF Init, TypeLoops
<1>4. TypeRun
  BY BoundsAssumption DEF Init, TypeRun, Verdicts
<1>5. TypeHistory
  BY BoundsAssumption DEF Init, TypeHistory
<1>. QED  BY <1>1, <1>2, <1>3, <1>4, <1>5 DEF TypeOK

LEMMA GoesOnType ==
    ASSUME TypeProcs, NEW w \in Watchers,
           NEW to \in RescueStates \union RunStates, ChildGoesOn(w, to)
    PROVE  TypeProcs'
BY DEF TypeProcs, ChildGoesOn

LEMMA EndsType ==
    ASSUME TypeProcs, TypeLoops, NEW w \in Watchers, ChildEnds(w),
           wake' \in [Watchers -> BOOLEAN]
    PROVE  TypeProcs' /\ TypeLoops'
<1>1. AfterChild(wpc[w]) \in WatcherStates
  BY DEF TypeProcs, AfterChild, WatcherStates
<1>2. wpc' \in [Watchers -> WatcherStates]
  BY <1>1 DEF TypeProcs, ChildEnds
<1>3. kid' \in [Watchers -> {"idle", "pause"} \union RescueStates \union RunStates]
  BY DEF TypeProcs, ChildEnds
<1>4. cur' \in [Watchers -> SUBSET Jobs]
  BY DEF TypeProcs, ChildEnds
<1>5. lock' \in Watchers \union {NoWatcher}
  BY DEF TypeProcs, ChildEnds, LockAfter
<1>6. TypeLoops'
  BY DEF TypeLoops, ChildEnds
<1>. QED  BY <1>2, <1>3, <1>4, <1>5, <1>6 DEF TypeProcs

LEMMA NotifiedType == Notified \in [Watchers -> BOOLEAN]
BY DEF Notified

\* A stage of a run keeps the types of everything but verdict, attempts, exec.
LEMMA StageType ==
    ASSUME TypeOK, NEW w \in Watchers, NEW j \in Jobs, NEW state \in Rows,
           NEW to \in RunStates, Stage(w, j, to, state)
    PROVE  /\ TypeFiles' /\ TypeProcs' /\ TypeLoops'
           /\ UNCHANGED <<metric, starts, kills>>
<1>1. TypeProcs'
  BY GoesOnType DEF TypeOK, Stage
<1>2. TypeFiles'
  BY DEF TypeOK, TypeFiles, Stage
<1>3. TypeLoops'
  BY DEF TypeOK, TypeLoops, Stage
<1>. QED  BY <1>1, <1>2, <1>3 DEF Stage

LEMMA ConcludeType ==
    ASSUME TypeOK, NEW w \in Watchers, NEW j \in Jobs, NEW how \in Verdicts,
           Conclude(w, j, how)
    PROVE  /\ TypeFiles' /\ TypeProcs' /\ TypeLoops'
           /\ verdict' \in [Watchers -> Verdicts]
           /\ UNCHANGED <<metric, starts, kills>>
<1>1. how \in Rows /\ "finalize" \in RunStates
  BY DEF Verdicts, Rows, RunStates
<1>2. Stage(w, j, "finalize", how)
  BY DEF Conclude
<1>3. verdict' \in [Watchers -> Verdicts]
  BY DEF Conclude, TypeOK, TypeRun
<1>. QED  BY <1>1, <1>2, <1>3, StageType

LEMMA CurrentJob ==
    ASSUME TypeOK, NEW w \in Watchers, NEW j \in cur[w]
    PROVE  j \in Jobs
BY DEF TypeOK, TypeProcs

LEMMA RunType ==
    ASSUME TypeOK, NEW w \in Watchers, RunJob(w)
    PROVE  TypeOK'
<1>. USE BoundsAssumption, CurrentJob
<1>0. /\ {"running", "validating", "repairing", "pushing"} \subseteq Rows
      /\ {"factory", "validate", "fix", "revalidate", "push", "metric"}
            \subseteq RunStates
      /\ {"done", "failed"} = Verdicts
      /\ Verdicts \subseteq Locations
  BY DEF Rows, RunStates, Verdicts, Locations
<1>a. ASSUME UNCHANGED <<exec, metric, starts, kills>> PROVE TypeHistory'
  BY <1>a DEF TypeOK, TypeHistory
<1>1. CASE RunStart(w)
  <2>1. PICK j \in cur[w] :
          \/ /\ ChildEnds(w)
             /\ UNCHANGED <<files, wake, exec, metric, starts, kills>>
          \/ /\ Stage(w, j, "factory", "running")
             /\ exec' = [exec EXCEPT ![j] = IF @ < RunCap THEN @ + 1 ELSE @]
    BY <1>1 DEF RunStart
  <2>2. TypeRun'
    BY <1>1 DEF RunStart, TypeOK, TypeRun
  <2>3. CASE /\ ChildEnds(w)
             /\ UNCHANGED <<files, wake, exec, metric, starts, kills>>
    <3>1. TypeProcs' /\ TypeLoops'
      BY <2>3, EndsType DEF TypeOK, TypeLoops
    <3>2. TypeFiles'
      BY <2>3 DEF TypeOK, TypeFiles, files
    <3>. QED  BY <2>2, <2>3, <3>1, <3>2, <1>a DEF TypeOK
  <2>4. CASE /\ Stage(w, j, "factory", "running")
             /\ exec' = [exec EXCEPT ![j] = IF @ < RunCap THEN @ + 1 ELSE @]
    <3>1. /\ TypeFiles' /\ TypeProcs' /\ TypeLoops'
          /\ UNCHANGED <<metric, starts, kills>>
      BY <2>4, <1>0, StageType
    <3>2. exec' \in [Jobs -> 0 .. RunCap]
      BY <2>4 DEF TypeOK, TypeHistory
    <3>3. TypeHistory'
      BY <3>1, <3>2 DEF TypeOK, TypeHistory
    <3>. QED  BY <2>2, <3>1, <3>3 DEF TypeOK
  <2>. QED  BY <2>1, <2>3, <2>4
<1>2. CASE Factory(w)
  BY <1>0, <1>2, <1>a, StageType, ConcludeType DEF Factory, TypeOK, TypeRun
<1>b. ASSUME NEW j \in cur[w], NEW n \in 1 .. MaxFix + 1,
             RepairOrGiveUp(w, j, n), UNCHANGED exec
      PROVE  TypeOK'
  <2>1. CASE n <= MaxFix
    BY <1>0, <1>b, <1>a, <2>1, StageType DEF RepairOrGiveUp, TypeOK, TypeRun
  <2>2. CASE ~(n <= MaxFix)
    BY <1>0, <1>b, <1>a, <2>2, ConcludeType DEF RepairOrGiveUp, TypeOK, TypeRun
  <2>. QED  BY <2>1, <2>2
<1>c. ASSUME NEW j \in cur[w], NEW n \in 0 .. MaxFix,
             ReadyToPush(w, j), UNCHANGED exec,
             attempts' = [attempts EXCEPT ![w] = n]
      PROVE  TypeOK'
  BY <1>0, <1>c, <1>a, StageType DEF ReadyToPush, TypeOK, TypeRun
<1>3. CASE Validate(w)
  BY <1>3, <1>b, <1>c DEF Validate
<1>4. CASE Fix(w)
  BY <1>0, <1>4, <1>a, StageType, ConcludeType DEF Fix, TypeOK, TypeRun
<1>5. CASE Revalidate(w)
  <2>1. attempts[w] + 1 \in 1 .. MaxFix + 1 /\ attempts[w] \in 0 .. MaxFix
    BY DEF TypeOK, TypeRun
  <2>2. attempts = [attempts EXCEPT ![w] = attempts[w]]
    BY DEF TypeOK, TypeRun
  <2>. QED  BY <1>5, <1>b, <1>c, <2>1, <2>2 DEF Revalidate
<1>6. CASE Push(w)
  BY <1>6, <1>a, ConcludeType DEF Push, TypeOK, TypeRun
<1>7. CASE Finalize(w)
  <2>1. TypeFiles'
    BY <1>0, <1>7 DEF Finalize, TypeOK, TypeFiles, TypeRun
  <2>2. TypeProcs' /\ TypeLoops'
    BY <1>0, <1>7, GoesOnType, EndsType DEF Finalize, TypeOK, TypeLoops
  <2>3. TypeRun' /\ TypeHistory'
    BY <1>7, <1>a DEF Finalize, TypeOK, TypeRun
  <2>. QED  BY <2>1, <2>2, <2>3 DEF TypeOK
<1>8. CASE WriteMetric(w)
  <2>1. PICK j \in cur[w] :
          metric' = [metric EXCEPT ![j] = Append(metric[j], verdict[w])]
    BY <1>8 DEF WriteMetric
  <2>2. metric[j] \in Seq(Verdicts) /\ verdict[w] \in Verdicts
    BY DEF TypeOK, TypeHistory, TypeRun
  <2>3. Append(metric[j], verdict[w]) \in Seq(Verdicts)
    BY <2>2
  <2>4. TypeHistory'
    BY <1>8, <2>1, <2>3 DEF WriteMetric, TypeOK, TypeHistory
  <2>5. TypeProcs' /\ TypeLoops'
    BY <1>8, EndsType DEF WriteMetric, TypeOK, TypeLoops
  <2>6. TypeFiles' /\ TypeRun'
    BY <1>8 DEF WriteMetric, TypeOK, TypeFiles, TypeRun, files
  <2>. QED  BY <2>4, <2>5, <2>6 DEF TypeOK
<1>. QED
  BY <1>1, <1>2, <1>3, <1>4, <1>5, <1>6, <1>7, <1>8 DEF RunJob

LEMMA RescueType ==
    ASSUME TypeOK, NEW w \in Watchers, Rescue(w)
    PROVE  TypeOK'
<1>0. /\ {"check", "stat", "move", "mark"} = RescueStates
      /\ "incoming" \in Locations /\ "queued" \in Rows
  BY DEF RescueStates, Locations, Rows
<1>a. ASSUME UNCHANGED <<exec, metric, starts, kills>> PROVE TypeHistory'
  BY <1>a DEF TypeOK, TypeHistory
<1>b. ASSUME UNCHANGED <<verdict, attempts>> PROVE TypeRun'
  BY <1>b DEF TypeOK, TypeRun
<1>c. ASSUME UNCHANGED files PROVE TypeFiles'
  BY <1>c DEF TypeOK, TypeFiles, files
<1>1. CASE RescueBegin(w)
  <2>1. TypeProcs'
    BY <1>0, <1>1 DEF RescueBegin, TypeOK, TypeProcs
  <2>2. TypeLoops'
    BY <1>1 DEF RescueBegin, TypeOK, TypeLoops, In
  <2>. QED  BY <1>1, <1>a, <1>b, <1>c, <2>1, <2>2 DEF RescueBegin, TypeOK
<1>2. CASE RescueEnd(w)
  <2>1. TypeProcs' /\ TypeLoops'
    BY <1>2, EndsType DEF RescueEnd, TypeOK, TypeLoops
  <2>. QED  BY <1>2, <1>a, <1>b, <1>c, <2>1 DEF RescueEnd, TypeOK
<1>3. CASE RescueCheck(w)
  <2>1. TypeProcs'
    BY <1>0, <1>3, GoesOnType DEF RescueCheck, TypeOK
  <2>2. TypeLoops'
    BY <1>3 DEF RescueCheck, TypeOK, TypeLoops
  <2>. QED  BY <1>3, <1>a, <1>b, <1>c, <2>1, <2>2 DEF RescueCheck, TypeOK
<1>4. CASE RescueStat(w)
  <2>1. CASE ChildEnds(w)
    BY <1>4, <2>1, EndsType, <1>a, <1>b, <1>c DEF RescueStat, TypeOK, TypeLoops
  <2>2. ASSUME NEW to \in RescueStates, ChildGoesOn(w, to),
               \/ UNCHANGED <<scan, due>>
               \/ /\ \E j \in Jobs : scan' = [scan EXCEPT ![w] = @ \ {j}]
                  /\ UNCHANGED due
        PROVE  TypeOK'
    <3>1. TypeProcs'
      BY <2>2, GoesOnType DEF TypeOK
    <3>2. TypeLoops'
      BY <1>4, <2>2 DEF RescueStat, TypeOK, TypeLoops
    <3>. QED  BY <1>4, <1>a, <1>b, <1>c, <3>1, <3>2 DEF RescueStat, TypeOK
  <2>. QED  BY <1>0, <1>4, <2>1, <2>2 DEF RescueStat
<1>5. CASE RescueMove(w)
  <2>1. TypeFiles'
    BY <1>0, <1>5 DEF RescueMove, TypeOK, TypeFiles
  <2>2. wake' \in [Watchers -> BOOLEAN]
    BY <1>5, NotifiedType DEF RescueMove, TypeOK, TypeLoops
  <2>3. TypeProcs' /\ TypeLoops'
    BY <1>0, <1>5, <2>2, GoesOnType, EndsType DEF RescueMove, TypeOK, TypeLoops
  <2>. QED  BY <1>5, <1>a, <1>b, <2>1, <2>3 DEF RescueMove, TypeOK
<1>6. CASE RescueMark(w)
  <2>1. TypeFiles'
    BY <1>0, <1>6 DEF RescueMark, TypeOK, TypeFiles
  <2>2. TypeProcs'
    BY <1>0, <1>6, GoesOnType DEF RescueMark, TypeOK
  <2>3. TypeLoops'
    BY <1>6 DEF RescueMark, TypeOK, TypeLoops
  <2>. QED  BY <1>6, <1>a, <1>b, <2>1, <2>2, <2>3 DEF RescueMark, TypeOK
<1>. QED  BY <1>1, <1>2, <1>3, <1>4, <1>5, <1>6 DEF Rescue

LEMMA WatchType ==
    ASSUME TypeOK, NEW w \in Watchers, Watch(w)
    PROVE  TypeOK'
<1>0. /\ {"off", "process", "sweep", "resweep", "leased", "run", "wait"}
            \subseteq WatcherStates
      /\ "start" \in RunStates /\ "leased" \in Locations \intersect Rows
      /\ "failed" \in Verdicts
  BY DEF WatcherStates, RunStates, Locations, Rows, Verdicts
<1>a. ASSUME UNCHANGED <<exec, metric, starts, kills>> PROVE TypeHistory'
  BY <1>a DEF TypeOK, TypeHistory
<1>b. ASSUME UNCHANGED <<verdict, attempts>> PROVE TypeRun'
  BY <1>b DEF TypeOK, TypeRun
<1>c. ASSUME UNCHANGED files PROVE TypeFiles'
  BY <1>c DEF TypeOK, TypeFiles, files
<1>d. ASSUME UNCHANGED <<scan, due, wake>> PROVE TypeLoops'
  BY <1>d DEF TypeOK, TypeLoops
<1>1. CASE TryLock(w)
  <2>1. TypeProcs'
    BY <1>0, <1>1 DEF TryLock, TypeOK, TypeProcs
  <2>. QED  BY <1>1, <1>a, <1>b, <1>c, <1>d, <2>1 DEF TryLock, TypeOK
<1>2. CASE LeaseOne(w)
  <2>1. TypeProcs'
    BY <1>0, <1>2 DEF LeaseOne, TypeOK, TypeProcs
  <2>2. TypeFiles'
    BY <1>0, <1>2 DEF LeaseOne, TypeOK, TypeFiles
  <2>. QED  BY <1>2, <1>a, <1>b, <1>d, <2>1, <2>2 DEF LeaseOne, TypeOK
<1>3. CASE NothingToLease(w)
  <2>1. TypeProcs'
    BY <1>0, <1>3 DEF NothingToLease, Pause, TypeOK, TypeProcs
  <2>. QED  BY <1>3, <1>a, <1>b, <1>c, <1>d, <2>1 DEF NothingToLease, TypeOK
<1>4. CASE Launch(w)
  <2>1. TypeProcs'
    BY <1>0, <1>4 DEF Launch, TypeOK, TypeProcs
  <2>2. TypeFiles'
    BY <1>0, <1>4 DEF Launch, TypeOK, TypeFiles
  <2>3. TypeRun'
    BY <1>0, <1>4, BoundsAssumption DEF Launch, TypeOK, TypeRun
  <2>. QED  BY <1>4, <1>a, <1>d, <2>1, <2>2, <2>3 DEF Launch, TypeOK
<1>5. CASE Arm(w)
  <2>1. TypeProcs' /\ TypeLoops'
    BY <1>0, <1>5 DEF Arm, Pause, TypeOK, TypeProcs, TypeLoops
  <2>. QED  BY <1>5, <1>a, <1>b, <1>c, <2>1 DEF Arm, TypeOK
<1>. QED  BY <1>1, <1>2, <1>3, <1>4, <1>5 DEF Watch

LEMMA WakeType == TypeOK /\ (\E w \in Watchers : Wake(w)) => TypeOK'
<1>. SUFFICES ASSUME TypeOK, NEW w \in Watchers, Wake(w) PROVE TypeOK'
  OBVIOUS
<1>1. TypeProcs' /\ TypeLoops'
  BY EndsType DEF Wake, TypeOK, TypeLoops
<1>2. TypeFiles' /\ TypeRun' /\ TypeHistory'
  BY DEF Wake, files, TypeOK, TypeFiles, TypeRun, TypeHistory
<1>. QED  BY <1>1, <1>2 DEF TypeOK

LEMMA SubmitType == TypeOK /\ (\E j \in Jobs : Submit(j)) => TypeOK'
<1>. SUFFICES ASSUME TypeOK, NEW j \in Jobs, Submit(j) PROVE TypeOK'
  OBVIOUS
<1>1. TypeFiles'
  BY DEF Submit, TypeOK, TypeFiles, Locations
<1>2. TypeLoops'
  BY NotifiedType DEF Submit, TypeOK, TypeLoops
<1>3. TypeProcs' /\ TypeRun' /\ TypeHistory'
  BY DEF Submit, TypeOK, TypeProcs, TypeRun, TypeHistory
<1>. QED  BY <1>1, <1>2, <1>3 DEF TypeOK

LEMMA AgeType == TypeOK /\ (\E j \in Jobs : Age(j)) => TypeOK'
BY DEF Age, procs, TypeOK, TypeFiles, TypeProcs, TypeLoops, TypeRun,
       TypeHistory

LEMMA StartType == TypeOK /\ (\E w \in Watchers : Start(w)) => TypeOK'
<1>. SUFFICES ASSUME TypeOK, NEW w \in Watchers, Start(w) PROVE TypeOK'
  OBVIOUS
<1>1. TypeProcs'
  BY DEF Start, TypeOK, TypeProcs, WatcherStates
<1>2. TypeHistory'
  BY BoundsAssumption DEF Start, TypeOK, TypeHistory
<1>. QED
  BY <1>1, <1>2 DEF Start, TypeOK, TypeFiles, TypeLoops, TypeRun, files

LEMMA KillType ==
    TypeOK /\ (\E w \in Watchers : Kill(w) \/ KillTree(w)) => TypeOK'
<1>. SUFFICES ASSUME TypeOK, NEW w \in Watchers, Kill(w) \/ KillTree(w)
              PROVE  TypeOK'
  OBVIOUS
<1>1. lock' \in Watchers \union {NoWatcher}
  BY DEF Kill, KillTree, LockAfter, TypeOK, TypeProcs
<1>2. /\ wpc' \in [Watchers -> WatcherStates]
      /\ kid' \in [Watchers -> {"idle", "pause"} \union RescueStates \union RunStates]
      /\ cur' \in [Watchers -> SUBSET Jobs]
  BY DEF Kill, KillTree, TypeOK, TypeProcs, WatcherStates
<1>3. TypeLoops'
  BY DEF Kill, KillTree, TypeOK, TypeLoops
<1>4. TypeHistory'
  BY BoundsAssumption DEF Kill, KillTree, TypeOK, TypeHistory
<1>5. TypeFiles' /\ TypeRun'
  BY DEF Kill, KillTree, TypeOK, TypeFiles, TypeRun, files
<1>. QED  BY <1>1, <1>2, <1>3, <1>4, <1>5 DEF TypeOK, TypeProcs

LEMMA StutterType == TypeOK /\ UNCHANGED vars => TypeOK'
BY DEF vars, TypeOK, TypeFiles, TypeProcs, TypeLoops, TypeRun, TypeHistory

LEMMA TypeStep == TypeOK /\ [Next]_vars => TypeOK'
BY SubmitType, AgeType, StartType, KillType, WatchType, WakeType, RescueType, RunType,
   StutterType DEF Next

\* Every variable has its type in every reachable state; in particular a run
\* of run_job.sh never counts more than MAX_FIX repair attempts.
THEOREM TypeCorrect == Spec => []TypeOK
BY TypeInit, TypeStep, PTL DEF Spec

(***************************************************************************)
(* Control: the lock, the child of a slot and the job it works on.         *)
(***************************************************************************)

LEMMA Kinds ==
    /\ RescueStates \intersect RunStates = {}
    /\ {"idle", "pause"} \intersect (RescueStates \union RunStates) = {}
BY DEF RescueStates, RunStates

\* Two slots that hold the lock are one.
LEMMA OneHolder ==
    ASSUME LockHeld, NEW v \in Watchers, NEW w \in Watchers, Holds(v), Holds(w)
    PROVE  v = w
BY DEF LockHeld

\* Whoever has a job holds the lock.
LEMMA JobHolder ==
    ASSUME Control, NEW w \in Watchers, NEW j \in cur[w]
    PROVE  /\ Holds(w)
           /\ cur[w] = {j}
           /\ Running(w) \/ wpc[w] = "leased"
BY DEF Control, OneJob, Holds, LockedStates

\* A child that goes on as what it is disturbs nothing.
LEMMA GoesOnControl ==
    ASSUME TypeOK, Control, NEW w \in Watchers,
           NEW to \in RescueStates \union RunStates,
           kid[w] \in RescueStates <=> to \in RescueStates, kid[w] \notin {"idle", "pause"},
           ChildGoesOn(w, to)
    PROVE  Control'
<1>1. /\ wpc' = wpc /\ lock' = lock /\ cur' = cur
      /\ \A v \in Watchers :
          /\ Running(v)' <=> Running(v)
          /\ kid'[v] \in RescueStates <=> kid[v] \in RescueStates
          /\ kid'[v] = "pause" <=> kid[v] = "pause"
  BY Kinds DEF ChildGoesOn, Running, TypeOK, TypeProcs
<1>. QED  BY <1>1 DEF Control, ChildFits, LockHeld, OneJob, Holds

\* A child that ends hands over to its watcher, or frees the lock.
LEMMA EndsControl ==
    ASSUME TypeOK, Control, NEW w \in Watchers, kid[w] # "idle", ChildEnds(w)
    PROVE  Control'
<1>. DEFINE next == AfterChild(wpc[w])
<1>1. /\ wpc' = [wpc EXCEPT ![w] = next]
      /\ kid' = [kid EXCEPT ![w] = "idle"]
      /\ cur' = [cur EXCEPT ![w] = {}]
      /\ lock' = IF wpc[w] = "off" /\ lock = w THEN NoWatcher ELSE lock
  BY DEF ChildEnds, LockAfter
<1>2. /\ wpc[w] \in {"boot", "sweep", "resweep", "run", "wait", "off"}
      /\ kid[w] \in RunStates => wpc[w] \in {"run", "off"}
  BY DEF Control, ChildFits, Running, TypeOK, TypeProcs
<1>3. /\ next \in {"lock", "process", "sweep", "arm", "off"}
      /\ next = "off" <=> wpc[w] = "off"
      /\ next = "lock" <=> wpc[w] = "boot"
  BY <1>2 DEF AfterChild
<1>4. ASSUME NEW v \in Watchers, v # w
      PROVE  wpc'[v] = wpc[v] /\ kid'[v] = kid[v] /\ cur'[v] = cur[v]
  BY <1>1, <1>4
<1>5. wpc'[w] = next /\ kid'[w] = "idle" /\ cur'[w] = {}
  BY <1>1 DEF TypeOK, TypeProcs
<1>. HIDE DEF next
<1>6. ChildFits'
  BY <1>3, <1>4, <1>5, Kinds DEF Control, ChildFits, Running
<1>7. LockHeld'
  <2>1. ASSUME NEW v \in Watchers, Holds(v)' PROVE lock' = v
    <3>1. CASE v = w
      BY <1>1, <1>2, <1>3, <1>5, <2>1, <3>1, Kinds
         DEF Control, LockHeld, Holds, Running, LockedStates
    <3>2. CASE v # w
      BY <1>1, <1>4, <2>1, <3>2 DEF Control, LockHeld, Holds, Running
    <3>. QED  BY <3>1, <3>2
  <2>. QED  BY <2>1 DEF LockHeld
<1>8. OneJob'
  BY <1>3, <1>4, <1>5, Kinds DEF Control, OneJob, Running
<1>. QED  BY <1>6, <1>7, <1>8 DEF Control

\* A step of a run is a step of its child.
LEMMA RunShape ==
    ASSUME TypeOK, NEW w \in Watchers, RunJob(w)
    PROVE  /\ kid[w] \in RunStates
           /\ ChildEnds(w) \/ \E to \in RunStates \ {"start"} : ChildGoesOn(w, to)
<1>0. {"start", "factory", "validate", "fix", "revalidate", "push", "finalize",
       "metric"} = RunStates
  BY DEF RunStates
<1>. USE DEF Stage, Conclude
<1>1. CASE RunStart(w)
  BY <1>0, <1>1 DEF RunStart
<1>2. CASE Factory(w)
  BY <1>0, <1>2 DEF Factory
<1>3. CASE Validate(w)
  BY <1>0, <1>3 DEF Validate, ReadyToPush, RepairOrGiveUp
<1>4. CASE Fix(w)
  BY <1>0, <1>4 DEF Fix
<1>5. CASE Revalidate(w)
  BY <1>0, <1>5 DEF Revalidate, ReadyToPush, RepairOrGiveUp
<1>6. CASE Push(w)
  BY <1>0, <1>6 DEF Push
<1>7. CASE Finalize(w)
  BY <1>0, <1>7 DEF Finalize
<1>8. CASE WriteMetric(w)
  BY <1>0, <1>8 DEF WriteMetric
<1>. QED
  BY <1>1, <1>2, <1>3, <1>4, <1>5, <1>6, <1>7, <1>8 DEF RunJob

\* So is a step of a rescue that has begun.
LEMMA RescueShape ==
    ASSUME TypeOK, NEW w \in Watchers, Rescue(w), ~RescueBegin(w)
    PROVE  /\ kid[w] \in RescueStates
           /\ ChildEnds(w) \/ \E to \in RescueStates : ChildGoesOn(w, to)
<1>0. {"check", "stat", "move", "mark"} = RescueStates
  BY DEF RescueStates
<1>1. CASE RescueEnd(w)
  BY <1>0, <1>1 DEF RescueEnd
<1>2. CASE RescueCheck(w)
  BY <1>0, <1>2 DEF RescueCheck
<1>3. CASE RescueStat(w)
  BY <1>0, <1>3 DEF RescueStat
<1>4. CASE RescueMove(w)
  BY <1>0, <1>4 DEF RescueMove
<1>5. CASE RescueMark(w)
  BY <1>0, <1>5 DEF RescueMark
<1>. QED  BY <1>1, <1>2, <1>3, <1>4, <1>5 DEF Rescue

\* A watcher that takes a step of its own has no child.
LEMMA WatchIdle ==
    ASSUME TypeOK, Control, NEW w \in Watchers, Watch(w)
    PROVE  kid[w] = "idle" /\ wpc[w] \in {"lock", "process", "leased", "arm"}
<1>1. wpc[w] \in {"lock", "process", "leased", "arm"}
  BY DEF Watch, TryLock, LeaseOne, NothingToLease, Launch, Arm, Pause
<1>2. kid[w] \notin RescueStates \union RunStates \union {"pause"}
  BY <1>1 DEF Control, ChildFits, Running
<1>. QED  BY <1>1, <1>2 DEF TypeOK, TypeProcs

\* A pause that ends only moves its watcher on, or frees the lock.
LEMMA WakeShape ==
    ASSUME TypeOK, Control, NEW w \in Watchers, Wake(w)
    PROVE  /\ UNCHANGED <<loc, old, row, cur, verdict, exec, metric, starts>>
           /\ ChildEnds(w) /\ kid[w] = "pause" /\ kid'[w] = "idle"
           /\ wpc'[w] \in {"off", "process", "sweep"}
           /\ \A v \in Watchers \ {w} : wpc'[v] = wpc[v] /\ kid'[v] = kid[v]
<1>1. kid[w] = "pause" /\ ChildEnds(w) /\ UNCHANGED <<loc, old, row, verdict, exec, metric, starts>>
  BY DEF Wake, files
<1>2. wpc[w] \in {"wait", "off"} /\ cur[w] = {}
  BY <1>1, Kinds DEF Control, ChildFits, OneJob, Running
<1>3. cur' = cur
  BY <1>1, <1>2 DEF ChildEnds, TypeOK, TypeProcs
<1>. QED  BY <1>1, <1>2, <1>3 DEF ChildEnds, AfterChild, TypeOK, TypeProcs

\* A step of one slot's control that keeps the parts for that slot, and takes
\* the lock only if nobody holds it, keeps Control.
LEMMA SlotControl ==
    ASSUME TypeOK, TypeOK', Control, NEW w \in Watchers,
           \A v \in Watchers \ {w} :
               wpc'[v] = wpc[v] /\ kid'[v] = kid[v] /\ cur'[v] = cur[v],
           kid'[w] \in RescueStates => wpc'[w] \in {"boot", "sweep", "resweep", "off"},
           Running(w)' => wpc'[w] \in {"run", "off"},
           wpc'[w] = "run" => Running(w)',
           kid'[w] = "pause" => wpc'[w] \in {"wait", "off"},
           wpc'[w] = "wait" => kid'[w] = "pause",
           Holds(w)' => lock' = w,
           lock' = lock \/ lock = NoWatcher \/ lock = w,
           IF Running(w)' \/ wpc'[w] = "leased"
               THEN \E j \in Jobs : cur'[w] = {j} ELSE cur'[w] = {}
    PROVE  Control'
<1>1. ChildFits'
  BY DEF Control, ChildFits, Running
<1>2. LockHeld'
  BY WatchersAssumption DEF Control, LockHeld, Holds, Running
<1>3. OneJob'
  BY DEF Control, OneJob, Running
<1>. QED  BY <1>1, <1>2, <1>3 DEF Control

LEMMA WatchControl ==
    ASSUME TypeOK, TypeOK', Control, NEW w \in Watchers, Watch(w)
    PROVE  Control'
<1>0. /\ kid[w] = "idle"
      /\ wpc[w] \in {"lock", "process", "leased", "arm"}
  BY WatchIdle
<1>1. CASE Launch(w)
  <2>1. \E j \in Jobs : cur[w] = {j}
    BY <1>1 DEF Control, OneJob, Launch
  <2>2. lock = w
    BY <1>1 DEF Control, LockHeld, Holds, LockedStates, Launch
  <2>3. wpc'[w] = "run" /\ kid'[w] = "start" /\ lock' = lock /\ cur' = cur
    BY <1>1 DEF Launch, TypeOK, TypeProcs
  <2>4. \A v \in Watchers \ {w} :
            wpc'[v] = wpc[v] /\ kid'[v] = kid[v] /\ cur'[v] = cur[v]
    BY <1>1 DEF Launch, TypeOK, TypeProcs
  <2>. QED
    BY <2>1, <2>2, <2>3, <2>4, SlotControl DEF Running, RunStates, RescueStates
<1>2. CASE ~Launch(w)
  <2>0. /\ kid'[w] \in {"idle", "pause"}
        /\ kid'[w] = "pause" <=> wpc'[w] = "wait"
    BY <1>0, <1>2
       DEF Watch, TryLock, LeaseOne, NothingToLease, Arm, Pause, TypeOK, TypeProcs
  <2>1. /\ wpc'[w] \in LockedStates \ {"run"} \/ wpc'[w] = "off"
        /\ wpc'[w] \in LockedStates => lock' = w
        /\ lock' = lock \/ lock = NoWatcher
    BY <1>0, <1>2 DEF Watch, TryLock, LeaseOne, NothingToLease, Arm, Pause,
       Control, LockHeld, Holds, LockedStates, TypeOK, TypeProcs
  <2>2. IF wpc'[w] = "leased"
        THEN \E j \in Jobs : cur'[w] = {j} ELSE cur'[w] = {}
    <3>1. CASE LeaseOne(w)
      BY <3>1 DEF LeaseOne, TypeOK, TypeProcs
    <3>2. CASE ~LeaseOne(w)
      <4>1. wpc[w] # "leased" /\ wpc'[w] # "leased" /\ cur' = cur
        BY <1>0, <1>2, <3>2 DEF Watch, TryLock, NothingToLease, Launch, Arm, Pause,
           TypeOK, TypeProcs
      <4>. QED  BY <1>0, <4>1, Kinds DEF Control, OneJob, Running
    <3>. QED  BY <3>1, <3>2
  <2>3. \A v \in Watchers \ {w} :
            wpc'[v] = wpc[v] /\ kid'[v] = kid[v] /\ cur'[v] = cur[v]
    BY <1>2 DEF Watch, TryLock, LeaseOne, NothingToLease, Arm, Pause, TypeOK,
       TypeProcs
  <2>. QED
    BY <2>0, <2>1, <2>2, <2>3, SlotControl, Kinds DEF Running, Holds,
       LockedStates
<1>. QED  BY <1>1, <1>2

LEMMA RescueBeginControl ==
    ASSUME TypeOK, TypeOK', Control, NEW w \in Watchers, RescueBegin(w)
    PROVE  Control'
<1>1. /\ kid[w] = "idle" /\ kid'[w] = "check" /\ wpc' = wpc /\ cur' = cur
      /\ lock' = lock /\ wpc[w] \in {"boot", "sweep", "resweep"}
      /\ \A v \in Watchers \ {w} : kid'[v] = kid[v]
  BY DEF RescueBegin, TypeOK, TypeProcs
<1>2. ~Running(w) /\ ~Running(w)' /\ "check" \in RescueStates
  BY <1>1, Kinds DEF Running, RunStates, RescueStates
<1>. QED
  BY <1>1, <1>2, SlotControl DEF Control, LockHeld, OneJob, Holds

LEMMA KillControl ==
    ASSUME TypeOK, TypeOK', Control, NEW w \in Watchers, Kill(w) \/ KillTree(w)
    PROVE  Control'
<1>1. /\ wpc'[w] = "off"
      /\ \A v \in Watchers \ {w} :
            wpc'[v] = wpc[v] /\ kid'[v] = kid[v] /\ cur'[v] = cur[v]
      /\ lock' = lock \/ lock = w
  BY DEF Kill, KillTree, LockAfter, TypeOK, TypeProcs
<1>2. CASE kid'[w] = "idle" /\ cur'[w] = {}
  BY <1>1, <1>2, SlotControl, Kinds DEF Running, Holds, LockedStates
<1>3. CASE Kill(w) /\ kid[w] # "idle"
  <2>1. kid' = kid /\ cur' = cur /\ lock' = lock
    BY <1>3 DEF Kill
  <2>2. wpc[w] # "leased"
    BY <1>3, Kinds DEF Control, ChildFits, Running, TypeOK, TypeProcs
  <2>. QED
    BY <1>1, <2>1, <2>2, SlotControl
       DEF Running, Holds, LockedStates, Control, OneJob, LockHeld
<1>. QED
  BY <1>2, <1>3 DEF Kill, KillTree, TypeOK, TypeProcs

LEMMA StartControl ==
    ASSUME TypeOK, TypeOK', Control, NEW w \in Watchers, Start(w)
    PROVE  Control'
<1>1. /\ wpc[w] = "off" /\ wpc'[w] = "boot" /\ kid[w] = "idle"
      /\ kid' = kid /\ cur' = cur /\ lock' = lock
      /\ \A v \in Watchers \ {w} : wpc'[v] = wpc[v]
  BY DEF Start, TypeOK, TypeProcs
<1>. QED
  BY <1>1, SlotControl, Kinds
     DEF Control, OneJob, Running, Holds, LockedStates

LEMMA ControlStep ==
    ASSUME TypeOK, TypeOK', Control, [Next]_vars
    PROVE  Control'
<1>1. ASSUME UNCHANGED <<wpc, kid, cur, lock>> PROVE Control'
  BY <1>1 DEF Control, ChildFits, LockHeld, OneJob, Holds, Running
<1>2. ASSUME NEW j \in Jobs, Submit(j) \/ Age(j) PROVE Control'
  BY <1>1, <1>2 DEF Submit, Age, procs
<1>3. ASSUME NEW w \in Watchers, Rescue(w), ~RescueBegin(w) PROVE Control'
  BY <1>3, RescueShape, GoesOnControl, EndsControl, Kinds
<1>4. ASSUME NEW w \in Watchers, RunJob(w) PROVE Control'
  BY <1>4, RunShape, GoesOnControl, EndsControl, Kinds
<1>5. CASE UNCHANGED vars
  BY <1>1, <1>5 DEF vars
<1>6. ASSUME NEW w \in Watchers, Wake(w) PROVE Control'
  BY <1>6, EndsControl DEF Wake
<1>. QED
  BY <1>2, <1>3, <1>4, <1>5, <1>6, WatchControl, RescueBeginControl, KillControl,
     StartControl DEF Next

(***************************************************************************)
(* The files a rescue moves were too old when it began.                    *)
(***************************************************************************)

LEMMA FirstIsUnique ==
    ASSUME NEW S \in SUBSET Jobs, NEW j, NEW k, IsFirst(j, S), IsFirst(k, S)
    PROVE  j = k
BY JobsAssumption DEF IsFirst

LEMMA DueStep ==
    ASSUME TypeOK, DueIsOld, [Next]_vars
    PROVE  DueIsOld'
<1>. DEFINE Part(v) == /\ \A j \in due[v] : old[j]
                       /\ kid[v] = "move" =>
                            \A j \in Jobs : IsFirst(j, scan[v]) => j \in due[v]
<1>a. \A v \in Watchers : Part(v)
  BY DEF DueIsOld
<1>b. \A j \in Jobs : old[j] => old'[j]
  BY DEF Next, Submit, Age, Start, Kill, KillTree, Watch, TryLock, LeaseOne,
     NothingToLease, Launch, Arm, Wake, Rescue, RescueBegin, RescueEnd,
     RescueCheck, RescueStat, RescueMove, RescueMark, RunJob, RunStart, Factory,
     Validate, Fix, Revalidate, Push, Finalize, WriteMetric, Conclude, Stage,
     ReadyToPush, RepairOrGiveUp, files, vars, TypeOK, TypeFiles
<1>c. due \in [Watchers -> SUBSET Jobs] /\ scan \in [Watchers -> SUBSET Jobs]
  BY DEF TypeOK, TypeLoops
<1>d. ASSUME NEW v \in Watchers, due'[v] = due[v], scan'[v] = scan[v],
             kid'[v] = kid[v] \/ kid'[v] # "move"
      PROVE  Part(v)'
  BY <1>a, <1>b, <1>c, <1>d DEF IsFirst
<1>e. ASSUME NEW v \in Watchers, due'[v] \in {due[v], {}}, kid'[v] # "move"
      PROVE  Part(v)'
  BY <1>a, <1>b, <1>c, <1>e
<1>f. ASSUME NEW w \in Watchers, ChildEnds(w) PROVE DueIsOld'
  <2>1. \A v \in Watchers \ {w} :
            due'[v] = due[v] /\ scan'[v] = scan[v] /\ kid'[v] = kid[v]
    BY <1>f DEF ChildEnds, TypeOK, TypeLoops, TypeProcs
  <2>2. due'[w] = {} /\ kid'[w] = "idle"
    BY <1>f DEF ChildEnds, TypeOK, TypeLoops, TypeProcs
  <2>. QED  BY <1>d, <1>e, <2>1, <2>2 DEF DueIsOld
<1>g. ASSUME NEW w \in Watchers, NEW to, to # "move", ChildGoesOn(w, to),
             due' = due, \A v \in Watchers \ {w} : scan'[v] = scan[v]
      PROVE  DueIsOld'
  BY <1>d, <1>e, <1>g DEF ChildGoesOn, DueIsOld, TypeOK, TypeProcs
<1>1. ASSUME UNCHANGED <<kid, due, scan>> PROVE DueIsOld'
  BY <1>d, <1>1 DEF DueIsOld
<1>2. ASSUME NEW j \in Jobs, Submit(j) \/ Age(j) PROVE DueIsOld'
  BY <1>1, <1>2 DEF Submit, Age, procs
<1>3. ASSUME NEW w \in Watchers, Start(w) \/ Kill(w) PROVE DueIsOld'
  BY <1>1, <1>3 DEF Start, Kill
<1>4. ASSUME NEW w \in Watchers, KillTree(w) PROVE DueIsOld'
  BY <1>d, <1>e, <1>4 DEF KillTree, DueIsOld, TypeOK, TypeProcs, TypeLoops
<1>5. ASSUME NEW w \in Watchers, Watch(w) PROVE DueIsOld'
  <2>1. UNCHANGED <<due, scan>>
    BY <1>5 DEF Watch, TryLock, LeaseOne, NothingToLease, Launch, Arm, Pause
  <2>2. \A v \in Watchers : kid'[v] = kid[v] \/ kid'[v] # "move"
    BY <1>5 DEF Watch, TryLock, LeaseOne, NothingToLease, Launch, Arm, Pause,
       TypeOK, TypeProcs
  <2>. QED  BY <1>d, <2>1, <2>2 DEF DueIsOld
<1>6. ASSUME NEW w \in Watchers, RescueBegin(w) PROVE DueIsOld'
  <2>1. /\ due'[w] = {j \in In("leased") : old[j]} /\ kid'[w] = "check"
        /\ old' = old
    BY <1>6 DEF RescueBegin, TypeOK, TypeProcs, TypeLoops, files
  <2>2. \A v \in Watchers \ {w} :
            due'[v] = due[v] /\ scan'[v] = scan[v] /\ kid'[v] = kid[v]
    BY <1>6 DEF RescueBegin, TypeOK, TypeProcs, TypeLoops
  <2>. QED  BY <1>d, <2>1, <2>2 DEF DueIsOld
<1>7. ASSUME NEW w \in Watchers, RescueEnd(w) \/ RescueCheck(w) \/ RescueMark(w)
      PROVE  DueIsOld'
  BY <1>f, <1>g, <1>7 DEF RescueEnd, RescueCheck, RescueMark, TypeOK, TypeLoops
<1>8. ASSUME NEW w \in Watchers, RescueStat(w) PROVE DueIsOld'
  <2>1. PICK j \in Jobs : /\ IsFirst(j, scan[w])
                          /\ \/ ChildEnds(w)
                             \/ /\ j \in due[w]
                                /\ ChildGoesOn(w, "move")
                                /\ UNCHANGED <<scan, due>>
                             \/ /\ ChildGoesOn(w, "check")
                                /\ scan' = [scan EXCEPT ![w] = @ \ {j}]
                                /\ UNCHANGED due
    BY <1>8 DEF RescueStat
  <2>2. CASE j \in due[w] /\ ChildGoesOn(w, "move") /\ UNCHANGED <<scan, due>>
    <3>1. \A k \in Jobs : IsFirst(k, scan[w]) => k \in due[w]
      BY <1>c, <2>1, <2>2, FirstIsUnique
    <3>2. Part(w)'
      BY <1>a, <1>b, <1>c, <2>2, <3>1 DEF IsFirst
    <3>3. \A v \in Watchers \ {w} : kid'[v] = kid[v]
      BY <2>2 DEF ChildGoesOn, TypeOK, TypeProcs
    <3>. QED  BY <1>d, <2>2, <3>2, <3>3 DEF DueIsOld
  <2>. QED  BY <1>f, <1>g, <2>1, <2>2 DEF TypeOK, TypeLoops
<1>9. ASSUME NEW w \in Watchers, RescueMove(w) PROVE DueIsOld'
  BY <1>f, <1>g, <1>9 DEF RescueMove
<1>10. ASSUME NEW w \in Watchers, RunJob(w) PROVE DueIsOld'
  <2>1. CASE ChildEnds(w)
    BY <1>f, <2>1
  <2>2. CASE ~ChildEnds(w)
    <3>1. UNCHANGED <<due, scan>>
      BY <1>10, <2>2 DEF RunJob, RunStart, Factory, Validate, Fix, Revalidate,
         Push, Finalize, WriteMetric, Conclude, Stage, ReadyToPush,
         RepairOrGiveUp
    <3>2. \E to \in RunStates : ChildGoesOn(w, to)
      BY <1>10, <2>2, RunShape
    <3>. QED  BY <1>g, <3>1, <3>2 DEF RunStates
  <2>. QED  BY <2>1, <2>2
<1>11. CASE UNCHANGED vars
  BY <1>1, <1>11 DEF vars
<1>12. ASSUME NEW w \in Watchers, Wake(w) PROVE DueIsOld'
  BY <1>f, <1>12 DEF Wake
<1>. QED
  BY <1>2, <1>3, <1>4, <1>5, <1>6, <1>7, <1>8, <1>9, <1>10, <1>11, <1>12
     DEF Next, Rescue

(***************************************************************************)
(* Young jobs have not been executed before their lease.                   *)
(***************************************************************************)

LEMMA OldGrows ==
    ASSUME TypeOK, [Next]_vars, NEW j \in Jobs, old[j]
    PROVE  old'[j]
BY DEF Next, Submit, Age, Start, Kill, KillTree, Watch, TryLock, LeaseOne,
   NothingToLease, Launch, Arm, Wake, Rescue, RescueBegin, RescueEnd,
   RescueCheck, RescueStat, RescueMove, RescueMark, RunJob, RunStart, Factory,
   Validate, Fix, Revalidate, Push, Finalize, WriteMetric, Conclude, Stage,
   ReadyToPush, RepairOrGiveUp, files, vars, TypeOK, TypeFiles

\* A step that executes nothing, puts nothing back and leases nothing.
LEMMA FreshQuiet ==
    ASSUME FreshHistory, exec' = exec,
           \A j \in Jobs : old[j] => old'[j],
           \A j \in Jobs : loc'[j] \in {"none", "incoming"} =>
                loc[j] \in {"none", "incoming"} \/ old[j],
           \A w \in Watchers : \A j \in cur'[w] :
                kid'[w] = "start" \/ wpc'[w] = "leased" =>
                    \/ j \in cur[w] /\ (kid[w] = "start" \/ wpc[w] = "leased")
                    \/ loc[j] = "incoming"
    PROVE  FreshHistory'
BY DEF FreshHistory

\* A child that ends, or goes on after its start, launches nothing.
LEMMA ChildLaunches ==
    ASSUME TypeOK, NEW w \in Watchers,
           ChildEnds(w) \/ \E to : to # "start" /\ ChildGoesOn(w, to),
           NEW v \in Watchers, NEW j \in cur'[v],
           kid'[v] = "start" \/ wpc'[v] = "leased"
    PROVE  j \in cur[v] /\ (kid[v] = "start" \/ wpc[v] = "leased")
<1>1. CASE ChildEnds(w)
  BY <1>1 DEF ChildEnds, TypeOK, TypeProcs
<1>2. CASE \E to : to # "start" /\ ChildGoesOn(w, to)
  BY <1>2 DEF ChildGoesOn, TypeOK, TypeProcs
<1>. QED  BY <1>1, <1>2

\* The only step that executes: its job was leased and no one else has it.
LEMMA FreshRunStart ==
    ASSUME TypeOK, Control, FreshHistory, NEW w \in Watchers, RunStart(w)
    PROVE  FreshHistory'
<1>1. PICK j \in cur[w] :
        \/ ChildEnds(w) /\ UNCHANGED <<loc, old, exec>>
        \/ /\ loc[j] = "leased"
           /\ ChildGoesOn(w, "factory")
           /\ UNCHANGED <<loc, old>>
           /\ exec' = [exec EXCEPT ![j] = IF @ < RunCap THEN @ + 1 ELSE @]
  BY DEF RunStart, Stage, files
<1>2. CASE ChildEnds(w) /\ UNCHANGED <<loc, old, exec>>
  BY <1>2, ChildLaunches, FreshQuiet
<1>3. CASE /\ loc[j] = "leased"
           /\ ChildGoesOn(w, "factory")
           /\ UNCHANGED <<loc, old>>
           /\ exec' = [exec EXCEPT ![j] = IF @ < RunCap THEN @ + 1 ELSE @]
  <2>1. ~old[j] => exec[j] = 0
    BY CurrentJob DEF FreshHistory, RunStart
  <2>2. ~old[j] => exec'[j] <= 1
    BY <1>3, <2>1, CurrentJob, BoundsAssumption DEF TypeOK, TypeHistory
  <2>3. \A k \in Jobs \ {j} : exec'[k] = exec[k]
    BY <1>3 DEF TypeOK, TypeHistory
  <2>4. /\ cur' = cur /\ wpc' = wpc /\ kid'[w] = "factory"
        /\ \A v \in Watchers \ {w} : kid'[v] = kid[v]
    BY <1>3 DEF ChildGoesOn, TypeOK, TypeProcs
  <2>5. wpc[w] # "leased"
    BY DEF RunStart, Running, RunStates, Control, ChildFits
  <2>6. \A v \in Watchers : j \in cur[v] => v = w
    BY JobHolder, OneHolder DEF Control
  <2>. QED  BY <1>3, <2>2, <2>3, <2>4, <2>5, <2>6 DEF FreshHistory
<1>. QED  BY <1>1, <1>2, <1>3

LEMMA FreshStep ==
    ASSUME TypeOK, Control, DueIsOld, FreshHistory, [Next]_vars
    PROVE  FreshHistory'
<1>0. \A j \in Jobs : old[j] => old'[j]
  BY OldGrows
<1>1. ASSUME UNCHANGED <<loc, wpc, kid, cur, exec>> PROVE FreshHistory'
  BY <1>0, <1>1, FreshQuiet
<1>2. ASSUME NEW j \in Jobs, Submit(j) PROVE FreshHistory'
  <2>1. UNCHANGED <<wpc, kid, cur, exec>>
    BY <1>2 DEF Submit
  <2>2. \A k \in Jobs : loc'[k] \in {"none", "incoming"} =>
            loc[k] \in {"none", "incoming"}
    BY <1>2 DEF Submit, TypeOK, TypeFiles
  <2>. QED  BY <1>0, <2>1, <2>2, FreshQuiet
<1>3. ASSUME NEW j \in Jobs, Age(j) PROVE FreshHistory'
  BY <1>1, <1>3 DEF Age, procs
<1>4. ASSUME NEW w \in Watchers, Start(w) \/ Kill(w) \/ KillTree(w)
      PROVE  FreshHistory'
  <2>1. UNCHANGED <<loc, exec>>
    BY <1>4 DEF Start, Kill, KillTree, files
  <2>2. \A v \in Watchers : \A j \in cur'[v] :
            kid'[v] = "start" \/ wpc'[v] = "leased" =>
                j \in cur[v] /\ (kid[v] = "start" \/ wpc[v] = "leased")
    BY <1>4 DEF Start, Kill, KillTree, TypeOK, TypeProcs
  <2>. QED  BY <1>0, <2>1, <2>2, FreshQuiet
<1>5. ASSUME NEW w \in Watchers, Watch(w) PROVE FreshHistory'
  <2>1. exec' = exec /\ (loc' = loc \/ LeaseOne(w))
    BY <1>5 DEF Watch, TryLock, LeaseOne, NothingToLease, Launch, Arm, Pause,
       files
  <2>2. CASE LeaseOne(w)
    <3>1. PICK j \in Jobs : /\ loc[j] = "incoming"
                            /\ loc' = [loc EXCEPT ![j] = "leased"]
                            /\ cur' = [cur EXCEPT ![w] = {j}]
      BY <2>2 DEF LeaseOne, IsFirst, In
    <3>2. kid' = kid /\ wpc' = [wpc EXCEPT ![w] = "leased"]
      BY <2>2 DEF LeaseOne
    <3>3. \A v \in Watchers : \A k \in cur'[v] :
              kid'[v] = "start" \/ wpc'[v] = "leased" =>
                  \/ k \in cur[v] /\ (kid[v] = "start" \/ wpc[v] = "leased")
                  \/ loc[k] = "incoming"
      BY <3>1, <3>2 DEF TypeOK, TypeProcs
    <3>4. \A k \in Jobs : loc'[k] \in {"none", "incoming"} =>
              loc[k] \in {"none", "incoming"}
      BY <3>1 DEF TypeOK, TypeFiles
    <3>. QED  BY <1>0, <2>1, <3>3, <3>4, FreshQuiet
  <2>3. CASE ~LeaseOne(w)
    <3>1. \A v \in Watchers : \A k \in cur'[v] :
              kid'[v] = "start" \/ wpc'[v] = "leased" =>
                  k \in cur[v] /\ (kid[v] = "start" \/ wpc[v] = "leased")
      BY <1>5, <2>3 DEF Watch, TryLock, NothingToLease, Launch, Arm, Pause,
         TypeOK, TypeProcs
    <3>. QED  BY <1>0, <2>1, <2>3, <3>1, FreshQuiet
  <2>. QED  BY <2>2, <2>3
<1>6. ASSUME NEW w \in Watchers, RescueBegin(w) PROVE FreshHistory'
  <2>1. UNCHANGED <<loc, cur, wpc, exec>>
    BY <1>6 DEF RescueBegin, files
  <2>2. \A v \in Watchers : kid'[v] = kid[v] \/ kid'[v] # "start"
    BY <1>6 DEF RescueBegin, TypeOK, TypeProcs
  <2>. QED  BY <1>0, <2>1, <2>2, FreshQuiet
<1>7. ASSUME NEW w \in Watchers, Rescue(w), ~RescueBegin(w) PROVE FreshHistory'
  <2>1. ChildEnds(w) \/ \E to : to # "start" /\ ChildGoesOn(w, to)
    BY <1>7, RescueShape DEF RescueStates
  <2>2. exec' = exec
    BY <1>7 DEF Rescue, RescueEnd, RescueCheck, RescueStat, RescueMove,
       RescueMark
  <2>3. \A k \in Jobs : loc'[k] \in {"none", "incoming"} =>
            loc[k] \in {"none", "incoming"} \/ old[k]
    <3>1. CASE RescueMove(w)
      BY <3>1 DEF RescueMove, DueIsOld, TypeOK, TypeFiles
    <3>2. CASE ~RescueMove(w)
      BY <1>7, <3>2 DEF Rescue, RescueEnd, RescueCheck, RescueStat,
         RescueMark, files
    <3>. QED  BY <3>1, <3>2
  <2>. QED  BY <1>0, <2>1, <2>2, <2>3, ChildLaunches, FreshQuiet
<1>8. ASSUME NEW w \in Watchers, RunJob(w) PROVE FreshHistory'
  <2>1. CASE RunStart(w)
    BY <2>1, FreshRunStart
  <2>2. CASE ~RunStart(w)
    <3>1. ChildEnds(w) \/ \E to : to # "start" /\ ChildGoesOn(w, to)
      BY <1>8, RunShape
    <3>2. exec' = exec
      BY <1>8, <2>2 DEF RunJob, Factory, Validate, Fix, Revalidate, Push,
         Finalize, WriteMetric
    <3>3. \A k \in Jobs : loc'[k] \in {"none", "incoming"} =>
              loc[k] \in {"none", "incoming"}
      <4>1. CASE Finalize(w)
        BY <4>1 DEF Finalize, TypeOK, TypeFiles, TypeRun, Verdicts
      <4>2. CASE ~Finalize(w)
        BY <1>8, <2>2, <4>2 DEF RunJob, Factory, Validate, Fix, Revalidate,
           Push, WriteMetric, Conclude, Stage, ReadyToPush, RepairOrGiveUp,
           files
      <4>. QED  BY <4>1, <4>2
    <3>. QED  BY <1>0, <3>1, <3>2, <3>3, ChildLaunches, FreshQuiet
  <2>. QED  BY <2>1, <2>2
<1>9. CASE UNCHANGED vars
  BY <1>1, <1>9 DEF vars
<1>10. ASSUME NEW w \in Watchers, Wake(w) PROVE FreshHistory'
  BY <1>0, <1>10, WakeShape, ChildLaunches, FreshQuiet
<1>. QED
  BY <1>2, <1>3, <1>4, <1>5, <1>6, <1>7, <1>8, <1>9, <1>10 DEF Next

(***************************************************************************)
(* Metrics agree with the directories.                                     *)
(***************************************************************************)

\* A step that reports nothing and finishes nothing.
LEMMA MetricQuiet ==
    ASSUME TypeOK, MetricHistory, FinishedIsIdle, metric' = metric,
           \A j \in Jobs : loc[j] \in Final \/ loc'[j] \in Final =>
                loc'[j] = loc[j],
           \A w \in Watchers : \A j \in cur'[w] :
                \/ loc'[j] \notin Final /\ kid'[w] # "metric"
                \/ /\ j \in cur[w]
                   /\ kid[w] = "metric" <=> kid'[w] = "metric"
                   /\ kid[w] = "metric" => verdict'[w] = verdict[w]
    PROVE  MetricHistory' /\ FinishedIsIdle'
<1>1. FinishedIsIdle'
  BY DEF FinishedIsIdle
<1>2. ASSUME NEW j \in Jobs, metric'[j] # <<>>
      PROVE  loc'[j] \in Final /\ metric'[j] = <<loc'[j]>>
  BY <1>2 DEF MetricHistory
<1>3. ASSUME NEW w \in Watchers, NEW j \in cur'[w], kid'[w] = "metric"
      PROVE  loc'[j] = verdict'[w] /\ metric'[j] = <<>>
  <2>1. /\ j \in cur[w] /\ kid[w] = "metric" /\ verdict'[w] = verdict[w]
    BY <1>3
  <2>2. j \in Jobs /\ verdict[w] \in Final
    BY <2>1, CurrentJob DEF TypeOK, TypeRun, Verdicts, Final
  <2>. QED  BY <2>1, <2>2 DEF MetricHistory
<1>. QED  BY <1>1, <1>2, <1>3 DEF MetricHistory

LEMMA FinalizeMetric ==
    ASSUME TypeOK, Control, MetricHistory, FinishedIsIdle,
           NEW w \in Watchers, Finalize(w)
    PROVE  MetricHistory' /\ FinishedIsIdle'
<1>1. PICK j \in cur[w] :
        \/ ChildEnds(w) /\ UNCHANGED <<loc, metric, verdict>>
        \/ /\ loc[j] = "leased"
           /\ loc' = [loc EXCEPT ![j] = verdict[w]]
           /\ ChildGoesOn(w, "metric")
           /\ UNCHANGED <<metric, verdict>>
  BY DEF Finalize
<1>2. CASE ChildEnds(w) /\ UNCHANGED <<loc, metric, verdict>>
  <2>1. cur'[w] = {} /\ \A v \in Watchers \ {w} :
            cur'[v] = cur[v] /\ kid'[v] = kid[v]
    BY <1>2 DEF ChildEnds, TypeOK, TypeProcs
  <2>. QED  BY <1>2, <2>1, MetricQuiet
<1>3. CASE /\ loc[j] = "leased"
           /\ loc' = [loc EXCEPT ![j] = verdict[w]]
           /\ ChildGoesOn(w, "metric")
           /\ UNCHANGED <<metric, verdict>>
  <2>1. /\ cur' = cur /\ kid'[w] = "metric"
        /\ \A v \in Watchers \ {w} : kid'[v] = kid[v]
    BY <1>3 DEF ChildGoesOn, TypeOK, TypeProcs
  <2>2. /\ j \in Jobs /\ loc'[j] = verdict[w]
        /\ \A k \in Jobs \ {j} : loc'[k] = loc[k]
    BY <1>3, CurrentJob DEF TypeOK, TypeFiles
  <2>3. metric[j] = <<>>
    BY <1>3, <2>2 DEF MetricHistory, Final
  <2>4. cur[w] = {j} /\ \A v \in Watchers : j \in cur[v] => v = w
    BY JobHolder, OneHolder DEF Control
  <2>5. FinishedIsIdle'
    BY <2>1, <2>2, <2>4 DEF FinishedIsIdle
  <2>6. MetricHistory'
    <3>1. \A k \in Jobs : metric'[k] # <<>> =>
              loc'[k] \in Final /\ metric'[k] = <<loc'[k]>>
      BY <1>3, <2>2, <2>3 DEF MetricHistory
    <3>2. \A v \in Watchers : \A k \in cur'[v] : kid'[v] = "metric" =>
              loc'[k] = verdict'[v] /\ metric'[k] = <<>>
      BY <1>3, <2>1, <2>2, <2>3, <2>4, CurrentJob DEF MetricHistory
    <3>. QED  BY <3>1, <3>2 DEF MetricHistory
  <2>. QED  BY <2>5, <2>6
<1>. QED  BY <1>1, <1>2, <1>3

LEMMA WriteMetricMetric ==
    ASSUME TypeOK, Control, MetricHistory, FinishedIsIdle,
           NEW w \in Watchers, WriteMetric(w)
    PROVE  MetricHistory' /\ FinishedIsIdle'
<1>1. PICK j \in cur[w] :
        metric' = [metric EXCEPT ![j] = Append(metric[j], verdict[w])]
  BY DEF WriteMetric
<1>2. j \in Jobs /\ kid[w] = "metric"
  BY CurrentJob DEF WriteMetric
<1>3. metric[j] = <<>> /\ loc[j] = verdict[w] /\ loc[j] \in Final
  BY <1>2 DEF MetricHistory, TypeOK, TypeRun, Verdicts, Final
<1>4. /\ metric'[j] = <<loc[j]>>
      /\ \A k \in Jobs \ {j} : metric'[k] = metric[k]
  BY <1>1, <1>2, <1>3 DEF TypeOK, TypeHistory
<1>5. /\ loc' = loc /\ verdict' = verdict /\ cur'[w] = {}
      /\ \A v \in Watchers \ {w} : cur'[v] = cur[v] /\ kid'[v] = kid[v]
  BY DEF WriteMetric, ChildEnds, files, TypeOK, TypeProcs
<1>6. \A v \in Watchers : j \in cur[v] => v = w
  BY JobHolder, OneHolder DEF Control
<1>7. FinishedIsIdle'
  BY <1>5 DEF FinishedIsIdle
<1>8. \A k \in Jobs : metric'[k] # <<>> =>
          loc'[k] \in Final /\ metric'[k] = <<loc'[k]>>
  BY <1>3, <1>4, <1>5 DEF MetricHistory
<1>9. \A v \in Watchers : \A k \in cur'[v] : kid'[v] = "metric" =>
          loc'[k] = verdict'[v] /\ metric'[k] = <<>>
  BY <1>4, <1>5, <1>6, CurrentJob DEF MetricHistory
<1>. QED  BY <1>7, <1>8, <1>9 DEF MetricHistory

LEMMA MetricStep ==
    ASSUME TypeOK, Control, MetricHistory, FinishedIsIdle, [Next]_vars
    PROVE  MetricHistory' /\ FinishedIsIdle'
<1>. DEFINE Goal == MetricHistory' /\ FinishedIsIdle'
<1>1. ASSUME UNCHANGED <<loc, kid, cur, metric, verdict>> PROVE Goal
  BY <1>1, MetricQuiet
<1>2. ASSUME NEW j \in Jobs, Submit(j) PROVE Goal
  <2>1. \A k \in Jobs : loc[k] \in Final \/ loc'[k] \in Final => loc'[k] = loc[k]
    BY <1>2 DEF Submit, TypeOK, TypeFiles, Final
  <2>. QED  BY <1>2, <2>1, MetricQuiet DEF Submit
<1>3. ASSUME NEW j \in Jobs, Age(j) PROVE Goal
  BY <1>1, <1>3 DEF Age, procs
<1>4. ASSUME NEW w \in Watchers, Start(w) \/ Kill(w) \/ KillTree(w) PROVE Goal
  <2>1. UNCHANGED <<loc, metric, verdict>>
    BY <1>4 DEF Start, Kill, KillTree, files
  <2>2. \A v \in Watchers : \/ cur'[v] = {}
                            \/ cur'[v] = cur[v] /\ kid'[v] = kid[v]
    BY <1>4 DEF Start, Kill, KillTree, TypeOK, TypeProcs
  <2>. QED  BY <2>1, <2>2, MetricQuiet
<1>5. ASSUME NEW w \in Watchers, Watch(w) PROVE Goal
  <2>1. CASE LeaseOne(w)
    <3>1. PICK j \in Jobs : /\ loc[j] = "incoming"
                            /\ loc' = [loc EXCEPT ![j] = "leased"]
                            /\ cur' = [cur EXCEPT ![w] = {j}]
      BY <2>1 DEF LeaseOne, IsFirst, In
    <3>2. kid[w] = "idle" /\ kid' = kid /\ UNCHANGED <<metric, verdict>>
      BY <1>5, <2>1, WatchIdle DEF LeaseOne
    <3>3. loc'[j] = "leased" /\ \A k \in Jobs \ {j} : loc'[k] = loc[k]
      BY <3>1 DEF TypeOK, TypeFiles
    <3>4. cur'[w] = {j} /\ \A v \in Watchers \ {w} : cur'[v] = cur[v]
      BY <3>1 DEF TypeOK, TypeProcs
    <3>. QED  BY <3>1, <3>2, <3>3, <3>4, MetricQuiet DEF Final
  <2>2. CASE ~LeaseOne(w)
    <3>1. UNCHANGED <<loc, cur, metric>>
      BY <1>5, <2>2 DEF Watch, TryLock, NothingToLease, Launch, Arm, Pause, files
    <3>2. \A v \in Watchers : /\ kid[v] = "metric" <=> kid'[v] = "metric"
                              /\ kid[v] = "metric" => verdict'[v] = verdict[v]
      BY <1>5, <2>2, WatchIdle DEF Watch, TryLock, NothingToLease, Launch, Arm,
         Pause, TypeOK, TypeProcs, TypeRun
    <3>. QED  BY <3>1, <3>2, MetricQuiet
  <2>. QED  BY <2>1, <2>2
<1>6. ASSUME NEW w \in Watchers, Rescue(w) PROVE Goal
  <2>1. UNCHANGED <<metric, verdict>>
    BY <1>6 DEF Rescue, RescueBegin, RescueEnd, RescueCheck, RescueStat,
       RescueMove, RescueMark
  <2>2. \A v \in Watchers :
            \/ cur'[v] = {}
            \/ cur'[v] = cur[v] /\ (kid[v] = "metric" <=> kid'[v] = "metric")
    <3>1. CASE RescueBegin(w)
      BY <3>1 DEF RescueBegin, TypeOK, TypeProcs
    <3>2. CASE ~RescueBegin(w)
      BY <1>6, <3>2, RescueShape DEF ChildEnds, ChildGoesOn, RescueStates,
         TypeOK, TypeProcs
    <3>. QED  BY <3>1, <3>2
  <2>3. \A k \in Jobs : loc[k] \in Final \/ loc'[k] \in Final => loc'[k] = loc[k]
    <3>1. CASE RescueMove(w)
      BY <3>1 DEF RescueMove, TypeOK, TypeFiles, Final
    <3>2. CASE ~RescueMove(w)
      BY <1>6, <3>2 DEF Rescue, RescueBegin, RescueEnd, RescueCheck,
         RescueStat, RescueMark, files
    <3>. QED  BY <3>1, <3>2
  <2>. QED  BY <2>1, <2>2, <2>3, MetricQuiet
<1>7. ASSUME NEW w \in Watchers, RunJob(w), ~Finalize(w), ~WriteMetric(w)
      PROVE  Goal
  <2>1. UNCHANGED <<loc, metric>> /\ kid[w] # "metric"
    BY <1>7 DEF RunJob, RunStart, Factory, Validate, Fix, Revalidate, Push,
       Conclude, Stage, ReadyToPush, RepairOrGiveUp, files
  <2>2. ChildEnds(w) \/ \E to \in RunStates \ {"metric"} : ChildGoesOn(w, to)
    BY <1>7 DEF RunJob, RunStart, Factory, Validate, Fix, Revalidate, Push,
       Conclude, Stage, ReadyToPush, RepairOrGiveUp, RunStates
  <2>3. \A v \in Watchers :
            \/ cur'[v] = {}
            \/ cur'[v] = cur[v] /\ (kid[v] = "metric" <=> kid'[v] = "metric")
    BY <2>1, <2>2 DEF ChildEnds, ChildGoesOn, TypeOK, TypeProcs
  <2>4. \A v \in Watchers \ {w} : verdict'[v] = verdict[v]
    BY <1>7 DEF RunJob, RunStart, Factory, Validate, Fix, Revalidate, Push,
       Conclude, Stage, ReadyToPush, RepairOrGiveUp, TypeOK, TypeRun
  <2>. QED  BY <2>1, <2>3, <2>4, MetricQuiet
<1>8. CASE UNCHANGED vars
  BY <1>1, <1>8 DEF vars
<1>9. ASSUME NEW w \in Watchers, Wake(w) PROVE Goal
  <2>1. \A v \in Watchers : kid[v] = "metric" <=> kid'[v] = "metric"
    BY <1>9, WakeShape
  <2>. QED  BY <1>9, <2>1, WakeShape, MetricQuiet
<1>. QED
  BY <1>2, <1>3, <1>4, <1>5, <1>6, <1>7, <1>8, <1>9, FinalizeMetric,
     WriteMetricMetric DEF Next

(***************************************************************************)
(* With one start by hand nobody but the one slot writes states.           *)
(***************************************************************************)

Lone == ~Supervised /\ starts <= 1

\* A slot with a process.
Live(w) == wpc[w] # "off" \/ kid[w] # "idle"
OneLive ==
    /\ starts = 0 => \A w \in Watchers : ~Live(w)
    /\ \A v, w \in Watchers : Live(v) /\ Live(w) => v = w

\* The file that a rescue is about to mark is still where the rescue put it.
MarksIncoming ==
    \A w \in Watchers : kid[w] = "mark" =>
        \A j \in Jobs : IsFirst(j, scan[w]) => loc[j] = "incoming"

\* A run that is about to move its file has recorded where to.
Concluded == \A w \in Watchers : \A j \in cur[w] : kid[w] = "finalize" => row[j] = verdict[w]

RowsAgree == \A j \in Jobs : loc[j] \in Final => row[j] = loc[j]

LoneInv == Lone => OneLive /\ MarksIncoming /\ Concluded /\ RowsAgree

LEMMA LoneInit == Init => LoneInv
BY DEF Init, LoneInv, OneLive, Live, MarksIncoming, Concluded, RowsAgree, Final

\* A step of a slot that is live leaves no other one live.
LEMMA LiveKept ==
    ASSUME OneLive, NEW w \in Watchers, Live(w), starts' = starts,
           \A v \in Watchers \ {w} : wpc'[v] = wpc[v] /\ kid'[v] = kid[v]
    PROVE  OneLive'
BY DEF OneLive, Live

\* A child that goes on, or ends, is the only one that changes.
LEMMA ChildAlone ==
    ASSUME TypeOK, NEW w \in Watchers, ChildEnds(w) \/ \E to : ChildGoesOn(w, to)
    PROVE  \A v \in Watchers \ {w} : wpc'[v] = wpc[v] /\ kid'[v] = kid[v] /\ cur'[v] = cur[v]
BY DEF ChildEnds, ChildGoesOn, TypeOK, TypeProcs

\* The other slots have neither child nor job.
LEMMA OthersIdle ==
    ASSUME TypeOK, Control, OneLive, NEW w \in Watchers, Live(w)
    PROVE  \A v \in Watchers \ {w} : kid[v] = "idle" /\ cur[v] = {}
<1>1. \A v \in Watchers \ {w} : kid[v] = "idle" /\ wpc[v] = "off"
  BY DEF OneLive, Live
<1>. QED  BY <1>1, Kinds DEF Control, OneJob, Running

\* A step of the watcher.
LEMMA LoneWatch ==
    ASSUME TypeOK, Control, FinishedIsIdle, OneLive, RowsAgree,
           NEW w \in Watchers, Watch(w)
    PROVE  OneLive' /\ MarksIncoming' /\ Concluded' /\ RowsAgree'
<1>1. kid[w] = "idle" /\ Live(w)
  BY WatchIdle DEF Live
<1>2. \A v \in Watchers : kid[v] = "idle"
  BY <1>1, OthersIdle
<1>3. /\ starts' = starts /\ kid'[w] \in {"idle", "pause", "start"}
      /\ \A v \in Watchers \ {w} : wpc'[v] = wpc[v] /\ kid'[v] = kid[v]
  BY <1>1 DEF Watch, TryLock, LeaseOne, NothingToLease, Launch, Arm, Pause, TypeOK, TypeProcs
<1>4. OneLive'
  BY <1>1, <1>3, LiveKept
<1>5. MarksIncoming' /\ Concluded'
  BY <1>2, <1>3 DEF MarksIncoming, Concluded
<1>6. CASE LeaseOne(w)
  BY <1>4, <1>5, <1>6 DEF LeaseOne, RowsAgree, Final, TypeOK, TypeFiles
<1>7. CASE Launch(w)
  <2>1. \A j \in cur[w] : loc[j] \notin Final
    BY <1>1, CurrentJob DEF FinishedIsIdle
  <2>. QED  BY <1>4, <1>5, <1>7, <2>1 DEF Launch, RowsAgree
<1>8. CASE ~LeaseOne(w) /\ ~Launch(w)
  <2>1. UNCHANGED <<loc, row>>
    BY <1>8 DEF Watch, TryLock, NothingToLease, Arm, Pause, files
  <2>. QED  BY <1>4, <1>5, <2>1 DEF RowsAgree
<1>. QED  BY <1>6, <1>7, <1>8

\* A step of the rescue.
LEMMA LoneRescue ==
    ASSUME TypeOK, Control, OneLive, MarksIncoming, RowsAgree, NEW w \in Watchers, Rescue(w)
    PROVE  OneLive' /\ MarksIncoming' /\ Concluded' /\ RowsAgree'
<1>1. Live(w) /\ starts' = starts
  BY DEF Rescue, RescueBegin, RescueEnd, RescueCheck, RescueStat, RescueMove, RescueMark, Live
<1>2. /\ \A v \in Watchers \ {w} : wpc'[v] = wpc[v] /\ kid'[v] = kid[v]
      /\ kid'[w] \in {"idle"} \union RescueStates
  <2>1. CASE RescueBegin(w)
    BY <2>1 DEF RescueBegin, RescueStates, TypeOK, TypeProcs
  <2>2. CASE ~RescueBegin(w)
    BY <2>2, RescueShape, ChildAlone DEF ChildEnds, ChildGoesOn, TypeOK, TypeProcs
  <2>. QED  BY <2>1, <2>2
<1>3. OneLive'
  BY <1>1, <1>2, LiveKept
<1>4. \A v \in Watchers \ {w} : kid'[v] = "idle"
  BY <1>1, <1>2, OthersIdle
<1>5. Concluded'
  BY <1>2, <1>4 DEF Concluded, RescueStates
<1>6. CASE RescueMove(w)
  <2>1. PICK j \in Jobs : /\ IsFirst(j, scan[w])
                          /\ \/ /\ loc[j] = "leased" /\ loc' = [loc EXCEPT ![j] = "incoming"]
                                /\ ChildGoesOn(w, "mark") /\ UNCHANGED scan
                             \/ ChildEnds(w) /\ UNCHANGED loc
    BY <1>6 DEF RescueMove
  <2>2. row' = row
    BY <1>6 DEF RescueMove
  <2>3. RowsAgree'
    BY <2>1, <2>2 DEF RowsAgree, Final, TypeOK, TypeFiles
  <2>4. kid'[w] = "mark" => scan' = scan /\ loc'[j] = "incoming"
    BY <2>1 DEF ChildEnds, TypeOK, TypeProcs, TypeFiles
  <2>5. \A k \in Jobs : IsFirst(k, scan[w]) => k = j
    BY <2>1, FirstIsUnique DEF TypeOK, TypeLoops
  <2>6. MarksIncoming'
    BY <1>4, <2>4, <2>5 DEF MarksIncoming, IsFirst
  <2>. QED  BY <1>3, <1>5, <2>3, <2>6
<1>7. CASE ~RescueMove(w)
  <2>1. kid'[w] # "mark" /\ loc' = loc
    BY <1>7 DEF Rescue, RescueBegin, RescueEnd, RescueCheck, RescueStat, RescueMark,
       ChildEnds, ChildGoesOn, files, TypeOK, TypeProcs
  <2>2. MarksIncoming'
    BY <1>4, <2>1 DEF MarksIncoming
  <2>3. RowsAgree'
    <3>1. CASE RescueMark(w)
      BY <2>1, <3>1 DEF RescueMark, MarksIncoming, RowsAgree, Final, TypeOK, TypeFiles
    <3>2. CASE ~RescueMark(w)
      BY <1>7, <2>1, <3>2 DEF Rescue, RescueBegin, RescueEnd, RescueCheck, RescueStat, files, RowsAgree
    <3>. QED  BY <3>1, <3>2
  <2>. QED  BY <1>3, <1>5, <2>2, <2>3
<1>. QED  BY <1>6, <1>7

\* A step of the run.
LEMMA LoneRun ==
    ASSUME TypeOK, Control, FinishedIsIdle, OneLive, Concluded, RowsAgree,
           NEW w \in Watchers, RunJob(w)
    PROVE  OneLive' /\ MarksIncoming' /\ Concluded' /\ RowsAgree'
<1>1. Live(w) /\ kid[w] \in RunStates
  BY RunShape, Kinds DEF Live
<1>2. starts' = starts
  BY DEF RunJob, RunStart, Factory, Validate, Fix, Revalidate, Push, Finalize, WriteMetric,
     Conclude, Stage, ReadyToPush, RepairOrGiveUp
<1>3. \A v \in Watchers \ {w} : wpc'[v] = wpc[v] /\ kid'[v] = kid[v] /\ cur'[v] = cur[v]
  BY RunShape, ChildAlone
<1>4. OneLive'
  BY <1>1, <1>2, <1>3, LiveKept
<1>5. \A v \in Watchers \ {w} : kid'[v] = "idle"
  BY <1>1, <1>3, OthersIdle
<1>6. kid'[w] # "mark" /\ cur'[w] \subseteq cur[w]
  BY RunShape DEF RunStates, ChildEnds, ChildGoesOn, TypeOK, TypeProcs
<1>7. MarksIncoming'
  BY <1>5, <1>6 DEF MarksIncoming
<1>8. PICK j \in Jobs : cur[w] = {j}
  BY <1>1 DEF Control, OneJob, Running
<1>9. kid[w] # "metric" => loc[j] \notin Final
  BY <1>8 DEF FinishedIsIdle
<1>10. CASE Finalize(w)
  <2>1. row' = row /\ verdict' = verdict /\ kid'[w] # "finalize" /\ kid[w] = "finalize"
    BY <1>10 DEF Finalize, ChildEnds, ChildGoesOn, TypeOK, TypeProcs
  <2>2. loc' = loc \/ loc' = [loc EXCEPT ![j] = verdict[w]]
    BY <1>8, <1>10 DEF Finalize
  <2>3. row[j] = verdict[w]
    BY <1>8, <2>1 DEF Concluded
  <2>4. RowsAgree'
    BY <2>1, <2>2, <2>3 DEF RowsAgree, TypeOK, TypeFiles
  <2>5. Concluded'
    BY <1>5, <2>1 DEF Concluded
  <2>. QED  BY <1>4, <1>7, <2>4, <2>5
<1>11. CASE WriteMetric(w)
  <2>1. UNCHANGED <<loc, row>> /\ kid'[w] = "idle"
    BY <1>11 DEF WriteMetric, files, ChildEnds, TypeOK, TypeProcs
  <2>. QED  BY <1>4, <1>5, <1>7, <2>1 DEF RowsAgree, Concluded
<1>12. CASE ~Finalize(w) /\ ~WriteMetric(w)
  <2>1. loc' = loc /\ kid[w] # "metric"
    BY <1>12 DEF RunJob, RunStart, Factory, Validate, Fix, Revalidate, Push,
       Conclude, Stage, ReadyToPush, RepairOrGiveUp, files
  <2>2. \A k \in Jobs \ {j} : row'[k] = row[k]
    BY <1>8, <1>12 DEF RunJob, RunStart, Factory, Validate, Fix, Revalidate, Push,
       Conclude, Stage, ReadyToPush, RepairOrGiveUp, files, TypeOK, TypeFiles
  <2>3. RowsAgree'
    BY <1>9, <2>1, <2>2 DEF RowsAgree
  <2>4. kid'[w] = "finalize" => \E how : Conclude(w, j, how)
    BY <1>8, <1>12 DEF RunJob, RunStart, Factory, Validate, Fix, Revalidate, Push,
       Stage, ReadyToPush, RepairOrGiveUp, ChildGoesOn, ChildEnds, TypeOK, TypeProcs
  <2>5. kid'[w] = "finalize" => row'[j] = verdict'[w]
    BY <2>4 DEF Conclude, Stage, TypeOK, TypeFiles, TypeRun
  <2>6. Concluded'
    BY <1>5, <1>6, <1>8, <2>5 DEF Concluded
  <2>. QED  BY <1>4, <1>7, <2>3, <2>6
<1>. QED  BY <1>10, <1>11, <1>12

LEMMA LoneStep ==
    ASSUME TypeOK, TypeOK', Control, FinishedIsIdle, LoneInv, [Next]_vars
    PROVE  LoneInv'
<1>. SUFFICES ASSUME Lone' PROVE OneLive' /\ MarksIncoming' /\ Concluded' /\ RowsAgree'
  BY DEF LoneInv
<1>1. starts \in Nat /\ starts' \in Nat
  BY BoundsAssumption DEF TypeOK, TypeHistory
<1>2. ASSUME starts' = starts PROVE OneLive /\ MarksIncoming /\ Concluded /\ RowsAgree
  BY <1>2 DEF LoneInv, Lone
<1>3. ASSUME NEW j \in Jobs, Submit(j) \/ Age(j)
      PROVE  OneLive' /\ MarksIncoming' /\ Concluded' /\ RowsAgree'
  <2>1. UNCHANGED <<row, wpc, kid, cur, scan, verdict, starts>>
    BY <1>3 DEF Submit, Age, procs
  <2>2. \A k \in Jobs : loc'[k] = loc[k] \/ (loc[k] = "none" /\ loc'[k] = "incoming")
    BY <1>3 DEF Submit, Age, TypeOK, TypeFiles
  <2>3. \A w \in Watchers : Live(w)' <=> Live(w)
    BY <2>1 DEF Live
  <2>4. OneLive' /\ Concluded'
    BY <1>2, <2>1, <2>3 DEF OneLive, Concluded
  <2>5. MarksIncoming' /\ RowsAgree'
    BY <1>2, <2>1, <2>2 DEF MarksIncoming, RowsAgree, Final, IsFirst
  <2>. QED  BY <2>4, <2>5
<1>4. ASSUME NEW w \in Watchers, Start(w)
      PROVE  OneLive' /\ MarksIncoming' /\ Concluded' /\ RowsAgree'
  <2>1. /\ starts' = starts + 1 /\ UNCHANGED <<loc, row, kid, cur, scan, verdict>>
        /\ \A v \in Watchers \ {w} : wpc'[v] = wpc[v]
    BY <1>4 DEF Start, Lone, files
  <2>2. starts = 0 /\ starts' = 1
    BY <1>1, <2>1 DEF Lone
  <2>3. OneLive /\ MarksIncoming /\ Concluded /\ RowsAgree
    BY <2>2 DEF LoneInv, Lone
  <2>4. \A v \in Watchers \ {w} : ~Live(v)'
    BY <2>1, <2>2, <2>3 DEF OneLive, Live
  <2>5. OneLive'
    BY <2>2, <2>4 DEF OneLive
  <2>. QED  BY <2>1, <2>3, <2>5 DEF MarksIncoming, Concluded, RowsAgree, IsFirst
<1>5. ASSUME NEW w \in Watchers, Kill(w) \/ KillTree(w)
      PROVE  OneLive' /\ MarksIncoming' /\ Concluded' /\ RowsAgree'
  <2>1. /\ UNCHANGED <<loc, row, verdict, starts>> /\ Live(w)
        /\ \A v \in Watchers \ {w} : wpc'[v] = wpc[v] /\ kid'[v] = kid[v]
                                     /\ cur'[v] = cur[v] /\ scan'[v] = scan[v]
        /\ (kid'[w] = kid[w] /\ scan'[w] = scan[w]) \/ kid'[w] = "idle"
        /\ cur'[w] \subseteq cur[w]
    BY <1>5 DEF Kill, KillTree, files, Live, TypeOK, TypeProcs, TypeLoops
  <2>2. OneLive'
    BY <1>2, <2>1, LiveKept
  <2>3. \A v \in Watchers : /\ cur'[v] \subseteq cur[v]
                            /\ (kid'[v] = kid[v] /\ scan'[v] = scan[v]) \/ kid'[v] = "idle"
    BY <2>1
  <2>. QED  BY <1>2, <2>1, <2>2, <2>3 DEF MarksIncoming, Concluded, RowsAgree, IsFirst
<1>6. ASSUME NEW w \in Watchers, Watch(w) \/ Rescue(w) \/ RunJob(w) PROVE starts' = starts
  BY <1>6 DEF Watch, TryLock, LeaseOne, NothingToLease, Launch, Arm, Pause,
     Rescue, RescueBegin, RescueEnd, RescueCheck, RescueStat, RescueMove, RescueMark,
     RunJob, RunStart, Factory, Validate, Fix, Revalidate, Push, Finalize, WriteMetric,
     Conclude, Stage, ReadyToPush, RepairOrGiveUp
<1>7. ASSUME NEW w \in Watchers, Watch(w) \/ Rescue(w) \/ RunJob(w)
      PROVE  OneLive' /\ MarksIncoming' /\ Concluded' /\ RowsAgree'
  BY <1>2, <1>6, <1>7, LoneWatch, LoneRescue, LoneRun
<1>8. CASE UNCHANGED vars
  <2>1. UNCHANGED <<loc, row, wpc, kid, cur, scan, verdict, starts>>
    BY <1>8 DEF vars
  <2>. QED  BY <1>2, <2>1 DEF OneLive, Live, MarksIncoming, Concluded, RowsAgree, IsFirst
<1>9. ASSUME NEW w \in Watchers, Wake(w)
      PROVE  OneLive' /\ MarksIncoming' /\ Concluded' /\ RowsAgree'
  <2>1. OneLive /\ MarksIncoming /\ Concluded /\ RowsAgree
    BY <1>2, <1>9, WakeShape
  <2>2. OneLive'
    BY <1>9, <2>1, WakeShape, LiveKept DEF Live
  <2>3. \A v \in Watchers \ {w} : scan'[v] = scan[v]
    BY <1>9 DEF Wake, ChildEnds, TypeOK, TypeLoops
  <2>4. \A v \in Watchers : kid'[v] = "idle" \/ (kid'[v] = kid[v] /\ scan'[v] = scan[v])
    BY <1>9, <2>3, WakeShape
  <2>. QED  BY <1>9, <2>1, <2>2, <2>4, WakeShape DEF MarksIncoming, Concluded, RowsAgree, IsFirst
<1>. QED  BY <1>3, <1>4, <1>5, <1>7, <1>8, <1>9 DEF Next

(***************************************************************************)
(* The inductive invariant and what follows from it.                       *)
(***************************************************************************)

LEMMA InvInit == Init => IInv
<1>. SUFFICES ASSUME Init PROVE IInv
  OBVIOUS
<1>1. Control
  BY Kinds DEF Init, Control, ChildFits, LockHeld, OneJob, Holds, Running,
     LockedStates
<1>2. DueIsOld /\ FreshHistory /\ MetricHistory /\ FinishedIsIdle
  BY DEF Init, DueIsOld, FreshHistory, MetricHistory, FinishedIsIdle
<1>. QED  BY <1>1, <1>2 DEF IInv

LEMMA InvStep == TypeOK /\ IInv /\ [Next]_vars => IInv'
BY TypeStep, ControlStep, DueStep, FreshStep, MetricStep DEF IInv

\* Lock, child and job of every slot fit together, rescues only move what was
\* too old, and the history of young and of reported jobs is as it should be:
\* the strengthening that the results below follow from.
THEOREM InvariantCorrect == Spec => []IInv
BY TypeCorrect, InvInit, InvStep, PTL DEF Spec

\* At most one run_job.sh is alive at any time, however often watchers are
\* killed, alone or with their children, and started again.
THEOREM OneRunnerCorrect == Spec => []OneRunner
<1>1. IInv => OneRunner
  BY DEF IInv, Control, LockHeld, Holds, OneRunner
<1>. QED  BY <1>1, InvariantCorrect, PTL

\* A job whose file is younger than the lease timeout is executed at most once.
THEOREM FreshRunOnceCorrect == Spec => []FreshRunOnce
<1>1. IInv => FreshRunOnce
  BY DEF IInv, FreshHistory, FreshRunOnce
<1>. QED  BY <1>1, InvariantCorrect, PTL

\* metrics.jsonl has at most one row about a job, which names the directory the
\* job file is in.
THEOREM MetricMatchesFileCorrect == Spec => []MetricMatchesFile
<1>1. IInv => MetricMatchesFile
  BY DEF IInv, MetricHistory, MetricMatchesFile
<1>. QED  BY <1>1, InvariantCorrect, PTL

\* Only the run that moved a file to done/ or failed/ still works on the job.
THEOREM FinishedIsIdleCorrect == Spec => []FinishedIsIdle
BY InvariantCorrect, PTL DEF IInv

\* As long as one watcher is started, and by hand: what task_state.json says of a finished
\* job is where its file is, whatever was killed.
THEOREM FinishedRowAgreesCorrect == Spec => []FinishedRowAgrees
<1>1. Init => TypeOK /\ IInv /\ LoneInv
  BY TypeInit, InvInit, LoneInit
<1>2. TypeOK /\ IInv /\ LoneInv /\ [Next]_vars => (TypeOK /\ IInv /\ LoneInv)'
  BY TypeStep, InvStep, LoneStep DEF IInv
<1>3. LoneInv => FinishedRowAgrees
  BY DEF LoneInv, Lone, RowsAgree, FinishedRowAgrees
<1>. QED  BY <1>1, <1>2, <1>3, PTL DEF Spec

LEMMA StaysStep ==
    ASSUME TypeOK, IInv, [Next]_vars, NEW j \in Jobs, loc[j] \in Final
    PROVE  loc'[j] = loc[j] /\ exec'[j] = exec[j]
<1>1. ASSUME NEW k \in Jobs, Submit(k) \/ Age(k)
      PROVE  loc'[j] = loc[j] /\ exec'[j] = exec[j]
  BY <1>1 DEF Submit, Age, procs, Final, TypeOK, TypeFiles
<1>2. ASSUME NEW w \in Watchers, Start(w) \/ Kill(w) \/ KillTree(w)
      PROVE  loc'[j] = loc[j] /\ exec'[j] = exec[j]
  BY <1>2 DEF Start, Kill, KillTree, files
<1>3. ASSUME NEW w \in Watchers, Watch(w)
      PROVE  loc'[j] = loc[j] /\ exec'[j] = exec[j]
  BY <1>3 DEF Watch, TryLock, LeaseOne, NothingToLease, Launch, Arm, Pause,
     files, IsFirst, In, Final, TypeOK, TypeFiles
<1>4. ASSUME NEW w \in Watchers, Rescue(w)
      PROVE  loc'[j] = loc[j] /\ exec'[j] = exec[j]
  BY <1>4 DEF Rescue, RescueBegin, RescueEnd, RescueCheck, RescueStat,
     RescueMove, RescueMark, files, Final, TypeOK, TypeFiles
<1>5. ASSUME NEW w \in Watchers, RunJob(w)
      PROVE  loc'[j] = loc[j] /\ exec'[j] = exec[j]
  <2>1. CASE RunStart(w)
    BY <2>1, CurrentJob DEF RunStart, Stage, files, Final, TypeOK, TypeHistory
  <2>2. CASE Finalize(w)
    BY <2>2, CurrentJob DEF Finalize, Final, TypeOK, TypeFiles
  <2>3. CASE ~RunStart(w) /\ ~Finalize(w)
    BY <1>5, <2>3 DEF RunJob, Factory, Validate, Fix, Revalidate, Push,
       WriteMetric, Conclude, Stage, ReadyToPush, RepairOrGiveUp, files
  <2>. QED  BY <2>1, <2>2, <2>3
<1>6. ASSUME NEW w \in Watchers, Wake(w)
      PROVE  loc'[j] = loc[j] /\ exec'[j] = exec[j]
  BY <1>6 DEF Wake, files
<1>. QED  BY <1>1, <1>2, <1>3, <1>4, <1>5, <1>6 DEF Next, vars

\* A file that reached done/ or failed/ is never moved and its job never
\* executed again.
THEOREM FinishedStaysCorrect == Spec => FinishedStaysFinished
<1>1. TypeOK /\ IInv /\ [Next]_vars =>
        [\A j \in Jobs : loc[j] \in Final =>
            loc'[j] = loc[j] /\ exec'[j] = exec[j]]_vars
  BY StaysStep
<1>. QED
  BY <1>1, TypeCorrect, InvariantCorrect, PTL DEF Spec, FinishedStaysFinished

(***************************************************************************)
(* The processes implement the life cycle.                                 *)
(***************************************************************************)

Busy == RunStates \ {"start"}

LEMMA ExecutingOne ==
    ASSUME TypeOK, Control, NEW w \in Watchers, NEW j \in cur[w], Running(w)
    PROVE  Executing = IF kid[w] = "start" THEN {} ELSE {j}
<1>1. \A v \in Watchers : Running(v) => v = w
  BY OneHolder DEF Control, Holds
<1>2. cur[w] = {j} /\ j \in Jobs
  BY JobHolder, CurrentJob
<1>. QED  BY <1>1, <1>2 DEF Executing, Running

LEMMA ExecutingSame ==
    ASSUME \A v \in Watchers : /\ kid'[v] \in Busy <=> kid[v] \in Busy
                               /\ kid[v] \in Busy => cur'[v] = cur[v]
    PROVE  Executing' = Executing
BY DEF Executing, Busy

\* Stepping off from the only slot that executes leaves nothing executing.
LEMMA ExecutingStops ==
    ASSUME TypeOK, Control, NEW w \in Watchers, kid[w] \in Busy,
           kid'[w] = "idle", \A v \in Watchers \ {w} : kid'[v] = kid[v]
    PROVE  Executing # {} /\ Executing' = {}
<1>1. \A v \in Watchers : kid[v] \in Busy => v = w
  BY OneHolder DEF Control, Holds, Running, Busy
<1>2. PICK j \in Jobs : cur[w] = {j}
  BY DEF Control, OneJob, Running, Busy
<1>3. "idle" \notin Busy
  BY DEF Busy, RunStates
<1>. QED  BY <1>1, <1>2, <1>3 DEF Executing, Busy

LEMMA LifecycleInit == Init => Lifecycle!Init
BY Kinds DEF Init, Lifecycle!Init, Executing

LEMMA RunLifecycle ==
    ASSUME TypeOK, IInv, NEW w \in Watchers, RunJob(w)
    PROVE  [Lifecycle!Next]_(Lifecycle!vars)
<1>. DEFINE Goal == [Lifecycle!Next]_(Lifecycle!vars)
<1>0. Control
  BY DEF IInv
<1>a. kid[w] \in RunStates /\ Running(w)
  BY RunShape DEF Running
<1>b. ASSUME ChildEnds(w), kid[w] \in Busy
      PROVE  Executing # {} /\ Executing' = {}
  <2>1. kid'[w] = "idle" /\ \A v \in Watchers \ {w} : kid'[v] = kid[v]
    BY <1>b DEF ChildEnds, TypeOK, TypeProcs
  <2>. QED  BY <1>0, <1>b, <2>1, ExecutingStops
<1>c. ASSUME NEW to \in Busy, ChildGoesOn(w, to), kid[w] \in Busy
      PROVE  Executing' = Executing
  <2>1. \A v \in Watchers : kid'[v] \in Busy <=> kid[v] \in Busy
    BY <1>c DEF ChildGoesOn, TypeOK, TypeProcs
  <2>. QED  BY <1>c, <2>1, ExecutingSame DEF ChildGoesOn
<1>1. CASE RunStart(w)
  <2>1. PICK j \in cur[w] :
          \/ ChildEnds(w) /\ UNCHANGED <<loc, metric>>
          \/ /\ loc[j] = "leased"
             /\ ChildGoesOn(w, "factory")
             /\ UNCHANGED <<loc, metric>>
    BY <1>1 DEF RunStart, Stage, files
  <2>2. kid[w] = "start" /\ Executing = {} /\ j \in Jobs /\ cur[w] = {j}
    BY <1>0, <1>1, <1>a, ExecutingOne, CurrentJob, JobHolder DEF RunStart
  <2>3. CASE ChildEnds(w) /\ UNCHANGED <<loc, metric>>
    <3>1. \A v \in Watchers : /\ kid'[v] \in Busy <=> kid[v] \in Busy
                              /\ kid[v] \in Busy => cur'[v] = cur[v]
      BY <2>2, <2>3 DEF ChildEnds, TypeOK, TypeProcs, Busy, RunStates
    <3>. QED  BY <2>3, <3>1, ExecutingSame DEF Lifecycle!vars
  <2>4. CASE /\ loc[j] = "leased"
             /\ ChildGoesOn(w, "factory")
             /\ UNCHANGED <<loc, metric>>
    <3>1. /\ kid'[w] = "factory" /\ cur' = cur
          /\ \A v \in Watchers \ {w} : kid'[v] = kid[v]
      BY <2>4 DEF ChildGoesOn, TypeOK, TypeProcs
    <3>2. \A v \in Watchers : Running(v) => v = w
      BY <1>0, <1>a, OneHolder DEF Control, Holds
    <3>3. Executing' = {j}
      BY <2>2, <3>1, <3>2 DEF Executing, Running, RunStates
    <3>4. Lifecycle!Begin(j)
      BY <2>2, <2>4, <3>3 DEF Lifecycle!Begin
    <3>. QED  BY <2>2, <3>4 DEF Lifecycle!Next
  <2>. QED  BY <2>1, <2>3, <2>4
<1>2. CASE Finalize(w)
  <2>1. PICK j \in cur[w] :
          \/ ChildEnds(w) /\ UNCHANGED <<loc, metric>>
          \/ /\ loc[j] = "leased"
             /\ loc' = [loc EXCEPT ![j] = verdict[w]]
             /\ ChildGoesOn(w, "metric")
             /\ UNCHANGED metric
    BY <1>2 DEF Finalize
  <2>2. kid[w] \in Busy /\ Executing = {j} /\ j \in Jobs
    BY <1>0, <1>2, <1>a, ExecutingOne, CurrentJob DEF Finalize, Busy
  <2>3. CASE ChildEnds(w) /\ UNCHANGED <<loc, metric>>
    BY <1>b, <2>2, <2>3 DEF Lifecycle!Next, Lifecycle!Abandon
  <2>4. CASE /\ loc[j] = "leased"
             /\ loc' = [loc EXCEPT ![j] = verdict[w]]
             /\ ChildGoesOn(w, "metric")
             /\ UNCHANGED metric
    <3>1. verdict[w] \in Lifecycle!Final
      BY DEF TypeOK, TypeRun, Verdicts, Lifecycle!Final
    <3>2. Executing' = Executing
      BY <1>c, <2>2, <2>4 DEF Busy, RunStates
    <3>3. Lifecycle!Finish(j)
      BY <2>2, <2>4, <3>1, <3>2 DEF Lifecycle!Finish, Lifecycle!Move
    <3>. QED  BY <2>2, <3>3 DEF Lifecycle!Next
  <2>. QED  BY <2>1, <2>3, <2>4
<1>3. CASE WriteMetric(w)
  <2>1. PICK j \in cur[w] :
          metric' = [metric EXCEPT ![j] = Append(metric[j], verdict[w])]
    BY <1>3 DEF WriteMetric
  <2>2. /\ kid[w] \in Busy /\ Executing = {j} /\ j \in Jobs
        /\ kid[w] = "metric" /\ ChildEnds(w) /\ loc' = loc
    BY <1>0, <1>3, <1>a, ExecutingOne, CurrentJob DEF WriteMetric, Busy, files
  <2>3. metric[j] = <<>> /\ loc[j] = verdict[w]
    BY <2>2 DEF IInv, MetricHistory
  <2>4. loc[j] \in Lifecycle!Final /\ metric' = [metric EXCEPT ![j] = <<loc[j]>>]
    BY <2>1, <2>3 DEF TypeOK, TypeRun, Verdicts, Lifecycle!Final
  <2>5. Lifecycle!Report(j)
    BY <1>b, <2>2, <2>3, <2>4 DEF Lifecycle!Report
  <2>. QED  BY <2>2, <2>5 DEF Lifecycle!Next
<1>4. CASE ~RunStart(w) /\ ~Finalize(w) /\ ~WriteMetric(w)
  <2>1. UNCHANGED <<loc, metric>> /\ kid[w] \in Busy
    BY <1>4 DEF RunJob, Factory, Validate, Fix, Revalidate, Push, Conclude,
       Stage, ReadyToPush, RepairOrGiveUp, Busy, RunStates
  <2>2. \E to \in Busy : ChildGoesOn(w, to)
    BY <1>4 DEF RunJob, Factory, Validate, Fix, Revalidate, Push, Conclude,
       Stage, ReadyToPush, RepairOrGiveUp, Busy, RunStates
  <2>. QED  BY <1>c, <2>1, <2>2 DEF Lifecycle!vars
<1>. QED  BY <1>1, <1>2, <1>3, <1>4

LEMMA LifecycleStep ==
    TypeOK /\ IInv /\ [Next]_vars => [Lifecycle!Next]_(Lifecycle!vars)
<1>. SUFFICES ASSUME TypeOK, IInv, [Next]_vars
              PROVE  [Lifecycle!Next]_(Lifecycle!vars)
  OBVIOUS
<1>. DEFINE Goal == [Lifecycle!Next]_(Lifecycle!vars)
<1>0. Control
  BY DEF IInv
<1>a. \A v \in Watchers : kid[v] \in RescueStates \union {"idle"} => kid[v] \notin Busy
  BY Kinds DEF Busy
<1>1. ASSUME UNCHANGED <<loc, kid, cur, metric>> PROVE Goal
  BY <1>1 DEF Lifecycle!vars, Executing
<1>2. ASSUME NEW j \in Jobs, Submit(j) PROVE Goal
  <2>1. Executing' = Executing
    BY <1>2 DEF Submit, Executing
  <2>2. Lifecycle!Submit(j)
    BY <1>2, <2>1 DEF Submit, Lifecycle!Submit, Lifecycle!Move
  <2>. QED  BY <2>2 DEF Lifecycle!Next
<1>3. ASSUME NEW j \in Jobs, Age(j) PROVE Goal
  BY <1>1, <1>3 DEF Age, procs
<1>4. ASSUME NEW w \in Watchers, Start(w) PROVE Goal
  BY <1>1, <1>4 DEF Start, files
<1>5. ASSUME NEW w \in Watchers, Kill(w) \/ KillTree(w) PROVE Goal
  <2>1. UNCHANGED <<loc, metric>>
    BY <1>5 DEF Kill, KillTree, files
  <2>2. CASE kid[w] \in Busy /\ KillTree(w)
    <3>1. kid'[w] = "idle" /\ \A v \in Watchers \ {w} : kid'[v] = kid[v]
      BY <2>2 DEF KillTree, TypeOK, TypeProcs
    <3>2. Executing # {} /\ Executing' = {}
      BY <1>0, <2>2, <3>1, ExecutingStops
    <3>. QED  BY <2>1, <3>2 DEF Lifecycle!Next, Lifecycle!Abandon
  <2>3. CASE ~(kid[w] \in Busy /\ KillTree(w))
    <3>1. \A v \in Watchers : /\ kid'[v] \in Busy <=> kid[v] \in Busy
                              /\ kid[v] \in Busy => cur'[v] = cur[v]
      BY <1>5, <2>3 DEF Kill, KillTree, TypeOK, TypeProcs, Busy, RunStates
    <3>. QED  BY <2>1, <3>1, ExecutingSame DEF Lifecycle!vars
  <2>. QED  BY <2>2, <2>3
<1>6. ASSUME NEW w \in Watchers, Watch(w) PROVE Goal
  <2>1. /\ metric' = metric /\ (loc' = loc \/ LeaseOne(w))
        /\ kid' = kid \/ Launch(w) \/ Pause(w)
        /\ cur' = cur \/ LeaseOne(w)
    BY <1>6 DEF Watch, TryLock, LeaseOne, NothingToLease, Launch, Arm, Pause,
       files
  <2>2. kid[w] = "idle"
    BY <1>0, <1>6, WatchIdle
  <2>3. \A v \in Watchers : /\ kid'[v] \in Busy <=> kid[v] \in Busy
                            /\ kid[v] \in Busy => cur'[v] = cur[v]
    <3>1. \A v \in Watchers : kid'[v] = kid[v] \/ (v = w /\ kid'[v] \in {"start", "pause"})
      BY <2>1 DEF Launch, Pause, TypeOK, TypeProcs
    <3>2. \A v \in Watchers \ {w} : cur'[v] = cur[v]
      BY <2>1 DEF LeaseOne, TypeOK, TypeProcs
    <3>. QED  BY <1>a, <2>2, <3>1, <3>2, Kinds DEF Busy
  <2>4. Executing' = Executing
    BY <2>3, ExecutingSame
  <2>5. CASE LeaseOne(w)
    <3>1. PICK j \in Jobs : /\ loc[j] = "incoming"
                            /\ loc' = [loc EXCEPT ![j] = "leased"]
      BY <2>5 DEF LeaseOne, IsFirst, In
    <3>2. Lifecycle!Lease(j)
      BY <2>1, <2>4, <3>1 DEF Lifecycle!Lease, Lifecycle!Move
    <3>. QED  BY <3>2 DEF Lifecycle!Next
  <2>. QED  BY <2>1, <2>4, <2>5 DEF Lifecycle!vars
<1>7. ASSUME NEW w \in Watchers, Rescue(w) PROVE Goal
  <2>1. metric' = metric /\ (loc' = loc \/ RescueMove(w))
    BY <1>7 DEF Rescue, RescueBegin, RescueEnd, RescueCheck, RescueStat,
       RescueMove, RescueMark, files
  <2>2. \A v \in Watchers : /\ kid'[v] \in Busy <=> kid[v] \in Busy
                            /\ kid[v] \in Busy => cur'[v] = cur[v]
    <3>1. CASE RescueBegin(w)
      BY <1>a, <3>1 DEF RescueBegin, TypeOK, TypeProcs, Busy, RunStates
    <3>2. CASE ~RescueBegin(w)
      BY <1>7, <1>a, <3>2, RescueShape, Kinds DEF ChildEnds, ChildGoesOn,
         TypeOK, TypeProcs, Busy
    <3>. QED  BY <3>1, <3>2
  <2>3. Executing' = Executing
    BY <2>2, ExecutingSame
  <2>4. CASE RescueMove(w)
    <3>1. \/ UNCHANGED loc
          \/ \E j \in Jobs : /\ loc[j] = "leased"
                             /\ loc' = [loc EXCEPT ![j] = "incoming"]
      BY <2>4 DEF RescueMove
    <3>2. CASE UNCHANGED loc
      BY <2>1, <2>3, <3>2 DEF Lifecycle!vars
    <3>3. ASSUME NEW j \in Jobs, loc[j] = "leased",
                 loc' = [loc EXCEPT ![j] = "incoming"]
          PROVE  Goal
      <4>1. Lifecycle!TakeBack(j)
        BY <2>1, <2>3, <3>3 DEF Lifecycle!TakeBack, Lifecycle!Move
      <4>. QED  BY <4>1 DEF Lifecycle!Next
    <3>. QED  BY <3>1, <3>2, <3>3
  <2>. QED  BY <2>1, <2>3, <2>4 DEF Lifecycle!vars
<1>8. CASE UNCHANGED vars
  BY <1>1, <1>8 DEF vars
<1>9. ASSUME NEW w \in Watchers, Wake(w) PROVE Goal
  <2>1. \A v \in Watchers : kid'[v] \in Busy <=> kid[v] \in Busy
    BY <1>0, <1>9, WakeShape, Kinds DEF Busy
  <2>. QED  BY <1>0, <1>9, <2>1, WakeShape, ExecutingSame DEF Lifecycle!vars
<1>. QED
  BY <1>2, <1>3, <1>4, <1>5, <1>6, <1>7, <1>8, <1>9, RunLifecycle DEF Next

\* The watchers, rescues and runs together keep the promise of JobLifecycle.
THEOREM LifecycleCorrect == Spec => ImplementsLifecycle
BY TypeCorrect, InvariantCorrect, LifecycleInit, LifecycleStep, PTL
   DEF Spec, ImplementsLifecycle, Lifecycle!Spec
=============================================================================
