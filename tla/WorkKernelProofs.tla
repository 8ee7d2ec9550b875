-------------------------- MODULE WorkKernelProofs --------------------------
(***************************************************************************)
(* Proofs about run_reads, for any coordinators, runs, plans, concurrency  *)
(* and number of retries: first of the receipts (EvidenceStore), then of   *)
(* the execution of one plan (ReadRun), then of the two together.          *)
(* ReadInv is inductive: a task that has left "todo" depends on tasks that *)
(* have ended, so no step of a running task changes what it relied on.     *)
(***************************************************************************)
EXTENDS WorkKernel, FiniteSetTheorems, TLAPS
-----------------------------------------------------------------------------
(* The receipts.                                                           *)

LEMMA StoreTypeInit == StoreInit => StoreTypeOK
<1>1. StoreInit => damage \in 0 .. MaxDamage
  BY BoundAssumption DEF StoreInit
<1>. QED  BY <1>1 DEF StoreInit, StoreTypeOK, Row

LEMMA StoreTypeStep == StoreTypeOK /\ [StoreNext]_storeVars => StoreTypeOK'
<1>. SUFFICES ASSUME StoreTypeOK, [StoreNext]_storeVars PROVE StoreTypeOK'
  OBVIOUS
<1>. USE DEF StoreTypeOK, GoesTo, args
<1>1. ASSUME NEW k \in Coordinators, Begin(k) PROVE StoreTypeOK'
  BY <1>1 DEF Begin
<1>2. ASSUME NEW k \in Coordinators, Claim(k) PROVE StoreTypeOK'
  <2>1. [plan |-> plan[k], state |-> "running", receipt |-> NoReceipt] \in Row
    BY DEF Row
  <2>. QED  BY <1>2, <2>1 DEF Claim
<1>3. ASSUME NEW k \in Coordinators, ClaimCached(k) PROVE StoreTypeOK'
  <2>1. row[run[k]].receipt \in Coordinators
    BY <1>3 DEF ClaimCached
  <2>. QED  BY <1>3, <2>1 DEF ClaimCached
<1>4. ASSUME NEW k \in Coordinators,
             ClaimRejected(k) \/ Answer(k) \/ FinishRejected(k) \/ Crash(k)
      PROVE  StoreTypeOK'
  BY <1>4 DEF ClaimRejected, Answer, FinishRejected, Crash
<1>5. ASSUME NEW k \in Coordinators, Read(k) PROVE StoreTypeOK'
  BY <1>5 DEF Read
<1>6. ASSUME NEW k \in Coordinators, Finish(k) PROVE StoreTypeOK'
  <2>1. row[run[k]] \in Row /\ row[run[k]].state = "running"
    BY <1>6 DEF Finish
  <2>4. row[run[k]] \in [plan : Plans, state : {"running"}, receipt : {NoReceipt}]
    BY <2>1 DEF Row, NoRun
  <2>2. [row[run[k]] EXCEPT !.state = "complete", !.receipt = k] \in Row
    <3>1. [row[run[k]] EXCEPT !.state = "complete", !.receipt = k]
            \in [plan : Plans, state : {"complete"}, receipt : Coordinators]
      BY <2>4
    <3>. QED  BY <3>1 DEF Row
  <2>3. row' \in [Runs -> Row]
    BY <1>6, <2>2 DEF Finish
  <2>. QED  BY <1>6, <2>3 DEF Finish
<1>7. ASSUME NEW k \in Coordinators, Damage(k) PROVE StoreTypeOK'
  BY <1>7, BoundAssumption DEF Damage
<1>8. ASSUME NEW r \in Runs, GrowOld(r) PROVE StoreTypeOK'
  BY <1>8 DEF GrowOld
<1>9. CASE UNCHANGED storeVars
  BY <1>9 DEF storeVars
<1>. QED  BY <1>1, <1>2, <1>3, <1>4, <1>5, <1>6, <1>7, <1>8, <1>9 DEF StoreNext

LEMMA ClaimedRuns ==
    ASSUME OneClaim, NEW k \in Coordinators, Claimed(k)
    PROVE  row[run[k]].state = "running"
<1>1. row[run[k]] = [plan |-> plan[k], state |-> "running", receipt |-> NoReceipt]
  BY DEF OneClaim
<1>. QED  BY <1>1

LEMMA StoreInvInit == StoreInit => IInv
BY DEF StoreInit, IInv, OneClaim, ReadersClaim, ReadOnce, SameAnswer,
   ReceiptHasEvidence, Claimed, NoRun

\* A step that claims nothing, reads nothing and writes no row.
LEMMA InvKept ==
    ASSUME StoreTypeOK, IInv, UNCHANGED <<run, plan, row, readers>>,
           \A k \in Coordinators : pc'[k] \in {"read", "finish"} => pc'[k] = pc[k],
           \A k \in Coordinators : answer'[k] \in {NoReceipt, answer[k]} \/
               /\ row[run[k]].state = "complete" /\ row[run[k]].plan = plan[k]
               /\ row[run[k]].receipt = answer'[k],
           \A k \in blobs : k \in blobs' \/ damage' > 0,
           damage > 0 => damage' > 0
    PROVE  IInv'
<1>1. OneClaim' /\ ReadersClaim' /\ ReadOnce'
  BY DEF IInv, OneClaim, ReadersClaim, ReadOnce, Claimed
<1>2. SameAnswer'
  BY DEF IInv, SameAnswer
<1>3. ReceiptHasEvidence'
  BY DEF IInv, ReceiptHasEvidence
<1>. QED  BY <1>1, <1>2, <1>3 DEF IInv

LEMMA ClaimKeepsInv ==
    ASSUME StoreTypeOK, IInv, NEW k \in Coordinators, Claim(k)
    PROVE  IInv'
<1>. DEFINE r == run[k]
<1>1. /\ row[r].state = "none" /\ pc'[k] = "read"
      /\ row'[r] = [plan |-> plan[k], state |-> "running", receipt |-> NoReceipt]
      /\ \A q \in Runs \ {r} : row'[q] = row[q]
      /\ \A l \in Coordinators \ {k} : pc'[l] = pc[l]
      /\ UNCHANGED <<run, plan, blobs, readers, answer, damage>> /\ r \in Runs
  BY DEF Claim, GoesTo, StoreTypeOK, args
<1>2. \A l \in Coordinators : Claimed(l) => run[l] # r
  BY <1>1, ClaimedRuns DEF IInv
<1>. HIDE DEF r
<1>3. run[k] = r
  BY DEF r
<1>4. OneClaim'
  BY <1>1, <1>2, <1>3 DEF IInv, OneClaim, Claimed, StoreTypeOK
<1>5. ReadersClaim' /\ ReadOnce'
  BY <1>1, <1>2, <1>3 DEF IInv, ReadersClaim, ReadOnce
<1>6. SameAnswer'
  BY <1>1 DEF IInv, SameAnswer, StoreTypeOK
<1>7. ReceiptHasEvidence'
  BY <1>1 DEF IInv, ReceiptHasEvidence
<1>. QED  BY <1>4, <1>5, <1>6, <1>7 DEF IInv

LEMMA ReadKeepsInv ==
    ASSUME StoreTypeOK, IInv, NEW k \in Coordinators, Read(k)
    PROVE  IInv'
<1>. DEFINE r == run[k]
<1>1. /\ pc[k] = "read" /\ pc'[k] = "finish" /\ r \in Runs
      /\ \A l \in Coordinators \ {k} : pc'[l] = pc[l]
      /\ readers'[r] = readers[r] \union {k}
      /\ \A q \in Runs \ {r} : readers'[q] = readers[q]
      /\ UNCHANGED <<run, plan, row, blobs, answer, damage>>
  BY DEF Read, GoesTo, StoreTypeOK, args
<1>2. readers[r] = {} /\ row[r].state = "running"
  BY <1>1, ClaimedRuns DEF IInv, ReadersClaim, Claimed
<1>3. \A l \in Coordinators \ {k} : Claimed(l) => run[l] # r
  BY <1>1 DEF IInv, OneClaim, Claimed
<1>. HIDE DEF r
<1>4. run[k] = r
  BY DEF r
<1>5. OneClaim'
  BY <1>1 DEF IInv, OneClaim, Claimed
<1>6. ReadersClaim' /\ ReadOnce'
  BY <1>1, <1>2, <1>3, <1>4 DEF IInv, ReadersClaim, ReadOnce, Claimed, StoreTypeOK
<1>7. SameAnswer' /\ ReceiptHasEvidence'
  BY <1>1, <1>2 DEF IInv, SameAnswer, ReceiptHasEvidence
<1>. QED  BY <1>5, <1>6, <1>7 DEF IInv

LEMMA FinishKeepsInv ==
    ASSUME StoreTypeOK, IInv, NEW k \in Coordinators, Finish(k)
    PROVE  IInv'
<1>. DEFINE r == run[k]
<1>1. /\ pc[k] = "finish" /\ pc'[k] = "done" /\ r \in Runs
      /\ row[r].state = "running" /\ row[r].plan = plan[k]
      /\ \A l \in Coordinators \ {k} : pc'[l] = pc[l] /\ answer'[l] = answer[l]
      /\ answer'[k] = k /\ blobs' = blobs \union {k}
      /\ \A q \in Runs \ {r} : row'[q] = row[q]
      /\ UNCHANGED <<run, plan, readers, damage>>
  BY DEF Finish, GoesTo, StoreTypeOK, args
<1>2. row'[r] = [row[r] EXCEPT !.state = "complete", !.receipt = k]
  BY DEF Finish, StoreTypeOK
<1>3. /\ row'[r].state = "complete" /\ row'[r].receipt = k
      /\ row'[r].plan = plan[k]
  BY <1>1, <1>2 DEF StoreTypeOK, Row, NoRun
<1>4. readers[r] = {k}
  BY <1>1 DEF IInv, ReadersClaim
<1>5. \A l \in Coordinators \ {k} : Claimed(l) => run[l] # r
  BY <1>1 DEF IInv, OneClaim, Claimed
<1>. HIDE DEF r
<1>6. run[k] = r
  BY DEF r
<1>7. OneClaim'
  BY <1>1, <1>5 DEF IInv, OneClaim, Claimed, StoreTypeOK
<1>8. ReadersClaim' /\ ReadOnce'
  BY <1>1, <1>3 DEF IInv, ReadersClaim, ReadOnce
<1>9. SameAnswer'
  BY <1>1, <1>3, <1>6 DEF IInv, SameAnswer, StoreTypeOK
<1>10. ReceiptHasEvidence'
  BY <1>1, <1>3, <1>4 DEF IInv, ReceiptHasEvidence
<1>. QED  BY <1>7, <1>8, <1>9, <1>10 DEF IInv

LEMMA StoreInvStep == StoreTypeOK /\ IInv /\ [StoreNext]_storeVars => IInv'
<1>. SUFFICES ASSUME StoreTypeOK, IInv, [StoreNext]_storeVars PROVE IInv'
  OBVIOUS
<1>1. ASSUME NEW k \in Coordinators,
             Begin(k) \/ ClaimRejected(k) \/ Answer(k) \/ FinishRejected(k) \/ Crash(k)
      PROVE  IInv'
  <2>1. /\ UNCHANGED <<run, plan, row, readers, blobs, damage>>
        /\ \A l \in Coordinators : pc'[l] \in {"read", "finish"} => pc'[l] = pc[l]
        /\ \A l \in Coordinators : answer'[l] \in {NoReceipt, answer[l]}
    BY <1>1 DEF Begin, ClaimRejected, Answer, FinishRejected, Crash, GoesTo, args, StoreTypeOK
  <2>. QED  BY <2>1, InvKept
<1>2. ASSUME NEW k \in Coordinators, ClaimCached(k) PROVE IInv'
  <2>1. /\ UNCHANGED <<run, plan, row, readers, blobs, damage>>
        /\ \A l \in Coordinators : pc'[l] \in {"read", "finish"} => pc'[l] = pc[l]
        /\ \A l \in Coordinators \ {k} : answer'[l] = answer[l]
        /\ answer'[k] = row[run[k]].receipt
        /\ row[run[k]].state = "complete" /\ row[run[k]].plan = plan[k]
    BY <1>2 DEF ClaimCached, GoesTo, args, StoreTypeOK
  <2>. QED  BY <2>1, InvKept
<1>3. ASSUME NEW k \in Coordinators, Damage(k) PROVE IInv'
  <2>1. /\ UNCHANGED <<run, plan, row, readers, pc, answer>> /\ damage' > 0
    BY <1>3, BoundAssumption DEF Damage, args, StoreTypeOK
  <2>. QED  BY <2>1, InvKept
<1>4. ASSUME NEW r \in Runs, GrowOld(r) PROVE IInv'
  <2>1. UNCHANGED <<run, plan, row, readers, pc, answer, blobs, damage>>
    BY <1>4 DEF GrowOld, args
  <2>. QED  BY <2>1, InvKept
<1>5. CASE UNCHANGED storeVars
  <2>1. UNCHANGED <<run, plan, row, readers, pc, answer, blobs, damage>>
    BY <1>5 DEF storeVars, args
  <2>. QED  BY <2>1, InvKept
<1>. QED  BY <1>1, <1>2, <1>3, <1>4, <1>5, ClaimKeepsInv, ReadKeepsInv, FinishKeepsInv DEF StoreNext

LEMMA StoreInductive == StoreSpec => [](StoreTypeOK /\ IInv)
<1>1. StoreInit => StoreTypeOK /\ IInv
  BY StoreTypeInit, StoreInvInit
<1>2. StoreTypeOK /\ IInv /\ [StoreNext]_storeVars => (StoreTypeOK /\ IInv)'
  BY StoreTypeStep, StoreInvStep
<1>. QED  BY <1>1, <1>2, PTL DEF StoreSpec

\* Every variable keeps its type: a complete row has a plan and a receipt.
THEOREM StoreTypeCorrect == StoreSpec => []StoreTypeOK
BY StoreInductive, PTL

\* The inductive invariant: one coordinator between claim and finish of a run.
THEOREM StoreInvariantCorrect == StoreSpec => []IInv
BY StoreInductive, PTL

\* The adapters are called for a run by at most one coordinator.
THEOREM ReadOnceCorrect == StoreSpec => []ReadOnce
BY StoreInductive, PTL DEF IInv

\* All answers for a run are its receipt, and for the plan that was asked for.
THEOREM SameAnswerCorrect == StoreSpec => []SameAnswer
BY StoreInductive, PTL DEF IInv

\* A receipt reports reads made for its run, whose evidence was stored with it.
THEOREM ReceiptHasEvidenceCorrect == StoreSpec => []ReceiptHasEvidence
BY StoreInductive, PTL DEF IInv

\* A finished run does not change.
THEOREM ReceiptStaysCorrect == StoreSpec => ReceiptStays
<1>1. StoreTypeOK /\ [StoreNext]_storeVars
        => [\A r \in Runs : row[r].state = "complete" => row'[r] = row[r]]_storeVars
  <2>. SUFFICES ASSUME StoreTypeOK, StoreNext, NEW r \in Runs, row[r].state = "complete"
                PROVE  row'[r] = row[r]
    BY DEF storeVars, args
  <2>1. ASSUME NEW k \in Coordinators, Claim(k) \/ Finish(k) PROVE row'[r] = row[r]
    BY <2>1 DEF Claim, Finish, StoreTypeOK
  <2>2. ASSUME NEW k \in Coordinators,
               Begin(k) \/ ClaimCached(k) \/ ClaimRejected(k) \/ Answer(k)
               \/ Read(k) \/ FinishRejected(k) \/ Crash(k) \/ Damage(k)
        PROVE  row'[r] = row[r]
    BY <2>2 DEF Begin, ClaimCached, ClaimRejected, Answer, Read, FinishRejected, Crash, Damage
  <2>3. ASSUME NEW q \in Runs, GrowOld(q) PROVE row'[r] = row[r]
    BY <2>3 DEF GrowOld
  <2>. QED  BY <2>1, <2>2, <2>3 DEF StoreNext
<1>. QED  BY <1>1, StoreInductive, PTL DEF StoreSpec, ReceiptStays
-----------------------------------------------------------------------------
(* The execution of a plan.                                                *)

LEMMA ReadStart == ReadInit => ReadTypeOK /\ ReadInv
<1> SUFFICES ASSUME ReadInit PROVE ReadTypeOK /\ ReadInv
  OBVIOUS
<1> USE TasksAssumption, BoundsAssumption
<1>1. stop \in BOOLEAN /\ ~stop
  BY Zenon DEF ReadInit
<1>2. ReadTypeOK
  BY <1>1, SMT DEF ReadInit, ReadTypeOK
<1>3. Busy = {}
  BY DEF ReadInit, Busy
<1>4. BoundedConcurrency
  BY <1>3, FS_EmptySet DEF BoundedConcurrency
<1>5. /\ \A t \in Tasks : st[t] = "todo" /\ tries[t] = 0
      /\ status = "none"
  BY DEF ReadInit
<1>6. Dependable /\ CalledOnEvidence /\ OkMeansAllRead
  BY <1>5 DEF Dependable, CalledOnEvidence, OkMeansAllRead
<1>7. SkippedForAReason
  BY <1>1, <1>5 DEF SkippedForAReason
<1> QED
  BY <1>2, <1>4, <1>6, <1>7 DEF ReadInv

\* A task that has begun does not depend on one that has not ended.
LEMMA NotADependency ==
  ASSUME ReadTypeOK, Dependable, NEW t \in Tasks, NEW u \in Tasks,
         st[t] \notin Ended, st[u] # "todo"
  PROVE  t \notin Deps(u)
BY DEF Dependable, Done

\* What the step of one task leaves as it was.
LEMMA TaskFrame ==
  ASSUME ReadTypeOK, Dependable, NEW t \in Tasks, NEW to,
         st[t] \notin Ended, TaskGoesTo(t, to)
  PROVE  /\ st'[t] = to
         /\ \A u \in Tasks : u # t => st'[u] = st[u]
         /\ \A u \in Tasks : st[u] # "todo" => \A d \in Deps(u) : st'[d] = st[d]
<1>1. /\ st'[t] = to
      /\ \A u \in Tasks : u # t => st'[u] = st[u]
  BY DEF ReadTypeOK, TaskGoesTo
<1>2. \A u \in Tasks : st[u] # "todo" => \A d \in Deps(u) : d \in Tasks /\ d # t
  BY NotADependency, TasksAssumption
<1> QED
  BY <1>1, <1>2

-----------------------------------------------------------------------------
(* The bound on the calls                                                  *)

LEMMA BusyFinite == IsFiniteSet(Busy) /\ Cardinality(Busy) \in Nat
<1>1. IsFiniteSet(Busy)
  BY TasksAssumption, FS_Subset DEF Busy
<1> QED
  BY <1>1, FS_CardinalityType

LEMMA BusyShrinks ==
  ASSUME BoundedConcurrency, Busy' \subseteq Busy
  PROVE  BoundedConcurrency'
<1>1. IsFiniteSet(Busy') /\ Cardinality(Busy') <= Cardinality(Busy)
  BY BusyFinite, FS_Subset
<1>2. Cardinality(Busy') \in Nat
  BY <1>1, FS_CardinalityType
<1> QED
  BY <1>1, <1>2, BusyFinite, BoundsAssumption DEF BoundedConcurrency

LEMMA BusyGrows ==
  ASSUME NEW t \in Tasks, Free, Busy' = Busy \union {t}
  PROVE  BoundedConcurrency'
<1>1. Cardinality(Busy \union {t}) <= Cardinality(Busy) + 1
  BY BusyFinite, FS_AddElement
<1>2. Cardinality(Busy) + 1 <= Concurrency
  BY BusyFinite, BoundsAssumption DEF Free
<1>3. IsFiniteSet(Busy \union {t})
  BY BusyFinite, FS_AddElement
<1>4. Cardinality(Busy \union {t}) \in Nat
  BY <1>3, FS_CardinalityType
<1> QED
  BY <1>1, <1>2, <1>4, BusyFinite, BoundsAssumption DEF BoundedConcurrency
-----------------------------------------------------------------------------
(* The step of one task, whichever it is                                   *)

\* The shape of every action of a task: it leaves "wait", "call" or "sleep", and
\* counts an attempt only when everything it depends on was read.
TaskShape(t, to, n) ==
    /\ st[t] \in {"wait", "call", "sleep"}
    /\ TaskGoesTo(t, to)
    /\ tries' = [tries EXCEPT ![t] = n]
    /\ stop' = (stop \/ to = "denied")
    /\ UNCHANGED <<level, status>>
    /\ st[t] = "wait" /\ to # "skipped" => Free
    /\ n > 0 => ~FailedDep(t)
    /\ to = "sleep" => n <= Retries
    /\ to # "skipped" => n > 0
    /\ to = "skipped" => stop \/ FailedDep(t)

LEMMA ShapeOK ==
  ASSUME ReadTypeOK, ReadInv, NEW t \in Tasks, NEW to \in {"call", "sleep"} \union Ended,
         NEW n \in 0 .. Retries + 1, TaskShape(t, to, n)
  PROVE  ReadTypeOK' /\ ReadInv'
<1> DEFINE From == {"wait", "call", "sleep"}
<1>0. /\ st[t] \in From /\ TaskGoesTo(t, to) /\ st[t] \notin Ended /\ st[t] # "todo"
      /\ tries' = [tries EXCEPT ![t] = n]
      /\ stop' = (stop \/ to = "denied")
      /\ level' = level /\ status' = status
  BY DEF TaskShape, Ended
<1>1. /\ st'[t] = to
      /\ \A u \in Tasks : u # t => st'[u] = st[u]
      /\ \A u \in Tasks : st[u] # "todo" => \A d \in Deps(u) : st'[d] = st[d]
  BY <1>0, TaskFrame DEF ReadInv
<1>2. /\ tries'[t] = n
      /\ \A u \in Tasks : u # t => tries'[u] = tries[u]
  BY <1>0 DEF ReadTypeOK
<1>3. ReadTypeOK'
  <2>1. stop' \in BOOLEAN
    BY <1>0, Zenon
  <2>2. st' \in [Tasks -> {"todo", "wait", "call", "sleep"} \union Ended]
    BY <1>0 DEF ReadTypeOK, TaskGoesTo
  <2>3. tries' \in [Tasks -> 0 .. Retries + 1]
    BY <1>0 DEF ReadTypeOK
  <2> QED
    BY <1>0, <2>1, <2>2, <2>3 DEF ReadTypeOK
<1>4. Dependable'
  <2>1. /\ to = "sleep" => n <= Retries
        /\ to # "skipped" => n > 0
    BY DEF TaskShape
  <2>2. /\ \A u \in Tasks : st'[u] \in {"todo", "wait"} => tries'[u] = 0
        /\ \A u \in Tasks : st'[u] = "sleep" => tries'[u] <= Retries
        /\ \A u \in Tasks : st'[u] \in {"call", "sleep", "ok", "error", "denied"} =>
                tries'[u] > 0
    BY <1>1, <1>2, <2>1 DEF ReadInv, Dependable, Ended
  <2>3. \A u \in Tasks : st'[u] # "todo" => \A d \in Deps(u) : Done(d)'
    <3> SUFFICES ASSUME NEW u \in Tasks, st'[u] # "todo", NEW d \in Deps(u)
                 PROVE  Done(d)'
      OBVIOUS
    <3>1. st[u] # "todo"
      BY <1>0, <1>1
    <3>2. Done(d) /\ st'[d] = st[d]
      BY <1>1, <3>1 DEF ReadInv, Dependable
    <3> QED
      BY <3>2 DEF Done
  <2> QED
    BY <2>2, <2>3 DEF Dependable
<1>5. CalledOnEvidence'
  <2> SUFFICES ASSUME NEW u \in Tasks, tries'[u] > 0, NEW d \in Deps(u)
               PROVE  st'[d] = "ok"
    BY DEF CalledOnEvidence
  <2>1. CASE u = t
    <3>1. n > 0 => ~FailedDep(t)
      BY DEF TaskShape
    <3>2. st[d] = "ok"
      BY <1>2, <2>1, <3>1 DEF FailedDep
    <3> QED
      BY <1>0, <1>1, <2>1, <3>2
  <2>2. CASE u # t
    <3>1. tries[u] > 0
      BY <1>2, <2>2
    <3>2. st[d] = "ok"
      BY <3>1 DEF ReadInv, CalledOnEvidence
    <3>3. st[u] # "todo"
      BY <3>1 DEF ReadInv, Dependable, ReadTypeOK
    <3> QED
      BY <1>1, <3>2, <3>3
  <2> QED
    BY <2>1, <2>2
<1>6. SkippedForAReason'
  <2>1. stop' <=> \E u \in Tasks : st'[u] = "denied"
    <3>1. stop <=> \E u \in Tasks : st[u] = "denied"
      BY Zenon DEF ReadInv, SkippedForAReason
    <3>2. (\E u \in Tasks : st'[u] = "denied") <=>
          to = "denied" \/ \E u \in Tasks : st[u] = "denied"
      BY <1>0, <1>1
    <3> QED
      BY <1>0, <3>1, <3>2, Zenon
  <2>2. ASSUME NEW u \in Tasks, st'[u] = "skipped" PROVE stop' \/ FailedDep(u)'
    <3>1. st[u] # "todo"
      BY <1>0, <1>1, <2>2
    <3>2. FailedDep(u)' <=> FailedDep(u)
      BY <1>1, <3>1 DEF FailedDep
    <3>3. stop \/ FailedDep(u)
      <4>1. CASE u = t
        <5>1. to = "skipped"
          BY <1>1, <2>2, <4>1
        <5>2. to = "skipped" => stop \/ FailedDep(t)
          BY Zenon DEF TaskShape
        <5> QED
          BY <4>1, <5>1, <5>2, Zenon
      <4>2. CASE u # t
        <5>1. st[u] = "skipped"
          BY <1>1, <2>2, <4>2
        <5> QED
          BY <5>1, Zenon DEF ReadInv, SkippedForAReason
      <4> QED
        BY <4>1, <4>2
    <3> QED
      BY <1>0, <3>2, <3>3, Zenon
  <2> QED
    BY <2>1, <2>2, Zenon DEF SkippedForAReason
<1>7. OkMeansAllRead'
  <2>1. status # "ok"
    BY <1>0 DEF ReadInv, OkMeansAllRead, Ended
  <2> QED
    BY <1>0, <2>1 DEF OkMeansAllRead
<1>8. BoundedConcurrency'
  <2>1. CASE st[t] = "wait" /\ to \in {"call", "sleep"}
    <3>1. Busy' = Busy \union {t}
      BY <1>1, <2>1 DEF Busy
    <3>2. Free
      BY <2>1 DEF TaskShape
    <3> QED
      BY <3>1, <3>2, BusyGrows
  <2>2. CASE st[t] # "wait" \/ to \notin {"call", "sleep"}
    <3>1. Busy' \subseteq Busy
      BY <1>0, <1>1, <2>2 DEF Busy
    <3> QED
      BY <3>1, BusyShrinks DEF ReadInv
  <2> QED
    BY <2>1, <2>2
<1> QED
  BY <1>3, <1>4, <1>5, <1>6, <1>7, <1>8 DEF ReadInv

-----------------------------------------------------------------------------
(* The steps                                                               *)

LEMMA StepOK ==
  ASSUME ReadTypeOK, ReadInv, NEW t \in Tasks, TaskStep(t)
  PROVE  ReadTypeOK' /\ ReadInv'
<1> USE BoundsAssumption
<1>0. /\ tries[t] \in 0 .. Retries + 1
      /\ tries = [tries EXCEPT ![t] = tries[t]]
      /\ stop \in BOOLEAN
  BY DEF ReadTypeOK
<1>1. /\ tries[t] > 0 => ~FailedDep(t)
      /\ st[t] = "wait" => tries[t] = 0
      /\ st[t] = "call" => tries[t] > 0
      /\ st[t] = "sleep" => tries[t] > 0 /\ tries[t] <= Retries
  BY DEF ReadInv, Dependable, CalledOnEvidence, FailedDep
<1>2. CASE SkipDependent(t)
  <2>1. TaskShape(t, "skipped", tries[t])
    BY <1>0, <1>1, <1>2 DEF SkipDependent, TaskShape
  <2> QED
    BY <1>0, <2>1, ShapeOK DEF Ended
<1>3. CASE SkipStopped(t)
  <2>1. TaskShape(t, "skipped", tries[t])
    BY <1>0, <1>1, <1>3 DEF SkipStopped, TaskShape
  <2> QED
    BY <1>0, <2>1, ShapeOK DEF Ended
<1>4. CASE Call(t)
  <2>1. TaskShape(t, "call", 1)
    BY <1>0, <1>1, <1>4 DEF Call, TaskShape
  <2> QED
    BY <1>0, <2>1, ShapeOK
<1>5. CASE Returns(t)
  <2>1. PICK to \in {"ok", "error"} : TaskGoesTo(t, to)
    BY <1>5 DEF Returns
  <2>2. TaskShape(t, to, tries[t])
    BY <1>0, <1>1, <1>5, <2>1 DEF Returns, TaskShape
  <2> QED
    BY <1>0, <2>1, <2>2, ShapeOK DEF Ended
<1>6. CASE Transient(t)
  <2>1. CASE tries[t] <= Retries
    <3>1. TaskShape(t, "sleep", tries[t])
      BY <1>0, <1>1, <1>6, <2>1 DEF Transient, TaskShape
    <3> QED
      BY <1>0, <3>1, ShapeOK
  <2>2. CASE ~(tries[t] <= Retries)
    <3>1. TaskShape(t, "error", tries[t])
      BY <1>0, <1>1, <1>6, <2>2 DEF Transient, TaskShape
    <3> QED
      BY <1>0, <3>1, ShapeOK DEF Ended
  <2> QED
    BY <2>1, <2>2
<1>7. CASE Denied(t)
  <2>1. TaskShape(t, "denied", tries[t])
    BY <1>0, <1>1, <1>7 DEF Denied, TaskShape
  <2> QED
    BY <1>0, <2>1, ShapeOK DEF Ended
<1>8. CASE Retry(t)
  <2>1. CASE stop
    <3>1. TaskShape(t, "skipped", tries[t])
      BY <1>0, <1>1, <1>8, <2>1 DEF Retry, TaskShape
    <3> QED
      BY <1>0, <3>1, ShapeOK DEF Ended
  <2>2. CASE ~stop
    <3>1. tries[t] + 1 \in 0 .. Retries + 1
      BY <1>0, <1>1, <1>8 DEF Retry
    <3>2. tries' = [tries EXCEPT ![t] = tries[t] + 1]
      BY <1>8, <2>2 DEF Retry
    <3>3. TaskShape(t, "call", tries[t] + 1)
      BY <1>0, <1>1, <1>8, <2>2, <3>2 DEF Retry, TaskShape
    <3> QED
      BY <3>1, <3>3, ShapeOK
  <2> QED
    BY <2>1, <2>2
<1> QED
  BY <1>2, <1>3, <1>4, <1>5, <1>6, <1>7, <1>8 DEF TaskStep

LEMMA StartLevelOK ==
  ASSUME ReadTypeOK, ReadInv, StartLevel
  PROVE  ReadTypeOK' /\ ReadInv'
<1>1. /\ \A t \in Tasks : st'[t] = IF t \in Ready THEN "wait" ELSE st[t]
      /\ tries' = tries /\ stop' = stop /\ status' = status
      /\ level' = Ready /\ status = "none"
  BY DEF StartLevel
<1>2. \A t \in Ready : t \in Tasks /\ st[t] = "todo" /\ \A d \in Deps(t) : Done(d)
  BY DEF Ready
<1>3. \A t \in Tasks : Done(t) => st'[t] = st[t]
  BY <1>1, <1>2 DEF Done, Ended
<1>4. \A t \in Tasks : st[t] # "todo" => st'[t] = st[t]
  BY <1>1, <1>2
<1>5. \A t \in Tasks : st'[t] # "todo" => \A d \in Deps(t) : Done(d) /\ st'[d] = st[d]
  BY <1>1, <1>2, <1>3, TasksAssumption DEF ReadInv, Dependable
<1>6. ReadTypeOK'
  <2>1. stop' \in BOOLEAN /\ tries' \in [Tasks -> 0 .. Retries + 1]
    BY <1>1 DEF ReadTypeOK
  <2>2. st' \in [Tasks -> {"todo", "wait", "call", "sleep"} \union Ended]
    BY DEF StartLevel, ReadTypeOK
  <2> QED
    BY <1>1, <1>2, <2>1, <2>2 DEF ReadTypeOK
<1>7. Dependable'
  <2>1. \A t \in Tasks : st'[t] # "todo" => \A d \in Deps(t) : Done(d)'
    BY <1>5 DEF Done
  <2>2. \A t \in Tasks : st'[t] \in {"todo", "wait"} => tries'[t] = 0
    BY <1>1, <1>2 DEF ReadInv, Dependable
  <2>3. \A t \in Tasks : st'[t] \notin {"todo", "wait"} => st[t] = st'[t]
    BY <1>1
  <2> QED
    BY <1>1, <2>1, <2>2, <2>3 DEF ReadInv, Dependable
<1>8. CalledOnEvidence'
  <2> SUFFICES ASSUME NEW t \in Tasks, tries'[t] > 0, NEW d \in Deps(t)
               PROVE  st'[d] = "ok"
    BY DEF CalledOnEvidence
  <2>1. st[d] = "ok" /\ d \in Tasks
    BY <1>1, TasksAssumption DEF ReadInv, CalledOnEvidence
  <2> QED
    BY <1>4, <2>1
<1>9. SkippedForAReason'
  <2>1. stop <=> \E t \in Tasks : st[t] = "denied"
    BY Zenon DEF ReadInv, SkippedForAReason
  <2>2. \A t \in Tasks : st'[t] = "denied" <=> st[t] = "denied"
    BY <1>1, <1>2
  <2>3. stop' <=> \E t \in Tasks : st'[t] = "denied"
    BY <1>1, <2>1, <2>2, Zenon
  <2>4. ASSUME NEW t \in Tasks, st'[t] = "skipped" PROVE stop' \/ FailedDep(t)'
    <3>1. st[t] = "skipped"
      BY <1>1, <2>4
    <3>2. FailedDep(t)' <=> FailedDep(t)
      BY <1>5, <2>4 DEF FailedDep
    <3>3. stop \/ FailedDep(t)
      BY <3>1, Zenon DEF ReadInv, SkippedForAReason
    <3> QED
      BY <1>1, <3>2, <3>3, Zenon
  <2> QED
    BY <2>3, <2>4, Zenon DEF SkippedForAReason
<1>10. OkMeansAllRead'
  BY <1>1 DEF OkMeansAllRead
<1>11. BoundedConcurrency'
  <2>1. Busy' \subseteq Busy
    BY <1>1 DEF Busy
  <2> QED
    BY <2>1, BusyShrinks DEF ReadInv
<1> QED
  BY <1>6, <1>7, <1>8, <1>9, <1>10, <1>11 DEF ReadInv

LEMMA ConcludeOK ==
  ASSUME ReadTypeOK, ReadInv, Conclude
  PROVE  ReadTypeOK' /\ ReadInv'
<1>1. /\ level' = level /\ st' = st /\ tries' = tries /\ stop' = stop
      /\ status' \in {"ok", "incomplete"}
      /\ status' = "ok" => \A t \in Tasks : st[t] = "ok"
  BY DEF Conclude
<1>2. ReadTypeOK'
  BY <1>1 DEF ReadTypeOK
<1>3. Dependable' /\ CalledOnEvidence' /\ BoundedConcurrency'
  BY <1>1 DEF ReadInv, Dependable, CalledOnEvidence, BoundedConcurrency, Busy, Done
<1>4. SkippedForAReason'
  BY <1>1, Zenon DEF ReadInv, SkippedForAReason, FailedDep
<1>5. OkMeansAllRead'
  <2>1. \A t \in Tasks : st[t] = "ok" => tries[t] \in 1 .. Retries + 1
    BY BoundsAssumption DEF ReadInv, Dependable, ReadTypeOK
  <2> QED
    BY <1>1, <2>1 DEF OkMeansAllRead
<1> QED
  BY <1>2, <1>3, <1>4, <1>5 DEF ReadInv

LEMMA ReadStutter ==
  ASSUME ReadTypeOK, ReadInv, UNCHANGED readVars
  PROVE  ReadTypeOK' /\ ReadInv'
<1>1. /\ level' = level /\ st' = st /\ tries' = tries /\ stop' = stop
      /\ status' = status
  BY DEF readVars
<1>2. ReadTypeOK'
  BY <1>1 DEF ReadTypeOK
<1>3. Dependable' /\ CalledOnEvidence' /\ BoundedConcurrency' /\ OkMeansAllRead'
  BY <1>1 DEF ReadInv, Dependable, CalledOnEvidence, BoundedConcurrency, Busy, Done,
              OkMeansAllRead
<1>4. SkippedForAReason'
  BY <1>1, Zenon DEF ReadInv, SkippedForAReason, FailedDep
<1> QED
  BY <1>2, <1>3, <1>4 DEF ReadInv

LEMMA ReadInductive == ReadTypeOK /\ ReadInv /\ [ReadNext]_readVars => ReadTypeOK' /\ ReadInv'
<1> SUFFICES ASSUME ReadTypeOK, ReadInv, [ReadNext]_readVars PROVE ReadTypeOK' /\ ReadInv'
  OBVIOUS
<1>1. CASE StartLevel
  BY <1>1, StartLevelOK
<1>2. CASE Conclude
  BY <1>2, ConcludeOK
<1>3. ASSUME NEW t \in Tasks, TaskStep(t) PROVE ReadTypeOK' /\ ReadInv'
  BY <1>3, StepOK
<1>4. CASE UNCHANGED readVars
  BY <1>4, ReadStutter
<1> QED
  BY <1>1, <1>2, <1>3, <1>4 DEF ReadNext
\* The types, for every plan and bound; no task is tried more than Retries + 1
\* times (the for loop of execute).
THEOREM ReadTypeCorrect == ReadSpec => []ReadTypeOK
<1>1. ReadTypeOK /\ ReadInv /\ [ReadNext]_readVars => ReadTypeOK' /\ ReadInv'
  BY ReadInductive
<1> QED
  BY <1>1, ReadStart, PTL DEF ReadSpec

\* The inductive invariant of the executor, and with it all it is made of: the
\* bound of the semaphore, calls on evidence only, skips for a reason, and the
\* status of the receipt.
THEOREM ReadInvariantCorrect == ReadSpec => []ReadInv
<1>1. ReadTypeOK /\ ReadInv /\ [ReadNext]_readVars => ReadTypeOK' /\ ReadInv'
  BY ReadInductive
<1> QED
  BY <1>1, ReadStart, PTL DEF ReadSpec

\* The semaphore: no more than Concurrency adapters are called at a time.
THEOREM BoundedConcurrencyCorrect == ReadSpec => []BoundedConcurrency
<1>1. ReadInv => BoundedConcurrency
  BY DEF ReadInv
<1> QED
  BY <1>1, ReadInvariantCorrect, PTL

\* Adapters are called on the evidence of all their dependencies.
THEOREM CalledOnEvidenceCorrect == ReadSpec => []CalledOnEvidence
<1>1. ReadInv => CalledOnEvidence
  BY DEF ReadInv
<1> QED
  BY <1>1, ReadInvariantCorrect, PTL

\* permission_stop is a denial, and skips have one of the two reasons.
THEOREM SkippedForAReasonCorrect == ReadSpec => []SkippedForAReason
<1>1. ReadInv => SkippedForAReason
  BY Zenon DEF ReadInv
<1> QED
  BY <1>1, ReadInvariantCorrect, PTL

\* The status of the receipt is ok only if every read succeeded.
THEOREM OkMeansAllReadCorrect == ReadSpec => []OkMeansAllRead
<1>1. ReadInv => OkMeansAllRead
  BY DEF ReadInv
<1> QED
  BY <1>1, ReadInvariantCorrect, PTL

\* After a denial no adapter is called, in the first attempt or a later one.
THEOREM NoCallAfterDenialCorrect == ReadSpec => NoCallAfterDenial
<1>1. [ReadNext]_readVars => [stop => tries' = tries]_readVars
  <2> SUFFICES ASSUME ReadNext, stop PROVE tries' = tries
    BY DEF readVars
  <2>1. CASE StartLevel \/ Conclude
    BY <2>1 DEF StartLevel, Conclude
  <2>2. ASSUME NEW t \in Tasks, TaskStep(t) PROVE tries' = tries
    BY <2>2 DEF TaskStep, SkipDependent, SkipStopped, Call, Returns, Transient, Denied, Retry
  <2> QED
    BY <2>1, <2>2 DEF ReadNext
<1> QED
  BY <1>1, PTL DEF ReadSpec, NoCallAfterDenial
-----------------------------------------------------------------------------
(* The coordinators and the execution of the plan of one of them.          *)

\* Each part goes its own way in the composition, step by step or not at all.
THEOREM WorkImplementsParts == WorkSpec => StoreSpec /\ ReadSpec
<1>1. WorkInit => StoreInit /\ ReadInit
  BY DEF WorkInit
<1>2. [WorkNext]_workVars => [StoreNext]_storeVars
  <2> SUFFICES ASSUME [WorkNext]_workVars PROVE [StoreNext]_storeVars
    OBVIOUS
  <2>1. CASE Execute
    BY <2>1 DEF Execute
  <2>2. ASSUME NEW k \in Coordinators, EndRead(k) \/ Transact(k) PROVE StoreNext
    BY <2>2 DEF EndRead, Transact, StoreNext
  <2>3. ASSUME NEW r \in Runs, GrowOld(r) PROVE StoreNext
    BY <2>3 DEF StoreNext
  <2>4. CASE UNCHANGED workVars
    BY <2>4 DEF workVars
  <2> QED
    BY <2>1, <2>2, <2>3, <2>4 DEF WorkNext
<1>3. [WorkNext]_workVars => [ReadNext]_readVars
  BY DEF WorkNext, Execute, EndRead, Transact, workVars
<1> QED
  BY <1>1, <1>2, <1>3, PTL DEF WorkSpec, StoreSpec, ReadSpec

\* Whatever the coordinators and the adapters of one of them do at the same time, both keep their types.
THEOREM WorkTypeCorrect == WorkSpec => [](StoreTypeOK /\ ReadTypeOK)
BY WorkImplementsParts, StoreTypeCorrect, ReadTypeCorrect, PTL

\* The receipts of run_reads: adapters are called by one coordinator of a run, all its answers are the one
\* receipt, and a receipt has its evidence; while one of the coordinators reads step by step.
THEOREM WorkReceiptsCorrect == WorkSpec => [](ReadOnce /\ SameAnswer /\ ReceiptHasEvidence)
BY WorkImplementsParts, ReadOnceCorrect, SameAnswerCorrect, ReceiptHasEvidenceCorrect, PTL

\* The reads of run_reads: on the evidence of all dependencies, within the semaphore, and ok only if all succeeded;
\* while other coordinators claim, finish and crash.
THEOREM WorkReadsCorrect ==
    WorkSpec => [](CalledOnEvidence /\ BoundedConcurrency /\ SkippedForAReason /\ OkMeansAllRead) /\ NoCallAfterDenial
BY WorkImplementsParts, CalledOnEvidenceCorrect, BoundedConcurrencyCorrect, SkippedForAReasonCorrect,
   OkMeansAllReadCorrect, NoCallAfterDenialCorrect, PTL
=============================================================================
