--------------------------- MODULE EvidenceStore ----------------------------
(***************************************************************************)
(* The receipts of the work kernel (.agents/skills/gpt6-work-platform):    *)
(* coordinators, processes that call run_reads with a run id and a plan,   *)
(* share an SQLite database in which a run is claimed and finished.  Every *)
(* claim and every finish is one immediate transaction.  What happens      *)
(* between the two is module ReadRun; here it is one step.                 *)
(*                                                                         *)
(* A receipt is named by the coordinator whose reads it reports.           *)
(***************************************************************************)
EXTENDS FiniteSets, Naturals

CONSTANTS
    Coordinators,
    Runs, Plans,     \* run ids and plan hashes
    NoReceipt,
    MaxDamage        \* bound: how often evidence is lost or altered

ASSUME NoReceiptAssumption == NoReceipt \notin Coordinators
ASSUME BoundAssumption == MaxDamage \in Nat

VARIABLES
    pc,        \* pc[k]: where run_reads stands
    run, plan, \* run[k], plan[k]: what it was called with
    row,       \* row[r]: the row of the run: its plan, state and receipt
    blobs,     \* the receipts whose raw evidence is stored
    old,       \* the runs whose observations are older than max_age_seconds
    readers,   \* readers[r]: the coordinators that called adapters (history)
    answer,    \* answer[k]: the receipt that run_reads returned
    damage     \* how often stored evidence was lost or altered, in earlier runs too

args == <<run, plan>>
storeVars == <<pc, run, plan, row, blobs, old, readers, answer, damage>>

NoRun == [plan |-> NoReceipt, state |-> "none", receipt |-> NoReceipt]

Row == {NoRun}
    \union [plan : Plans, state : {"running"}, receipt : {NoReceipt}]
    \union [plan : Plans, state : {"complete"}, receipt : Coordinators]

StoreTypeOK ==
    /\ pc \in [Coordinators ->
               {"off", "claim", "read", "cached", "finish", "done", "rejected", "dead"}]
    /\ run \in [Coordinators -> Runs]
    /\ plan \in [Coordinators -> Plans]
    /\ row \in [Runs -> Row]
    /\ blobs \subseteq Coordinators
    /\ old \subseteq Runs
    /\ readers \in [Runs -> SUBSET Coordinators]
    /\ answer \in [Coordinators -> Coordinators \union {NoReceipt}]
    /\ damage \in 0 .. MaxDamage

StoreInit ==
    /\ pc = [k \in Coordinators |-> "off"]
    /\ run \in [Coordinators -> Runs]
    /\ plan \in [Coordinators -> Plans]
    /\ row = [r \in Runs |-> NoRun]
    /\ blobs = {}
    /\ old = {}
    /\ readers = [r \in Runs |-> {}]
    /\ answer = [k \in Coordinators |-> NoReceipt]
    /\ damage \in 0 .. MaxDamage
-----------------------------------------------------------------------------
GoesTo(k, to) == pc' = [pc EXCEPT ![k] = to]

\* run_reads validates its plan, and rejects one that is not allowed.
Begin(k) ==
    /\ pc[k] = "off"
    /\ \E to \in {"claim", "rejected"} : GoesTo(k, to)
    /\ UNCHANGED <<args, row, blobs, old, readers, answer, damage>>

\* Mutant of Claim: the row is replaced, whatever it says.
ClaimReplaces(k) ==
    /\ pc[k] = "claim"
    /\ row' = [row EXCEPT ![run[k]] =
                  [plan |-> plan[k], state |-> "running", receipt |-> NoReceipt]]
    /\ GoesTo(k, "read")
    /\ UNCHANGED <<args, blobs, old, readers, answer, damage>>

\* claim: the first one inserts the run.
Claim(k) ==
    /\ pc[k] = "claim"
    /\ row[run[k]].state = "none"
    /\ row' = [row EXCEPT ![run[k]] =
                  [plan |-> plan[k], state |-> "running", receipt |-> NoReceipt]]
    /\ GoesTo(k, "read")
    /\ UNCHANGED <<args, blobs, old, readers, answer, damage>>

\* Mutant of ClaimCached: any plan of the run is answered.
ClaimAnyPlan(k) ==
    /\ pc[k] = "claim"
    /\ row[run[k]].state = "complete"
    /\ row[run[k]].receipt \in blobs
    /\ answer' = [answer EXCEPT ![k] = row[run[k]].receipt]
    /\ GoesTo(k, "cached")
    /\ UNCHANGED <<args, row, blobs, old, readers, damage>>

\* A complete run of the same plan, with its evidence, has a receipt.
ClaimCached(k) ==
    /\ pc[k] = "claim"
    /\ row[run[k]].state = "complete" /\ row[run[k]].plan = plan[k]
    /\ row[run[k]].receipt \in blobs
    /\ answer' = [answer EXCEPT ![k] = row[run[k]].receipt]
    /\ GoesTo(k, "cached")
    /\ UNCHANGED <<args, row, blobs, old, readers, damage>>

\* The run is another plan's, is not finished, or has lost its evidence.
ClaimRejected(k) ==
    /\ pc[k] = "claim"
    /\ row[run[k]].state # "none"
    /\ \/ row[run[k]].state = "running" \/ row[run[k]].plan # plan[k]
       \/ row[run[k]].receipt \notin blobs
    /\ GoesTo(k, "rejected")
    /\ UNCHANGED <<args, row, blobs, old, readers, answer, damage>>

\* A cached receipt is returned only with fresh observations.
Answer(k) ==
    /\ pc[k] = "cached"
    /\ IF run[k] \in old
       THEN GoesTo(k, "rejected") /\ answer' = [answer EXCEPT ![k] = NoReceipt]
       ELSE GoesTo(k, "done") /\ UNCHANGED answer
    /\ UNCHANGED <<args, row, blobs, old, readers, damage>>

\* The adapters are called.
Read(k) ==
    /\ pc[k] = "read"
    /\ readers' = [readers EXCEPT ![run[k]] = @ \union {k}]
    /\ GoesTo(k, "finish")
    /\ UNCHANGED <<args, row, blobs, old, answer, damage>>

\* Mutant of Finish: the evidence is stored in a transaction of its own, later.
FinishReceipt(k) ==
    /\ pc[k] = "finish"
    /\ row[run[k]].state = "running" /\ row[run[k]].plan = plan[k]
    /\ row' = [row EXCEPT ![run[k]].state = "complete", ![run[k]].receipt = k]
    /\ answer' = [answer EXCEPT ![k] = k]
    /\ GoesTo(k, "done")
    /\ UNCHANGED <<args, blobs, old, readers, damage>>

\* Mutant of Finish: the receipt is written without a look at the run.
FinishAnyway(k) ==
    /\ pc[k] = "finish"
    /\ row' = [row EXCEPT ![run[k]] =
                  [plan |-> NoReceipt, state |-> "complete", receipt |-> NoReceipt]]
    /\ blobs' = blobs \union {k}
    /\ answer' = [answer EXCEPT ![k] = k]
    /\ GoesTo(k, "done")
    /\ UNCHANGED <<args, old, readers, damage>>

\* finish: the evidence and the receipt, at once.
Finish(k) ==
    /\ pc[k] = "finish"
    /\ row[run[k]].state = "running" /\ row[run[k]].plan = plan[k]
    /\ row' = [row EXCEPT ![run[k]].state = "complete", ![run[k]].receipt = k]
    /\ blobs' = blobs \union {k}
    /\ answer' = [answer EXCEPT ![k] = k]
    /\ GoesTo(k, "done")
    /\ UNCHANGED <<args, old, readers, damage>>

\* A part of the evidence is stored already, under the hash that an earlier run gave it,
\* and was altered since: nothing is stored, and the run stays unfinished.
FinishRejected(k) ==
    /\ pc[k] = "finish"
    /\ damage > 0
    /\ GoesTo(k, "rejected")
    /\ UNCHANGED <<args, row, blobs, old, readers, answer, damage>>

\* The process ends between two transactions, or the database stays locked for
\* more than ten seconds: a claim is left unfinished.
Crash(k) ==
    /\ pc[k] \in {"claim", "read", "cached", "finish"}
    /\ GoesTo(k, "dead")
    /\ answer' = [answer EXCEPT ![k] = NoReceipt]
    /\ UNCHANGED <<args, row, blobs, old, readers, damage>>

\* max_age_seconds pass for the observations of a run.
GrowOld(r) ==
    /\ r \notin old /\ row[r].state = "complete"
    /\ old' = old \union {r}
    /\ UNCHANGED <<pc, args, row, blobs, readers, answer, damage>>

\* Raw evidence is lost or altered in the database.
Damage(k) ==
    /\ k \in blobs
    /\ damage < MaxDamage
    /\ damage' = damage + 1
    /\ blobs' = blobs \ {k}
    /\ UNCHANGED <<pc, args, row, old, readers, answer>>

StoreNext ==
    \/ \E k \in Coordinators :
        \/ Begin(k) \/ Claim(k) \/ ClaimCached(k) \/ ClaimRejected(k)
        \/ Answer(k) \/ Read(k) \/ Finish(k) \/ FinishRejected(k) \/ Crash(k) \/ Damage(k)
    \/ \E r \in Runs : GrowOld(r)

StoreSpec == StoreInit /\ [][StoreNext]_storeVars
-----------------------------------------------------------------------------
(* Properties                                                              *)

\* The adapters are called for a run by one coordinator, however many are given
\* its id and whenever they crash: there is no automatic replay.
ReadOnce ==
    \A r \in Runs : \A k, l \in readers[r] : k = l

\* Everyone who was given a receipt of a run was given the same one, which is
\* the receipt in the database, of the plan that was asked for.
SameAnswer ==
    \A k \in Coordinators : answer[k] # NoReceipt =>
        /\ row[run[k]].state = "complete" /\ row[run[k]].plan = plan[k]
        /\ row[run[k]].receipt = answer[k]

\* The receipt of a run reports reads that were made for it, and its evidence is
\* there unless it was damaged.
ReceiptHasEvidence ==
    \A r \in Runs : row[r].state = "complete" =>
        /\ row[r].receipt \in readers[r]
        /\ row[r].receipt \in blobs \/ damage > 0

\* A finished run does not change.
ReceiptStays == [][\A r \in Runs : row[r].state = "complete" => row'[r] = row[r]]_storeVars

\* The inductive invariant behind them: the coordinator between claim and finish
\* is the only one of its run that has claimed it.
Claimed(k) == pc[k] \in {"read", "finish"}

OneClaim ==
    /\ \A k \in Coordinators : Claimed(k) =>
        row[run[k]] = [plan |-> plan[k], state |-> "running", receipt |-> NoReceipt]
    /\ \A k, l \in Coordinators : Claimed(k) /\ Claimed(l) /\ run[k] = run[l] => k = l

ReadersClaim ==
    /\ \A k \in Coordinators : pc[k] = "read" => readers[run[k]] = {}
    /\ \A k \in Coordinators : pc[k] = "finish" => readers[run[k]] = {k}
    /\ \A r \in Runs : row[r].state = "none" => readers[r] = {}

IInv == OneClaim /\ ReadersClaim /\ ReadOnce /\ SameAnswer /\ ReceiptHasEvidence
=============================================================================
