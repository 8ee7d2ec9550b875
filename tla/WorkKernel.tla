----------------------------- MODULE WorkKernel -----------------------------
(***************************************************************************)
(* run_reads as a whole: the coordinators of EvidenceStore, one of which,  *)
(* Observed, calls its adapters step by step, as in ReadRun, while the     *)
(* others claim, read, finish and crash beside it.                         *)
(***************************************************************************)
EXTENDS EvidenceStore, ReadRun

CONSTANT Observed

ASSUME ObservedAssumption == Observed \in Coordinators

workVars == <<storeVars, readVars>>

WorkInit == StoreInit /\ ReadInit

\* Observed calls its adapters after its claim.
Execute == pc[Observed] = "read" /\ ReadNext /\ UNCHANGED storeVars

\* All its tasks have ended: it has a receipt to store.
ReadsOver == status # "none"

EndRead(k) == Read(k) /\ (k = Observed => ReadsOver) /\ UNCHANGED readVars

Transact(k) ==
    /\ \/ Begin(k) \/ Claim(k) \/ ClaimCached(k) \/ ClaimRejected(k)
       \/ Answer(k) \/ Finish(k) \/ FinishRejected(k) \/ Crash(k) \/ Damage(k)
    /\ UNCHANGED readVars

WorkNext ==
    \/ Execute
    \/ \E k \in Coordinators : EndRead(k) \/ Transact(k)
    \/ \E r \in Runs : GrowOld(r) /\ UNCHANGED readVars

WorkSpec == WorkInit /\ [][WorkNext]_workVars

\* The event loop runs every coroutine that can go on, and the coordinator goes on when
\* its level has been gathered.  That an adapter returns, raises or lets itself be
\* cancelled at timeout_seconds is an assumption about it: "async timeouts require
\* cooperative trusted adapters".
WorkFairness ==
    /\ WF_workVars(Execute /\ (StartLevel \/ Conclude))
    /\ \A t \in Tasks : WF_workVars(Execute /\ TaskStep(t))
    /\ WF_workVars(EndRead(Observed))
    /\ WF_workVars(Finish(Observed) /\ UNCHANGED readVars)
-----------------------------------------------------------------------------
(* Properties                                                              *)

\* With adapters that let themselves be cancelled, a run that was claimed ends in a
\* stored receipt, whichever of them fail, are denied, retried or skipped and whatever
\* other coordinators try, unless its coordinator dies or the store was damaged.
RunEnds == pc[Observed] = "read" ~>
               pc[Observed] \in {"done", "dead"} \/ (pc[Observed] = "rejected" /\ damage > 0)
=============================================================================
