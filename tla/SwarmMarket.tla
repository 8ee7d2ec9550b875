---------------------------- MODULE SwarmMarket ----------------------------
(***************************************************************************)
(* Paid access to the artifacts of the swarm (factory/swarm/commerce.py):  *)
(* the threads of the API server select the best artifact of a product,    *)
(* let a verifier settle the payment, and record purchase, receipt reuse   *)
(* and demand in three transactions of the store.  Clients retry with the  *)
(* same payment, and the server can be killed between any two steps.       *)
(***************************************************************************)
EXTENDS Integers, FiniteSets, FiniteSetsExt

CONSTANTS
    Works,       \* the artifacts of a subject, numbered in the order of their ids
    Parents,     \* Parents[w]: parent_artifacts and derived_from, older ones
    Products,
    OnSale,      \* OnSale[q]: those of a type that product q allows and of no excluded status
    Approvals,   \* those by a trusted validator with status VALIDATED or EVALUATED
    Commercialized,  \* those by a trusted validator with status COMMERCIALIZED
    ByWorker,    \* those whose author is in the workers table
    Calibration, \* Calibration[w]: the calibration score w gets, in percent
    Payments,    \* payment ids
    Requests,    \* threads of the server
    MaxCrashes   \* bound: kills of the server

ASSUME WorksAssumption == Works \subseteq Nat \ {0}
ASSUME ParentsAssumption ==
    Parents \in [Works -> SUBSET Works] /\ \A w \in Works : \A v \in Parents[w] : v < w
ASSUME KindsAssumption ==
    /\ OnSale \in [Products -> SUBSET Works]
    /\ Approvals \union Commercialized \union ByWorker \subseteq Works
ASSUME CalibrationAssumption == Calibration \in [Works -> 0 .. 100]
ASSUME ThreadsAssumption == IsFiniteSet(Payments) /\ IsFiniteSet(Requests)
ASSUME CrashAssumption == MaxCrashes \in Nat

VARIABLES
    ready,      \* payment_ready of the service
    shelf,      \* the artifacts in the store
    judged,     \* those with a row in evaluations
    sold,       \* sold[p]: the artifact of the purchase with payment p
    demand,     \* demand[w]: demand events of the budget ledger about w
    rpc, order, \* a thread: where it stands, and what it works on
    receipts,   \* receipts[p]: the artifacts named by receipts handed out for p (history)
    crashes

tables == <<shelf, judged, sold, demand>>
marketVars == <<ready, tables, rpc, order, receipts, crashes>>

NoWork == 0
NoPay == 0

\* The payment of a request, and what was selected for it.
Orders == [pay : Payments \union {NoPay}, work : Works \union {NoWork}]
NoOrder == [pay |-> NoPay, work |-> NoWork]

MarketTypeOK ==
    /\ ready \in BOOLEAN
    /\ shelf \subseteq Works /\ judged \subseteq shelf
    /\ sold \in [Payments -> Works \union {NoWork}]
    /\ demand \in [Works -> Nat]
    /\ rpc \in [Requests -> {"off", "settle", "look", "reuse", "issue", "credit"}]
    /\ order \in [Requests -> Orders]
    /\ receipts \in [Payments -> SUBSET Works]
    /\ crashes \in 0 .. MaxCrashes

MarketInit ==
    /\ ready \in BOOLEAN
    /\ shelf = {} /\ judged = {}
    /\ sold = [p \in Payments |-> NoWork]
    /\ demand = [w \in Works |-> 0]
    /\ rpc = [r \in Requests |-> "off"]
    /\ order = [r \in Requests |-> NoOrder]
    /\ receipts = [p \in Payments |-> {}]
    /\ crashes = 0
-----------------------------------------------------------------------------
(* What is for sale.                                                       *)

\* lineage: the recursive queries over artifact_edges.
Ancestors[w \in Works] == Parents[w] \union UNION {Ancestors[v] : v \in Parents[w]}
Descendants(w) == {v \in shelf : w \in Ancestors[v]}

\* The evaluations that the truth score of w is the mean of.
Truths(w) == ({w} \union Ancestors[w]) \intersect judged

\* _is_commercially_validated
Validated(w) ==
    \/ w \in Approvals \union Commercialized
    \/ Truths(w) # {}
    \/ Descendants(w) \intersect Approvals # {}

\* _quality_score: a mean as <<sum, number>>, in percent.
Quality(w) ==
    IF Truths(w) # {} THEN <<SumFunctionOnSet(Calibration, Truths(w)), Cardinality(Truths(w))>>
    ELSE <<IF Validated(w) THEN 50 ELSE 0, 1>>

Better(v, w) ==
    LET q == Quality(v)[1] * Quality(w)[2]
        r == Quality(w)[1] * Quality(v)[2]
    IN  q > r \/ (q = r /\ v > w)

\* What a paid level of a product may sell.
Candidates(q) == {w \in OnSale[q] \intersect shelf : Validated(w)}

\* _select_artifact: the one candidate that is better than all others, if there are any.
Best(q) == {w \in Candidates(q) : \A v \in Candidates(q) : v = w \/ Better(w, v)}
-----------------------------------------------------------------------------
(* Other processes append to the store.                                    *)

Shelve(w) ==
    /\ w \notin shelf /\ Parents[w] \subseteq shelf
    /\ shelf' = shelf \union {w}
    /\ UNCHANGED <<ready, judged, sold, demand, rpc, order, receipts, crashes>>

\* append_evaluation of a prediction; what validators append is none.
Judge(w) ==
    /\ w \in shelf \ (judged \union Approvals \union Commercialized)
    /\ judged' = judged \union {w}
    /\ UNCHANGED <<ready, shelf, sold, demand, rpc, order, receipts, crashes>>
-----------------------------------------------------------------------------
(* CommerceService.request.  A free or refused request changes nothing and *)
(* is no step: an unknown product or level, no payment_ready, no candidate.*)

Goes(r, to) == rpc' = [rpc EXCEPT ![r] = to]

Leaves(r) ==
    /\ Goes(r, "off")
    /\ order' = [order EXCEPT ![r] = NoOrder]

\* A paid level of a product is asked for with a payment signature, and there is a
\* validated artifact.  The signature may be that of a purchase of another product.
Ask(r, p) ==
    /\ rpc[r] = "off" /\ ready
    /\ \E q \in Products : \E w \in Best(q) : order' = [order EXCEPT ![r] = [pay |-> p, work |-> w]]
    /\ Goes(r, "settle")
    /\ UNCHANGED <<ready, tables, receipts, crashes>>

\* verify_and_settle settles the payment, once and for all retries of it.
Settle(r) ==
    /\ rpc[r] = "settle"
    /\ Goes(r, "look")
    /\ UNCHANGED <<ready, tables, order, receipts, crashes>>

\* It raises, or says that the payment is not settled: 402.
Decline(r) ==
    /\ rpc[r] = "settle"
    /\ Leaves(r)
    /\ UNCHANGED <<ready, tables, receipts, crashes>>

\* Mutant of Look: an earlier purchase is not looked for.
LookAway(r) ==
    /\ rpc[r] = "look"
    /\ Goes(r, "issue")
    /\ UNCHANGED <<ready, tables, order, receipts, crashes>>

\* purchase_by_payment_id: of whatever product and level.
Look(r) ==
    /\ rpc[r] = "look"
    /\ Goes(r, IF sold[order[r].pay] = NoWork THEN "issue" ELSE "reuse")
    /\ UNCHANGED <<ready, tables, order, receipts, crashes>>

HandsOut(r, w) == receipts' = [receipts EXCEPT ![order[r].pay] = @ \union {w}]

\* record_receipt_reuse appends to a table that nobody reads; the receipt of the
\* purchase is answered, with the artifact that is best now.
Reuse(r) ==
    /\ rpc[r] = "reuse"
    /\ HandsOut(r, sold[order[r].pay])
    /\ Leaves(r)
    /\ UNCHANGED <<ready, tables, crashes>>

\* Mutant of Issue: payment_id is not UNIQUE.
IssueOver(r) ==
    /\ rpc[r] = "issue"
    /\ sold' = [sold EXCEPT ![order[r].pay] = order[r].work]
    /\ Goes(r, "credit")
    /\ UNCHANGED <<ready, shelf, judged, demand, order, receipts, crashes>>

\* append_purchase
Issue(r) ==
    /\ rpc[r] = "issue" /\ sold[order[r].pay] = NoWork
    /\ sold' = [sold EXCEPT ![order[r].pay] = order[r].work]
    /\ Goes(r, "credit")
    /\ UNCHANGED <<ready, shelf, judged, demand, order, receipts, crashes>>

\* A blank consumer_ref, and a payment that another thread has recorded meanwhile,
\* raise: the client gets no answer.
Raise(r) ==
    /\ \/ rpc[r] = "reuse"
       \/ rpc[r] = "issue" /\ sold[order[r].pay] # NoWork
    /\ Leaves(r)
    /\ UNCHANGED <<ready, tables, receipts, crashes>>

\* append_budget_event for the author, if a worker, and the answer.
Demand(r) ==
    /\ rpc[r] = "credit"
    /\ demand' = [demand EXCEPT ![order[r].work] = IF order[r].work \in ByWorker THEN @ + 1 ELSE @]
    /\ HandsOut(r, order[r].work)
    /\ Leaves(r)
    /\ UNCHANGED <<ready, shelf, judged, sold, crashes>>

\* The server is killed with all its threads.
CrashServer ==
    /\ crashes < MaxCrashes /\ \E r \in Requests : rpc[r] # "off"
    /\ crashes' = crashes + 1
    /\ rpc' = [r \in Requests |-> "off"]
    /\ order' = [r \in Requests |-> NoOrder]
    /\ UNCHANGED <<ready, tables, receipts>>

Serve(r) == Settle(r) \/ Decline(r) \/ Look(r) \/ Reuse(r) \/ Issue(r) \/ Raise(r) \/ Demand(r)

MarketNext ==
    \/ \E w \in Works : Shelve(w) \/ Judge(w)
    \/ \E r \in Requests : Serve(r) \/ \E p \in Payments : Ask(r, p)
    \/ CrashServer

MarketSpec == MarketInit /\ [][MarketNext]_marketVars

\* A thread that was started goes on.  The client of a recorded purchase asks again
\* until it has its receipt, the verifier does not decline it for ever, nor does the
\* client bring a blank name for ever.
MarketFairness ==
    /\ \A r \in Requests : WF_marketVars(Serve(r))
    /\ \A p \in Payments :
        /\ SF_marketVars(sold[p] # NoWork /\ \E r \in Requests : Ask(r, p))
        /\ SF_marketVars(\E r \in Requests : order[r].pay = p /\ Settle(r))
        /\ SF_marketVars(\E r \in Requests : order[r].pay = p /\ Reuse(r))
-----------------------------------------------------------------------------
(* What is promised.                                                       *)

\* Every receipt that is handed out for a payment, by whichever thread and after any
\* number of retries and kills, is the one of the single recorded purchase.
OneReceipt == \A p \in Payments : receipts[p] \subseteq {sold[p]} \ {NoWork}

\* Demand is credited for purchases only: an artifact has no more demand events than
\* purchases, however often these are reused.
DemandIsSold == \A w \in Works : demand[w] <= Cardinality({p \in Payments : sold[p] = w})

SalesHold == OneReceipt /\ DemandIsSold

\* "Paid access is denied unless the artifact has a deterministic outcome evaluation or a
\* validation descendant": its own evaluation, or a trusted artifact, itself or below it.
\* The code also takes the evaluation of an ancestor, and sells what came after it.
SoldIsEvaluated == \A p \in Payments : sold[p] # NoWork =>
    \/ sold[p] \in judged \union Approvals \union Commercialized
    \/ Descendants(sold[p]) \intersect Approvals # {}

\* The client of a recorded purchase that keeps asking gets its receipt, although the
\* thread that recorded it raised, or was killed, before it answered.
PaidIsServed == \A p \in Payments : sold[p] # NoWork ~> receipts[p] # {}
=============================================================================
