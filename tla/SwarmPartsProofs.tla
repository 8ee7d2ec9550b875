-------------------------- MODULE SwarmPartsProofs --------------------------
(***************************************************************************)
(* Proofs about the evaluation and the market of the swarm, for any        *)
(* predictions, maturities and number of evaluators, and any artifacts,    *)
(* lineage, payments, threads and kills of the server.                     *)
(***************************************************************************)
EXTENDS SwarmParts, FiniteSetTheorems, TLAPS
-----------------------------------------------------------------------------
(* The evaluation: its invariant.                                          *)

\* An evaluator that has stored a score works on its own prediction until the
\* budget event is stored.
Owns == \A e \in Evaluators :
    /\ epc[e] \in {"outcome", "credit"} =>
         eat[e] \in Predictions /\ score[eat[e]].by = e
    /\ epc[e] = "credit" => e \in outcomes[eat[e]]

\* A run is dated when it starts.
RunsInThePast == \A e \in Evaluators : enow[e] <= clock

EvaluationInv == TypeOK /\ Owns /\ RunsInThePast /\ OneScore /\ NoLeak

\* The first state satisfies the invariant.
LEMMA EvaluationStart == Init => EvaluationInv
<1> SUFFICES ASSUME Init PROVE EvaluationInv
  OBVIOUS
<1> USE DEF Init, NothingDue, NoScore, Times, Observations, NoOutcome, Malformed
<1>1. TypeOK
  BY BoundsAssumption DEF TypeOK
<1>2. Owns /\ OneScore /\ NoLeak
  BY DEF Owns, OneScore, NoLeak, Evaluated
<1>3. RunsInThePast
  BY DEF RunsInThePast
<1> QED
  BY <1>1, <1>2, <1>3 DEF EvaluationInv

\* Every step keeps the types.
LEMMA EvaluationTypeStep == ASSUME TypeOK, [Next]_vars PROVE TypeOK'
<1> USE NoneAssumption, DueAssumption, BoundsAssumption
<1> USE DEF TypeOK, Times, Observations, NoOutcome, Malformed, NothingDue
<1>1. CASE Tick
  BY <1>1 DEF Tick, store, eval
<1>2. ASSUME NEW p \in Predictions, Store(p) \/ Publish(p) PROVE TypeOK'
  <2>1. CASE Store(p)
    BY <2>1 DEF Store, world, eval
  <2>2. CASE Publish(p)
    BY <2>2 DEF Publish, store, eval
  <2> QED
    BY <1>2, <2>1, <2>2
<1>3. ASSUME NEW e \in Evaluators, StartEvaluator(e) PROVE TypeOK'
  BY <1>3 DEF StartEvaluator, EvalGoes, store, world
<1>4. ASSUME NEW e \in Evaluators, Poll(e) PROVE TypeOK'
  BY <1>4 DEF Poll, DueNow, EvalGoes, store, world
<1>5. ASSUME NEW e \in Evaluators, StoreOutcome(e) PROVE TypeOK'
  BY <1>5 DEF StoreOutcome, EvalGoes, world
<1>6. ASSUME NEW e \in Evaluators, Credit(e) PROVE TypeOK'
  BY <1>6 DEF Credit, EvalGoes, world
<1>7. ASSUME NEW e \in Evaluators, EndCycle(e) PROVE TypeOK'
  BY <1>7 DEF EndCycle, EvalGoes, store, world
<1>8. ASSUME NEW e \in Evaluators, NEW p \in Predictions, Contaminated(e, p) PROVE TypeOK'
  BY <1>8 DEF Contaminated, Settled, world
<1>9. ASSUME NEW e \in Evaluators, NEW p \in Predictions, Evaluate(e, p) PROVE TypeOK'
  BY <1>9 DEF Evaluate, Settled, EvalGoes, world
<1>10. ASSUME NEW e \in Evaluators, EndsEvaluator(e) PROVE TypeOK'
  BY <1>10 DEF EndsEvaluator, EvalGoes, store, world
<1>11. CASE UNCHANGED vars
  BY <1>11 DEF vars, store, world, eval
<1> QED
  BY <1>1, <1>2, <1>3, <1>4, <1>5, <1>6, <1>7, <1>8, <1>9, <1>10, <1>11
  DEF Next, Cycle, RaiseEvaluator, StopEvaluator

\* Every step keeps an evaluator's hold on the prediction that it scored: only an
\* unscored prediction gets a score.
LEMMA OwnsStep == ASSUME TypeOK, Owns, [Next]_vars PROVE Owns'
<1> USE NoneAssumption DEF Owns, TypeOK, Evaluated
<1>1. CASE Tick
  BY <1>1 DEF Tick, store, eval
<1>2. ASSUME NEW p \in Predictions, Store(p) \/ Publish(p) PROVE Owns'
  BY <1>2 DEF Store, Publish, store, world, eval
<1>3. ASSUME NEW e \in Evaluators, StartEvaluator(e) \/ Poll(e) \/ EndCycle(e) PROVE Owns'
  BY <1>3 DEF StartEvaluator, Poll, EndCycle, EvalGoes, store, world
<1>4. ASSUME NEW e \in Evaluators, StoreOutcome(e) PROVE Owns'
  BY <1>4 DEF StoreOutcome, EvalGoes, world
<1>5. ASSUME NEW e \in Evaluators, Credit(e) PROVE Owns'
  BY <1>5 DEF Credit, EvalGoes, world
<1>6. ASSUME NEW e \in Evaluators, NEW p \in Predictions, Contaminated(e, p) PROVE Owns'
  BY <1>6 DEF Contaminated, Settled, world
<1>7. ASSUME NEW e \in Evaluators, NEW p \in Predictions, Evaluate(e, p) PROVE Owns'
  BY <1>7 DEF Evaluate, Settled, EvalGoes, AtHand, world
<1>8. ASSUME NEW e \in Evaluators, EndsEvaluator(e) PROVE Owns'
  BY <1>8 DEF EndsEvaluator, EvalGoes, store, world
<1>9. CASE UNCHANGED vars
  BY <1>9 DEF vars, store, world, eval
<1> QED
  BY <1>1, <1>2, <1>3, <1>4, <1>5, <1>6, <1>7, <1>8, <1>9
  DEF Next, Cycle, RaiseEvaluator, StopEvaluator

\* Every step keeps the dates of the runs before the clock.
LEMMA PastStep == ASSUME TypeOK, RunsInThePast, [Next]_vars PROVE RunsInThePast'
<1> USE DEF RunsInThePast, TypeOK
<1>1. CASE Tick
  BY <1>1, BoundsAssumption DEF Tick, store, eval
<1>2. ASSUME NEW e \in Evaluators, Poll(e) \/ EndCycle(e) \/ EndsEvaluator(e)
      PROVE RunsInThePast'
  BY <1>2, BoundsAssumption DEF Poll, EndCycle, EndsEvaluator, world
<1>3. CASE UNCHANGED <<clock, enow>>
  BY <1>3
<1>4. ASSUME NEW p \in Predictions, Store(p) \/ Publish(p) PROVE UNCHANGED <<clock, enow>>
  BY <1>4 DEF Store, Publish, world, eval
<1>5. ASSUME NEW e \in Evaluators, StartEvaluator(e) \/ StoreOutcome(e) \/ Credit(e)
      PROVE UNCHANGED <<clock, enow>>
  BY <1>5 DEF StartEvaluator, StoreOutcome, Credit, world
<1>6. ASSUME NEW e \in Evaluators, NEW p \in Predictions, Contaminated(e, p) \/ Evaluate(e, p)
      PROVE UNCHANGED <<clock, enow>>
  BY <1>6 DEF Contaminated, Evaluate, world
<1>7. UNCHANGED vars => UNCHANGED <<clock, enow>>
  BY DEF vars, world, eval
<1> QED
  BY <1>1, <1>2, <1>3, <1>4, <1>5, <1>6, <1>7 DEF Next, Cycle, RaiseEvaluator, StopEvaluator

\* Every step keeps one outcome artifact and one budget event a score at most.
LEMMA ScoreStep == ASSUME TypeOK, Owns, OneScore, [Next]_vars PROVE OneScore'
<1> USE NoneAssumption DEF OneScore, TypeOK
<1>1. CASE UNCHANGED <<score, outcomes, credits>>
  BY <1>1
<1>2. ASSUME NEW e \in Evaluators, StoreOutcome(e) PROVE OneScore'
  BY <1>2 DEF StoreOutcome, Owns
<1>3. ASSUME NEW e \in Evaluators, Credit(e) PROVE OneScore'
  BY <1>3 DEF Credit, Owns
<1>4. ASSUME NEW e \in Evaluators, NEW p \in Predictions, Evaluate(e, p) PROVE OneScore'
  BY <1>4 DEF Evaluate, Evaluated
<1>5. Tick => UNCHANGED <<score, outcomes, credits>>
  BY DEF Tick, store
<1>6. ASSUME NEW p \in Predictions, Store(p) \/ Publish(p)
      PROVE UNCHANGED <<score, outcomes, credits>>
  BY <1>6 DEF Store, Publish, store
<1>7. ASSUME NEW e \in Evaluators,
             StartEvaluator(e) \/ Poll(e) \/ EndCycle(e) \/ EndsEvaluator(e)
      PROVE UNCHANGED <<score, outcomes, credits>>
  BY <1>7 DEF StartEvaluator, Poll, EndCycle, EndsEvaluator, store
<1>8. ASSUME NEW e \in Evaluators, NEW p \in Predictions, Contaminated(e, p)
      PROVE UNCHANGED <<score, outcomes, credits>>
  BY <1>8 DEF Contaminated
<1>9. UNCHANGED vars => UNCHANGED <<score, outcomes, credits>>
  BY DEF vars, store
<1> QED
  BY <1>1, <1>2, <1>3, <1>4, <1>5, <1>6, <1>7, <1>8, <1>9
  DEF Next, Cycle, RaiseEvaluator, StopEvaluator

\* Every step keeps the outcomes of scores between maturity and the present.
LEMMA LeakStep == ASSUME TypeOK, RunsInThePast, NoLeak, [Next]_vars PROVE NoLeak'
<1> USE DueAssumption, BoundsAssumption DEF NoLeak, TypeOK, Evaluated, Times
<1>1. CASE score' = score /\ clock' = clock
  BY <1>1
<1>2. CASE Tick
  BY <1>2 DEF Tick, store
<1>3. ASSUME NEW e \in Evaluators, NEW p \in Predictions, Evaluate(e, p) PROVE NoLeak'
  BY <1>3 DEF Evaluate, InWindow, RunsInThePast, world
<1>4. ASSUME NEW p \in Predictions, Store(p) \/ Publish(p)
      PROVE score' = score /\ clock' = clock
  BY <1>4 DEF Store, Publish, store, world
<1>5. ASSUME NEW e \in Evaluators,
             StartEvaluator(e) \/ Poll(e) \/ EndCycle(e) \/ EndsEvaluator(e)
      PROVE score' = score /\ clock' = clock
  BY <1>5 DEF StartEvaluator, Poll, EndCycle, EndsEvaluator, store, world
<1>6. ASSUME NEW e \in Evaluators, StoreOutcome(e) \/ Credit(e)
      PROVE score' = score /\ clock' = clock
  BY <1>6 DEF StoreOutcome, Credit, world
<1>7. ASSUME NEW e \in Evaluators, NEW p \in Predictions, Contaminated(e, p)
      PROVE score' = score /\ clock' = clock
  BY <1>7 DEF Contaminated, world
<1>8. UNCHANGED vars => score' = score /\ clock' = clock
  BY DEF vars, store, world
<1> QED
  BY <1>1, <1>2, <1>3, <1>4, <1>5, <1>6, <1>7, <1>8
  DEF Next, Cycle, RaiseEvaluator, StopEvaluator

\* The invariant holds in every state of the evaluation.
THEOREM EvaluationInvCorrect == Spec => []EvaluationInv
<1>1. EvaluationInv /\ [Next]_vars => EvaluationInv'
  BY EvaluationTypeStep, OwnsStep, PastStep, ScoreStep, LeakStep DEF EvaluationInv
<1> QED
  BY <1>1, EvaluationStart, PTL DEF Spec

\* The store, the file and the evaluators keep their types.
THEOREM EvaluationTypeCorrect == Spec => []TypeOK
<1>1. EvaluationInv => TypeOK
  BY DEF EvaluationInv
<1> QED
  BY <1>1, EvaluationInvCorrect, PTL

\* A prediction has one outcome artifact and one budget event at most, in this order
\* and by the evaluator of its score, however evaluate_due runs are interleaved.
THEOREM OneScoreCorrect == Spec => []OneScore
<1>1. EvaluationInv => OneScore
  BY DEF EvaluationInv
<1> QED
  BY <1>1, EvaluationInvCorrect, PTL

\* No score uses an outcome from before the maturity or from the future.
THEOREM NoLeakCorrect == Spec => []NoLeak
<1>1. EvaluationInv => NoLeak
  BY DEF EvaluationInv
<1> QED
  BY <1>1, EvaluationInvCorrect, PTL
-----------------------------------------------------------------------------
(* The market: its invariant.                                              *)

\* What the code sells: a candidate of some product.
ForSale == UNION {Candidates(q) : q \in Products}

\* A thread at work has a payment and an artifact that was for sale when it chose it.
HasOrder == \A r \in Requests :
    rpc[r] # "off" => order[r].pay \in Payments /\ order[r].work \in ForSale

\* A thread that answers a recorded purchase has found one, and one that credits the
\* demand has recorded its own.
FindsPurchase == \A r \in Requests :
    /\ rpc[r] = "reuse" => sold[order[r].pay] # NoWork
    /\ rpc[r] = "credit" => sold[order[r].pay] = order[r].work

\* What was sold is in the store and has what the code takes for a validation.
SoldIsValidated == \A p \in Payments : sold[p] # NoWork => sold[p] \in shelf /\ Validated(sold[p])

Crediting(w) == {r \in Requests : rpc[r] = "credit" /\ order[r].work = w}
Purchases(w) == {p \in Payments : sold[p] = w}

\* The demand of an artifact and the threads about to add to it fit its purchases.
DemandFits == \A w \in Works : demand[w] + Cardinality(Crediting(w)) <= Cardinality(Purchases(w))

MarketInv == MarketTypeOK /\ HasOrder /\ FindsPurchase /\ DemandFits /\ OneReceipt /\ SoldIsValidated
-----------------------------------------------------------------------------
(* What is in the store stays there, so what was for sale stays for sale.  *)

\* Shelves and judgements only grow.
LEMMA StoreGrows == ASSUME [MarketNext]_marketVars PROVE shelf \subseteq shelf' /\ judged \subseteq judged'
BY DEF MarketNext, marketVars, tables, Shelve, Judge, Serve, Ask, Settle, Decline, Look, Reuse, Issue,
       Raise, Demand, CrashServer

\* An artifact that is validated stays validated while the store grows.
LEMMA ValidationStays ==
    ASSUME NEW w, Validated(w), shelf \subseteq shelf', judged \subseteq judged'
    PROVE  Validated(w)'
<1>1. Truths(w) \subseteq Truths(w)'
  BY DEF Truths
<1>2. Descendants(w) \subseteq Descendants(w)'
  BY DEF Descendants
<1> QED
  BY <1>1, <1>2 DEF Validated

\* A candidate for a paid level stays one.
LEMMA CandidateStays ==
    ASSUME NEW w \in ForSale, shelf \subseteq shelf', judged \subseteq judged'
    PROVE  w \in ForSale'
BY ValidationStays DEF ForSale, Candidates

\* A candidate is an artifact of the store that is validated.
LEMMA CandidateIsWork ==
    ASSUME NEW w \in ForSale, MarketTypeOK
    PROVE  w \in Works /\ w # NoWork /\ w \in shelf /\ Validated(w)
BY WorksAssumption DEF ForSale, Candidates, MarketTypeOK, NoWork
-----------------------------------------------------------------------------
(* The invariant is inductive.                                             *)

\* The empty store satisfies the invariant.
LEMMA MarketStart == MarketInit => MarketInv
<1> SUFFICES ASSUME MarketInit PROVE MarketInv
  OBVIOUS
<1> USE DEF MarketInit, NoWork
<1>1. MarketTypeOK
  BY CrashAssumption DEF MarketTypeOK, Orders, NoOrder
<1>2. HasOrder /\ FindsPurchase /\ OneReceipt /\ SoldIsValidated
  BY DEF HasOrder, FindsPurchase, OneReceipt, SoldIsValidated
<1>3. ASSUME NEW w \in Works
      PROVE demand[w] + Cardinality(Crediting(w)) <= Cardinality(Purchases(w))
  <2>1. Crediting(w) = {}
    BY DEF Crediting
  <2>2. Purchases(w) = {}
    BY <1>3, WorksAssumption DEF Purchases
  <2> QED
    BY <2>1, <2>2, FS_EmptySet
<1> QED
  BY <1>1, <1>2, <1>3 DEF MarketInv, DemandFits

\* A thread that leaves keeps the types of the threads.
LEMMA LeavesType ==
    ASSUME MarketTypeOK, NEW r \in Requests, Leaves(r)
    PROVE  /\ rpc' \in [Requests -> {"off", "settle", "look", "reuse", "issue", "credit"}]
           /\ order' \in [Requests -> Orders]
<1>1. NoOrder \in Orders
  BY DEF NoOrder, Orders
<1>2. rpc' = [rpc EXCEPT ![r] = "off"] /\ order' = [order EXCEPT ![r] = NoOrder]
  BY DEF Leaves, Goes
<1> QED
  BY <1>1, <1>2 DEF MarketTypeOK

\* Every step keeps the types; receipts need the purchases behind them.
LEMMA MarketTypeStep ==
    ASSUME MarketTypeOK, HasOrder, FindsPurchase, [MarketNext]_marketVars
    PROVE  MarketTypeOK'
<1> USE CrashAssumption DEF MarketTypeOK, tables
<1>1. ASSUME NEW w \in Works, Shelve(w) \/ Judge(w) PROVE MarketTypeOK'
  BY <1>1 DEF Shelve, Judge
<1>2. ASSUME NEW r \in Requests, NEW p \in Payments, Ask(r, p) PROVE MarketTypeOK'
  <2>1. PICK w \in ForSale : order' = [order EXCEPT ![r] = [pay |-> p, work |-> w]]
    BY <1>2 DEF Ask, Best, ForSale
  <2>2. [pay |-> p, work |-> w] \in Orders
    BY <2>1, CandidateIsWork DEF Orders
  <2>3. order' \in [Requests -> Orders]
    BY <2>1, <2>2
  <2> QED
    BY <1>2, <2>3 DEF Ask, Goes
<1>3. ASSUME NEW r \in Requests, Settle(r) \/ Look(r) PROVE MarketTypeOK'
  BY <1>3 DEF Settle, Look, Goes
<1>4. ASSUME NEW r \in Requests, Decline(r) \/ Raise(r) PROVE MarketTypeOK'
  BY <1>4, LeavesType DEF Decline, Raise
<1>5. ASSUME NEW r \in Requests, Reuse(r) PROVE MarketTypeOK'
  <2>1. order[r].pay \in Payments /\ sold[order[r].pay] \in Works
    BY <1>5 DEF Reuse, HasOrder, FindsPurchase
  <2>2. receipts' \in [Payments -> SUBSET Works]
    BY <1>5, <2>1 DEF Reuse, HandsOut
  <2>3. Leaves(r)
    BY <1>5 DEF Reuse
  <2> QED
    BY <1>5, <2>2, <2>3, LeavesType DEF Reuse
<1>6. ASSUME NEW r \in Requests, Issue(r) PROVE MarketTypeOK'
  <2>1. order[r].pay \in Payments /\ order[r].work \in Works
    BY <1>6, CandidateIsWork DEF Issue, HasOrder
  <2> QED
    BY <1>6, <2>1 DEF Issue, Goes
<1>7. ASSUME NEW r \in Requests, Demand(r) PROVE MarketTypeOK'
  <2>1. order[r].pay \in Payments /\ order[r].work \in Works
    BY <1>7, CandidateIsWork DEF Demand, HasOrder
  <2>2. receipts' \in [Payments -> SUBSET Works] /\ demand' \in [Works -> Nat]
    BY <1>7, <2>1 DEF Demand, HandsOut
  <2>3. Leaves(r)
    BY <1>7 DEF Demand
  <2> QED
    BY <1>7, <2>2, <2>3, LeavesType DEF Demand
<1>8. CASE CrashServer
  <2>1. NoOrder \in Orders
    BY DEF NoOrder, Orders
  <2> QED
    BY <1>8, <2>1 DEF CrashServer
<1>9. CASE UNCHANGED marketVars
  BY <1>9 DEF marketVars
<1> QED
  BY <1>1, <1>2, <1>3, <1>4, <1>5, <1>6, <1>7, <1>8, <1>9 DEF MarketNext, Serve

\* Every step keeps the orders of the threads.
LEMMA OrderStep == ASSUME MarketTypeOK, HasOrder, [MarketNext]_marketVars PROVE HasOrder'
<1> USE DEF MarketTypeOK, HasOrder, tables
<1>1. \A w \in ForSale : w \in ForSale'
  BY StoreGrows, CandidateStays
<1>2. ASSUME NEW w \in Works, Shelve(w) \/ Judge(w) PROVE HasOrder'
  BY <1>1, <1>2 DEF Shelve, Judge
<1>3. ASSUME NEW r \in Requests, NEW p \in Payments, Ask(r, p) PROVE HasOrder'
  <2>1. PICK w \in ForSale : order' = [order EXCEPT ![r] = [pay |-> p, work |-> w]]
    BY <1>3 DEF Ask, Best, ForSale
  <2> QED
    BY <1>1, <1>3, <2>1 DEF Ask, Goes
<1>4. ASSUME NEW r \in Requests, Settle(r) \/ Look(r) \/ Issue(r) PROVE HasOrder'
  BY <1>1, <1>4 DEF Settle, Look, Issue, Goes
<1>5. ASSUME NEW r \in Requests, Decline(r) \/ Raise(r) \/ Reuse(r) \/ Demand(r) PROVE HasOrder'
  <2>1. Leaves(r)
    BY <1>5 DEF Decline, Raise, Reuse, Demand
  <2> QED
    BY <1>1, <2>1 DEF Leaves, Goes
<1>6. CASE CrashServer
  BY <1>6 DEF CrashServer
<1>7. CASE UNCHANGED marketVars
  BY <1>1, <1>7 DEF marketVars
<1> QED
  BY <1>2, <1>3, <1>4, <1>5, <1>6, <1>7 DEF MarketNext, Serve

\* Every step keeps what the threads know of the purchases: these are only added.
LEMMA FindsStep ==
    ASSUME MarketTypeOK, HasOrder, FindsPurchase, [MarketNext]_marketVars
    PROVE  FindsPurchase'
<1> USE DEF MarketTypeOK, FindsPurchase, tables
<1>1. ASSUME NEW w \in Works, Shelve(w) \/ Judge(w) PROVE FindsPurchase'
  BY <1>1 DEF Shelve, Judge
<1>2. ASSUME NEW r \in Requests, NEW p \in Payments, Ask(r, p) PROVE FindsPurchase'
  BY <1>2 DEF Ask, Goes
<1>3. ASSUME NEW r \in Requests, Settle(r) \/ Look(r) PROVE FindsPurchase'
  BY <1>3 DEF Settle, Look, Goes
<1>4. ASSUME NEW r \in Requests, Issue(r) PROVE FindsPurchase'
  <2>1. order[r].pay \in Payments /\ order[r].work \in Works /\ order[r].work # NoWork
    BY <1>4, CandidateIsWork DEF Issue, HasOrder
  <2>2. \A q \in Requests : rpc[q] \in {"reuse", "credit"} =>
            order[q].pay \in Payments /\ order[q].work # NoWork
    BY CandidateIsWork DEF HasOrder
  <2> QED
    BY <1>4, <2>1, <2>2 DEF Issue, Goes
<1>5. ASSUME NEW r \in Requests, Decline(r) \/ Raise(r) \/ Reuse(r) \/ Demand(r) PROVE FindsPurchase'
  <2>1. Leaves(r) /\ sold' = sold
    BY <1>5 DEF Decline, Raise, Reuse, Demand
  <2> QED
    BY <2>1 DEF Leaves, Goes
<1>6. CASE CrashServer
  BY <1>6 DEF CrashServer
<1>7. CASE UNCHANGED marketVars
  BY <1>7 DEF marketVars
<1> QED
  BY <1>1, <1>2, <1>3, <1>4, <1>5, <1>6, <1>7 DEF MarketNext, Serve

\* Every step keeps the receipts of a payment to those of its purchase.
LEMMA ReceiptStep ==
    ASSUME MarketTypeOK, HasOrder, FindsPurchase, OneReceipt, [MarketNext]_marketVars
    PROVE  OneReceipt'
<1> USE DEF MarketTypeOK, OneReceipt, tables
<1>1. CASE UNCHANGED <<sold, receipts>>
  BY <1>1
<1>2. ASSUME NEW r \in Requests, Reuse(r) PROVE OneReceipt'
  <2>1. order[r].pay \in Payments /\ sold[order[r].pay] # NoWork
    BY <1>2 DEF Reuse, HasOrder, FindsPurchase
  <2> QED
    BY <1>2, <2>1 DEF Reuse, HandsOut
<1>3. ASSUME NEW r \in Requests, Demand(r) PROVE OneReceipt'
  <2>1. order[r].pay \in Payments /\ sold[order[r].pay] = order[r].work /\ order[r].work # NoWork
    BY <1>3, CandidateIsWork DEF Demand, HasOrder, FindsPurchase
  <2> QED
    BY <1>3, <2>1 DEF Demand, HandsOut
<1>4. ASSUME NEW r \in Requests, Issue(r) PROVE OneReceipt'
  <2>1. order[r].pay \in Payments /\ sold[order[r].pay] = NoWork
    BY <1>4 DEF Issue, HasOrder
  <2>2. receipts[order[r].pay] = {}
    BY <2>1
  <2> QED
    BY <1>4, <2>1, <2>2 DEF Issue
<1>5. ASSUME NEW w \in Works, Shelve(w) \/ Judge(w) PROVE OneReceipt'
  BY <1>5 DEF Shelve, Judge
<1>6. ASSUME NEW r \in Requests, Settle(r) \/ Decline(r) \/ Look(r) \/ Raise(r) PROVE OneReceipt'
  BY <1>6 DEF Settle, Decline, Look, Raise
<1>7. ASSUME NEW r \in Requests, NEW p \in Payments, Ask(r, p) PROVE OneReceipt'
  BY <1>7 DEF Ask
<1>8. CrashServer \/ UNCHANGED marketVars => UNCHANGED <<sold, receipts>>
  BY DEF CrashServer, marketVars
<1> QED
  BY <1>1, <1>2, <1>3, <1>4, <1>5, <1>6, <1>7, <1>8 DEF MarketNext, Serve

\* Every step keeps what was sold in the store and validated.
LEMMA SoldStep ==
    ASSUME MarketTypeOK, HasOrder, SoldIsValidated, [MarketNext]_marketVars
    PROVE  SoldIsValidated'
<1> USE DEF MarketTypeOK, SoldIsValidated, tables
<1>1. \A w : w \in shelf /\ Validated(w) => w \in shelf' /\ Validated(w)'
  BY StoreGrows, ValidationStays
<1>2. ASSUME NEW r \in Requests, Issue(r) PROVE SoldIsValidated'
  <2>1. PICK w \in Works : w = order[r].work /\ w \in shelf /\ Validated(w)
    BY <1>2, CandidateIsWork DEF Issue, HasOrder
  <2>2. w \in shelf' /\ Validated(w)'
    BY <1>1, <2>1
  <2>3. sold' = [sold EXCEPT ![order[r].pay] = w]
    BY <1>2, <2>1 DEF Issue
  <2>4. \A p \in Payments : sold'[p] = w \/ sold'[p] = sold[p]
    BY <2>3
  <2> QED
    BY <1>1, <2>2, <2>4 DEF Validated, Truths, Descendants
<1>3. CASE UNCHANGED sold
  BY <1>1, <1>3 DEF Validated, Truths, Descendants
<1>4. ASSUME NEW w \in Works, Shelve(w) \/ Judge(w) PROVE UNCHANGED sold
  BY <1>4 DEF Shelve, Judge
<1>5. ASSUME NEW r \in Requests,
             Settle(r) \/ Decline(r) \/ Look(r) \/ Reuse(r) \/ Raise(r) \/ Demand(r)
      PROVE  UNCHANGED sold
  BY <1>5 DEF Settle, Decline, Look, Reuse, Raise, Demand
<1>6. ASSUME NEW r \in Requests, NEW p \in Payments, Ask(r, p) PROVE UNCHANGED sold
  BY <1>6 DEF Ask
<1>7. CrashServer \/ UNCHANGED marketVars => UNCHANGED sold
  BY DEF CrashServer, marketVars
<1> QED
  BY <1>2, <1>3, <1>4, <1>5, <1>6, <1>7 DEF MarketNext, Serve

\* Threads and purchases can be counted.
LEMMA Counts ==
    ASSUME NEW w
    PROVE  /\ IsFiniteSet(Crediting(w)) /\ Cardinality(Crediting(w)) \in Nat
           /\ IsFiniteSet(Purchases(w)) /\ Cardinality(Purchases(w)) \in Nat
<1>1. Crediting(w) \subseteq Requests /\ Purchases(w) \subseteq Payments
  BY DEF Crediting, Purchases
<1>2. IsFiniteSet(Crediting(w)) /\ IsFiniteSet(Purchases(w))
  BY <1>1, ThreadsAssumption, FS_Subset
<1> QED
  BY <1>2, FS_CardinalityType

\* With fewer threads to credit, and the purchases and the demand that there were, the
\* demand fits.
LEMMA FewerCredits ==
    ASSUME MarketTypeOK, DemandFits, UNCHANGED <<sold, demand>>,
           \A w \in Works : Crediting(w)' \subseteq Crediting(w)
    PROVE  DemandFits'
<1> SUFFICES ASSUME NEW w \in Works
             PROVE  demand'[w] + Cardinality(Crediting(w)') <= Cardinality(Purchases(w)')
  BY DEF DemandFits
<1>1. Purchases(w)' = Purchases(w)
  BY DEF Purchases
<1>2. IsFiniteSet(Crediting(w)) /\ Crediting(w)' \in SUBSET Crediting(w)
  BY Counts
<1>3. Cardinality(Crediting(w)') <= Cardinality(Crediting(w)) /\ IsFiniteSet(Crediting(w)')
  BY <1>2, FS_Subset
<1>4. Cardinality(Crediting(w)') \in Nat
  BY <1>3, FS_CardinalityType
<1>5. demand[w] + Cardinality(Crediting(w)) <= Cardinality(Purchases(w))
  BY DEF DemandFits
<1> QED
  BY <1>1, <1>3, <1>4, <1>5, Counts DEF MarketTypeOK

\* A new purchase makes room for the thread that will credit it.
LEMMA IssueFits ==
    ASSUME MarketTypeOK, HasOrder, DemandFits, NEW r \in Requests, Issue(r)
    PROVE  DemandFits'
<1> USE DEF MarketTypeOK
<1> DEFINE p == order[r].pay
<1> DEFINE v == order[r].work
<1>1. p \in Payments /\ v \in Works /\ v # NoWork /\ sold[p] = NoWork
  BY CandidateIsWork DEF Issue, HasOrder
<1>2. sold' = [sold EXCEPT ![p] = v] /\ demand' = demand /\ order' = order
  BY DEF Issue
<1>3. rpc[r] = "issue" /\ rpc' = [rpc EXCEPT ![r] = "credit"]
  BY DEF Issue, Goes
<1> HIDE DEF p, v
<1> SUFFICES ASSUME NEW w \in Works
             PROVE  demand[w] + Cardinality(Crediting(w)') <= Cardinality(Purchases(w)')
  BY <1>2 DEF DemandFits
<1>4. demand[w] + Cardinality(Crediting(w)) <= Cardinality(Purchases(w)) /\ demand[w] \in Nat
  BY DEF DemandFits
<1>5. CASE w = v
  <2>1. Crediting(w)' = Crediting(w) \union {r} /\ r \notin Crediting(w)
    BY <1>2, <1>3, <1>5 DEF Crediting, v
  <2>2. Purchases(w)' = Purchases(w) \union {p} /\ p \notin Purchases(w)
    BY <1>1, <1>2, <1>5 DEF Purchases
  <2>3. Cardinality(Crediting(w)') = Cardinality(Crediting(w)) + 1
    BY <2>1, Counts, FS_AddElement
  <2>4. Cardinality(Purchases(w)') = Cardinality(Purchases(w)) + 1
    BY <2>2, Counts, FS_AddElement
  <2> QED
    BY <1>4, <2>3, <2>4, Counts
<1>6. CASE w # v
  <2>1. Crediting(w)' = Crediting(w)
    BY <1>2, <1>3, <1>6 DEF Crediting, v
  <2>2. Purchases(w)' = Purchases(w)
    BY <1>1, <1>2, <1>6, WorksAssumption DEF Purchases, NoWork
  <2> QED
    BY <1>4, <2>1, <2>2
<1> QED
  BY <1>5, <1>6

\* A thread that credits the demand counts no longer among those about to.
LEMMA CreditFits ==
    ASSUME MarketTypeOK, HasOrder, DemandFits, NEW r \in Requests, Demand(r)
    PROVE  DemandFits'
<1> USE DEF MarketTypeOK
<1> DEFINE v == order[r].work
<1>1. v \in Works
  BY CandidateIsWork DEF Demand, HasOrder
<1>2. demand' = [demand EXCEPT ![v] = IF v \in ByWorker THEN @ + 1 ELSE @] /\ sold' = sold
  BY DEF Demand
<1>3. rpc[r] = "credit" /\ rpc' = [rpc EXCEPT ![r] = "off"]
  BY DEF Demand, Leaves, Goes
<1>4. order' = [order EXCEPT ![r] = NoOrder]
  BY DEF Demand, Leaves
<1> SUFFICES ASSUME NEW w \in Works
             PROVE  demand'[w] + Cardinality(Crediting(w)') <= Cardinality(Purchases(w)')
  BY DEF DemandFits
<1>5. Purchases(w)' = Purchases(w)
  BY <1>2 DEF Purchases
<1>6. demand[w] + Cardinality(Crediting(w)) <= Cardinality(Purchases(w)) /\ demand[w] \in Nat
  BY DEF DemandFits
<1>7. CASE w = v
  <2>1. Crediting(w)' = Crediting(w) \ {r} /\ r \in Crediting(w)
    BY <1>3, <1>4, <1>7 DEF Crediting
  <2>2. Cardinality(Crediting(w)') = Cardinality(Crediting(w)) - 1
    BY <2>1, Counts, FS_RemoveElement
  <2>3. demand'[w] <= demand[w] + 1 /\ demand'[w] \in Nat
    BY <1>1, <1>2, <1>6, <1>7
  <2> QED
    BY <1>5, <1>6, <2>2, <2>3, Counts
<1>8. CASE w # v
  <2>1. Crediting(w)' = Crediting(w)
    BY <1>3, <1>4, <1>8 DEF Crediting
  <2>2. demand'[w] = demand[w]
    BY <1>1, <1>2, <1>8
  <2> QED
    BY <1>5, <1>6, <2>1, <2>2
<1> QED
  BY <1>7, <1>8

\* Every step keeps the demand and the threads about to add to it within the purchases.
LEMMA DemandStep ==
    ASSUME MarketTypeOK, HasOrder, DemandFits, [MarketNext]_marketVars
    PROVE  DemandFits'
<1> USE DEF MarketTypeOK, tables
<1>1. ASSUME NEW w \in Works, Shelve(w) \/ Judge(w) PROVE DemandFits'
  BY <1>1, FewerCredits DEF Shelve, Judge, Crediting
<1>2. ASSUME NEW r \in Requests, NEW p \in Payments, Ask(r, p) PROVE DemandFits'
  <2>1. UNCHANGED <<sold, demand>> /\ \A q \in Requests :
            rpc'[q] = "credit" => rpc[q] = "credit" /\ order'[q] = order[q]
    <3>1. PICK w \in ForSale : order' = [order EXCEPT ![r] = [pay |-> p, work |-> w]]
      BY <1>2 DEF Ask, Best, ForSale
    <3> QED
      BY <1>2, <3>1 DEF Ask, Goes
  <2> QED
    BY <2>1, FewerCredits DEF Crediting
<1>3. ASSUME NEW r \in Requests, Settle(r) \/ Look(r) PROVE DemandFits'
  BY <1>3, FewerCredits DEF Settle, Look, Goes, Crediting
<1>4. ASSUME NEW r \in Requests, Decline(r) \/ Raise(r) \/ Reuse(r) PROVE DemandFits'
  <2>1. Leaves(r) /\ UNCHANGED <<sold, demand>>
    BY <1>4 DEF Decline, Raise, Reuse
  <2>2. \A q \in Requests : rpc'[q] = "credit" => rpc[q] = "credit" /\ order'[q] = order[q]
    BY <2>1 DEF Leaves, Goes
  <2> QED
    BY <2>1, <2>2, FewerCredits DEF Crediting
<1>5. CASE CrashServer
  BY <1>5, FewerCredits DEF CrashServer, Crediting
<1>6. CASE UNCHANGED marketVars
  BY <1>6, FewerCredits DEF marketVars, Crediting
<1> QED
  BY <1>1, <1>2, <1>3, <1>4, <1>5, <1>6, IssueFits, CreditFits DEF MarketNext, Serve
-----------------------------------------------------------------------------
(* The theorems.                                                           *)

\* The invariant holds in every state of the market.
THEOREM MarketInvCorrect == MarketSpec => []MarketInv
<1>1. MarketInv /\ [MarketNext]_marketVars => MarketInv'
  BY MarketTypeStep, OrderStep, FindsStep, ReceiptStep, SoldStep, DemandStep DEF MarketInv
<1> QED
  BY <1>1, MarketStart, PTL DEF MarketSpec

\* Tables and threads of the market keep their types.
THEOREM MarketTypeCorrect == MarketSpec => []MarketTypeOK
<1>1. MarketInv => MarketTypeOK
  BY DEF MarketInv
<1> QED
  BY <1>1, MarketInvCorrect, PTL

\* The invariant says what is promised: demand without the threads at work is no more than what was bought.
LEMMA MarketInvIsEnough == MarketInv => SalesHold
<1> SUFFICES ASSUME MarketInv PROVE SalesHold
  OBVIOUS
<1>1. ASSUME NEW w \in Works PROVE demand[w] <= Cardinality(Purchases(w))
  <2>1. demand[w] + Cardinality(Crediting(w)) <= Cardinality(Purchases(w)) /\ demand[w] \in Nat
    BY DEF MarketInv, DemandFits, MarketTypeOK
  <2> QED
    BY <2>1, Counts
<1> QED
  BY <1>1 DEF MarketInv, SalesHold, DemandIsSold, Purchases

\* However many threads answer retries of whatever payments, and whenever the server is
\* killed: all receipts of a payment are those of its one purchase, demand is counted for
\* purchases only.
THEOREM SalesHoldCorrect == MarketSpec => []SalesHold
BY MarketInvIsEnough, MarketInvCorrect, PTL

-----------------------------------------------------------------------------
(* The two side by side.                                                   *)

\* Each part goes its own way in the composition, step by step or not at all.
LEMMA SwarmPartsSteps ==
    /\ SwarmPartsInit => Init /\ MarketInit
    /\ [SwarmPartsNext]_swarmVars => [Next]_vars
    /\ [SwarmPartsNext]_swarmVars => [MarketNext]_marketVars
BY DEF SwarmPartsInit, SwarmPartsNext, swarmVars

\* The parts of the swarm keep their invariants side by side.
THEOREM SwarmPartsInvCorrect == SwarmPartsSpec => [](EvaluationInv /\ MarketInv)
<1>1. EvaluationInv /\ [Next]_vars => EvaluationInv'
  BY EvaluationTypeStep, OwnsStep, PastStep, ScoreStep, LeakStep DEF EvaluationInv
<1>2. MarketInv /\ [MarketNext]_marketVars => MarketInv'
  BY MarketTypeStep, OrderStep, FindsStep, ReceiptStep, SoldStep, DemandStep DEF MarketInv
<1> QED
  BY <1>1, <1>2, SwarmPartsSteps, EvaluationStart, MarketStart, PTL DEF SwarmPartsSpec

\* Every variable of the two keeps its type.
THEOREM SwarmPartsTypeCorrect == SwarmPartsSpec => []SwarmPartsTypeOK
<1>1. EvaluationInv /\ MarketInv => SwarmPartsTypeOK
  BY DEF EvaluationInv, MarketInv, SwarmPartsTypeOK
<1> QED
  BY <1>1, SwarmPartsInvCorrect, PTL

\* One score, no leak and sound sales, in the two side by side.
THEOREM SwarmPartsCorrect == SwarmPartsSpec => [](OneScore /\ NoLeak /\ SalesHold)
<1>1. MarketInv => SalesHold
  BY MarketInvIsEnough
<1>2. EvaluationInv => OneScore /\ NoLeak
  BY DEF EvaluationInv
<1> QED
  BY <1>1, <1>2, SwarmPartsInvCorrect, PTL
=============================================================================
