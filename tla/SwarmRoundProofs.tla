-------------------------- MODULE SwarmRoundProofs --------------------------
(***************************************************************************)
(* Proofs about the rounds of the swarm, for any finite sets of workers    *)
(* and rounds and any limits.                                              *)
(***************************************************************************)
EXTENDS SwarmRound, FiniteSetTheorems, SequenceTheorems, WellFoundedInduction, TLAPS

-----------------------------------------------------------------------------
(* Sums over finite sets.  SumFunction is a fold, and a fold is a          *)
(* recursive function: that the function exists, and what it computes, is  *)
(* shown on a smallest set of which it would be wrong.                     *)

\* The element that SumFunctionOnSet takes first, and the recursive function by which it adds.
First(S) == CHOOSE x \in S : TRUE
Adds(f, sum, S) ==
    sum = [T \in SUBSET S |-> IF T = {} THEN 0 ELSE f[First(T)] + sum[T \ {First(T)}]]

\* Among sets of subsets of a finite set, some are smallest: the induction of this module.
LEMMA SmallestSubset ==
    ASSUME NEW S, IsFiniteSet(S), NEW C, C \subseteq SUBSET S, C # {}
    PROVE  \E T \in C : \A U \in C : U \subseteq T => U = T
<1>1. IsWellFoundedOn(StrictSubsetOrdering(S), SUBSET S)
  BY FS_StrictSubsetOrderingWellFounded, FS_FiniteSubsetsOfFinite, Zenon
<1>2. \E T \in C : \A U \in C : ~ (<<U, T>> \in StrictSubsetOrdering(S))
  BY <1>1, WFMin, Zenon
<1>3. PICK T \in C : \A U \in C : ~ (<<U, T>> \in StrictSubsetOrdering(S))
  BY <1>2
<1>4. \A U \in C : U \subseteq T => U = T
  BY <1>3 DEF StrictSubsetOrdering
<1> QED  BY <1>4

LEMMA SumDef == ASSUME NEW f, NEW S PROVE SumFunctionOnSet(f, S) = (CHOOSE sum : Adds(f, sum, S))[S]
BY Zenon DEF SumFunctionOnSet, FoldFunctionOnSet, MapThenFoldSet, Adds, First

\* The equation that SumFunctionOnSet was defined by has a solution.
LEMMA SumRecursion ==
    ASSUME NEW f, NEW S, IsFiniteSet(S)
    PROVE  SumFunctionOnSet(f, S) =
              IF S = {} THEN 0 ELSE f[First(S)] + SumFunctionOnSet(f, S \ {First(S)})
<1> DEFINE Value(T) == SumFunctionOnSet(f, T)
           Step(T) == IF T = {} THEN 0 ELSE f[First(T)] + Value(T \ {First(T)})
           C == {T \in SUBSET S : Value(T) # Step(T)}
<1> SUFFICES ASSUME C # {} PROVE FALSE
  OBVIOUS
<1> HIDE DEF Value
<1>1. PICK T \in C : \A U \in C : U \subseteq T => U = T
  <2>1. C \subseteq SUBSET S
    OBVIOUS
  <2> HIDE DEF C
  <2> QED  BY <2>1, SmallestSubset
<1>2. T \in SUBSET S /\ Value(T) # Step(T)
  BY <1>1
<1>3. \A U \in SUBSET T : U # T => Value(U) = Step(U)
  BY <1>1
<1>4. \A U \in SUBSET T : U # {} => First(U) \in U /\ U \ {First(U)} \in SUBSET T /\ U \ {First(U)} # T
  BY DEF First
<1>5. \E sum : Adds(f, sum, T)
  <2> DEFINE all == [U \in SUBSET T |-> IF U = T THEN Step(T) ELSE Value(U)]
  <2>1. \A U \in SUBSET T : all[U] = IF U = {} THEN 0 ELSE f[First(U)] + all[U \ {First(U)}]
    <3> SUFFICES ASSUME NEW U \in SUBSET T
                 PROVE  all[U] = IF U = {} THEN 0 ELSE f[First(U)] + all[U \ {First(U)}]
      OBVIOUS
    <3>1. all[U] = Step(U)
      BY <1>3
    <3>2. U # {} => all[U \ {First(U)}] = Value(U \ {First(U)})
      BY <1>4
    <3> HIDE DEF all
    <3> QED  BY <3>1, <3>2
  <2>2. all = [U \in SUBSET T |-> all[U]]
    OBVIOUS
  <2> HIDE DEF all
  <2>3. Adds(f, all, T)
    BY <2>1, <2>2 DEF Adds
  <2> QED  BY <2>3
<1>6. PICK sum : Adds(f, sum, T) /\ Value(T) = sum[T]
  <2> DEFINE sum == CHOOSE s : Adds(f, s, T)
  <2>1. Adds(f, sum, T)
    BY <1>5, Zenon
  <2>2. Value(T) = sum[T]
    BY SumDef DEF Value
  <2> HIDE DEF sum
  <2> QED  BY <2>1, <2>2
<1>7. \A U \in SUBSET T : sum[U] = IF U = {} THEN 0 ELSE f[First(U)] + sum[U \ {First(U)}]
  BY <1>6 DEF Adds
<1>8. \A U \in SUBSET T : U # T => sum[U] = Value(U)
  <2> DEFINE D == {U \in SUBSET T : U # T /\ sum[U] # Value(U)}
  <2> SUFFICES ASSUME D # {} PROVE FALSE
    OBVIOUS
  <2>1. D \subseteq SUBSET S
    BY <1>2
  <2>2. PICK U \in D : \A V \in D : V \subseteq U => V = U
    <3> HIDE DEF D
    <3> QED  BY <2>1, SmallestSubset
  <2>3. U \in SUBSET T /\ U # T /\ sum[U] # Value(U)
    BY <2>2
  <2>4. Value(U) = Step(U)
    BY <1>3, <2>3
  <2>5. CASE U = {}
    BY <1>7, <2>3, <2>4, <2>5
  <2>6. CASE U # {}
    <3> DEFINE V == U \ {First(U)}
    <3>1. V \in SUBSET T /\ V # T /\ V \subseteq U /\ V # U
      BY <1>4, <2>3, <2>6
    <3>2. sum[V] = Value(V)
      BY <2>2, <3>1
    <3> QED  BY <1>7, <2>3, <2>4, <2>6, <3>2
  <2> QED  BY <2>5, <2>6
<1>9. sum[T] = Step(T)
  <2>1. CASE T = {}
    BY <1>7, <2>1
  <2>2. CASE T # {}
    BY <1>4, <1>7, <1>8, <2>2
  <2> QED  BY <2>1, <2>2
<1> QED  BY <1>2, <1>6, <1>9

\* A sum of integers is an integer.
LEMMA SumType ==
    ASSUME NEW S, IsFiniteSet(S), NEW f, \A i \in S : f[i] \in Int
    PROVE  SumFunctionOnSet(f, S) \in Int
<1> DEFINE C == {T \in SUBSET S : SumFunctionOnSet(f, T) \notin Int}
<1> SUFFICES ASSUME C # {} PROVE FALSE
  OBVIOUS
<1>1. PICK T \in C : \A U \in C : U \subseteq T => U = T
  <2>1. C \subseteq SUBSET S
    OBVIOUS
  <2> HIDE DEF C
  <2> QED  BY <2>1, SmallestSubset
<1>2. T \in SUBSET S /\ IsFiniteSet(T) /\ SumFunctionOnSet(f, T) \notin Int
  BY <1>1, FS_Subset
<1>3. CASE T = {}
  <2>1. SumFunctionOnSet(f, T) = 0
    BY <1>2, <1>3, SumRecursion
  <2> QED  BY <1>2, <2>1
<1>4. CASE T # {}
  <2>1. First(T) \in T
    BY <1>4 DEF First
  <2>2. SumFunctionOnSet(f, T) = f[First(T)] + SumFunctionOnSet(f, T \ {First(T)})
    BY <1>2, <1>4, SumRecursion
  <2>3. SumFunctionOnSet(f, T \ {First(T)}) \in Int
    BY <1>1, <1>2, <2>1
  <2> QED  BY <1>2, <2>1, <2>2, <2>3
<1> QED  BY <1>3, <1>4

\* The order of the addition does not matter: any element may be taken first.
LEMMA SumTake ==
    ASSUME NEW S, IsFiniteSet(S), NEW f, \A i \in S : f[i] \in Int, NEW y \in S
    PROVE  SumFunctionOnSet(f, S) = f[y] + SumFunctionOnSet(f, S \ {y})
<1> DEFINE Value(T) == SumFunctionOnSet(f, T)
           C == {T \in SUBSET S : \E z \in T : Value(T) # f[z] + Value(T \ {z})}
<1> HIDE DEF Value
<1> SUFFICES ASSUME C # {} PROVE FALSE
  BY DEF Value
<1>1. PICK T \in C : \A U \in C : U \subseteq T => U = T
  <2>1. C \subseteq SUBSET S
    OBVIOUS
  <2> HIDE DEF C
  <2> QED  BY <2>1, SmallestSubset
<1>2. PICK z \in T : Value(T) # f[z] + Value(T \ {z})
  BY <1>1
<1>3. \A U \in SUBSET S : Value(U) \in Int
  BY SumType, FS_Subset DEF Value
<1>4. \A U \in SUBSET S : U # {} => First(U) \in U /\ Value(U) = f[First(U)] + Value(U \ {First(U)})
  BY SumRecursion, FS_Subset DEF Value, First
<1> DEFINE x == First(T)
<1>5. T \in SUBSET S /\ x \in T /\ x # z
  BY <1>1, <1>2, <1>4
<1>6. Value(T) = f[x] + Value(T \ {x})
  BY <1>2, <1>4, <1>5
<1> HIDE DEF x
<1>7. Value(T \ {x}) = f[z] + Value((T \ {x}) \ {z})
  <2>1. T \ {x} \in SUBSET S /\ T \ {x} \notin C /\ z \in T \ {x}
    BY <1>1, <1>2, <1>5
  <2> QED  BY <2>1
<1>8. Value(T \ {z}) = f[x] + Value((T \ {z}) \ {x})
  <2>1. T \ {z} \in SUBSET S /\ T \ {z} \notin C /\ x \in T \ {z}
    BY <1>1, <1>2, <1>5
  <2> QED  BY <2>1
<1>9. (T \ {x}) \ {z} = (T \ {z}) \ {x} /\ (T \ {x}) \ {z} \in SUBSET S
  BY <1>5
<1>10. f[x] \in Int /\ f[z] \in Int /\ Value((T \ {x}) \ {z}) \in Int
  BY <1>2, <1>3, <1>5, <1>9
<1>11. Value(T) = f[z] + Value(T \ {z})
  <2> DEFINE rest == Value((T \ {x}) \ {z})
  <2>1. Value(T) = f[x] + (f[z] + rest) /\ Value(T \ {z}) = f[x] + rest
    BY <1>6, <1>7, <1>8, <1>9, Zenon
  <2>2. f[x] \in Int /\ f[z] \in Int /\ rest \in Int
    BY <1>10
  <2> HIDE DEF C, rest
  <2>3. f[x] + (f[z] + rest) = f[z] + (f[x] + rest)
    BY <2>2
  <2> QED  BY <2>1, <2>3, Zenon
<1> QED  BY <1>2, <1>11

\* Only the values on the set count.
LEMMA SumOnly ==
    ASSUME NEW S, IsFiniteSet(S), NEW f, NEW g, \A i \in S : f[i] = g[i]
    PROVE  SumFunctionOnSet(f, S) = SumFunctionOnSet(g, S)
<1> DEFINE C == {T \in SUBSET S : SumFunctionOnSet(f, T) # SumFunctionOnSet(g, T)}
<1> SUFFICES ASSUME C # {} PROVE FALSE
  OBVIOUS
<1>1. PICK T \in C : \A U \in C : U \subseteq T => U = T
  <2>1. C \subseteq SUBSET S
    OBVIOUS
  <2> HIDE DEF C
  <2> QED  BY <2>1, SmallestSubset
<1>2. T \in SUBSET S /\ IsFiniteSet(T) /\ SumFunctionOnSet(f, T) # SumFunctionOnSet(g, T)
  BY <1>1, FS_Subset
<1>3. CASE T = {}
  BY <1>2, <1>3, SumRecursion
<1>4. CASE T # {}
  <2>1. First(T) \in T
    BY <1>4 DEF First
  <2>2. SumFunctionOnSet(f, T \ {First(T)}) = SumFunctionOnSet(g, T \ {First(T)})
    BY <1>1, <1>2, <2>1
  <2>3. /\ SumFunctionOnSet(f, T) = f[First(T)] + SumFunctionOnSet(f, T \ {First(T)})
        /\ SumFunctionOnSet(g, T) = g[First(T)] + SumFunctionOnSet(g, T \ {First(T)})
    BY <1>2, <1>4, SumRecursion
  <2> QED  BY <1>2, <2>1, <2>2, <2>3
<1> QED  BY <1>3, <1>4

\* A sum of naturals is a natural, and something adds to it unless it is 0.
LEMMA SumOfNat ==
    ASSUME NEW S, IsFiniteSet(S), NEW f, \A i \in S : f[i] \in Nat
    PROVE  /\ SumFunctionOnSet(f, S) \in Nat
           /\ SumFunctionOnSet(f, S) # 0 => \E i \in S : f[i] # 0
<1> DEFINE Right(T) ==
               SumFunctionOnSet(f, T) \in Nat /\ (SumFunctionOnSet(f, T) # 0 => \E i \in T : f[i] # 0)
           C == {T \in SUBSET S : ~Right(T)}
<1> SUFFICES ASSUME C # {} PROVE FALSE
  OBVIOUS
<1>1. PICK T \in C : \A U \in C : U \subseteq T => U = T
  <2>1. C \subseteq SUBSET S
    OBVIOUS
  <2> HIDE DEF C
  <2> QED  BY <2>1, SmallestSubset
<1>2. T \in SUBSET S /\ IsFiniteSet(T) /\ ~Right(T)
  BY <1>1, FS_Subset
<1>3. CASE T = {}
  <2>1. SumFunctionOnSet(f, T) = 0
    BY <1>2, <1>3, SumRecursion
  <2> QED  BY <1>2, <2>1
<1>4. CASE T # {}
  <2>1. First(T) \in T
    BY <1>4 DEF First
  <2>2. SumFunctionOnSet(f, T) = f[First(T)] + SumFunctionOnSet(f, T \ {First(T)})
    BY <1>2, <1>4, SumRecursion
  <2>3. Right(T \ {First(T)})
    BY <1>1, <1>2, <2>1
  <2> QED  BY <1>2, <2>1, <2>2, <2>3
<1> QED  BY <1>3, <1>4
-----------------------------------------------------------------------------
(* The invariant.                                                          *)

Hints == {"market_analysis", "evidence_criticism", NoPattern}

\* Artifacts build on earlier ones.
LineageIsEarlier == \A c \in Stored : log[c].lineage \subseteq 1 .. c - 1

\* What is on the ledger is about stored artifacts.
LedgerIsStored == \A i \in DOMAIN ledger : ledger[i].about \in Stored

\* An answer is stored before it is rewarded, and a failure before it is punished, once.
TurnIsSound == \A x \in Rounds :
    /\ xpc[x] \in {"store", "reward", "fail", "punish"} => turn[x].who \in Workers
    /\ xpc[x] = "store" => turn[x].todo = turn[x].lineage
    /\ xpc[x] = "reward" => turn[x].todo \subseteq Stored
    /\ xpc[x] = "punish" => \E a \in Stored :
        /\ turn[x].todo = {a} /\ log[a].failed /\ log[a].by = turn[x].who
        /\ RowsAbout("failed", a) = {}
        /\ \A y \in Rounds : xpc[y] = "punish" /\ turn[y].todo = {a} => y = x

\* The rounds that are about to reward the worker of a, and the artifacts of others on a.
Rewarding(a) == {x \in Rounds : xpc[x] = "reward" /\ a \in turn[x].todo /\ turn[x].who # log[a].by}
ByOthers(a) == {c \in Stored : a \in log[c].lineage /\ log[c].by # log[a].by}

\* The rewards that were paid and those to come are for different artifacts.
RewardsFit == \A a \in Stored :
    Cardinality(RowsAbout("reuse", a)) + Cardinality(Rewarding(a)) <= Cardinality(ByOthers(a))

RewardsGoToAuthors == \A i \in DOMAIN ledger :
    ledger[i].why = "reuse" => ledger[i].who = log[ledger[i].about].by

\* What a pattern s of a worker rests on, in a log and its evaluations.
Earned(artifacts, quality, w, s) ==
    LET works == {a \in DOMAIN artifacts : artifacts[a].by = w}
    IN  /\ Cardinality(works) >= MinArtifacts
        /\ \E a \in works :
              /\ PatternOf(artifacts[a].kind) = s
              /\ quality[a] > 0 \/ \E c \in DOMAIN artifacts : a \in artifacts[c].lineage

FoundIsEarned ==
    /\ found \in [Rounds -> UNION {[W -> Hints] : W \in SUBSET Workers}]
    /\ \A x \in Rounds : \A w \in DOMAIN found[x] : found[x][w] # NoPattern => Earned(log, score, w, found[x][w])

RoundInv ==
    /\ RoundTypeOK /\ Len(log) <= MaxLog /\ LineageIsEarlier /\ LedgerIsStored /\ TurnIsSound
    /\ BudgetIsLedger /\ PenaltyHasFailure /\ RewardsFit /\ RewardsGoToAuthors
    /\ FoundIsEarned /\ HintIsEarned
-----------------------------------------------------------------------------
(* The types.                                                              *)

LEMMA LogFacts ==
    ASSUME RoundTypeOK
    PROVE  /\ Len(log) \in Nat /\ Stored = 1 .. Len(log) /\ \A c \in Stored : log[c] \in Artifacts
           /\ Len(ledger) \in Nat /\ DOMAIN ledger = 1 .. Len(ledger)
BY LenProperties, ElementOfSeq DEF RoundTypeOK, Stored

\* What an artifact that is appended leaves alone.
LEMMA AppendFacts ==
    ASSUME RoundTypeOK, NEW a \in Artifacts, log' = Append(log, a)
    PROVE  /\ log' \in Seq(Artifacts) /\ Len(log') = Len(log) + 1
           /\ Stored' = Stored \union {Len(log) + 1} /\ Len(log) + 1 \notin Stored
           /\ log'[Len(log) + 1] = a /\ \A c \in Stored : log'[c] = log[c]
<1>1. log \in Seq(Artifacts)
  BY DEF RoundTypeOK
<1>2. /\ log' \in Seq(Artifacts) /\ Len(log') = Len(log) + 1
      /\ \A c \in 1 .. Len(log) : log'[c] = log[c]
      /\ log'[Len(log) + 1] = a
  BY <1>1, AppendProperties
<1>3. DOMAIN log' = 1 .. Len(log')
  BY <1>2, LenProperties
<1> QED  BY <1>2, <1>3, LogFacts DEF Stored

Reasons == {"reuse", "failed"}
LedgerEntry == [who : Workers, delta : Int, why : Reasons, about : Ids]

\* What a booking does: the ledger gets the change that the budget has got.
LEMMA BookFacts ==
    ASSUME RoundTypeOK, NEW w \in Workers, NEW change \in Int, NEW why \in Reasons, NEW a \in Ids,
           Book(w, change, why, a)
    PROVE  /\ budget' \in [Workers -> Nat] /\ ledger' \in Seq(LedgerEntry)
           /\ Len(ledger') = Len(ledger) + 1 /\ \A i \in 1 .. Len(ledger) : ledger'[i] = ledger[i]
           /\ ledger'[Len(ledger) + 1] = [who |-> w, delta |-> budget'[w] - budget[w], why |-> why, about |-> a]
           /\ \A v \in Workers \ {w} : budget'[v] = budget[v]
<1> DEFINE next == IF budget[w] + change < 0 THEN 0 ELSE budget[w] + change
           entry == [who |-> w, delta |-> next - budget[w], why |-> why, about |-> a]
<1>1. budget[w] \in Nat /\ next \in Nat
  BY DEF RoundTypeOK
<1>2. ledger' = Append(ledger, entry) /\ budget' = [budget EXCEPT ![w] = next]
  BY DEF Book
<1>3. entry \in LedgerEntry /\ ledger \in Seq(LedgerEntry)
  BY <1>1 DEF RoundTypeOK, LedgerEntry, Reasons
<1> HIDE DEF next
<1>4. budget' \in [Workers -> Nat] /\ budget'[w] = next /\ \A v \in Workers \ {w} : budget'[v] = budget[v]
  BY <1>1, <1>2 DEF RoundTypeOK
<1> HIDE DEF entry
<1>5. /\ ledger' \in Seq(LedgerEntry) /\ Len(ledger') = Len(ledger) + 1
      /\ \A i \in 1 .. Len(ledger) : ledger'[i] = ledger[i]
      /\ ledger'[Len(ledger) + 1] = entry
  BY <1>2, <1>3, AppendProperties
<1> QED  BY <1>4, <1>5 DEF entry
-----------------------------------------------------------------------------
(* The detector.                                                           *)

LEMMA QualityFacts ==
    ASSUME RoundTypeOK, Len(log) <= MaxLog, NEW S \in SUBSET Stored
    PROVE  /\ QualitySum(S) \in Nat
           /\ QualitySum(S) # 0 => \E a \in S : ChildrenOf(a) # {} \/ score[a] > 0
<1> DEFINE worth == [a \in S |-> IF score[a] # NoScore THEN score[a] ELSE ReuseOf(a)]
<1>1. IsFiniteSet(Stored) /\ IsFiniteSet(S)
  <2>1. IsFiniteSet(Stored)
    BY LogFacts, FS_Interval
  <2> QED  BY <2>1, FS_Subset
<1>2. \A a \in S : Cardinality(ChildrenOf(a)) \in Nat /\ (ChildrenOf(a) = {} => Cardinality(ChildrenOf(a)) = 0)
  <2> SUFFICES ASSUME NEW a \in S
               PROVE  Cardinality(ChildrenOf(a)) \in Nat /\ (ChildrenOf(a) = {} => Cardinality(ChildrenOf(a)) = 0)
    OBVIOUS
  <2>1. ChildrenOf(a) \in SUBSET Stored
    BY DEF ChildrenOf
  <2> QED  BY <1>1, <2>1, FS_Subset, FS_CardinalityType, FS_EmptySet
<1>3. \A a \in S : worth[a] \in Nat /\ (worth[a] # 0 => ChildrenOf(a) # {} \/ score[a] > 0)
  <2>1. \A a \in S : ReuseOf(a) \in Nat /\ (ReuseOf(a) # 0 => ChildrenOf(a) # {})
    BY <1>2 DEF ReuseOf
  <2>2. \A a \in S : score[a] \in (0 .. 3) \union {NoScore}
    <3>1. \A a \in S : a \in Ids
      BY LogFacts, LimitsAssumption DEF Ids
    <3>2. score \in [Ids -> Scores \union {NoScore}]
      BY DEF RoundTypeOK
    <3> QED  BY <3>1, <3>2, ScoresAssumption
  <2> QED  BY <2>1, <2>2
<1>4. QualitySum(S) = SumFunctionOnSet(worth, S)
  BY DEF QualitySum, SumFunction
<1> HIDE DEF worth
<1>5. IsFiniteSet(S) /\ \A a \in S : worth[a] \in Nat
  BY <1>1, <1>3
<1>6. /\ SumFunctionOnSet(worth, S) \in Nat
      /\ SumFunctionOnSet(worth, S) # 0 => \E a \in S : worth[a] # 0
  BY <1>5, SumOfNat
<1> QED  BY <1>3, <1>4, <1>6

\* One of the patterns of a worker's artifacts is ahead of the other.
LEMMA TopPatternFacts ==
    ASSUME RoundTypeOK, Len(log) <= MaxLog, NEW w \in Workers, Works(w) # {}
    PROVE  TopPattern(w) \in Patterns(w) /\ TopPattern(w) \in Hints \ {NoPattern}
<1> DEFINE m == "market_analysis"
           e == "evidence_criticism"
<1>1. Patterns(w) \subseteq {m, e} /\ Patterns(w) # {} /\ m # e
  BY DEF Patterns, PatternOf
<1>2. \A s : /\ QualitySum(OfPattern(w, s)) \in Int
             /\ Cardinality(OfPattern(w, s)) \in Int
  <2> SUFFICES ASSUME NEW s
               PROVE  QualitySum(OfPattern(w, s)) \in Int /\ Cardinality(OfPattern(w, s)) \in Int
    OBVIOUS
  <2>1. OfPattern(w, s) \in SUBSET Stored
    BY DEF OfPattern, Works
  <2>2. IsFiniteSet(Stored)
    BY LogFacts, FS_Interval
  <2>3. Cardinality(OfPattern(w, s)) \in Nat
    BY <2>1, <2>2, FS_Subset, FS_CardinalityType
  <2> QED  BY <2>1, <2>3, QualityFacts
<1>3. Ahead(w, m, e) \/ Ahead(w, e, m)
  <2> DEFINE a == QualitySum(OfPattern(w, m))
             b == QualitySum(OfPattern(w, e))
             c == Cardinality(OfPattern(w, m))
             d == Cardinality(OfPattern(w, e))
             q == a * d
             r == b * c
  <2>1. a \in Int /\ b \in Int /\ c \in Int /\ d \in Int
    BY <1>2
  <2> HIDE DEF a, b, c, d
  <2>2. q \in Int /\ r \in Int
    BY <2>1
  <2>3. Ahead(w, m, e) <=> (q > r \/ (q = r /\ c > d) \/ (q = r /\ c = d))
    BY DEF Ahead, a, b, c, d
  <2>4. Ahead(w, e, m) <=> (r > q \/ (r = q /\ d > c))
    BY DEF Ahead, a, b, c, d
  <2> HIDE DEF q, r
  <2> QED  BY <2>1, <2>2, <2>3, <2>4
<1>4. \E s \in Patterns(w) : \A t \in Patterns(w) : s = t \/ Ahead(w, s, t)
  BY <1>1, <1>3
<1>5. TopPattern(w) \in Patterns(w)
  BY <1>4 DEF TopPattern
<1> QED  BY <1>1, <1>5 DEF Hints, NoPattern

\* detect finds a pattern only where an artifact has been built on or scored.
LEMMA DetectedFacts ==
    ASSUME RoundTypeOK, Len(log) <= MaxLog, NEW w \in Workers
    PROVE  Detected(w) \in Hints /\ (Detected(w) # NoPattern => Earned(log, score, w, Detected(w)))
<1>1. CASE Works(w) = {}
  BY <1>1 DEF Detected, Hints
<1>2. CASE Works(w) # {}
  <2> DEFINE S == OfPattern(w, TopPattern(w))
             T == Works(w) \ S
  <2>1. TopPattern(w) \in Hints
    BY <1>2, TopPatternFacts
  <2>2. CASE Detected(w) = NoPattern
    BY <2>2 DEF Hints
  <2>3. CASE Detected(w) # NoPattern
    <3>1. /\ Detected(w) = TopPattern(w) /\ Cardinality(Works(w)) >= MinArtifacts
          /\ Cardinality(S) >= MinPattern /\ Advantage(S, T)
      BY <1>2, <2>3 DEF Detected
    <3>2. S \in SUBSET Stored /\ T \in SUBSET Stored
      BY DEF OfPattern, Works
    <3>3. IsFiniteSet(Stored)
      BY LogFacts, FS_Interval
    <3>4. Cardinality(S) \in Nat /\ Cardinality(T) \in Nat /\ (T # {} => Cardinality(T) # 0)
      BY <3>2, <3>3, FS_Subset, FS_CardinalityType, FS_EmptySet
    <3>5. QualitySum(S) \in Nat /\ QualitySum(T) \in Nat
      BY <3>2, QualityFacts
    <3>6. QualitySum(S) # 0
      <4> DEFINE q == QualitySum(S)
                 r == QualitySum(T)
                 n == Cardinality(S)
                 k == IF T = {} THEN 1 ELSE Cardinality(T)
      <4>1. q \in Nat /\ r \in Nat /\ n \in Nat \ {0} /\ k \in Nat \ {0}
        BY <3>1, <3>4, <3>5, LimitsAssumption
      <4>2. 10 * (q * k - r * n) >= 3 * n * k
        BY <3>1 DEF Advantage
      <4> HIDE DEF q, r, n, k
      <4> SUFFICES ASSUME q = 0 PROVE FALSE
        BY DEF q
      <4>3. q * k = 0 /\ r * n >= 0 /\ 3 * n * k > 0 /\ r * n \in Int /\ 3 * n * k \in Int
        BY <4>1
      <4> QED  BY <4>2, <4>3
    <3>7. \E a \in Works(w) :
             /\ PatternOf(log[a].kind) = TopPattern(w)
             /\ score[a] > 0 \/ \E c \in Stored : a \in log[c].lineage
      <4>1. PICK a \in S : ChildrenOf(a) # {} \/ score[a] > 0
        BY <3>2, <3>6, QualityFacts
      <4> QED  BY <4>1 DEF OfPattern, ChildrenOf
    <3> QED  BY <2>1, <3>1, <3>7 DEF Earned, Works, Stored
  <2> QED  BY <2>2, <2>3
<1> QED  BY <1>1, <1>2
-----------------------------------------------------------------------------
(* The inductive step: the types.                                          *)

\* A set of numbers that is not empty has a least one.
LEMMA LeastNumber ==
    ASSUME NEW S \in SUBSET Nat, S # {}
    PROVE  \E n \in S : \A k \in S : n <= k
<1>1. PICK n \in S : \A k \in S : ~ (<<k, n>> \in OpToRel(<, Nat))
  BY NatLessThanWellFounded, WFMin, Zenon
<1>2. \A k \in S : ~ (k < n)
  BY <1>1 DEF OpToRel
<1> QED  BY <1>2

\* Those who are persisted next, and what is left then.
LEMMA PersistFacts ==
    ASSUME RoundTypeOK, FoundIsEarned, NEW x \in Rounds, Persist(x)
    PROVE  \E w \in DOMAIN found[x] :
              /\ w \in Workers /\ found[x][w] \in Hints /\ hint' = [hint EXCEPT ![w] = found[x][w]]
              /\ found' = [found EXCEPT ![x] = [v \in DOMAIN found[x] \ {w} |-> found[x][v]]]
<1> DEFINE left == DOMAIN found[x]
           w == CHOOSE v \in left : \A u \in left : v <= u
<1>1. PICK W \in SUBSET Workers : found[x] \in [W -> Hints]
  BY DEF FoundIsEarned
<1>2. left = W
  BY <1>1
<1>3. left # {}
  <2> SUFFICES ASSUME left = {} PROVE FALSE
    OBVIOUS
  <2>1. found[x] = [v \in {} |-> found[x][v]]
    BY <1>1, <1>2
  <2>2. << >> = [v \in {} |-> found[x][v]]
    OBVIOUS
  <2> QED  BY <2>1, <2>2 DEF Persist
<1>4. w \in left
  BY <1>2, <1>3, LeastNumber, WorkersAssumption
<1>5. /\ hint' = [hint EXCEPT ![w] = found[x][w]]
      /\ found' = [found EXCEPT ![x] = [v \in left \ {w} |-> found[x][v]]]
  BY DEF Persist, FoundIsEarned
<1> HIDE DEF w
<1> QED  BY <1>1, <1>2, <1>4, <1>5

\* Every step keeps the types, and the log within its bound.
LEMMA RoundTypeStep == ASSUME RoundInv, [RoundNext]_roundVars PROVE RoundTypeOK' /\ Len(log)' <= MaxLog
<1>0. RoundTypeOK /\ Len(log) <= MaxLog /\ TurnIsSound /\ FoundIsEarned
  BY DEF RoundInv
<1>0a. Stored \subseteq Ids /\ Len(log) \in Nat /\ MaxLog \in Nat
  BY <1>0, LogFacts, LimitsAssumption DEF Ids
<1>0b. NoTurn \in [who : Workers \union {Nobody}, lineage : SUBSET Ids, kind : Kinds, todo : SUBSET Ids]
  BY DEF NoTurn, Kinds
<1> USE DEF RoundTypeOK, swarmStore, Goto, Ends
<1>1. ASSUME NEW x \in Rounds, Begin(x) PROVE RoundTypeOK' /\ Len(log)' <= MaxLog
  BY <1>0, <1>0a, <1>1 DEF Begin
<1>2. ASSUME NEW x \in Rounds, NEW w \in Workers, Collect(x, w) PROVE RoundTypeOK' /\ Len(log)' <= MaxLog
  <2>2. ASSUME NEW o \in Answers
        PROVE  [who |-> w, lineage |-> Lineage(o), kind |-> o.kind, todo |-> Lineage(o)]
                  \in [who : Workers \union {Nobody}, lineage : SUBSET Ids, kind : Kinds, todo : SUBSET Ids]
    <3>1. o.parents \in SUBSET Ids /\ o.derived \in SUBSET Ids /\ o.kind \in Kinds
      BY <1>0a, <2>2 DEF Answers
    <3>2. Lineage(o) \in SUBSET Ids
      BY <3>1 DEF Lineage
    <3> QED  BY <3>1, <3>2
  <2>3. [NoTurn EXCEPT !.who = w] \in [who : Workers \union {Nobody}, lineage : SUBSET Ids, kind : Kinds, todo : SUBSET Ids]
    BY DEF NoTurn, Kinds
  <2>4. turn' \in [Rounds -> [who : Workers \union {Nobody}, lineage : SUBSET Ids, kind : Kinds, todo : SUBSET Ids]]
    <3>1. PICK t \in [who : Workers \union {Nobody}, lineage : SUBSET Ids, kind : Kinds, todo : SUBSET Ids] :
             turn' = [turn EXCEPT ![x] = t]
      BY <1>2, <2>2, <2>3 DEF Collect
    <3> QED  BY <1>0, <3>1
  <2>5. xpc' = [xpc EXCEPT ![x] = "store"] \/ xpc' = [xpc EXCEPT ![x] = "fail"]
    BY <1>2 DEF Collect
  <2>6. /\ asked' = [asked EXCEPT ![x] = @ \ {w}]
        /\ UNCHANGED <<log, score, budget, ledger, hint, found, faults>>
    BY <1>0, <1>2 DEF Collect
  <2> QED  BY <1>0, <2>4, <2>5, <2>6
<1>3. ASSUME NEW x \in Rounds, Store(x) PROVE RoundTypeOK' /\ Len(log)' <= MaxLog
  <2>1. [by |-> turn[x].who, lineage |-> turn[x].lineage, kind |-> turn[x].kind, failed |-> FALSE] \in Artifacts
    BY <1>0, <1>3 DEF Store, TurnIsSound, Artifacts
  <2>2. log' \in Seq(Artifacts) /\ Len(log') = Len(log) + 1 /\ Len(log) < MaxLog
    BY <1>0, <1>3, <2>1, AppendFacts DEF Store, AppendArtifact
  <2>3. [NoTurn EXCEPT !.who = turn[x].who, !.todo = turn[x].todo]
           \in [who : Workers \union {Nobody}, lineage : SUBSET Ids, kind : Kinds, todo : SUBSET Ids]
    BY <1>0 DEF NoTurn, Kinds
  <2> QED  BY <1>0, <1>0a, <1>3, <2>2, <2>3 DEF Store
<1>4. ASSUME NEW x \in Rounds, RewardNext(x) PROVE RoundTypeOK' /\ Len(log)' <= MaxLog
  <2> DEFINE a == CHOOSE b \in turn[x].todo : \A c \in turn[x].todo : b <= c
  <2>1. turn' = [turn EXCEPT ![x].todo = @ \ {a}] /\ turn[x].todo # {} /\ xpc[x] = "reward"
    BY <1>4 DEF RewardNext
  <2>2. a \in turn[x].todo
    <3>1. turn[x].todo \in SUBSET Nat /\ turn[x].todo # {}
      BY <1>0, <2>1 DEF Ids
    <3> QED  BY <3>1, LeastNumber
  <2>3. a \in Stored /\ a \in Ids /\ log[a].by \in Workers
    BY <1>0, <1>0a, <2>1, <2>2, LogFacts DEF TurnIsSound, Artifacts
  <2>4. /\ budget' \in [Workers -> Nat]
        /\ ledger' \in Seq([who : Workers, delta : Int, why : {"reuse", "failed"}, about : Ids])
    <3>1. CASE Rewarded(x, a)
      <4>1. Book(log[a].by, Reward, "reuse", a)
        BY <1>4, <3>1 DEF RewardNext
      <4> HIDE DEF a
      <4>2. Reward \in Int
        BY DEF Reward
      <4> QED  BY <1>0, <2>3, <4>1, <4>2, BookFacts DEF LedgerEntry, Reasons
    <3>2. CASE ~Rewarded(x, a)
      <4>1. UNCHANGED <<budget, ledger>>
        BY <1>4, <3>2 DEF RewardNext
      <4> QED  BY <1>0, <4>1
    <3> QED  BY <3>1, <3>2
  <2>5. UNCHANGED <<log, score, hint, xpc, asked, found, faults>>
    BY <1>4 DEF RewardNext
  <2> HIDE DEF a
  <2> QED  BY <1>0, <1>0a, <2>1, <2>4, <2>5
<1>5. ASSUME NEW x \in Rounds, Rewards(x) PROVE RoundTypeOK' /\ Len(log)' <= MaxLog
  BY <1>0, <1>0b, <1>5 DEF Rewards
<1>6. ASSUME NEW x \in Rounds, Fail(x) PROVE RoundTypeOK' /\ Len(log)' <= MaxLog
  <2>1. [by |-> turn[x].who, lineage |-> NoTurn.lineage, kind |-> NoTurn.kind, failed |-> TRUE] \in Artifacts
    BY <1>0, <1>6 DEF Fail, TurnIsSound, Artifacts, NoTurn, Kinds
  <2>2. log' \in Seq(Artifacts) /\ Len(log') = Len(log) + 1 /\ Len(log) < MaxLog
    BY <1>0, <1>6, <2>1, AppendFacts DEF Fail, AppendArtifact
  <2>3. {Len(log) + 1} \in SUBSET Ids
    BY <1>0a, <2>2 DEF Ids
  <2>4. turn' = [turn EXCEPT ![x].todo = {Len(log) + 1}]
    BY <1>6 DEF Fail
  <2>5. turn' \in [Rounds -> [who : Workers \union {Nobody}, lineage : SUBSET Ids, kind : Kinds, todo : SUBSET Ids]]
    BY <1>0, <2>3, <2>4
  <2>6. xpc' = [xpc EXCEPT ![x] = "punish"] /\ UNCHANGED <<score, budget, ledger, hint, asked, found, faults>>
    BY <1>6 DEF Fail
  <2> QED  BY <1>0, <1>0a, <2>2, <2>5, <2>6
<1>7. ASSUME NEW x \in Rounds, Punish(x) PROVE RoundTypeOK' /\ Len(log)' <= MaxLog
  <2>1. PICK a \in turn[x].todo : Book(turn[x].who, Penalty, "failed", a)
    BY <1>7 DEF Punish
  <2>2. turn[x].who \in Workers /\ a \in Ids /\ Penalty \in Int
    BY <1>0, <1>7 DEF Punish, TurnIsSound, Penalty
  <2>3. /\ budget' \in [Workers -> Nat]
        /\ ledger' \in Seq([who : Workers, delta : Int, why : {"reuse", "failed"}, about : Ids])
    BY <1>0, <2>1, <2>2, BookFacts DEF LedgerEntry, Reasons
  <2> QED  BY <1>0, <1>0a, <1>0b, <1>7, <2>3 DEF Punish
<1>8. ASSUME NEW x \in Rounds, Detect(x) PROVE RoundTypeOK' /\ Len(log)' <= MaxLog
  <2>1. found' = [found EXCEPT ![x] = [w \in Workers |-> Detected(w)]]
    BY <1>8 DEF Detect
  <2>2. \A y \in Rounds : \A w \in DOMAIN found'[y] : w \in Workers
    BY <1>0, <2>1 DEF FoundIsEarned
  <2> QED  BY <1>0, <1>0a, <1>8, <2>2 DEF Detect
<1>9. ASSUME NEW x \in Rounds, Persist(x) PROVE RoundTypeOK' /\ Len(log)' <= MaxLog
  <2>1. PICK w \in DOMAIN found[x] :
          /\ w \in Workers /\ found[x][w] \in Hints /\ hint' = [hint EXCEPT ![w] = found[x][w]]
          /\ found' = [found EXCEPT ![x] = [v \in DOMAIN found[x] \ {w} |-> found[x][v]]]
    BY <1>0, <1>9, PersistFacts
  <2>2. \A y \in Rounds : \A v \in DOMAIN found'[y] : v \in Workers
    BY <1>0, <2>1 DEF FoundIsEarned
  <2>3. hint' \in [Workers -> {"market_analysis", "evidence_criticism", NoPattern}]
    BY <1>0, <2>1 DEF Hints
  <2> QED  BY <1>0, <1>0a, <1>9, <2>2, <2>3 DEF Persist
<1>10. ASSUME NEW x \in Rounds, Ends(x), UNCHANGED swarmStore, faults' \in 0 .. MaxFaults
       PROVE  RoundTypeOK' /\ Len(log)' <= MaxLog
  <2>1. \A y \in Rounds : \A v \in DOMAIN found'[y] : v \in Workers
    BY <1>0, <1>10 DEF FoundIsEarned
  <2> QED  BY <1>0, <1>0a, <1>0b, <1>10, <2>1
<1>11. ASSUME NEW x \in Rounds, Finish(x) PROVE RoundTypeOK' /\ Len(log)' <= MaxLog
  BY <1>0, <1>10, <1>11 DEF Finish
<1>12. ASSUME NEW x \in Rounds, Raise(x) PROVE RoundTypeOK' /\ Len(log)' <= MaxLog
  <2>1. [NoTurn EXCEPT !.who = turn[x].who]
           \in [who : Workers \union {Nobody}, lineage : SUBSET Ids, kind : Kinds, todo : SUBSET Ids]
    BY <1>0 DEF NoTurn, Kinds
  <2>2. faults' \in 0 .. MaxFaults
    BY <1>0, <1>12, LimitsAssumption DEF Raise, Fault
  <2>3. turn' = [turn EXCEPT ![x] = [NoTurn EXCEPT !.who = turn[x].who]] /\ xpc' = [xpc EXCEPT ![x] = "fail"]
    BY <1>12 DEF Raise
  <2>4. UNCHANGED <<log, score, budget, ledger, hint, asked, found>>
    BY <1>12 DEF Raise
  <2> HIDE DEF NoTurn
  <2> QED  BY <1>0, <1>0a, <2>1, <2>2, <2>3, <2>4
<1>13. ASSUME NEW x \in Rounds, Abort(x) PROVE RoundTypeOK' /\ Len(log)' <= MaxLog
  <2>1. faults' \in 0 .. MaxFaults
    BY <1>0, <1>13, LimitsAssumption DEF Abort, Fault
  <2> QED  BY <1>10, <1>13, <2>1 DEF Abort
<1>14. ASSUME NEW a \in Ids, Evaluate(a) PROVE RoundTypeOK' /\ Len(log)' <= MaxLog
  BY <1>0, <1>14 DEF Evaluate
<1>15. CASE UNCHANGED roundVars
  BY <1>0, <1>15 DEF roundVars
<1> QED
  BY <1>1, <1>2, <1>3, <1>4, <1>5, <1>6, <1>7, <1>8, <1>9, <1>11, <1>12, <1>13, <1>14, <1>15 DEF RoundNext
-----------------------------------------------------------------------------
(* The inductive step: the ledger explains the budgets.                    *)

LEMMA BudgetBook ==
    ASSUME RoundTypeOK, BudgetIsLedger, NEW w \in Workers, NEW change \in Int, NEW why \in Reasons,
           NEW a \in Ids, Book(w, change, why, a)
    PROVE  BudgetIsLedger'
<1> DEFINE n == Len(ledger) + 1
           Deltas(v) == [i \in Entries(v) |-> ledger[i].delta]
           NextEntries(v) == {i \in DOMAIN ledger' : ledger'[i].who = v}
           NextDeltas(v) == [i \in NextEntries(v) |-> ledger'[i].delta]
<1> SUFFICES ASSUME NEW v \in Workers
             PROVE  budget'[v] = InitialBudget + SumFunction(NextDeltas(v))
  BY DEF BudgetIsLedger, Entries
<1>1. /\ budget' \in [Workers -> Nat] /\ ledger' \in Seq(LedgerEntry)
      /\ Len(ledger') = n /\ \A i \in 1 .. Len(ledger) : ledger'[i] = ledger[i]
      /\ ledger'[n] = [who |-> w, delta |-> budget'[w] - budget[w], why |-> why, about |-> a]
      /\ \A u \in Workers \ {w} : budget'[u] = budget[u]
  BY BookFacts
<1>2. Len(ledger) \in Nat /\ DOMAIN ledger = 1 .. Len(ledger) /\ DOMAIN ledger' = 1 .. n
  BY <1>1, LogFacts, LenProperties
<1>3. budget[v] = InitialBudget + SumFunctionOnSet(Deltas(v), Entries(v))
  BY DEF BudgetIsLedger, SumFunction
<1>4. SumFunction(NextDeltas(v)) = SumFunctionOnSet(NextDeltas(v), NextEntries(v))
  BY DEF SumFunction
<1>5. IsFiniteSet(Entries(v)) /\ IsFiniteSet(NextEntries(v))
  <2>1. IsFiniteSet(DOMAIN ledger) /\ IsFiniteSet(DOMAIN ledger')
    BY <1>2, FS_Interval
  <2>2. Entries(v) \in SUBSET DOMAIN ledger /\ NextEntries(v) \in SUBSET DOMAIN ledger'
    BY DEF Entries
  <2> QED  BY <2>1, <2>2, FS_Subset
<1>6. /\ \A i \in Entries(v) : ledger[i].delta \in Int /\ i \in NextEntries(v) /\ ledger'[i].delta = ledger[i].delta
      /\ \A i \in NextEntries(v) : ledger'[i].delta \in Int
  <2>1. \A i \in DOMAIN ledger' : ledger'[i] \in LedgerEntry
    BY <1>1, <1>2, ElementOfSeq
  <2>2. \A i \in DOMAIN ledger' : ledger'[i].delta \in Int
    BY <2>1 DEF LedgerEntry
  <2> QED  BY <1>1, <1>2, <2>2 DEF Entries
<1>7. \A i \in Entries(v) : Deltas(v)[i] = NextDeltas(v)[i] /\ Deltas(v)[i] \in Int
  BY <1>6
<1>8. \A i \in NextEntries(v) : NextDeltas(v)[i] \in Int
  BY <1>6
<1>9. InitialBudget \in Int
  BY LimitsAssumption
<1>10. CASE v # w
  <2>1. NextEntries(v) = Entries(v)
    BY <1>1, <1>2, <1>10 DEF Entries
  <2>2. SumFunctionOnSet(NextDeltas(v), NextEntries(v)) = SumFunctionOnSet(Deltas(v), Entries(v))
    <3> HIDE DEF Deltas, NextDeltas, NextEntries
    <3> QED  BY <1>5, <1>7, <2>1, SumOnly
  <2> QED  BY <1>1, <1>3, <1>4, <1>10, <2>2
<1>11. CASE v = w
  <2>1. n \in NextEntries(v) /\ NextEntries(v) \ {n} = Entries(v) /\ NextDeltas(v)[n] = budget'[v] - budget[v]
    BY <1>1, <1>2, <1>11 DEF Entries
  <2> HIDE DEF n, Deltas, NextDeltas, NextEntries
  <2>2. SumFunctionOnSet(NextDeltas(v), NextEntries(v))
           = NextDeltas(v)[n] + SumFunctionOnSet(NextDeltas(v), Entries(v))
    BY <1>5, <1>8, <2>1, SumTake
  <2>3. SumFunctionOnSet(NextDeltas(v), Entries(v)) = SumFunctionOnSet(Deltas(v), Entries(v))
    BY <1>5, <1>7, SumOnly
  <2>4. SumFunctionOnSet(Deltas(v), Entries(v)) \in Int
    BY <1>5, <1>7, SumType
  <2>5. budget[v] \in Int /\ budget'[v] \in Int
    BY <1>1 DEF RoundTypeOK
  <2> QED  BY <1>3, <1>4, <1>9, <2>1, <2>2, <2>3, <2>4, <2>5
<1> QED  BY <1>10, <1>11

\* The steps that book: a reward of the author of a, or a penalty of the worker at hand.
LEMMA RewardBooks ==
    ASSUME RoundTypeOK, TurnIsSound, NEW x \in Rounds, RewardNext(x)
    PROVE  \E a \in turn[x].todo :
              /\ a \in Stored /\ a \in Ids /\ log[a].by \in Workers /\ xpc[x] = "reward"
              /\ turn' = [turn EXCEPT ![x].todo = @ \ {a}]
              /\ \/ Rewarded(x, a) /\ Book(log[a].by, Reward, "reuse", a)
                 \/ ~Rewarded(x, a) /\ UNCHANGED <<budget, ledger>>
<1> DEFINE a == CHOOSE b \in turn[x].todo : \A c \in turn[x].todo : b <= c
<1>1. xpc[x] = "reward" /\ turn[x].todo # {} /\ turn' = [turn EXCEPT ![x].todo = @ \ {a}]
  BY DEF RewardNext
<1>2. a \in turn[x].todo
  <2>1. turn[x].todo \in SUBSET Nat /\ turn[x].todo # {}
    BY <1>1 DEF Ids, RoundTypeOK
  <2> QED  BY <2>1, LeastNumber
<1>3. IF Rewarded(x, a) THEN Book(log[a].by, Reward, "reuse", a) ELSE UNCHANGED <<budget, ledger>>
  BY DEF RewardNext
<1> HIDE DEF a
<1>4. a \in Stored /\ a \in Ids /\ log[a].by \in Workers
  BY <1>1, <1>2, LogFacts DEF TurnIsSound, Artifacts, RoundTypeOK
<1> QED  BY <1>1, <1>2, <1>3, <1>4

LEMMA PunishBooks ==
    ASSUME RoundTypeOK, TurnIsSound, NEW x \in Rounds, Punish(x)
    PROVE  \E a \in Stored :
              /\ a \in Ids /\ turn[x].who \in Workers /\ xpc[x] = "punish" /\ turn[x].todo = {a}
              /\ log[a].failed /\ log[a].by = turn[x].who
              /\ RowsAbout("failed", a) = {}
              /\ \A y \in Rounds : xpc[y] = "punish" /\ turn[y].todo = {a} => y = x
              /\ Book(turn[x].who, Penalty, "failed", a)
<1>1. PICK a \in Stored :
        /\ turn[x].todo = {a} /\ log[a].failed /\ log[a].by = turn[x].who
        /\ RowsAbout("failed", a) = {}
        /\ \A y \in Rounds : xpc[y] = "punish" /\ turn[y].todo = {a} => y = x
  BY DEF Punish, TurnIsSound
<1>2. a \in Ids /\ turn[x].who \in Workers /\ xpc[x] = "punish"
  BY <1>1 DEF Punish, TurnIsSound, RoundTypeOK
<1>3. Book(turn[x].who, Penalty, "failed", a)
  BY <1>1 DEF Punish
<1> QED  BY <1>1, <1>2, <1>3

\* All other steps leave budgets and ledger alone.
LEMMA BooksStand ==
    ASSUME [RoundNext]_roundVars
    PROVE  UNCHANGED <<budget, ledger>> \/ \E x \in Rounds : RewardNext(x) \/ Punish(x)
BY DEF RoundNext, roundVars, swarmStore, Begin, Collect, Store, Rewards, Fail, Detect, Persist, Finish, Raise, Abort,
       Evaluate

LEMMA BudgetStep == ASSUME RoundInv, [RoundNext]_roundVars PROVE BudgetIsLedger'
<1>0. RoundTypeOK /\ TurnIsSound /\ BudgetIsLedger
  BY DEF RoundInv
<1>0a. Reward \in Int /\ Penalty \in Int /\ {"reuse", "failed"} \subseteq Reasons
  BY DEF Reward, Penalty, Reasons
<1>1. ASSUME UNCHANGED <<budget, ledger>> PROVE BudgetIsLedger'
  BY <1>0, <1>1 DEF BudgetIsLedger, Entries
<1>2. ASSUME NEW x \in Rounds, RewardNext(x) PROVE BudgetIsLedger'
  BY <1>0, <1>0a, <1>1, <1>2, RewardBooks, BudgetBook
<1>3. ASSUME NEW x \in Rounds, Punish(x) PROVE BudgetIsLedger'
  BY <1>0, <1>0a, <1>3, PunishBooks, BudgetBook
<1> QED  BY <1>1, <1>2, <1>3, BooksStand
-----------------------------------------------------------------------------
(* The inductive step: the log grows, and with it what hints rest on.      *)

\* An answer is stored, or the failure of a worker.
LEMMA StoreAppends ==
    ASSUME RoundTypeOK, TurnIsSound, NEW x \in Rounds, Store(x)
    PROVE  \E c \in Artifacts :
              /\ log' = Append(log, c) /\ c.by = turn[x].who /\ c.lineage = turn[x].lineage /\ ~c.failed
              /\ c.lineage \subseteq Stored /\ turn[x].todo = turn[x].lineage /\ turn[x].who \in Workers
<1> DEFINE c == [by |-> turn[x].who, lineage |-> turn[x].lineage, kind |-> turn[x].kind, failed |-> FALSE]
<1>1. c \in Artifacts /\ turn[x].todo = turn[x].lineage /\ turn[x].who \in Workers
  BY DEF Store, TurnIsSound, Artifacts, RoundTypeOK
<1>2. log' = Append(log, c) /\ turn[x].lineage \subseteq Stored
  BY DEF Store, AppendArtifact
<1>3. c.by = turn[x].who /\ c.lineage = turn[x].lineage /\ ~c.failed
  OBVIOUS
<1> HIDE DEF c
<1> QED  BY <1>1, <1>2, <1>3

LEMMA FailAppends ==
    ASSUME RoundTypeOK, TurnIsSound, NEW x \in Rounds, Fail(x)
    PROVE  \E c \in Artifacts :
              /\ log' = Append(log, c) /\ c.by = turn[x].who /\ c.lineage = {} /\ c.failed
              /\ turn[x].who \in Workers
<1> DEFINE c == [by |-> turn[x].who, lineage |-> {}, kind |-> "critique", failed |-> TRUE]
<1>1. c \in Artifacts /\ turn[x].who \in Workers
  BY DEF Fail, TurnIsSound, Artifacts, Kinds
<1>2. log' = Append(log, c)
  BY DEF Fail, AppendArtifact, NoTurn
<1>3. c.by = turn[x].who /\ c.lineage = {} /\ c.failed
  OBVIOUS
<1> HIDE DEF c
<1> QED  BY <1>1, <1>2, <1>3

LEMMA LogStands ==
    ASSUME [RoundNext]_roundVars
    PROVE  UNCHANGED log \/ \E x \in Rounds : Store(x) \/ Fail(x)
BY DEF RoundNext, roundVars, swarmStore, Begin, Collect, RewardNext, Rewards, Punish, Detect, Persist, Finish,
       Raise, Abort, Evaluate

\* What is stored is never changed, and new artifacts build on what is stored.
LEMMA LogGrows ==
    ASSUME RoundTypeOK, TurnIsSound, [RoundNext]_roundVars
    PROVE  /\ Stored \subseteq Stored' /\ \A c \in Stored : log'[c] = log[c]
           /\ \A c \in Stored' \ Stored : c = Len(log) + 1 /\ log'[c].lineage \subseteq Stored
<1>1. CASE UNCHANGED log
  BY <1>1 DEF Stored
<1>2. ASSUME NEW a \in Artifacts, log' = Append(log, a), a.lineage \subseteq Stored
      PROVE  /\ Stored \subseteq Stored' /\ \A c \in Stored : log'[c] = log[c]
             /\ \A c \in Stored' \ Stored : c = Len(log) + 1 /\ log'[c].lineage \subseteq Stored
  BY <1>2, AppendFacts
<1>3. CASE \E x \in Rounds : Store(x)
  BY <1>2, <1>3, StoreAppends
<1>4. CASE \E x \in Rounds : Fail(x)
  BY <1>2, <1>4, FailAppends
<1> QED  BY <1>1, <1>3, <1>4, LogStands

LEMMA LineageStep == ASSUME RoundInv, [RoundNext]_roundVars PROVE LineageIsEarlier'
<1>1. /\ Stored \subseteq Stored' /\ \A c \in Stored : log'[c] = log[c]
      /\ \A c \in Stored' \ Stored : c = Len(log) + 1 /\ log'[c].lineage \subseteq Stored
  BY LogGrows DEF RoundInv
<1>2. Stored = 1 .. Len(log) /\ Len(log) \in Nat
  BY LogFacts DEF RoundInv
<1> QED  BY <1>1, <1>2 DEF RoundInv, LineageIsEarlier

\* An evaluation is never changed.
LEMMA ScoresStay ==
    ASSUME RoundTypeOK, [RoundNext]_roundVars
    PROVE  \A a \in Ids : score[a] # NoScore => score'[a] = score[a]
<1>1. CASE UNCHANGED score
  BY <1>1
<1>2. ASSUME NEW a \in Ids, Evaluate(a) PROVE \A b \in Ids : score[b] # NoScore => score'[b] = score[b]
  BY <1>2 DEF Evaluate, RoundTypeOK
<1>3. UNCHANGED score \/ \E a \in Ids : Evaluate(a)
  BY DEF RoundNext, roundVars, swarmStore, Begin, Collect, Store, RewardNext, Rewards, Fail, Punish, Detect, Persist,
         Finish, Raise, Abort
<1> QED  BY <1>1, <1>2, <1>3

LEMMA EarnedStays ==
    ASSUME RoundTypeOK, RoundTypeOK', Stored \subseteq Stored', \A c \in Stored : log'[c] = log[c],
           Stored \subseteq Ids, \A c \in Ids : score[c] # NoScore => score'[c] = score[c],
           NEW w, NEW s, Earned(log, score, w, s)
    PROVE  Earned(log', score', w, s)
<1> DEFINE works == {a \in Stored : log[a].by = w}
           nextWorks == {a \in Stored' : log'[a].by = w}
<1>1. works \in SUBSET nextWorks /\ IsFiniteSet(nextWorks)
  <2>1. IsFiniteSet(Stored')
    <3>1. Len(log') \in Nat /\ Stored' = 1 .. Len(log')
      BY LenProperties DEF RoundTypeOK, Stored
    <3> QED  BY <3>1, FS_Interval
  <2>2. nextWorks \in SUBSET Stored'
    OBVIOUS
  <2> QED  BY <2>1, <2>2, FS_Subset
<1>2. Cardinality(works) >= MinArtifacts
  BY DEF Earned, Stored
<1>3. Cardinality(nextWorks) >= MinArtifacts
  <2> HIDE DEF works, nextWorks
  <2>1. Cardinality(works) <= Cardinality(nextWorks)
    BY <1>1, FS_Subset
  <2>2. Cardinality(works) \in Nat /\ Cardinality(nextWorks) \in Nat
    BY <1>1, FS_Subset, FS_CardinalityType
  <2> QED  BY <1>2, <2>1, <2>2, LimitsAssumption
<1>4. \E a \in nextWorks :
         /\ PatternOf(log'[a].kind) = s
         /\ score'[a] > 0 \/ \E c \in Stored' : a \in log'[c].lineage
  <2>1. PICK a \in works :
           /\ PatternOf(log[a].kind) = s
           /\ score[a] > 0 \/ \E c \in Stored : a \in log[c].lineage
    BY DEF Earned, Stored
  <2>2. score[a] > 0 => score'[a] > 0
    BY DEF NoScore
  <2> QED  BY <1>1, <2>1, <2>2
<1> QED  BY <1>3, <1>4 DEF Earned, Stored

LEMMA HintMeaning ==
    HintIsEarned <=> \A w \in Workers : hint[w] # NoPattern => Earned(log, score, w, hint[w])
BY DEF HintIsEarned, Earned, Works, OfPattern, ChildrenOf, Stored

LEMMA NextHintMeaning ==
    HintIsEarned' <=> \A w \in Workers : hint'[w] # NoPattern => Earned(log', score', w, hint'[w])
BY DEF HintIsEarned, Earned, Works, OfPattern, ChildrenOf, Stored

\* A round knows of patterns only what it detected; the hint is what a round knew.
LEMMA HintStep ==
    ASSUME RoundInv, [RoundNext]_roundVars, RoundTypeOK'
    PROVE  FoundIsEarned' /\ HintIsEarned'
<1>0. RoundTypeOK /\ Len(log) <= MaxLog /\ TurnIsSound /\ FoundIsEarned /\ HintIsEarned
  BY DEF RoundInv
<1>1. /\ Stored \subseteq Stored' /\ \A c \in Stored : log'[c] = log[c]
      /\ Stored \subseteq Ids
  BY <1>0, LogGrows, LogFacts, LimitsAssumption DEF Ids
<1>2. \A w, s : Earned(log, score, w, s) => Earned(log', score', w, s)
  BY <1>0, <1>1, ScoresStay, EarnedStays
<1> DEFINE Tables == UNION {[W -> Hints] : W \in SUBSET Workers}
           Sound(table) == \A w \in DOMAIN table : table[w] # NoPattern => Earned(log', score', w, table[w])
<1>3. \A x \in Rounds : found[x] \in Tables /\ Sound(found[x])
  BY <1>0, <1>2 DEF FoundIsEarned
<1>4. \A w \in Workers : hint[w] # NoPattern => Earned(log', score', w, hint[w])
  BY <1>0, <1>2, HintMeaning
<1>5. ASSUME UNCHANGED hint PROVE HintIsEarned'
  BY <1>4, <1>5, NextHintMeaning
<1>6. ASSUME NEW x \in Rounds, NEW table \in Tables, Sound(table), found' = [found EXCEPT ![x] = table]
      PROVE  FoundIsEarned'
  BY <1>0, <1>3, <1>6 DEF FoundIsEarned
<1>7. ASSUME UNCHANGED found PROVE FoundIsEarned'
  BY <1>0, <1>3, <1>7 DEF FoundIsEarned
<1>8. ASSUME NEW x \in Rounds, Detect(x) PROVE FoundIsEarned' /\ HintIsEarned'
  <2> DEFINE table == [w \in Workers |-> Detected(w)]
  <2>1. \A w \in Workers : Detected(w) \in Hints /\ (Detected(w) # NoPattern => Earned(log', score', w, Detected(w)))
    BY <1>0, <1>2, DetectedFacts
  <2>2. table \in Tables /\ Sound(table)
    BY <2>1
  <2>3. found' = [found EXCEPT ![x] = table] /\ UNCHANGED hint
    BY <1>8 DEF Detect, swarmStore
  <2> HIDE DEF table, Tables, Sound
  <2> QED  BY <1>5, <1>6, <2>2, <2>3
<1>9. ASSUME NEW x \in Rounds, Persist(x) PROVE FoundIsEarned' /\ HintIsEarned'
  <2>1. PICK w \in DOMAIN found[x] :
          /\ w \in Workers /\ found[x][w] \in Hints /\ hint' = [hint EXCEPT ![w] = found[x][w]]
          /\ found' = [found EXCEPT ![x] = [v \in DOMAIN found[x] \ {w} |-> found[x][v]]]
    BY <1>0, <1>9, PersistFacts
  <2>2. \A v \in Workers : hint'[v] # NoPattern => Earned(log', score', v, hint'[v])
    BY <1>0, <1>3, <1>4, <2>1 DEF RoundTypeOK
  <2>3. HintIsEarned'
    BY <2>2, NextHintMeaning
  <2> DEFINE table == [v \in DOMAIN found[x] \ {w} |-> found[x][v]]
  <2>4. table \in Tables
    <3>1. PICK W \in SUBSET Workers : found[x] \in [W -> Hints]
      BY <1>3
    <3>2. table \in [W \ {w} -> Hints] /\ W \ {w} \in SUBSET Workers
      BY <3>1
    <3> QED  BY <3>2
  <2>5. Sound(table)
    BY <1>3
  <2> HIDE DEF table, Tables, Sound
  <2> QED  BY <1>6, <2>1, <2>3, <2>4, <2>5 DEF table
<1>10. ASSUME NEW x \in Rounds, Finish(x) \/ Abort(x) PROVE FoundIsEarned' /\ HintIsEarned'
  <2>1. found' = [found EXCEPT ![x] = << >>] /\ UNCHANGED hint
    BY <1>10 DEF Finish, Abort, Ends, swarmStore
  <2>2. << >> \in Tables /\ Sound(<< >>)
    <3>1. << >> \in [{} -> Hints] /\ DOMAIN << >> = {}
      OBVIOUS
    <3> QED  BY <3>1
  <2> HIDE DEF Tables, Sound
  <2> QED  BY <1>5, <1>6, <2>1, <2>2
<1>11. ASSUME UNCHANGED <<found, hint>> PROVE FoundIsEarned' /\ HintIsEarned'
  BY <1>5, <1>7, <1>11
<1>12. UNCHANGED <<found, hint>> \/ \E x \in Rounds : Detect(x) \/ Persist(x) \/ Finish(x) \/ Abort(x)
  BY DEF RoundNext, roundVars, swarmStore, Begin, Collect, Store, RewardNext, Rewards, Fail, Punish, Raise, Evaluate
<1> QED  BY <1>8, <1>9, <1>10, <1>11, <1>12
-----------------------------------------------------------------------------
(* The inductive step: the rows of the ledger, and whose turn it is.       *)

\* The ledger got one more row.
NewRow(who, why, a) ==
    LET n == Len(ledger) + 1
    IN  /\ DOMAIN ledger' = DOMAIN ledger \union {n} /\ n \notin DOMAIN ledger
        /\ \A i \in DOMAIN ledger : ledger'[i] = ledger[i]
        /\ ledger'[n].who = who /\ ledger'[n].why = why /\ ledger'[n].about = a

LEMMA BookRow ==
    ASSUME RoundTypeOK, NEW w \in Workers, NEW change \in Int, NEW why \in Reasons, NEW a \in Ids,
           Book(w, change, why, a)
    PROVE  NewRow(w, why, a)
<1>1. /\ ledger' \in Seq(LedgerEntry) /\ Len(ledger') = Len(ledger) + 1
      /\ \A i \in 1 .. Len(ledger) : ledger'[i] = ledger[i]
      /\ ledger'[Len(ledger) + 1] = [who |-> w, delta |-> budget'[w] - budget[w], why |-> why, about |-> a]
  BY BookFacts
<1>2. Len(ledger) \in Nat /\ DOMAIN ledger = 1 .. Len(ledger) /\ DOMAIN ledger' = 1 .. Len(ledger) + 1
  BY <1>1, LogFacts, LenProperties
<1> QED  BY <1>1, <1>2 DEF NewRow

\* What one more row does to the rows about an artifact.
LEMMA RowsAfter ==
    ASSUME NEW w, NEW why, NEW a, NewRow(w, why, a), NEW k, NEW b
    PROVE  RowsAbout(k, b)' = IF k = why /\ b = a THEN RowsAbout(k, b) \union {Len(ledger) + 1}
                                                  ELSE RowsAbout(k, b)
BY DEF NewRow, RowsAbout

LEMMA RewardRow ==
    ASSUME RoundTypeOK, TurnIsSound, NEW x \in Rounds, RewardNext(x)
    PROVE  \E a \in turn[x].todo :
              /\ a \in Stored /\ xpc[x] = "reward" /\ turn' = [turn EXCEPT ![x].todo = @ \ {a}]
              /\ \/ Rewarded(x, a) /\ NewRow(log[a].by, "reuse", a)
                 \/ ~Rewarded(x, a) /\ UNCHANGED ledger
<1>0. Reward \in Int /\ "reuse" \in Reasons
  BY DEF Reward, Reasons
<1>1. PICK a \in turn[x].todo :
         /\ a \in Stored /\ a \in Ids /\ log[a].by \in Workers /\ xpc[x] = "reward"
         /\ turn' = [turn EXCEPT ![x].todo = @ \ {a}]
         /\ \/ Rewarded(x, a) /\ Book(log[a].by, Reward, "reuse", a)
            \/ ~Rewarded(x, a) /\ UNCHANGED <<budget, ledger>>
  BY RewardBooks
<1>2. Rewarded(x, a) => NewRow(log[a].by, "reuse", a)
  BY <1>0, <1>1, BookRow
<1> QED  BY <1>1, <1>2

LEMMA PunishRow ==
    ASSUME RoundTypeOK, TurnIsSound, NEW x \in Rounds, Punish(x)
    PROVE  \E a \in Stored :
              /\ xpc[x] = "punish" /\ turn[x].todo = {a} /\ log[a].failed /\ log[a].by = turn[x].who
              /\ RowsAbout("failed", a) = {} /\ NewRow(turn[x].who, "failed", a)
              /\ \A y \in Rounds : xpc[y] = "punish" /\ turn[y].todo = {a} => y = x
<1>0. Penalty \in Int /\ "failed" \in Reasons
  BY DEF Penalty, Reasons
<1>1. PICK a \in Stored :
         /\ a \in Ids /\ turn[x].who \in Workers /\ xpc[x] = "punish" /\ turn[x].todo = {a}
         /\ log[a].failed /\ log[a].by = turn[x].who
         /\ RowsAbout("failed", a) = {}
         /\ \A y \in Rounds : xpc[y] = "punish" /\ turn[y].todo = {a} => y = x
         /\ Book(turn[x].who, Penalty, "failed", a)
  BY PunishBooks
<1>2. NewRow(turn[x].who, "failed", a)
  BY <1>0, <1>1, BookRow
<1> QED  BY <1>1, <1>2

LEMMA LedgerStep == ASSUME RoundInv, [RoundNext]_roundVars PROVE LedgerIsStored'
<1>0. RoundTypeOK /\ TurnIsSound /\ LedgerIsStored /\ Stored \subseteq Stored'
  BY LogGrows DEF RoundInv
<1>1. ASSUME NEW w, NEW why, NEW a \in Stored, NewRow(w, why, a) PROVE LedgerIsStored'
  BY <1>0, <1>1 DEF LedgerIsStored, NewRow
<1>2. CASE UNCHANGED ledger
  BY <1>0, <1>2 DEF LedgerIsStored
<1>3. ASSUME NEW x \in Rounds, RewardNext(x) PROVE LedgerIsStored'
  BY <1>0, <1>1, <1>2, <1>3, RewardRow
<1>4. ASSUME NEW x \in Rounds, Punish(x) PROVE LedgerIsStored'
  BY <1>0, <1>1, <1>4, PunishRow
<1> QED  BY <1>2, <1>3, <1>4, BooksStand

LEMMA RewardsGoStep == ASSUME RoundInv, [RoundNext]_roundVars PROVE RewardsGoToAuthors'
<1>0. /\ RoundTypeOK /\ TurnIsSound /\ LedgerIsStored /\ RewardsGoToAuthors
      /\ \A c \in Stored : log'[c] = log[c]
  BY LogGrows DEF RoundInv
<1>1. \A i \in DOMAIN ledger : ledger[i].why = "reuse" => ledger[i].who = log'[ledger[i].about].by
  BY <1>0 DEF LedgerIsStored, RewardsGoToAuthors
<1>2. CASE UNCHANGED ledger
  BY <1>1, <1>2 DEF RewardsGoToAuthors
<1>3. ASSUME NEW x \in Rounds, RewardNext(x) PROVE RewardsGoToAuthors'
  BY <1>0, <1>1, <1>2, <1>3, RewardRow DEF RewardsGoToAuthors, NewRow
<1>4. ASSUME NEW x \in Rounds, Punish(x) PROVE RewardsGoToAuthors'
  BY <1>0, <1>1, <1>4, PunishRow DEF RewardsGoToAuthors, NewRow
<1> QED  BY <1>2, <1>3, <1>4, BooksStand

\* The rows about failures change only when the failure is punished.
LEMMA FailedRows ==
    ASSUME RoundTypeOK, TurnIsSound, [RoundNext]_roundVars, NEW a
    PROVE  \/ RowsAbout("failed", a)' = RowsAbout("failed", a)
           \/ \E x \in Rounds : Punish(x) /\ turn[x].todo = {a}
<1>1. CASE UNCHANGED ledger
  BY <1>1 DEF RowsAbout
<1>2. ASSUME NEW x \in Rounds, RewardNext(x) PROVE RowsAbout("failed", a)' = RowsAbout("failed", a)
  <2>1. UNCHANGED ledger \/ \E w, b : NewRow(w, "reuse", b)
    BY <1>2, RewardRow
  <2>2. ASSUME NEW w, NEW b, NewRow(w, "reuse", b)
        PROVE  RowsAbout("failed", a)' = RowsAbout("failed", a)
    <3>1. RowsAbout("failed", a)' = IF "failed" = "reuse" /\ a = b
                                      THEN RowsAbout("failed", a) \union {Len(ledger) + 1}
                                      ELSE RowsAbout("failed", a)
      BY <2>2, RowsAfter
    <3> QED  BY <3>1
  <2>3. CASE UNCHANGED ledger
    BY <2>3 DEF RowsAbout
  <2>4. CASE \E w, b : NewRow(w, "reuse", b)
    <3>1. PICK w, b : NewRow(w, "reuse", b)
      BY <2>4
    <3> QED  BY <2>2, <3>1
  <2> QED  BY <2>1, <2>3, <2>4
<1>3. ASSUME NEW x \in Rounds, Punish(x), turn[x].todo # {a}
      PROVE  RowsAbout("failed", a)' = RowsAbout("failed", a)
  <2>1. PICK b \in Stored : turn[x].todo = {b} /\ NewRow(turn[x].who, "failed", b)
    BY <1>3, PunishRow
  <2> QED  BY <1>3, <2>1, RowsAfter
<1> QED  BY <1>1, <1>2, <1>3, BooksStand

\* Where a step takes a round, the others standing still.
LEMMA TurnMoves ==
    ASSUME RoundTypeOK, TurnIsSound, NEW x \in Rounds,
           \/ Begin(x) \/ (\E w \in Workers : Collect(x, w)) \/ Store(x) \/ RewardNext(x) \/ Rewards(x)
           \/ Fail(x) \/ Punish(x) \/ Detect(x) \/ Persist(x) \/ Finish(x) \/ Raise(x) \/ Abort(x)
    PROVE  /\ \A y \in Rounds \ {x} : turn'[y] = turn[y] /\ xpc'[y] = xpc[y]
           /\ \/ xpc'[x] \in {"collect", "persist", "idle"}
              \/ xpc'[x] = "store" /\ turn'[x].who \in Workers /\ turn'[x].todo = turn'[x].lineage
              \/ xpc'[x] = "reward" /\ turn'[x].who \in Workers /\ turn'[x].todo \subseteq Stored
              \/ xpc'[x] = "fail" /\ turn'[x].who \in Workers
              \/ xpc'[x] = "punish" /\ Fail(x)
<1> USE DEF RoundTypeOK, Goto, Ends
<1>1. CASE Begin(x)
  BY <1>1 DEF Begin
<1>2. ASSUME NEW w \in Workers, Collect(x, w)
      PROVE  /\ \A y \in Rounds \ {x} : turn'[y] = turn[y] /\ xpc'[y] = xpc[y]
             /\ \/ xpc'[x] = "store" /\ turn'[x].who \in Workers /\ turn'[x].todo = turn'[x].lineage
                \/ xpc'[x] = "fail" /\ turn'[x].who \in Workers
  BY <1>2 DEF Collect, NoTurn
<1>3. CASE Store(x)
  <2>1. turn[x].who \in Workers /\ turn[x].todo = turn[x].lineage /\ turn[x].lineage \subseteq Stored
    BY <1>3 DEF Store, TurnIsSound, AppendArtifact
  <2> QED  BY <1>3, <2>1 DEF Store, NoTurn
<1>4. CASE RewardNext(x)
  <2>1. PICK a \in turn[x].todo : xpc[x] = "reward" /\ turn' = [turn EXCEPT ![x].todo = @ \ {a}]
    BY <1>4, RewardRow
  <2>2. turn[x].who \in Workers /\ turn[x].todo \subseteq Stored /\ UNCHANGED xpc
    BY <1>4, <2>1 DEF RewardNext, TurnIsSound
  <2> QED  BY <2>1, <2>2
<1>5. CASE Rewards(x)
  BY <1>5 DEF Rewards
<1>6. CASE Fail(x)
  BY <1>6 DEF Fail
<1>7. CASE Punish(x)
  BY <1>7 DEF Punish
<1>8. CASE Detect(x)
  BY <1>8 DEF Detect
<1>9. CASE Persist(x)
  BY <1>9 DEF Persist
<1>10. CASE Finish(x)
  BY <1>10 DEF Finish
<1>11. CASE Raise(x)
  <2>1. turn[x].who \in Workers
    BY <1>11 DEF Raise, TurnIsSound
  <2> QED  BY <1>11, <2>1 DEF Raise, NoTurn
<1>12. CASE Abort(x)
  BY <1>12 DEF Abort
<1> QED  BY <1>1, <1>2, <1>3, <1>4, <1>5, <1>6, <1>7, <1>8, <1>9, <1>10, <1>11, <1>12

LEMMA TurnStep == ASSUME RoundInv, [RoundNext]_roundVars PROVE TurnIsSound'
<1>0. RoundTypeOK /\ TurnIsSound /\ LedgerIsStored /\ RoundTypeOK'
  BY RoundTypeStep DEF RoundInv
<1>1. Stored \subseteq Stored' /\ \A c \in Stored : log'[c] = log[c]
  BY <1>0, LogGrows
<1>2. CASE UNCHANGED <<log, ledger, xpc, turn>>
  BY <1>0, <1>2 DEF TurnIsSound, RowsAbout, Stored
<1>3. ASSUME NEW x \in Rounds,
             \/ Begin(x) \/ (\E w \in Workers : Collect(x, w)) \/ Store(x) \/ RewardNext(x) \/ Rewards(x)
             \/ Fail(x) \/ Punish(x) \/ Detect(x) \/ Persist(x) \/ Finish(x) \/ Raise(x) \/ Abort(x)
      PROVE  TurnIsSound'
  <2>1. /\ \A y \in Rounds \ {x} : turn'[y] = turn[y] /\ xpc'[y] = xpc[y]
        /\ \/ xpc'[x] \in {"collect", "persist", "idle"}
           \/ xpc'[x] = "store" /\ turn'[x].who \in Workers /\ turn'[x].todo = turn'[x].lineage
           \/ xpc'[x] = "reward" /\ turn'[x].who \in Workers /\ turn'[x].todo \subseteq Stored
           \/ xpc'[x] = "fail" /\ turn'[x].who \in Workers
           \/ xpc'[x] = "punish" /\ Fail(x)
    BY <1>0, <1>3, TurnMoves
  <2>2. ASSUME Fail(x)
        PROVE  \E a \in Stored' :
                  /\ a \notin Stored /\ turn'[x].todo = {a} /\ turn'[x].who \in Workers
                  /\ log'[a].failed /\ log'[a].by = turn'[x].who /\ RowsAbout("failed", a)' = {}
    <3>1. PICK c \in Artifacts :
             log' = Append(log, c) /\ c.by = turn[x].who /\ c.failed /\ turn[x].who \in Workers
      BY <1>0, <2>2, FailAppends
    <3>2. PICK n : n = Len(log) + 1 /\ n \in Stored' /\ n \notin Stored /\ log'[n] = c
      BY <1>0, <3>1, AppendFacts
    <3>3. turn' = [turn EXCEPT ![x].todo = {n}] /\ UNCHANGED ledger
      BY <2>2, <3>2 DEF Fail
    <3>4. turn'[x].todo = {n} /\ turn'[x].who = turn[x].who
      BY <1>0, <3>3 DEF RoundTypeOK
    <3>5. RowsAbout("failed", n)' = {}
      BY <1>0, <3>2, <3>3 DEF RowsAbout, LedgerIsStored
    <3> QED  BY <3>1, <3>2, <3>4, <3>5
  <2>3. ASSUME NEW y \in Rounds, xpc'[y] = "punish"
        PROVE  \E a \in Stored' :
                  /\ turn'[y].todo = {a} /\ log'[a].failed /\ log'[a].by = turn'[y].who
                  /\ RowsAbout("failed", a)' = {}
                  /\ \A z \in Rounds : xpc'[z] = "punish" /\ turn'[z].todo = {a} => z = y
    <3>1. ASSUME NEW z \in Rounds \ {x}, xpc'[z] = "punish" PROVE turn'[z].todo \subseteq Stored
      BY <2>1, <3>1, <1>0 DEF TurnIsSound
    <3>2. CASE y = x
      <4>1. PICK a \in Stored' :
                /\ a \notin Stored /\ turn'[x].todo = {a}
                /\ log'[a].failed /\ log'[a].by = turn'[x].who /\ RowsAbout("failed", a)' = {}
        BY <2>1, <2>2, <2>3, <3>2
      <4> QED  BY <3>1, <3>2, <4>1
    <3>3. CASE y # x
      <4>1. PICK a \in Stored :
              /\ turn[y].todo = {a} /\ log[a].failed /\ log[a].by = turn[y].who
              /\ RowsAbout("failed", a) = {}
              /\ \A z \in Rounds : xpc[z] = "punish" /\ turn[z].todo = {a} => z = y
        BY <1>0, <2>1, <2>3, <3>3 DEF TurnIsSound
      <4>2. xpc[y] = "punish" /\ turn'[y] = turn[y]
        BY <2>1, <2>3, <3>3
      <4>3. \A z \in Rounds : xpc'[z] = "punish" /\ turn'[z].todo = {a} => z = y
        <5>1. xpc'[x] = "punish" => turn'[x].todo # {a}
          BY <2>1, <2>2, <4>1
        <5> QED  BY <2>1, <4>1, <5>1
      <4>4. RowsAbout("failed", a)' = RowsAbout("failed", a)
        <5>1. ASSUME NEW z \in Rounds, Punish(z), turn[z].todo = {a} PROVE FALSE
          <6>1. z = y /\ xpc' = [xpc EXCEPT ![y] = "collect"]
            BY <4>1, <5>1 DEF Punish, Goto
          <6> QED  BY <1>0, <2>3, <6>1 DEF RoundTypeOK
        <5> QED  BY <1>0, <5>1, FailedRows
      <4> QED  BY <1>1, <4>1, <4>2, <4>3, <4>4
    <3> QED  BY <3>2, <3>3
  <2>4. ASSUME NEW y \in Rounds
        PROVE  /\ xpc'[y] \in {"store", "reward", "fail", "punish"} => turn'[y].who \in Workers
               /\ xpc'[y] = "store" => turn'[y].todo = turn'[y].lineage
               /\ xpc'[y] = "reward" => turn'[y].todo \subseteq Stored'
    <3>1. CASE y = x
      <4>1. xpc'[x] = "punish" => turn'[x].who \in Workers
        BY <2>1, <2>2
      <4> QED  BY <1>1, <2>1, <3>1, <4>1
    <3>2. CASE y # x
      BY <1>0, <1>1, <2>1, <3>2 DEF TurnIsSound
    <3> QED  BY <3>1, <3>2
  <2> QED  BY <2>3, <2>4 DEF TurnIsSound
<1> QED  BY <1>2, <1>3 DEF RoundNext, Evaluate, roundVars, swarmStore

\* Rows are never changed.
LEMMA RowsStand ==
    ASSUME RoundTypeOK, TurnIsSound, [RoundNext]_roundVars
    PROVE  \A i \in DOMAIN ledger : ledger'[i] = ledger[i]
<1>1. ASSUME NEW x \in Rounds, RewardNext(x) PROVE \A i \in DOMAIN ledger : ledger'[i] = ledger[i]
  BY <1>1, RewardRow DEF NewRow
<1>2. ASSUME NEW x \in Rounds, Punish(x) PROVE \A i \in DOMAIN ledger : ledger'[i] = ledger[i]
  BY <1>2, PunishRow DEF NewRow
<1> QED  BY <1>1, <1>2, BooksStand

LEMMA PenaltyStep == ASSUME RoundInv, [RoundNext]_roundVars PROVE PenaltyHasFailure'
<1>0. RoundTypeOK /\ TurnIsSound /\ PenaltyHasFailure
  BY DEF RoundInv
<1>1. /\ Stored \subseteq Stored' /\ \A c \in Stored : log'[c] = log[c]
      /\ \A i \in DOMAIN ledger : ledger'[i] = ledger[i]
  BY <1>0, LogGrows, RowsStand
<1> SUFFICES ASSUME NEW a \in Ids
             PROVE  /\ Cardinality(RowsAbout("failed", a)') <= 1
                    /\ \A i \in RowsAbout("failed", a)' :
                          a \in Stored' /\ log'[a].failed /\ log'[a].by = ledger'[i].who
  BY DEF PenaltyHasFailure
<1>2. CASE RowsAbout("failed", a)' = RowsAbout("failed", a)
  <2>1. \A i \in RowsAbout("failed", a) : i \in DOMAIN ledger
    BY DEF RowsAbout
  <2> QED  BY <1>0, <1>1, <1>2, <2>1 DEF PenaltyHasFailure
<1>3. ASSUME NEW x \in Rounds, Punish(x), turn[x].todo = {a}
      PROVE  /\ Cardinality(RowsAbout("failed", a)') <= 1
             /\ \A i \in RowsAbout("failed", a)' :
                   a \in Stored' /\ log'[a].failed /\ log'[a].by = ledger'[i].who
  <2>1. /\ a \in Stored /\ log[a].failed /\ log[a].by = turn[x].who
        /\ RowsAbout("failed", a) = {} /\ NewRow(turn[x].who, "failed", a)
    <3>1. PICK b \in Stored :
            /\ xpc[x] = "punish" /\ turn[x].todo = {b} /\ log[b].failed /\ log[b].by = turn[x].who
            /\ RowsAbout("failed", b) = {} /\ NewRow(turn[x].who, "failed", b)
            /\ \A y \in Rounds : xpc[y] = "punish" /\ turn[y].todo = {b} => y = x
      BY <1>0, <1>3, PunishRow
    <3>2. a = b
      BY <1>3, <3>1
    <3> QED  BY <3>1, <3>2
  <2>2. PICK n : n = Len(ledger) + 1
    OBVIOUS
  <2>3. RowsAbout("failed", a)' = {n} /\ ledger'[n].who = turn[x].who
    <3>1. RowsAbout("failed", a)' = RowsAbout("failed", a) \union {n}
      BY <2>1, <2>2, RowsAfter
    <3> QED  BY <2>1, <2>2, <3>1 DEF NewRow
  <2>4. Cardinality(RowsAbout("failed", a)') = 1
    BY <2>3, FS_Singleton, Zenon
  <2> QED  BY <1>1, <2>1, <2>3, <2>4
<1> QED  BY <1>0, <1>2, <1>3, FailedRows
-----------------------------------------------------------------------------
(* The inductive step: the rewards fit the artifacts of others.            *)

\* How the three sets of RewardsFit may move.
LEMMA FitAfter ==
    ASSUME NEW R, NEW W, NEW B, NEW R2, NEW W2, NEW B2,
           IsFiniteSet(R), IsFiniteSet(W), IsFiniteSet(B2), B \subseteq B2,
           Cardinality(R) + Cardinality(W) <= Cardinality(B),
           \/ R2 = R /\ W2 \subseteq W
           \/ R2 = R /\ \E x, c : W2 \subseteq W \union {x} /\ c \in B2 /\ c \notin B
           \/ \E x \in W : \E n : R2 = R \union {n} /\ W2 \subseteq W \ {x}
    PROVE  Cardinality(R2) + Cardinality(W2) <= Cardinality(B2)
<1>1. /\ Cardinality(R) \in Nat /\ Cardinality(W) \in Nat /\ Cardinality(B) \in Nat
      /\ Cardinality(B2) \in Nat /\ Cardinality(B) <= Cardinality(B2) /\ IsFiniteSet(B)
  BY FS_Subset, FS_CardinalityType
<1>2. CASE R2 = R /\ W2 \subseteq W
  <2>1. Cardinality(W2) <= Cardinality(W) /\ Cardinality(W2) \in Nat
    BY <1>2, FS_Subset, FS_CardinalityType
  <2> QED  BY <1>1, <1>2, <2>1
<1>3. ASSUME NEW x, NEW c, R2 = R, W2 \subseteq W \union {x}, c \in B2, c \notin B
      PROVE  Cardinality(R2) + Cardinality(W2) <= Cardinality(B2)
  <2>1. IsFiniteSet(W \union {x}) /\ Cardinality(W \union {x}) <= Cardinality(W) + 1
    <3>1. /\ IsFiniteSet(W \union {x})
          /\ Cardinality(W \union {x}) = Cardinality(W) \/ Cardinality(W \union {x}) = Cardinality(W) + 1
      BY FS_AddElement
    <3> QED  BY <1>1, <3>1
  <2>2. Cardinality(W2) <= Cardinality(W \union {x}) /\ Cardinality(W2) \in Nat
        /\ Cardinality(W \union {x}) \in Nat
    BY <1>3, <2>1, FS_Subset, FS_CardinalityType
  <2>3. Cardinality(B \union {c}) = Cardinality(B) + 1
    BY <1>1, <1>3, FS_AddElement
  <2>4. Cardinality(B \union {c}) <= Cardinality(B2)
    BY <1>3, FS_Subset
  <2> QED  BY <1>1, <1>3, <2>1, <2>2, <2>3, <2>4
<1>4. ASSUME NEW x \in W, NEW n, R2 = R \union {n}, W2 \subseteq W \ {x}
      PROVE  Cardinality(R2) + Cardinality(W2) <= Cardinality(B2)
  <2>1. Cardinality(R2) <= Cardinality(R) + 1 /\ Cardinality(R2) \in Nat
    <3>1. IsFiniteSet(R2) /\ (Cardinality(R2) = Cardinality(R) \/ Cardinality(R2) = Cardinality(R) + 1)
      BY <1>4, FS_AddElement
    <3> QED  BY <1>1, <3>1, FS_CardinalityType
  <2>2. IsFiniteSet(W \ {x}) /\ Cardinality(W \ {x}) = Cardinality(W) - 1
    BY FS_RemoveElement
  <2>3. Cardinality(W2) <= Cardinality(W \ {x}) /\ Cardinality(W2) \in Nat
    BY <1>4, <2>2, FS_Subset, FS_CardinalityType
  <2> QED  BY <1>1, <2>1, <2>2, <2>3
<1> QED  BY <1>2, <1>3, <1>4

\* The rows about rewards change only when one is paid.
LEMMA ReuseRows ==
    ASSUME RoundTypeOK, TurnIsSound, [RoundNext]_roundVars, NEW a
    PROVE  \/ RowsAbout("reuse", a)' = RowsAbout("reuse", a)
           \/ \E x \in Rewarding(a) : \E n :
                 /\ RowsAbout("reuse", a)' = RowsAbout("reuse", a) \union {n}
                 /\ xpc' = xpc /\ log' = log /\ turn' = [turn EXCEPT ![x].todo = @ \ {a}]
<1>1. CASE UNCHANGED ledger
  BY <1>1 DEF RowsAbout
<1>2. ASSUME NEW x \in Rounds, Punish(x) PROVE RowsAbout("reuse", a)' = RowsAbout("reuse", a)
  <2>1. PICK b \in Stored : NewRow(turn[x].who, "failed", b)
    BY <1>2, PunishRow
  <2>2. RowsAbout("reuse", a)' = IF "reuse" = "failed" /\ a = b
                                    THEN RowsAbout("reuse", a) \union {Len(ledger) + 1}
                                    ELSE RowsAbout("reuse", a)
    BY <2>1, RowsAfter
  <2> QED  BY <2>2
<1>3. ASSUME NEW x \in Rounds, RewardNext(x), RowsAbout("reuse", a)' # RowsAbout("reuse", a)
      PROVE  \E y \in Rewarding(a) : \E n :
                /\ RowsAbout("reuse", a)' = RowsAbout("reuse", a) \union {n}
                /\ xpc' = xpc /\ log' = log /\ turn' = [turn EXCEPT ![y].todo = @ \ {a}]
  <2>1. PICK b \in turn[x].todo :
           /\ b \in Stored /\ xpc[x] = "reward" /\ turn' = [turn EXCEPT ![x].todo = @ \ {b}]
           /\ \/ Rewarded(x, b) /\ NewRow(log[b].by, "reuse", b)
              \/ ~Rewarded(x, b) /\ UNCHANGED ledger
    BY <1>3, RewardRow
  <2>2. Rewarded(x, b) /\ NewRow(log[b].by, "reuse", b)
    <3>1. ledger' # ledger
      BY <1>3 DEF RowsAbout
    <3> QED  BY <2>1, <3>1
  <2>3. PICK n : n = Len(ledger) + 1
    OBVIOUS
  <2>4. a = b /\ RowsAbout("reuse", a)' = RowsAbout("reuse", a) \union {n}
    <3>1. RowsAbout("reuse", a)' = IF a = b THEN RowsAbout("reuse", a) \union {n} ELSE RowsAbout("reuse", a)
      BY <2>2, <2>3, RowsAfter
    <3> QED  BY <1>3, <3>1
  <2>5. x \in Rewarding(a) /\ xpc' = xpc /\ log' = log
    BY <1>3, <2>1, <2>2, <2>4 DEF Rewarding, Rewarded, RewardNext
  <2> QED  BY <2>1, <2>4, <2>5
<1> QED  BY <1>1, <1>2, <1>3, BooksStand

\* Only storing an answer makes a round a rewarder of one more artifact.
LEMMA RewardingAfter ==
    ASSUME RoundTypeOK, TurnIsSound, [RoundNext]_roundVars, NEW a \in Stored
    PROVE  \/ Rewarding(a)' \subseteq Rewarding(a)
           \/ \E x \in Rounds : /\ Store(x) /\ Rewarding(a)' \subseteq Rewarding(a) \union {x}
                                /\ x \in Rewarding(a)'
<1>1. a \in Stored' /\ log'[a] = log[a]
  BY LogGrows
<1>2. ASSUME \A y \in Rounds : xpc'[y] = "reward" =>
                /\ xpc[y] = "reward" /\ turn'[y].who = turn[y].who /\ turn'[y].todo \subseteq turn[y].todo
      PROVE  Rewarding(a)' \subseteq Rewarding(a)
  BY <1>1, <1>2 DEF Rewarding
<1>3. CASE UNCHANGED <<xpc, turn>>
  BY <1>2, <1>3
<1>4. ASSUME NEW x \in Rounds, ~Store(x),
             \/ Begin(x) \/ (\E w \in Workers : Collect(x, w)) \/ RewardNext(x) \/ Rewards(x)
             \/ Fail(x) \/ Punish(x) \/ Detect(x) \/ Persist(x) \/ Finish(x) \/ Raise(x) \/ Abort(x)
      PROVE  Rewarding(a)' \subseteq Rewarding(a)
  <2>1. \A y \in Rounds \ {x} : turn'[y] = turn[y] /\ xpc'[y] = xpc[y]
    BY <1>4, TurnMoves
  <2>2. CASE RewardNext(x)
    <3>1. PICK b \in turn[x].todo : turn' = [turn EXCEPT ![x].todo = @ \ {b}]
      BY <2>2, RewardRow
    <3>2. UNCHANGED xpc /\ turn'[x].who = turn[x].who /\ turn'[x].todo \subseteq turn[x].todo
      BY <2>2, <3>1 DEF RewardNext, RoundTypeOK
    <3>3. \A y \in Rounds : xpc'[y] = "reward" =>
             /\ xpc[y] = "reward" /\ turn'[y].who = turn[y].who /\ turn'[y].todo \subseteq turn[y].todo
      BY <2>1, <3>2
    <3> QED  BY <1>2, <3>3
  <2>3. CASE ~RewardNext(x)
    <3>1. xpc'[x] # "reward"
      BY <1>4, <2>3 DEF Begin, Collect, Rewards, Fail, Punish, Detect, Persist, Finish, Raise, Abort, Ends,
                        Goto, RoundTypeOK
    <3>2. \A y \in Rounds : xpc'[y] = "reward" =>
             /\ xpc[y] = "reward" /\ turn'[y].who = turn[y].who /\ turn'[y].todo \subseteq turn[y].todo
      BY <2>1, <3>1
    <3> QED  BY <1>2, <3>2
  <2> QED  BY <2>2, <2>3
<1>5. ASSUME NEW x \in Rounds, Store(x), ~(Rewarding(a)' \subseteq Rewarding(a))
      PROVE  Rewarding(a)' \subseteq Rewarding(a) \union {x} /\ x \in Rewarding(a)'
  <2>1. \A y \in Rounds \ {x} : turn'[y] = turn[y] /\ xpc'[y] = xpc[y]
    BY <1>5, TurnMoves
  <2>2. \A y \in Rounds \ {x} : y \in Rewarding(a)' => y \in Rewarding(a)
    BY <1>1, <2>1 DEF Rewarding
  <2>3. Rewarding(a)' \subseteq Rounds
    BY DEF Rewarding
  <2> QED  BY <1>5, <2>2, <2>3
<1> QED  BY <1>3, <1>4, <1>5 DEF RoundNext, Evaluate, roundVars

LEMMA FitStep == ASSUME RoundInv, [RoundNext]_roundVars PROVE RewardsFit'
<1>0. RoundTypeOK /\ RoundTypeOK' /\ TurnIsSound /\ TurnIsSound' /\ LedgerIsStored /\ RewardsFit
  BY RoundTypeStep, TurnStep DEF RoundInv
<1>1. /\ Stored \subseteq Stored' /\ \A c \in Stored : log'[c] = log[c]
      /\ \A c \in Stored' \ Stored : c = Len(log) + 1 /\ log'[c].lineage \subseteq Stored
  BY <1>0, LogGrows
<1>2. /\ IsFiniteSet(DOMAIN ledger) /\ IsFiniteSet(Stored) /\ IsFiniteSet(Stored')
  <2>1. Len(log') \in Nat /\ Stored' = 1 .. Len(log')
    BY <1>0, LenProperties DEF RoundTypeOK, Stored
  <2> QED  BY <1>0, <2>1, LogFacts, FS_Interval
<1>3. ASSUME NEW a \in Stored' \ Stored
      PROVE  Cardinality(RowsAbout("reuse", a)') + Cardinality(Rewarding(a)') <= Cardinality(ByOthers(a)')
  <2>1. RowsAbout("reuse", a) = {}
    BY <1>0, <1>3 DEF RowsAbout, LedgerIsStored
  <2>2. Rewarding(a) = {}
    BY <1>0, <1>3 DEF Rewarding, TurnIsSound
  <2>3. RowsAbout("reuse", a)' = {}
    BY <1>0, <2>1, <2>2, ReuseRows
  <2>4. Rewarding(a)' = {}
    <3>1. PICK x \in Rounds : Store(x) \/ Fail(x)
      BY <1>3, LogStands DEF Stored
    <3>2. /\ \A y \in Rounds \ {x} : turn'[y] = turn[y] /\ xpc'[y] = xpc[y]
          /\ xpc'[x] = "reward" => turn'[x].todo \subseteq Stored
      BY <1>0, <3>1, TurnMoves
    <3>3. \A y \in Rounds : xpc'[y] = "reward" => turn'[y].todo \subseteq Stored
      BY <1>0, <3>2 DEF TurnIsSound
    <3> QED  BY <1>3, <3>3 DEF Rewarding
  <2>5. ByOthers(a)' \subseteq Stored'
    BY DEF ByOthers
  <2>6. Cardinality(ByOthers(a)') \in Nat
    BY <1>2, <2>5, FS_Subset, FS_CardinalityType
  <2>7. Cardinality({}) = 0
    BY FS_EmptySet
  <2> QED  BY <2>3, <2>4, <2>6, <2>7
<1>4. ASSUME NEW a \in Stored
      PROVE  Cardinality(RowsAbout("reuse", a)') + Cardinality(Rewarding(a)') <= Cardinality(ByOthers(a)')
  <2>1. Cardinality(RowsAbout("reuse", a)) + Cardinality(Rewarding(a)) <= Cardinality(ByOthers(a))
    BY <1>0 DEF RewardsFit
  <2>2. IsFiniteSet(RowsAbout("reuse", a)) /\ IsFiniteSet(Rewarding(a)) /\ IsFiniteSet(ByOthers(a)')
    <3>1. RowsAbout("reuse", a) \subseteq DOMAIN ledger /\ Rewarding(a) \subseteq Rounds
          /\ ByOthers(a)' \subseteq Stored'
      BY DEF RowsAbout, Rewarding, ByOthers
    <3> QED  BY <1>2, <3>1, FS_Subset, WorkersAssumption
  <2>3. ByOthers(a) \subseteq ByOthers(a)'
    BY <1>1 DEF ByOthers
  <2>4. CASE RowsAbout("reuse", a)' # RowsAbout("reuse", a)
    <3>1. PICK x \in Rewarding(a) : \E n :
            /\ RowsAbout("reuse", a)' = RowsAbout("reuse", a) \union {n}
            /\ xpc' = xpc /\ log' = log /\ turn' = [turn EXCEPT ![x].todo = @ \ {a}]
      BY <1>0, <2>4, ReuseRows
    <3>2. Rewarding(a)' \subseteq Rewarding(a) \ {x}
      BY <1>0, <3>1 DEF Rewarding, RoundTypeOK
    <3>3. PICK n : RowsAbout("reuse", a)' = RowsAbout("reuse", a) \union {n}
      BY <3>1
    <3> QED  BY <2>1, <2>2, <2>3, <3>2, <3>3, FitAfter
  <2>5. CASE RowsAbout("reuse", a)' = RowsAbout("reuse", a) /\ Rewarding(a)' \subseteq Rewarding(a)
    BY <2>1, <2>2, <2>3, <2>5, FitAfter
  <2>6. ASSUME RowsAbout("reuse", a)' = RowsAbout("reuse", a), NEW x \in Rounds, Store(x),
               Rewarding(a)' \subseteq Rewarding(a) \union {x}, x \in Rewarding(a)'
        PROVE  Cardinality(RowsAbout("reuse", a)') + Cardinality(Rewarding(a)') <= Cardinality(ByOthers(a)')
    <3>1. PICK c \in Artifacts :
            /\ log' = Append(log, c) /\ c.by = turn[x].who /\ c.lineage = turn[x].lineage
            /\ turn[x].todo = turn[x].lineage
      BY <1>0, <2>6, StoreAppends
    <3>2. PICK n : n \in Stored' /\ n \notin Stored /\ log'[n] = c
      BY <1>0, <3>1, AppendFacts
    <3>3. turn'[x].todo = turn[x].todo /\ turn'[x].who = turn[x].who
      BY <1>0, <2>6 DEF Store, NoTurn, RoundTypeOK
    <3>4. a \in c.lineage /\ c.by # log'[a].by
      BY <2>6, <3>1, <3>3 DEF Rewarding
    <3>5. n \in ByOthers(a)' /\ n \notin ByOthers(a)
      BY <3>2, <3>4 DEF ByOthers
    <3> QED  BY <2>1, <2>2, <2>3, <2>6, <3>5, FitAfter
  <2> QED  BY <1>0, <2>4, <2>5, <2>6, RewardingAfter
<1> QED  BY <1>3, <1>4 DEF RewardsFit
-----------------------------------------------------------------------------
(* The theorems.                                                           *)

LEMMA RoundStart == RoundInit => RoundInv
<1> SUFFICES ASSUME RoundInit PROVE RoundInv
  OBVIOUS
<1>0. Stored = {} /\ DOMAIN ledger = {} /\ Len(log) = 0
  BY DEF RoundInit, Stored
<1>1. RoundTypeOK
  <2>1. NoTurn \in [who : Workers \union {Nobody}, lineage : SUBSET Ids, kind : Kinds, todo : SUBSET Ids]
    BY DEF NoTurn, Kinds
  <2>2. \A x \in Rounds : DOMAIN found[x] = {}
    BY DEF RoundInit
  <2> QED  BY <2>1, <2>2, LimitsAssumption DEF RoundInit, RoundTypeOK
<1>2. Len(log) <= MaxLog
  BY <1>0, LimitsAssumption
<1>3. LineageIsEarlier /\ LedgerIsStored /\ RewardsGoToAuthors /\ RewardsFit
  BY <1>0 DEF LineageIsEarlier, LedgerIsStored, RewardsGoToAuthors, RewardsFit
<1>4. TurnIsSound
  BY DEF RoundInit, TurnIsSound
<1>5. BudgetIsLedger
  <2> SUFFICES ASSUME NEW w \in Workers
               PROVE  budget[w] = InitialBudget + SumFunction([i \in Entries(w) |-> ledger[i].delta])
    BY DEF BudgetIsLedger
  <2> DEFINE f == [i \in Entries(w) |-> ledger[i].delta]
  <2>1. Entries(w) = {} /\ budget[w] = InitialBudget /\ InitialBudget \in Int
    BY <1>0, LimitsAssumption DEF Entries, RoundInit
  <2>2. SumFunction(f) = SumFunctionOnSet(f, {})
    BY <2>1 DEF SumFunction
  <2>3. SumFunctionOnSet(f, {}) = 0
    <3> HIDE DEF f
    <3> QED  BY SumRecursion, FS_EmptySet
  <2> QED  BY <2>1, <2>2, <2>3
<1>6. PenaltyHasFailure
  <2>1. \A a : RowsAbout("failed", a) = {}
    BY <1>0 DEF RowsAbout
  <2>2. Cardinality({}) = 0
    BY FS_EmptySet
  <2> QED  BY <2>1, <2>2 DEF PenaltyHasFailure
<1>7. FoundIsEarned
  <2>1. << >> \in [{} -> Hints] /\ {} \in SUBSET Workers
    OBVIOUS
  <2>2. found \in [Rounds -> UNION {[W -> Hints] : W \in SUBSET Workers}]
    BY <2>1 DEF RoundInit
  <2>3. \A x \in Rounds : DOMAIN found[x] = {}
    BY DEF RoundInit
  <2> QED  BY <2>2, <2>3 DEF FoundIsEarned
<1>8. HintIsEarned
  BY DEF HintIsEarned, RoundInit
<1> QED  BY <1>1, <1>2, <1>3, <1>4, <1>5, <1>6, <1>7, <1>8 DEF RoundInv

LEMMA RoundStep == RoundInv /\ [RoundNext]_roundVars => RoundInv'
BY RoundTypeStep, LineageStep, LedgerStep, TurnStep, BudgetStep, PenaltyStep, FitStep, RewardsGoStep, HintStep
   DEF RoundInv

LEMMA RoundInvariance == RoundSpec => []RoundInv
BY RoundStart, RoundStep, PTL DEF RoundSpec

\* A worker has no more rewards for an artifact than others have artifacts that build on it.
LEMMA RewardsEarned == RoundInv => RewardIsReuse
<1> SUFFICES ASSUME RoundInv, NEW a \in Ids
             PROVE  /\ Cardinality(RowsAbout("reuse", a)) <= Cardinality(ByOthers(a))
                    /\ \A i \in RowsAbout("reuse", a) : ledger[i].who = log[a].by
  BY DEF RewardIsReuse, ByOthers
<1>0. RoundTypeOK /\ LedgerIsStored /\ RewardsFit /\ RewardsGoToAuthors
  BY DEF RoundInv
<1>1. \A i \in RowsAbout("reuse", a) : ledger[i].who = log[a].by
  BY <1>0 DEF RewardsGoToAuthors, RowsAbout
<1>2. /\ Cardinality(RowsAbout("reuse", a)) \in Nat /\ Cardinality(Rewarding(a)) \in Nat
      /\ Cardinality(ByOthers(a)) \in Nat
  <2>1. RowsAbout("reuse", a) \subseteq DOMAIN ledger /\ Rewarding(a) \subseteq Rounds
        /\ ByOthers(a) \subseteq Stored
    BY DEF RowsAbout, Rewarding, ByOthers
  <2>2. IsFiniteSet(DOMAIN ledger) /\ IsFiniteSet(Stored)
    BY <1>0, LogFacts, FS_Interval
  <2> QED  BY <2>1, <2>2, FS_Subset, FS_CardinalityType, WorkersAssumption
<1>3. CASE a \in Stored
  <2>1. Cardinality(RowsAbout("reuse", a)) + Cardinality(Rewarding(a)) <= Cardinality(ByOthers(a))
    BY <1>0, <1>3 DEF RewardsFit
  <2> QED  BY <1>1, <1>2, <2>1
<1>4. CASE a \notin Stored
  <2>1. RowsAbout("reuse", a) = {}
    BY <1>0, <1>4 DEF RowsAbout, LedgerIsStored
  <2> QED  BY <1>1, <1>2, <2>1, FS_EmptySet
<1> QED  BY <1>3, <1>4

\* Every variable of the rounds keeps its type: no budget is ever negative.
THEOREM RoundTypeCorrect == RoundSpec => []RoundTypeOK
<1>1. RoundInv => RoundTypeOK
  BY DEF RoundInv
<1> QED  BY <1>1, RoundInvariance, PTL

\* The ledger explains every budget, every penalty is for a failure on record, once, and
\* nobody is rewarded more often than others have built on the artifact, whatever rounds
\* run at once and wherever they raise or are killed.
THEOREM RoundsCorrect == RoundSpec => []RoundsHold
<1>1. RoundInv => RoundsHold
  BY RewardsEarned DEF RoundInv, RoundsHold
<1> QED  BY <1>1, RoundInvariance, PTL

\* A behavioural hint is only ever kept for a worker with enough artifacts, one of which, of
\* that pattern, has been built on or scored above nothing, whatever evaluators and rounds
\* run beside each other.
THEOREM HintsEarned == RoundSpec => []HintIsEarned
<1>1. RoundInv => HintIsEarned
  BY DEF RoundInv
<1> QED  BY <1>1, RoundInvariance, PTL
=============================================================================
