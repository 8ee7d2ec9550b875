--------------------------- MODULE SwarmFoldProofs ---------------------------
(***************************************************************************)
(* Proofs about the parts of the swarm that sum up what they have recorded *)
(* with folds: the fitness feedback of goals, paper trading and who is     *)
(* heard; for any finite sets of processes, goals and subjects and any     *)
(* limits.                                                                 *)
(***************************************************************************)
EXTENDS GoalFeedback, PaperTrading, AntiHerding, SwarmRoundProofs
-----------------------------------------------------------------------------
(* Recursion over finite sets.  The folds of the community modules take    *)
(* the elements of a set one by one, x[T] being the one that is taken from *)
(* T; a fold is CHOOSEn among the functions on the subsets that do so.     *)

Solves(f, base, x, u, T) == \A U \in SUBSET T :
    f[U] = IF U = {} THEN base ELSE u[<<U, f[U \ {x[U]}]>>]

\* Functions that go the same way from the same start are the same.
LEMMA SolutionsAgree ==
    ASSUME NEW S, IsFiniteSet(S), NEW x, \A T \in SUBSET S : T # {} => x[T] \in T,
           NEW base, NEW u, NEW f, NEW g, Solves(f, base, x, u, S), Solves(g, base, x, u, S)
    PROVE  \A T \in SUBSET S : f[T] = g[T]
<1> DEFINE C == {T \in SUBSET S : f[T] # g[T]}
<1> SUFFICES ASSUME C # {} PROVE FALSE
  OBVIOUS
<1>1. PICK T \in C : \A U \in C : U \subseteq T => U = T
  <2>1. C \subseteq SUBSET S
    OBVIOUS
  <2> HIDE DEF C
  <2> QED  BY <2>1, SmallestSubset
<1>2. T \in SUBSET S /\ f[T] # g[T] /\ T # {}
  BY <1>1 DEF Solves
<1>3. x[T] \in T /\ T \ {x[T]} \in SUBSET S /\ T \ {x[T]} # T
  BY <1>2
<1>4. f[T \ {x[T]}] = g[T \ {x[T]}]
  BY <1>1, <1>3
<1> QED  BY <1>2, <1>4 DEF Solves

\* There is a function that goes the way of u from base.
LEMMA FiniteRecursion ==
    ASSUME NEW S, IsFiniteSet(S), NEW V, NEW base \in V, NEW x, \A T \in SUBSET S : T # {} => x[T] \in T,
           NEW u, \A T \in SUBSET S, v \in V : T # {} => u[<<T, v>>] \in V
    PROVE  \E f \in [SUBSET S -> V] : Solves(f, base, x, u, S)
<1> DEFINE Good(f, T) == f \in [SUBSET T -> V] /\ Solves(f, base, x, u, T)
           C == {T \in SUBSET S : ~ \E f : Good(f, T)}
<1> SUFFICES ASSUME C # {} PROVE FALSE
  OBVIOUS
<1>1. PICK T \in C : \A U \in C : U \subseteq T => U = T
  <2>1. C \subseteq SUBSET S
    OBVIOUS
  <2> HIDE DEF C
  <2> QED  BY <2>1, SmallestSubset
<1>2. T \in SUBSET S /\ ~ \E f : Good(f, T)
  BY <1>1
<1> DEFINE Chosen(U) == CHOOSE f : Good(f, U)
           Value(U) == Chosen(U)[U]
           Next(U) == IF U = {} THEN base ELSE u[<<U, Value(U \ {x[U]})>>]
<1>3. \A U \in SUBSET T : U # T => Good(Chosen(U), U)
  <2> SUFFICES ASSUME NEW U \in SUBSET T, U # T PROVE Good(Chosen(U), U)
    OBVIOUS
  <2>1. \E f : Good(f, U)
    BY <1>1, <1>2
  <2> HIDE DEF Good
  <2> QED  BY <2>1
<1> HIDE DEF Chosen, C
<1>4. ASSUME NEW U \in SUBSET T, U # T PROVE Value(U) = Next(U) /\ Value(U) \in V
  <2>1. Good(Chosen(U), U)
    BY <1>3, <1>4
  <2>2. CASE U = {}
    BY <2>1, <2>2 DEF Solves
  <2>3. CASE U # {}
    <3> DEFINE W == U \ {x[U]}
    <3>1. W \in SUBSET U /\ W \in SUBSET T /\ W # T /\ U \in SUBSET S
      BY <1>2, <1>4
    <3>2. Value(U) = u[<<U, Chosen(U)[W]>>] /\ Value(U) \in V
      BY <2>1, <2>3 DEF Solves
    <3>3. Chosen(U)[W] = Chosen(W)[W]
      <4>1. Good(Chosen(W), W)
        BY <1>3, <3>1
      <4>2. IsFiniteSet(W) /\ W \in SUBSET S
        BY <1>2, <3>1, FS_Subset
      <4>3. Solves(Chosen(U), base, x, u, W) /\ Solves(Chosen(W), base, x, u, W)
        BY <2>1, <3>1, <4>1 DEF Solves
      <4>4. \A X \in SUBSET W : X # {} => x[X] \in X
        BY <4>2
      <4> HIDE DEF W
      <4> QED  BY <4>2, <4>3, <4>4, SolutionsAgree
    <3> QED  BY <2>3, <3>2, <3>3
  <2> QED  BY <2>2, <2>3
<1> HIDE DEF Value
<1>5. Next(T) \in V
  <2>1. T # {} => T \ {x[T]} \in SUBSET T /\ T \ {x[T]} # T
    BY <1>2
  <2>2. T # {} => Value(T \ {x[T]}) \in V
    BY <1>4, <2>1
  <2> QED  BY <1>2, <2>2
<1> DEFINE all == [U \in SUBSET T |-> IF U = T THEN Next(T) ELSE Value(U)]
<1>6. all \in [SUBSET T -> V]
  <2> HIDE DEF Next
  <2> QED  BY <1>4, <1>5
<1>7. Solves(all, base, x, u, T)
  <2> SUFFICES ASSUME NEW U \in SUBSET T
               PROVE  all[U] = IF U = {} THEN base ELSE u[<<U, all[U \ {x[U]}]>>]
    BY DEF Solves
  <2>1. all[U] = Next(U)
    BY <1>4
  <2>2. U # {} => all[U \ {x[U]}] = Value(U \ {x[U]})
    BY <1>2
  <2> HIDE DEF all
  <2> QED  BY <2>1, <2>2
<1> QED  BY <1>2, <1>6, <1>7
-----------------------------------------------------------------------------
(* Feedback: the invariant.                                                *)

SignalRange == SignalMin .. SignalMax
EvidenceRows == [goal : Goals, parent : Nat]
EventRows == [name : EventNames, signal : SignalRange, artifact : Nat \ {0}]
SnapshotRows == [goal : Goals, signal : SignalRange, after : Nat]
AtParent == [at : {"parent"}, goal : Goals, name : EventNames, parent : Nat]
AtStored == [at : {"stored"}, goal : Goals, name : EventNames, artifact : Nat \ {0}]
AtSignal == [at : {"signal"}, goal : Goals, name : EventNames, artifact : Nat \ {0}, signal : SignalRange]
AtCounting == [at : {"counting"}, goal : Goals, signal : SignalRange]
AtTold == [at : {"told"}, goal : Goals, advice : {"EXTINCTION", "MUTATE", "SELECT", "OBSERVE"}]
AtChecked == [at : {"checked"}, goal : Goals, signal : SignalRange]
AdapterStates == AtParent \union AtStored \union AtSignal \union AtCounting \union AtTold \union AtChecked

GoalsTyped ==
    /\ evidence \in Seq(EvidenceRows) /\ events \in [Goals -> Seq(EventRows)]
    /\ snapshots \in Seq(SnapshotRows)
    /\ adapter \in [Adapters -> AdapterStates \union {Resting}] /\ serene \subseteq Goals

\* What the events of a goal say of the next one: current_existing_signal and last_goal_artifact.
SignalOf(t) == IF t = <<>> THEN 0 ELSE t[Len(t)].signal
ArtifactOf(t) == IF t = <<>> THEN NoArtifact ELSE t[Len(t)].artifact

\* How far the events of a sequence can have taken a signal down and up.
EventsNamed(t, names) == {i \in DOMAIN t : t[i].name \in names}
Losses(t) == Cardinality(EventsNamed(t, {"critic_fail"}))
Gains(t) == Cardinality(EventsNamed(t, {"artifact_generated"})) + 2 * Cardinality(EventsNamed(t, {"critic_pass"}))
Loss(name) == IF name = "critic_fail" THEN 1 ELSE 0
Gain(name) == IF name = "artifact_generated" THEN 1 ELSE IF name = "critic_pass" THEN 2 ELSE 0
Within(signal, low, high) == 0 - low <= signal /\ signal <= high

\* What the first n of a sequence of events amount to.
AmountOf(t, n) ==
    LET add(sum, event) == Clamped(sum + Delta(event.name))
    IN  FoldLeft(add, 0, SubSeq(t, 1, n))

\* What refers to something refers to what is there.
RefersTo(r, kept) ==
    /\ r.at = "parent" => r.parent <= kept
    /\ r.at \in {"stored", "signal"} => r.artifact <= kept
RefersToStored ==
    /\ \A i \in DOMAIN evidence : evidence[i].parent < i
    /\ \A g \in Goals : \A i \in DOMAIN events[g] : events[g][i].artifact <= Len(evidence)
    /\ \A i \in DOMAIN snapshots : snapshots[i].after <= Len(events[snapshots[i].goal])
    /\ \A a \in Adapters : RefersTo(adapter[a], Len(evidence))

\* A process alone on a goal knows what the next one would read.
Current(r, rows, t) ==
    /\ r.at = "parent" => r.parent = ArtifactOf(t)
    /\ r.at \in {"stored", "signal"} => rows[r.artifact].parent = ArtifactOf(t)
    /\ r.at = "signal" => r.signal = Applied(SignalOf(t), r.name)
    /\ r.at = "checked" => r.signal = SignalOf(t)
SereneIsCurrent ==
    /\ \A g \in serene : \A a, b \in OnGoal(g) : a = b
    /\ \A a \in Adapters : adapter[a] # Resting /\ adapter[a].goal \in serene =>
           Current(adapter[a], evidence, events[adapter[a].goal])

\* SereneGoalAddsUp of the rows of one goal.
AddsUp(t, rows) == \A i \in DOMAIN t :
    /\ t[i].signal = AmountOf(t, i)
    /\ rows[t[i].artifact].parent = IF i = 1 THEN NoArtifact ELSE t[i - 1].artifact
SerenesAddUp == \A g \in serene :
    /\ AddsUp(events[g], evidence)
    /\ \A i \in DOMAIN snapshots :
           snapshots[i].goal = g => snapshots[i].signal = AmountOf(events[g], snapshots[i].after)

\* Events of a goal that raced lose deltas and never invent any.
EarnedBy(r, t) ==
    /\ r.at = "signal" => Within(r.signal, Losses(t) + Loss(r.name), Gains(t) + Gain(r.name))
    /\ r.at = "counting" => Within(r.signal, Losses(t), Gains(t))
SignalsAreEarned ==
    /\ \A g \in Goals : \A i \in DOMAIN events[g] :
           Within(events[g][i].signal, Losses(events[g]), Gains(events[g]))
    /\ \A a \in Adapters : EarnedBy(adapter[a], events[adapter[a].goal])

\* AdviceIsEarned of one process.
AdvisedBy(r, t) == r.at = "told" =>
    /\ r.advice = "EXTINCTION" => Losses(t) >= 0 - SignalMin /\ Len(t) >= ManyEvents
    /\ r.advice = "MUTATE" => Losses(t) >= 1 /\ Len(t) >= SomeEvents
    /\ r.advice = "SELECT" => Gains(t) >= SelectAt
AdviceIsTallied == \A a \in Adapters : AdvisedBy(adapter[a], events[adapter[a].goal])

GoalInv ==
    /\ GoalsTyped /\ RefersToStored /\ SereneIsCurrent
    /\ SerenesAddUp /\ SignalsAreEarned /\ AdviceIsTallied
-----------------------------------------------------------------------------
(* Feedback: what the events of a goal amount to.                          *)

\* The greatest number of a set of numbers up to n.
LEMMA GreatestNumber ==
    ASSUME NEW n \in Nat
    PROVE  \A T \in SUBSET (1 .. n) : T # {} => Max(T) \in T /\ \A y \in T : Max(T) >= y
<1> SUFFICES ASSUME NEW T \in SUBSET (1 .. n), T # {}
             PROVE  Max(T) \in T /\ \A y \in T : Max(T) >= y
  OBVIOUS
<1>0. \A y \in T : y \in Int /\ n - y \in Nat
  OBVIOUS
<1> DEFINE S == {n - y : y \in T}
<1>1. S \in SUBSET Nat /\ S # {}
  BY <1>0
<1>2. PICK k \in S : \A m \in S : k <= m
  BY <1>1, LeastNumber
<1>3. PICK y \in T : k = n - y
  BY <1>2
<1>4. \A z \in T : y >= z
  <2> SUFFICES ASSUME NEW z \in T PROVE y >= z
    OBVIOUS
  <2>1. n - y <= n - z
    BY <1>2, <1>3
  <2> QED  BY <1>0, <2>1
<1>5. \E w \in T : \A z \in T : w >= z
  BY <1>4
<1> QED  BY <1>5 DEF Max

LEMMA GreatestOfAll == ASSUME NEW n \in Nat \ {0} PROVE Max(1 .. n) = n
<1>1. n \in Nat /\ 1 .. n \in SUBSET (1 .. n) /\ 1 .. n # {} /\ n \in 1 .. n
  OBVIOUS
<1>2. Max(1 .. n) \in 1 .. n /\ \A y \in 1 .. n : Max(1 .. n) >= y
  BY <1>1, GreatestNumber
<1> QED  BY <1>1, <1>2

LEMMA ClampedFacts ==
    ASSUME NEW n \in Int
    PROVE  /\ Clamped(n) = IF n < SignalMin THEN SignalMin ELSE IF n > SignalMax THEN SignalMax ELSE n
           /\ Clamped(n) \in SignalRange
<1> DEFINE m == IF n > SignalMax THEN SignalMax ELSE n
<1>0. SignalMin \in Int /\ SignalMax \in Int /\ SignalMin <= 0 /\ 0 <= SignalMax
  BY FeedbackAssumption
<1>1. Min({SignalMax, n}) = m /\ m \in Int
  <2>1. \E y \in {SignalMax, n} : \A z \in {SignalMax, n} : y <= z
    BY <1>0
  <2>2. Min({SignalMax, n}) \in {SignalMax, n} /\ \A z \in {SignalMax, n} : Min({SignalMax, n}) <= z
    BY <2>1 DEF Min
  <2> QED  BY <1>0, <2>2
<1> HIDE DEF m
<1>2. Max({SignalMin, m}) = IF m < SignalMin THEN SignalMin ELSE m
  <2>1. \E y \in {SignalMin, m} : \A z \in {SignalMin, m} : y >= z
    BY <1>0, <1>1
  <2>2. Max({SignalMin, m}) \in {SignalMin, m} /\ \A z \in {SignalMin, m} : Max({SignalMin, m}) >= z
    BY <2>1 DEF Max
  <2> QED  BY <1>0, <1>1, <2>2
<1> QED  BY <1>0, <1>1, <1>2 DEF Clamped, m, SignalRange

LEMMA DeltaFacts == ASSUME NEW n \in EventNames PROVE Delta(n) \in Int /\ Delta(n) = Gain(n) - Loss(n)
BY DEF Delta, EventNames, Gain, Loss

\* What a sequence of events amounts to, and the equation of the fold that computes it.
Total(t) == FoldLeft(LAMBDA sum, event : Clamped(sum + Delta(event.name)), 0, t)
Totals(it, t, D) ==
    it = [T \in SUBSET D |-> IF T = {} THEN 0 ELSE Clamped(it[T \ {Max(T)}] + Delta(t[Max(T)].name))]

LEMMA TotalDef == ASSUME NEW t PROVE Total(t) = (CHOOSE it : Totals(it, t, DOMAIN t))[DOMAIN t]
BY Zenon DEF Total, FoldLeft, MapThenFoldSet, Totals

LEMMA AmountDef == ASSUME NEW t, NEW n PROVE AmountOf(t, n) = Total(SubSeq(t, 1, n))
BY Zenon DEF AmountOf, Total

\* The fold takes the last event last.
LEMMA TotalsFacts ==
    ASSUME NEW t \in Seq(EventRows), NEW n \in 0 .. Len(t)
    PROVE  LET it == CHOOSE f : Totals(f, t, 1 .. n)
           IN  /\ \A T \in SUBSET (1 .. n) : it[T] \in Int
               /\ \A T \in SUBSET (1 .. n) :
                     it[T] = IF T = {} THEN 0 ELSE Clamped(it[T \ {Max(T)}] + Delta(t[Max(T)].name))
<1> DEFINE D == 1 .. n
           x == [T \in SUBSET D |-> Max(T)]
           u == [p \in (SUBSET D) \X Int |-> Clamped(p[2] + Delta(t[Max(p[1])].name))]
<1>0. n \in Nat /\ Len(t) \in Nat
  BY LenProperties
<1>1. IsFiniteSet(D) /\ \A T \in SUBSET D : T # {} => x[T] \in T
  <2>1. IsFiniteSet(D)
    BY <1>0, FS_Interval
  <2>2. \A T \in SUBSET (1 .. n) : T # {} => Max(T) \in T /\ \A y \in T : Max(T) >= y
    BY <1>0, GreatestNumber
  <2> QED  BY <2>1, <2>2
<1>2. \A T \in SUBSET D, v \in Int : T # {} => u[<<T, v>>] \in Int
  <2> SUFFICES ASSUME NEW T \in SUBSET D, NEW v \in Int, T # {} PROVE u[<<T, v>>] \in Int
    OBVIOUS
  <2>1. Max(T) \in 1 .. Len(t)
    <3>1. Max(T) \in T
      BY <1>1
    <3>2. Max(T) \in 1 .. n
      BY <3>1
    <3> QED  BY <1>0, <3>2
  <2>2. t[Max(T)] \in EventRows
    BY <1>0, <2>1, ElementOfSeq
  <2>3. v + Delta(t[Max(T)].name) \in Int
    BY <2>2, DeltaFacts DEF EventRows
  <2>4. Clamped(v + Delta(t[Max(T)].name)) \in Int
    BY <2>3, ClampedFacts, FeedbackAssumption DEF SignalRange
  <2> QED  BY <2>4
<1>3. PICK f \in [SUBSET D -> Int] : Solves(f, 0, x, u, D)
  <2> HIDE DEF D, x, u
  <2>1. 0 \in Int
    OBVIOUS
  <2> QED  BY <1>1, <1>2, <2>1, FiniteRecursion
<1>4. Totals(f, t, D)
  <2>1. \A T \in SUBSET D : T # {} => x[T] = Max(T) /\ T \ {x[T]} \in SUBSET D
    OBVIOUS
  <2>2. \A T \in SUBSET D : T # {} => u[<<T, f[T \ {x[T]}]>>] = Clamped(f[T \ {x[T]}] + Delta(t[Max(T)].name))
    BY <2>1
  <2> HIDE DEF D, x, u
  <2>3. \A T \in SUBSET D : f[T] = IF T = {} THEN 0 ELSE Clamped(f[T \ {Max(T)}] + Delta(t[Max(T)].name))
    BY <1>3, <2>1, <2>2 DEF Solves
  <2> QED  BY <1>3, <2>3 DEF Totals
<1> DEFINE it == CHOOSE h : Totals(h, t, D)
<1>5. Totals(it, t, D)
  BY <1>4
<1> HIDE DEF it
<1>6. \A T \in SUBSET D : it[T] = IF T = {} THEN 0 ELSE Clamped(it[T \ {Max(T)}] + Delta(t[Max(T)].name))
  BY <1>5 DEF Totals
<1>7. Solves(f, 0, x, u, D) /\ \A T \in SUBSET D : it[T] = f[T]
  <2> DEFINE C == {T \in SUBSET D : it[T] # f[T]}
  <2> SUFFICES ASSUME C # {} PROVE FALSE
    BY <1>3
  <2>1. PICK T \in C : \A U \in C : U \subseteq T => U = T
    <3>1. C \subseteq SUBSET D
      OBVIOUS
    <3> HIDE DEF C, D
    <3> QED  BY <1>1, <3>1, SmallestSubset
  <2>2. \A U \in SUBSET D : f[U] = IF U = {} THEN 0 ELSE Clamped(f[U \ {Max(U)}] + Delta(t[Max(U)].name))
    <3> HIDE DEF D
    <3> QED  BY <1>4 DEF Totals
  <2>3. T \in SUBSET D /\ T # {} /\ Max(T) \in T
    BY <1>0, <1>6, <2>1, <2>2, GreatestNumber
  <2>4. T \ {Max(T)} \notin C /\ T \ {Max(T)} \in SUBSET D
    BY <2>1, <2>3
  <2> QED  BY <1>6, <2>1, <2>2, <2>3, <2>4
<1> QED  BY <1>3, <1>6, <1>7 DEF it

\* The events up to the last amount to what the last one makes of the amount before it.
LEMMA TotalRecursion ==
    ASSUME NEW t \in Seq(EventRows)
    PROVE  /\ Total(t) \in SignalRange
           /\ Len(t) = 0 => Total(t) = 0
           /\ Len(t) > 0 => Total(t) = Clamped(Total(SubSeq(t, 1, Len(t) - 1)) + Delta(t[Len(t)].name))
<1> DEFINE n == Len(t)
           it == CHOOSE f : Totals(f, t, 1 .. n)
<1>1. n \in Nat /\ DOMAIN t = 1 .. n /\ n \in 0 .. n
  BY LenProperties
<1>2. /\ \A T \in SUBSET (1 .. n) : it[T] \in Int
      /\ \A T \in SUBSET (1 .. n) :
            it[T] = IF T = {} THEN 0 ELSE Clamped(it[T \ {Max(T)}] + Delta(t[Max(T)].name))
  BY <1>1, TotalsFacts
<1>3. Total(t) = it[1 .. n]
  BY <1>1, TotalDef
<1> HIDE DEF it
<1>4. CASE n = 0
  <2>1. 1 .. n = {}
    BY <1>4
  <2>2. Total(t) = 0
    BY <1>2, <1>3, <2>1
  <2> QED  BY <1>4, <2>2, FeedbackAssumption DEF SignalRange
<1>5. CASE n > 0
  <2> DEFINE s == SubSeq(t, 1, n - 1)
             is == CHOOSE f : Totals(f, s, 1 .. (n - 1))
  <2>1. s \in Seq(EventRows) /\ Len(s) = n - 1 /\ \A i \in 1 .. (n - 1) : s[i] = t[i]
    BY <1>1, <1>5, SubSeqProperties
  <2>2. n - 1 \in 0 .. Len(s) /\ DOMAIN s = 1 .. (n - 1) /\ n - 1 \in Nat
    BY <1>1, <1>5, <2>1, LenProperties
  <2>3. \A T \in SUBSET (1 .. (n - 1)) :
            is[T] = IF T = {} THEN 0 ELSE Clamped(is[T \ {Max(T)}] + Delta(s[Max(T)].name))
    <3> HIDE DEF s
    <3> QED  BY <2>1, <2>2, TotalsFacts
  <2>4. Total(s) = is[1 .. (n - 1)]
    BY <2>2, TotalDef
  <2> HIDE DEF s, is
  <2>5. \A T \in SUBSET (1 .. (n - 1)) : is[T] = it[T]
    <3> DEFINE D == 1 .. (n - 1)
               C == {T \in SUBSET D : is[T] # it[T]}
    <3> SUFFICES ASSUME C # {} PROVE FALSE
      OBVIOUS
    <3>1. PICK T \in C : \A U \in C : U \subseteq T => U = T
      <4>1. C \subseteq SUBSET D /\ IsFiniteSet(D)
        BY <2>2, FS_Interval
      <4> HIDE DEF C, D
      <4> QED  BY <4>1, SmallestSubset
    <3>2. T \in SUBSET D /\ T \in SUBSET (1 .. n)
      BY <1>1, <3>1
    <3>3. T # {}
      BY <1>2, <2>3, <3>1, <3>2
    <3>4. Max(T) \in T
      BY <2>2, <3>2, <3>3, GreatestNumber
    <3>5. T \ {Max(T)} \notin C /\ T \ {Max(T)} \in SUBSET D
      BY <3>1, <3>2, <3>4
    <3>6. s[Max(T)] = t[Max(T)]
      BY <2>1, <3>2, <3>4
    <3> QED  BY <1>2, <2>3, <3>1, <3>2, <3>3, <3>5, <3>6
  <2>6. Max(1 .. n) = n /\ (1 .. n) \ {n} = 1 .. (n - 1) /\ 1 .. n # {}
    <3>1. n \in Nat \ {0}
      BY <1>1, <1>5
    <3>2. Max(1 .. n) = n
      BY <3>1, GreatestOfAll
    <3> QED  BY <3>1, <3>2
  <2>7. it[1 .. n] = Clamped(it[1 .. (n - 1)] + Delta(t[n].name))
    BY <1>2, <2>6
  <2>8. t[n] \in EventRows
    BY <1>1, <1>5, ElementOfSeq
  <2>9. it[1 .. (n - 1)] + Delta(t[n].name) \in Int
    BY <1>1, <1>2, <2>8, DeltaFacts DEF EventRows
  <2>10. Total(t) = Clamped(Total(s) + Delta(t[n].name))
    BY <1>3, <2>2, <2>4, <2>5, <2>7
  <2>11. Total(t) \in SignalRange
    BY <1>3, <2>7, <2>9, ClampedFacts
  <2> QED  BY <1>5, <2>10, <2>11 DEF s
<1> QED  BY <1>1, <1>4, <1>5

LEMMA AmountRecursion ==
    ASSUME NEW t \in Seq(EventRows)
    PROVE  /\ AmountOf(t, 0) = 0
           /\ \A n \in 0 .. Len(t) : AmountOf(t, n) \in SignalRange
           /\ \A n \in 1 .. Len(t) : AmountOf(t, n) = Applied(AmountOf(t, n - 1), t[n].name)
<1>1. Len(t) \in Nat
  BY LenProperties
<1>2. ASSUME NEW n \in 0 .. Len(t)
      PROVE  SubSeq(t, 1, n) \in Seq(EventRows) /\ Len(SubSeq(t, 1, n)) = n
  BY <1>1, <1>2, SubSeqProperties
<1>3. ASSUME NEW n \in 0 .. Len(t) PROVE AmountOf(t, n) \in SignalRange
  BY <1>2, TotalRecursion, AmountDef
<1>4. AmountOf(t, 0) = 0
  <2>1. 0 \in 0 .. Len(t)
    BY <1>1
  <2> QED  BY <1>2, <2>1, TotalRecursion, AmountDef
<1>5. ASSUME NEW n \in 1 .. Len(t)
      PROVE  AmountOf(t, n) = Applied(AmountOf(t, n - 1), t[n].name)
  <2> DEFINE s == SubSeq(t, 1, n)
  <2>1. s \in Seq(EventRows) /\ Len(s) = n /\ n > 0
    BY <1>1, <1>2
  <2>2. SubSeq(s, 1, n - 1) = SubSeq(t, 1, n - 1)
    <3>1. \A i \in 1 .. n : s[i] = t[i]
      BY <1>1, SubSeqProperties
    <3>2. SubSeq(s, 1, n - 1) \in Seq(EventRows) /\ Len(SubSeq(s, 1, n - 1)) = n - 1
          /\ \A i \in 1 .. (n - 1) : SubSeq(s, 1, n - 1)[i] = s[i]
      <4> HIDE DEF s
      <4> QED  BY <1>1, <2>1, SubSeqProperties
    <3>3. SubSeq(t, 1, n - 1) \in Seq(EventRows) /\ Len(SubSeq(t, 1, n - 1)) = n - 1
          /\ \A i \in 1 .. (n - 1) : SubSeq(t, 1, n - 1)[i] = t[i]
      BY <1>1, SubSeqProperties
    <3>4. \A i \in 1 .. (n - 1) : SubSeq(s, 1, n - 1)[i] = SubSeq(t, 1, n - 1)[i]
      BY <1>1, <3>1, <3>2, <3>3
    <3> HIDE DEF s
    <3> QED  BY <1>1, <3>2, <3>3, <3>4, SeqEqual
  <2>3. s[n] = t[n]
    BY <1>1, SubSeqProperties
  <2> HIDE DEF s
  <2>4. Total(s) = Clamped(Total(SubSeq(s, 1, n - 1)) + Delta(s[n].name))
    BY <2>1, TotalRecursion
  <2> QED  BY <2>2, <2>3, <2>4, AmountDef DEF Applied, s
<1> QED  BY <1>3, <1>4, <1>5

LEMMA AmountOfMore ==
    ASSUME NEW t \in Seq(EventRows), NEW row \in EventRows
    PROVE  /\ \A n \in 0 .. Len(t) : AmountOf(Append(t, row), n) = AmountOf(t, n)
           /\ AmountOf(Append(t, row), Len(t) + 1) = Applied(AmountOf(t, Len(t)), row.name)
<1> DEFINE m == Append(t, row)
<1>1. Len(t) \in Nat /\ m \in Seq(EventRows) /\ Len(m) = Len(t) + 1 /\ m[Len(t) + 1] = row
      /\ \A i \in 1 .. Len(t) : m[i] = t[i]
  BY LenProperties, AppendProperties
<1> HIDE DEF m
<1>2. ASSUME NEW n \in 0 .. Len(t) PROVE AmountOf(m, n) = AmountOf(t, n)
  <2>1. /\ SubSeq(m, 1, n) \in Seq(EventRows) /\ Len(SubSeq(m, 1, n)) = n
        /\ \A i \in 1 .. n : SubSeq(m, 1, n)[i] = m[i]
    BY <1>1, SubSeqProperties
  <2>2. /\ SubSeq(t, 1, n) \in Seq(EventRows) /\ Len(SubSeq(t, 1, n)) = n
        /\ \A i \in 1 .. n : SubSeq(t, 1, n)[i] = t[i]
    BY <1>1, SubSeqProperties
  <2>3. \A i \in 1 .. n : SubSeq(m, 1, n)[i] = SubSeq(t, 1, n)[i]
    BY <1>1, <2>1, <2>2
  <2>4. SubSeq(m, 1, n) = SubSeq(t, 1, n)
    BY <2>1, <2>2, <2>3, SeqEqual
  <2> QED  BY <2>4, AmountDef
<1>3. AmountOf(m, Len(t) + 1) = Applied(AmountOf(m, Len(t)), row.name)
  <2>1. Len(t) + 1 \in 1 .. Len(m) /\ (Len(t) + 1) - 1 = Len(t)
    BY <1>1
  <2> QED  BY <1>1, <2>1, AmountRecursion
<1> QED  BY <1>1, <1>2, <1>3 DEF m
-----------------------------------------------------------------------------
(* Feedback: how many events of a goal have a name.                        *)

LEMMA TallyTypes ==
    ASSUME NEW t \in Seq(EventRows)
    PROVE  Losses(t) \in Nat /\ Gains(t) \in Nat
<1>1. Len(t) \in Nat /\ \A names : EventsNamed(t, names) \subseteq 1 .. Len(t)
  BY LenProperties DEF EventsNamed
<1>2. IsFiniteSet(1 .. Len(t))
  BY <1>1, FS_Interval
<1>3. \A names : Cardinality(EventsNamed(t, names)) \in Nat
  BY <1>1, <1>2, FS_Subset, FS_CardinalityType
<1> QED  BY <1>3 DEF Losses, Gains

LEMMA NamedAppend ==
    ASSUME NEW t \in Seq(EventRows), NEW row \in EventRows, NEW names
    PROVE  /\ Cardinality(EventsNamed(t, names)) \in Nat
           /\ Cardinality(EventsNamed(Append(t, row), names))
                  = Cardinality(EventsNamed(t, names)) + (IF row.name \in names THEN 1 ELSE 0)
<1>1. Len(t) \in Nat /\ DOMAIN t = 1 .. Len(t)
  BY LenProperties
<1>2. DOMAIN Append(t, row) = 1 .. (Len(t) + 1) /\ Append(t, row)[Len(t) + 1] = row
      /\ \A i \in 1 .. Len(t) : Append(t, row)[i] = t[i]
  BY <1>1, AppendProperties, LenProperties
<1>3. IsFiniteSet(EventsNamed(t, names)) /\ Len(t) + 1 \notin EventsNamed(t, names)
  <2>1. IsFiniteSet(1 .. Len(t))
    BY <1>1, FS_Interval
  <2>2. EventsNamed(t, names) \subseteq 1 .. Len(t)
    BY <1>1 DEF EventsNamed
  <2> QED  BY <1>1, <2>1, <2>2, FS_Subset
<1>4. EventsNamed(Append(t, row), names) =
          EventsNamed(t, names) \union (IF row.name \in names THEN {Len(t) + 1} ELSE {})
  BY <1>1, <1>2 DEF EventsNamed
<1>5. Cardinality(EventsNamed(t, names)) \in Nat
  BY <1>3, FS_CardinalityType
<1>6. Cardinality(EventsNamed(t, names) \union {Len(t) + 1}) = Cardinality(EventsNamed(t, names)) + 1
  BY <1>3, FS_AddElement
<1>7. Cardinality(EventsNamed(t, names) \union {}) = Cardinality(EventsNamed(t, names))
  OBVIOUS
<1>8. CASE row.name \in names
  BY <1>4, <1>5, <1>6, <1>8
<1>9. CASE row.name \notin names
  BY <1>4, <1>5, <1>7, <1>9
<1> QED  BY <1>8, <1>9

LEMMA Tallies ==
    ASSUME NEW t \in Seq(EventRows), NEW row \in EventRows
    PROVE  /\ Losses(t) \in Nat /\ Gains(t) \in Nat
           /\ Losses(Append(t, row)) = Losses(t) + Loss(row.name)
           /\ Gains(Append(t, row)) = Gains(t) + Gain(row.name)
<1>1. \A names : /\ Cardinality(EventsNamed(t, names)) \in Nat
                 /\ Cardinality(EventsNamed(Append(t, row), names))
                        = Cardinality(EventsNamed(t, names)) + (IF row.name \in names THEN 1 ELSE 0)
  BY NamedAppend
<1>3. row.name \in EventNames
  BY DEF EventRows
<1>4. Losses(Append(t, row)) = Losses(t) + Loss(row.name)
  BY <1>1, <1>3 DEF Losses, Loss, EventNames
<1>5. Gains(Append(t, row)) = Gains(t) + Gain(row.name)
  BY <1>1, <1>3 DEF Gains, Gain, EventNames
<1>6. Losses(t) \in Nat /\ Gains(t) \in Nat
  BY <1>1 DEF Losses, Gains
<1> QED  BY <1>4, <1>5, <1>6

\* Advice as the model states it: the tallies stand for the counts.
LEMMA CountedEvents ==
    ASSUME NEW g
    PROVE  /\ Count(g, {"critic_fail"}) = Losses(events[g])
           /\ Count(g, {"artifact_generated"}) + 2 * Count(g, {"critic_pass"}) = Gains(events[g])
BY DEF Count, Losses, Gains, EventsNamed

\* An event takes a signal no further than its delta, and not at all away from zero.
LEMMA AppliedSignal ==
    ASSUME NEW signal \in SignalRange, NEW name \in EventNames, NEW low \in Nat, NEW high \in Nat,
           Within(signal, low, high)
    PROVE  /\ Applied(signal, name) \in SignalRange
           /\ Within(Applied(signal, name), low + Loss(name), high + Gain(name))
<1> DEFINE d == signal + Delta(name)
<1>1. d \in Int /\ d = signal + Gain(name) - Loss(name) /\ Gain(name) \in {0, 1, 2} /\ Loss(name) \in {0, 1}
      /\ SignalMin \in Int /\ SignalMax \in Int /\ SignalMin <= 0 /\ 0 <= SignalMax /\ signal \in Int
  BY DeltaFacts, FeedbackAssumption DEF Gain, Loss, SignalRange
<1>2. Gain(name) = 0 \/ Loss(name) = 0
  BY DEF Gain, Loss
<1> HIDE DEF d
<1>3. /\ Clamped(d) = IF d < SignalMin THEN SignalMin ELSE IF d > SignalMax THEN SignalMax ELSE d
      /\ Clamped(d) \in SignalRange
  BY <1>1, ClampedFacts
<1>4. Applied(signal, name) = Clamped(d)
  BY DEF Applied, d
<1>5. Clamped(d) \in SignalRange /\ SignalMin <= signal /\ signal <= SignalMax
  BY <1>3 DEF SignalRange
<1> QED  BY <1>1, <1>2, <1>3, <1>4, <1>5 DEF Within
-----------------------------------------------------------------------------
(* Feedback: the invariant is inductive.                                   *)

LEMMA RowForms ==
    ASSUME NEW r \in AdapterStates \union {Resting}
    PROVE  /\ r.at = "off" <=> r = Resting
           /\ r.at = "parent" => r \in AtParent
           /\ r.at = "stored" => r \in AtStored
           /\ r.at = "signal" => r \in AtSignal
           /\ r.at = "counting" => r \in AtCounting
           /\ r.at = "told" => r \in AtTold
           /\ r.at = "checked" => r \in AtChecked
           /\ r # Resting => r.goal \in Goals
BY DEF AdapterStates, Resting, AtParent, AtStored, AtSignal, AtCounting, AtTold, AtChecked

LEMMA EventsOf ==
    ASSUME GoalsTyped, NEW g \in Goals
    PROVE  /\ events[g] \in Seq(EventRows) /\ Len(events[g]) \in Nat
           /\ DOMAIN events[g] = 1 .. Len(events[g]) /\ \A i \in 1 .. Len(events[g]) : events[g][i] \in EventRows
           /\ events[g] = <<>> <=> Len(events[g]) = 0
           /\ CurrentSignal(g) = SignalOf(events[g]) /\ LastGoalArtifact(g) = ArtifactOf(events[g])
           /\ SignalOf(events[g]) \in SignalRange /\ ArtifactOf(events[g]) \in Nat
<1>1. events[g] \in Seq(EventRows)
  BY DEF GoalsTyped
<1>2. /\ Len(events[g]) \in Nat
      /\ DOMAIN events[g] = 1 .. Len(events[g]) /\ \A i \in 1 .. Len(events[g]) : events[g][i] \in EventRows
      /\ events[g] = <<>> <=> Len(events[g]) = 0
  BY <1>1, LenProperties, ElementOfSeq, EmptySeq
<1>3. CurrentSignal(g) = SignalOf(events[g]) /\ LastGoalArtifact(g) = ArtifactOf(events[g])
  BY DEF CurrentSignal, LastGoalArtifact, SignalOf, ArtifactOf, Last
<1>4. 0 \in SignalRange /\ NoArtifact \in Nat
  BY FeedbackAssumption DEF SignalRange, NoArtifact
<1>5. SignalOf(events[g]) \in SignalRange /\ ArtifactOf(events[g]) \in Nat
  BY <1>2, <1>4 DEF SignalOf, ArtifactOf, EventRows
<1> QED  BY <1>1, <1>2, <1>3, <1>5

LEMMA GoalStart == FeedbackInit => GoalInv
<1> SUFFICES ASSUME FeedbackInit PROVE GoalInv
  OBVIOUS
<1>1. \A g \in Goals : events[g] = <<>>
  BY DEF FeedbackInit
<1>2. GoalsTyped
  BY DEF FeedbackInit, GoalsTyped
<1>3. \A a \in Adapters : adapter[a] = Resting /\ Resting.at = "off"
  BY DEF FeedbackInit, Resting
<1>4. RefersToStored
  BY <1>1, <1>3 DEF FeedbackInit, RefersToStored, RefersTo
<1>5. SereneIsCurrent
  BY <1>3 DEF SereneIsCurrent, OnGoal
<1>6. SerenesAddUp
  BY <1>1 DEF FeedbackInit, SerenesAddUp, AddsUp
<1>7. SignalsAreEarned
  BY <1>1, <1>3 DEF SignalsAreEarned, EarnedBy
<1>8. AdviceIsTallied
  BY <1>3 DEF AdviceIsTallied, AdvisedBy
<1> QED  BY <1>2, <1>4, <1>5, <1>6, <1>7, <1>8 DEF GoalInv

\* A step that only moves one process keeps the invariant if what it moves to is right.
LEMMA OneMoves ==
    ASSUME GoalInv, NEW a \in Adapters, NEW r, r \in AdapterStates \union {Resting},
           adapter' = [adapter EXCEPT ![a] = r], serene' \subseteq serene,
           UNCHANGED <<evidence, events, snapshots>>,
           \A g \in serene' : \A b, c \in OnGoal(g)' : b = c,
           RefersTo(r, Len(evidence)),
           r # Resting => /\ r.goal \in serene' => Current(r, evidence, events[r.goal])
                          /\ EarnedBy(r, events[r.goal]) /\ AdvisedBy(r, events[r.goal])
    PROVE  GoalInv'
<1>1. GoalsTyped'
  BY DEF GoalInv, GoalsTyped
<1>2. adapter'[a] = r /\ \A b \in Adapters : b # a => adapter'[b] = adapter[b]
  BY DEF GoalInv, GoalsTyped
<1>3. RefersToStored'
  BY <1>2 DEF GoalInv, RefersToStored
<1>4. SereneIsCurrent'
  <2>1. \A b \in Adapters : adapter'[b] # Resting /\ adapter'[b].goal \in serene' =>
            Current(adapter'[b], evidence, events[adapter'[b].goal])
    BY <1>2 DEF GoalInv, SereneIsCurrent
  <2> QED  BY <2>1 DEF SereneIsCurrent
<1>5. SerenesAddUp'
  BY DEF GoalInv, SerenesAddUp
<1>6. r = Resting => \A t : EarnedBy(r, t) /\ AdvisedBy(r, t)
  BY DEF Resting, EarnedBy, AdvisedBy
<1>7. SignalsAreEarned'
  BY <1>2, <1>6 DEF GoalInv, SignalsAreEarned
<1>8. AdviceIsTallied'
  BY <1>2, <1>6 DEF GoalInv, AdviceIsTallied
<1> QED  BY <1>1, <1>3, <1>4, <1>5, <1>7, <1>8 DEF GoalInv

\* A process that stays on its goal, or leaves it, is alone there if it was.
LEMMA StaysAlone ==
    ASSUME GoalInv, NEW a \in Adapters, NEW r, adapter' = [adapter EXCEPT ![a] = r], serene' = serene,
           adapter[a] # Resting, r = Resting \/ r.goal = adapter[a].goal
    PROVE  /\ \A g \in serene' : \A b, c \in OnGoal(g)' : b = c
           /\ \A b \in Adapters : b # a /\ adapter[b] # Resting /\ adapter[b].goal \in serene =>
                  adapter[b].goal # adapter[a].goal
<1>1. adapter'[a] = r /\ \A b \in Adapters : b # a => adapter'[b] = adapter[b]
  BY DEF GoalInv, GoalsTyped
<1>2. \A g : OnGoal(g)' \subseteq OnGoal(g)
  BY <1>1 DEF OnGoal
<1>3. \A g \in serene : \A b, c \in OnGoal(g) : b = c
  BY DEF GoalInv, SereneIsCurrent
<1>4. \A b \in Adapters : adapter[b] # Resting => b \in OnGoal(adapter[b].goal)
  BY DEF OnGoal
<1>5. \A b \in Adapters : b # a /\ adapter[b] # Resting /\ adapter[b].goal \in serene =>
          adapter[b].goal # adapter[a].goal
  BY <1>3, <1>4
<1> QED  BY <1>2, <1>3, <1>5

\* A process that comes to a goal where another one is takes the goal from the serene ones.
LEMMA ComesAlone ==
    ASSUME GoalInv, NEW a \in Adapters, NEW g \in Goals, NEW r, r # Resting, r.goal = g, BeginRecord(a, g, r)
    PROVE  /\ adapter' = [adapter EXCEPT ![a] = r] /\ serene' \subseteq serene
           /\ \A h \in serene' : \A b, c \in OnGoal(h)' : b = c
<1>1. /\ adapter' = [adapter EXCEPT ![a] = r] /\ serene' \subseteq serene
      /\ g \in serene' => OnGoal(g) = {}
  BY DEF BeginRecord
<1>2. adapter'[a] = r /\ \A b \in Adapters : b # a => adapter'[b] = adapter[b]
  BY <1>1 DEF GoalInv, GoalsTyped
<1>3. \A h : OnGoal(h)' \subseteq IF h = g THEN OnGoal(g) \union {a} ELSE OnGoal(h)
  BY <1>2 DEF OnGoal
<1>4. \A h \in serene : \A b, c \in OnGoal(h) : b = c
  BY DEF GoalInv, SereneIsCurrent
<1>5. ASSUME NEW h \in serene', NEW b \in OnGoal(h)', NEW c \in OnGoal(h)' PROVE b = c
  BY <1>1, <1>3, <1>4, <1>5
<1> QED  BY <1>1, <1>5

LEMMA GoalBegins ==
    ASSUME GoalInv, NEW a \in Adapters, BeginEvent(a) \/ CheckVector(a)
    PROVE  GoalInv'
<1>1. GoalsTyped
  BY DEF GoalInv
<1>2. CASE BeginEvent(a)
  <2>1. PICK g \in Goals, n \in EventNames :
            /\ BeginRecord(a, g, [at |-> "parent", goal |-> g, name |-> n, parent |-> LastGoalArtifact(g)])
            /\ UNCHANGED <<evidence, events, snapshots>>
    BY <1>2 DEF BeginEvent
  <2> DEFINE r == [at |-> "parent", goal |-> g, name |-> n, parent |-> LastGoalArtifact(g)]
  <2>2. LastGoalArtifact(g) = ArtifactOf(events[g]) /\ ArtifactOf(events[g]) \in Nat
    BY <1>1, EventsOf
  <2>3. r \in AdapterStates /\ r # Resting /\ r.goal = g /\ r.at = "parent" /\ r.parent = ArtifactOf(events[g])
    BY <2>2 DEF AdapterStates, AtParent, Resting
  <2>4. ArtifactOf(events[g]) <= Len(evidence)
    <3>1. events[g] # <<>> => events[g][Len(events[g])].artifact <= Len(evidence)
      BY <1>1, EventsOf DEF GoalInv, RefersToStored
    <3>2. Len(evidence) \in Nat
      BY <1>1, LenProperties DEF GoalsTyped
    <3> QED  BY <3>1, <3>2 DEF ArtifactOf, NoArtifact
  <2> HIDE DEF r
  <2>5. RefersTo(r, Len(evidence)) /\ Current(r, evidence, events[r.goal])
        /\ EarnedBy(r, events[r.goal]) /\ AdvisedBy(r, events[r.goal])
    BY <2>3, <2>4 DEF RefersTo, Current, EarnedBy, AdvisedBy
  <2>6. BeginRecord(a, g, r)
    BY <2>1 DEF r
  <2>7. /\ adapter' = [adapter EXCEPT ![a] = r] /\ serene' \subseteq serene
        /\ \A h \in serene' : \A b, c \in OnGoal(h)' : b = c
    BY <2>3, <2>6, ComesAlone
  <2> QED  BY <2>1, <2>3, <2>5, <2>7, OneMoves
<1>3. CASE CheckVector(a)
  <2>1. PICK g \in Goals :
            /\ BeginRecord(a, g, [at |-> "checked", goal |-> g, signal |-> CurrentSignal(g)])
            /\ UNCHANGED <<evidence, events, snapshots>>
    BY <1>3 DEF CheckVector
  <2> DEFINE r == [at |-> "checked", goal |-> g, signal |-> CurrentSignal(g)]
  <2>2. CurrentSignal(g) = SignalOf(events[g]) /\ SignalOf(events[g]) \in SignalRange
    BY <1>1, EventsOf
  <2>3. r \in AdapterStates /\ r # Resting /\ r.goal = g /\ r.at = "checked" /\ r.signal = SignalOf(events[g])
    BY <2>2 DEF AdapterStates, AtChecked, Resting
  <2> HIDE DEF r
  <2>5. RefersTo(r, Len(evidence)) /\ Current(r, evidence, events[r.goal])
        /\ EarnedBy(r, events[r.goal]) /\ AdvisedBy(r, events[r.goal])
    BY <2>3 DEF RefersTo, Current, EarnedBy, AdvisedBy
  <2>6. BeginRecord(a, g, r)
    BY <2>1 DEF r
  <2>7. /\ adapter' = [adapter EXCEPT ![a] = r] /\ serene' \subseteq serene
        /\ \A h \in serene' : \A b, c \in OnGoal(h)' : b = c
    BY <2>3, <2>6, ComesAlone
  <2> QED  BY <2>1, <2>3, <2>5, <2>7, OneMoves
<1> QED  BY <1>2, <1>3

LEMMA GoalLeaves ==
    ASSUME GoalInv, NEW a \in Adapters, Leave(a)
    PROVE  GoalInv'
<1>1. adapter[a] # Resting /\ adapter' = [adapter EXCEPT ![a] = Resting]
      /\ UNCHANGED <<evidence, events, snapshots, serene>>
  BY DEF Leave
<1>2. \A g \in serene' : \A b, c \in OnGoal(g)' : b = c
  BY <1>1, StaysAlone
<1>3. RefersTo(Resting, Len(evidence))
  BY DEF RefersTo, Resting
<1> QED  BY <1>1, <1>2, <1>3, OneMoves

LEMMA GoalReadsSignal ==
    ASSUME GoalInv, NEW a \in Adapters, ReadSignal(a)
    PROVE  GoalInv'
<1> DEFINE o == adapter[a]
           t == events[o.goal]
           r == [at |-> "signal", goal |-> o.goal, name |-> o.name, artifact |-> o.artifact,
                 signal |-> Applied(CurrentSignal(o.goal), o.name)]
<1>1. GoalsTyped
  BY DEF GoalInv
<1>2. o.at = "stored" /\ adapter' = [adapter EXCEPT ![a] = r] /\ UNCHANGED <<evidence, events, snapshots, serene>>
  BY <1>1 DEF ReadSignal, GoalsTyped
<1>3. o \in AtStored /\ o # Resting
  BY <1>1, <1>2, RowForms DEF GoalsTyped, Resting
<1>4. o.goal \in Goals /\ o.name \in EventNames /\ o.artifact \in Nat \ {0}
  BY <1>3 DEF AtStored
<1>5. /\ CurrentSignal(o.goal) = SignalOf(t) /\ SignalOf(t) \in SignalRange
      /\ t \in Seq(EventRows) /\ Len(t) \in Nat /\ DOMAIN t = 1 .. Len(t)
      /\ t = <<>> <=> Len(t) = 0
  BY <1>1, <1>4, EventsOf
<1> HIDE DEF o
<1>6. Losses(t) \in Nat /\ Gains(t) \in Nat
  BY <1>5, TallyTypes
<1>7. Within(SignalOf(t), Losses(t), Gains(t))
  <2>1. t # <<>> => Within(t[Len(t)].signal, Losses(t), Gains(t))
    BY <1>4, <1>5 DEF GoalInv, SignalsAreEarned
  <2> QED  BY <1>6, <2>1 DEF SignalOf, Within
<1>8. /\ Applied(SignalOf(t), o.name) \in SignalRange
      /\ Within(Applied(SignalOf(t), o.name), Losses(t) + Loss(o.name), Gains(t) + Gain(o.name))
  <2> HIDE DEF t
  <2> QED  BY <1>4, <1>5, <1>6, <1>7, AppliedSignal
<1>9. r \in AdapterStates /\ r # Resting /\ r.goal = o.goal /\ r.at = "signal" /\ r.artifact = o.artifact
      /\ r.name = o.name /\ r.signal = Applied(SignalOf(t), o.name)
  BY <1>4, <1>5, <1>8 DEF AdapterStates, AtSignal, Resting
<1>10. RefersTo(o, Len(evidence)) /\ (o.goal \in serene => Current(o, evidence, t))
  BY <1>3 DEF GoalInv, RefersToStored, SereneIsCurrent, o
<1> HIDE DEF r
<1>11. RefersTo(r, Len(evidence)) /\ (o.goal \in serene => Current(r, evidence, t))
  BY <1>2, <1>9, <1>10 DEF RefersTo, Current
<1>12. EarnedBy(r, t) /\ AdvisedBy(r, t)
  BY <1>8, <1>9 DEF EarnedBy, AdvisedBy
<1>13. \A g \in serene' : \A b, c \in OnGoal(g)' : b = c
  BY <1>2, <1>3, <1>9, StaysAlone DEF o
<1> QED  BY <1>2, <1>9, <1>11, <1>12, <1>13, OneMoves

LEMMA AdviceFacts ==
    ASSUME NEW signal \in Int, NEW count \in Nat
    PROVE  /\ Recommendation(signal, count) \in {"EXTINCTION", "MUTATE", "SELECT", "OBSERVE"}
           /\ Recommendation(signal, count) = "EXTINCTION" => count >= ManyEvents /\ signal <= SignalMin
           /\ Recommendation(signal, count) = "MUTATE" => count >= SomeEvents /\ signal < 0
           /\ Recommendation(signal, count) = "SELECT" => signal >= SelectAt
BY DEF Recommendation

LEMMA GoalRecommends ==
    ASSUME GoalInv, NEW a \in Adapters, Recommend(a)
    PROVE  GoalInv'
<1> DEFINE o == adapter[a]
           t == events[o.goal]
           r == [at |-> "told", goal |-> o.goal, advice |-> Recommendation(o.signal, Len(t))]
<1>1. GoalsTyped
  BY DEF GoalInv
<1>2. o.at = "counting" /\ adapter' = [adapter EXCEPT ![a] = r] /\ UNCHANGED <<evidence, events, snapshots, serene>>
  BY <1>1 DEF Recommend, GoalsTyped
<1>3. o \in AtCounting /\ o # Resting
  BY <1>1, <1>2, RowForms DEF GoalsTyped, Resting
<1>4. o.goal \in Goals /\ o.signal \in Int
  BY <1>3, FeedbackAssumption DEF AtCounting, SignalRange
<1>5. Len(t) \in Nat /\ t \in Seq(EventRows) /\ DOMAIN t = 1 .. Len(t)
  BY <1>1, <1>4, EventsOf
<1>6. Losses(t) \in Nat /\ Gains(t) \in Nat
  BY <1>5, TallyTypes
<1>7. Within(o.signal, Losses(t), Gains(t))
  BY <1>2 DEF GoalInv, SignalsAreEarned, EarnedBy
<1> HIDE DEF o
<1>8. /\ Recommendation(o.signal, Len(t)) \in {"EXTINCTION", "MUTATE", "SELECT", "OBSERVE"}
      /\ Recommendation(o.signal, Len(t)) = "EXTINCTION" => Len(t) >= ManyEvents /\ o.signal <= SignalMin
      /\ Recommendation(o.signal, Len(t)) = "MUTATE" => Len(t) >= SomeEvents /\ o.signal < 0
      /\ Recommendation(o.signal, Len(t)) = "SELECT" => o.signal >= SelectAt
  BY <1>4, <1>5, AdviceFacts
<1>9. r \in AdapterStates /\ r # Resting /\ r.goal = o.goal /\ r.at = "told"
      /\ r.advice = Recommendation(o.signal, Len(t))
  BY <1>4, <1>8 DEF AdapterStates, AtTold, Resting
<1> HIDE DEF r, t
<1>10. AdvisedBy(r, t)
  BY <1>4, <1>6, <1>7, <1>8, <1>9, FeedbackAssumption DEF AdvisedBy, Within
<1>11. RefersTo(r, Len(evidence)) /\ Current(r, evidence, t) /\ EarnedBy(r, t)
  BY <1>9 DEF RefersTo, Current, EarnedBy
<1>12. \A g \in serene' : \A b, c \in OnGoal(g)' : b = c
  BY <1>2, <1>3, <1>9, StaysAlone DEF o
<1> QED  BY <1>2, <1>9, <1>10, <1>11, <1>12, OneMoves DEF t

LEMMA GoalKeepsEvidence ==
    ASSUME GoalInv, NEW a \in Adapters, KeepEvidence(a)
    PROVE  GoalInv'
<1> DEFINE o == adapter[a]
           t == events[o.goal]
           row == [goal |-> o.goal, parent |-> o.parent]
           n == Len(evidence)
           r == [at |-> "stored", goal |-> o.goal, name |-> o.name, artifact |-> n + 1]
<1>1. GoalsTyped /\ evidence \in Seq(EvidenceRows)
  BY DEF GoalInv, GoalsTyped
<1>2. o.at = "parent" /\ adapter' = [adapter EXCEPT ![a] = r] /\ evidence' = Append(evidence, row)
      /\ UNCHANGED <<events, snapshots, serene>>
  BY <1>1 DEF KeepEvidence, GoalsTyped
<1>3. o \in AtParent /\ o # Resting
  BY <1>1, <1>2, RowForms DEF GoalsTyped, Resting
<1>4. o.goal \in Goals /\ o.name \in EventNames /\ o.parent \in Nat /\ row \in EvidenceRows
  BY <1>3 DEF AtParent, EvidenceRows
<1> HIDE DEF row
<1>5. /\ n \in Nat /\ DOMAIN evidence = 1 .. n /\ evidence' \in Seq(EvidenceRows)
      /\ Len(evidence') = n + 1 /\ DOMAIN evidence' = 1 .. (n + 1)
      /\ \A i \in 1 .. n : evidence'[i] = evidence[i]
      /\ evidence'[n + 1] = row
  BY <1>1, <1>2, <1>4, LenProperties, AppendProperties
<1>6. r \in AdapterStates /\ r # Resting /\ r.goal = o.goal /\ r.at = "stored" /\ r.artifact = n + 1
  BY <1>4, <1>5 DEF AdapterStates, AtStored, Resting
<1>7. adapter'[a] = r /\ \A b \in Adapters : b # a => adapter'[b] = adapter[b]
  BY <1>1, <1>2 DEF GoalsTyped
<1>8. /\ \A g \in serene' : \A b, c \in OnGoal(g)' : b = c
      /\ \A b \in Adapters : b # a /\ adapter[b] # Resting /\ adapter[b].goal \in serene => adapter[b].goal # o.goal
  BY <1>2, <1>3, <1>6, StaysAlone DEF o
<1>9. RefersTo(o, n) /\ (o.goal \in serene => Current(o, evidence, t))
  BY <1>3 DEF GoalInv, RefersToStored, SereneIsCurrent, o, n
<1>10. o.parent <= n /\ row.parent = o.parent /\ (o.goal \in serene => o.parent = ArtifactOf(t))
  BY <1>2, <1>9 DEF RefersTo, Current, row
<1> HIDE DEF r
<1>11. GoalsTyped'
  <2>1. adapter' \in [Adapters -> AdapterStates \union {Resting}]
    BY <1>1, <1>2, <1>6 DEF GoalsTyped
  <2> QED  BY <1>1, <1>2, <1>5, <2>1 DEF GoalsTyped
<1>12. \A b \in Adapters : RefersTo(adapter[b], n) /\ adapter[b] \in AdapterStates \union {Resting}
  BY <1>1 DEF GoalInv, RefersToStored, GoalsTyped
<1>13. RefersToStored'
  <2>1. ASSUME NEW b \in Adapters PROVE RefersTo(adapter'[b], n + 1)
    <3>1. CASE b = a
      BY <1>5, <1>6, <1>7, <3>1 DEF RefersTo
    <3>2. CASE b # a
      <4>1. /\ adapter[b].at = "parent" => adapter[b].parent \in Nat
            /\ adapter[b].at \in {"stored", "signal"} => adapter[b].artifact \in Nat
        BY <1>12, RowForms DEF AtParent, AtStored, AtSignal
      <4>2. RefersTo(adapter[b], n + 1)
        BY <1>5, <1>12, <4>1 DEF RefersTo
      <4> QED  BY <1>7, <3>2, <4>2
    <3> QED  BY <3>1, <3>2
  <2>2. \A i \in DOMAIN evidence' : evidence'[i].parent < i
    BY <1>4, <1>5, <1>10 DEF GoalInv, RefersToStored
  <2>3. \A g \in Goals : \A i \in DOMAIN events[g] : events[g][i].artifact <= n + 1
    <3> SUFFICES ASSUME NEW g \in Goals, NEW i \in DOMAIN events[g] PROVE events[g][i].artifact <= n + 1
      OBVIOUS
    <3>1. events[g][i] \in EventRows /\ events[g][i].artifact <= n
      BY <1>1, EventsOf DEF GoalInv, RefersToStored
    <3> QED  BY <1>5, <3>1 DEF EventRows
  <2> QED  BY <1>2, <1>5, <2>1, <2>2, <2>3 DEF GoalInv, RefersToStored
<1>14. SereneIsCurrent'
  <2> SUFFICES ASSUME NEW b \in Adapters, adapter'[b] # Resting, adapter'[b].goal \in serene
               PROVE  Current(adapter'[b], evidence', events[adapter'[b].goal])
    BY <1>2, <1>8 DEF SereneIsCurrent
  <2>1. CASE b = a
    BY <1>5, <1>6, <1>7, <1>10, <2>1 DEF Current
  <2>2. CASE b # a
    <3>1. Current(adapter[b], evidence, events[adapter[b].goal])
      BY <1>7, <2>2 DEF GoalInv, SereneIsCurrent
    <3>2. adapter[b].at \in {"stored", "signal"} => adapter[b].artifact \in 1 .. n
      <4>1. adapter[b].at \in {"stored", "signal"} => adapter[b].artifact \in Nat \ {0}
        BY <1>12, RowForms DEF AtStored, AtSignal
      <4> QED  BY <1>5, <1>12, <4>1 DEF RefersTo
    <3> QED  BY <1>5, <1>7, <2>2, <3>1, <3>2 DEF Current
  <2> QED  BY <2>1, <2>2
<1>15. SerenesAddUp'
  <2> SUFFICES ASSUME NEW g \in serene PROVE AddsUp(events[g], evidence')
    BY <1>2 DEF GoalInv, SerenesAddUp
  <2> SUFFICES ASSUME NEW i \in DOMAIN events[g] PROVE evidence'[events[g][i].artifact] = evidence[events[g][i].artifact]
    BY DEF GoalInv, SerenesAddUp, AddsUp
  <2>1. g \in Goals
    BY <1>1 DEF GoalsTyped
  <2>2. events[g][i] \in EventRows /\ events[g][i].artifact <= n
    BY <1>1, <2>1, EventsOf DEF GoalInv, RefersToStored
  <2> QED  BY <1>5, <2>2 DEF EventRows
<1>16. SignalsAreEarned'
  <2>1. \A u : EarnedBy(r, u)
    BY <1>6 DEF EarnedBy
  <2> QED  BY <1>2, <1>7, <2>1 DEF GoalInv, SignalsAreEarned
<1>17. AdviceIsTallied'
  <2>1. \A u : AdvisedBy(r, u)
    BY <1>6 DEF AdvisedBy
  <2> QED  BY <1>2, <1>7, <2>1 DEF GoalInv, AdviceIsTallied
<1> QED  BY <1>11, <1>13, <1>14, <1>15, <1>16, <1>17 DEF GoalInv

\* The signal of a serene goal is what its events amount to.
LEMMA SignalAddsUp ==
    ASSUME GoalInv, NEW g \in serene
    PROVE  SignalOf(events[g]) = AmountOf(events[g], Len(events[g]))
<1> DEFINE t == events[g]
<1>1. g \in Goals /\ GoalsTyped /\ AddsUp(t, evidence)
  BY DEF GoalInv, GoalsTyped, SerenesAddUp
<1>2. t \in Seq(EventRows) /\ Len(t) \in Nat /\ DOMAIN t = 1 .. Len(t) /\ (t = <<>> <=> Len(t) = 0)
  BY <1>1, EventsOf
<1> HIDE DEF t
<1>3. AmountOf(t, 0) = 0
  BY <1>2, AmountRecursion
<1>4. t # <<>> => t[Len(t)].signal = AmountOf(t, Len(t))
  BY <1>1, <1>2 DEF AddsUp
<1> QED  BY <1>2, <1>3, <1>4 DEF SignalOf, t

LEMMA GoalSnapshots ==
    ASSUME GoalInv, NEW a \in Adapters, Snapshot(a)
    PROVE  GoalInv'
<1> DEFINE o == adapter[a]
           t == events[o.goal]
           row == [goal |-> o.goal, signal |-> o.signal, after |-> Len(t)]
           n == Len(snapshots)
<1>1. GoalsTyped /\ snapshots \in Seq(SnapshotRows)
  BY DEF GoalInv, GoalsTyped
<1>2. o.at = "checked" /\ adapter' = [adapter EXCEPT ![a] = Resting] /\ snapshots' = Append(snapshots, row)
      /\ UNCHANGED <<evidence, events, serene>>
  BY DEF Snapshot
<1>3. o \in AtChecked /\ o # Resting
  BY <1>1, <1>2, RowForms DEF GoalsTyped, Resting
<1>4. o.goal \in Goals /\ o.signal \in SignalRange /\ Len(t) \in Nat
  BY <1>1, <1>3, EventsOf DEF AtChecked
<1>5. o.goal \in serene => o.signal = AmountOf(t, Len(t))
  <2>1. o.goal \in serene => o.signal = SignalOf(t)
    BY <1>2, <1>3 DEF GoalInv, SereneIsCurrent, Current
  <2> QED  BY <2>1, SignalAddsUp
<1>6. row \in SnapshotRows /\ row.goal = o.goal /\ row.signal = o.signal /\ row.after = Len(t)
  BY <1>4 DEF SnapshotRows
<1> HIDE DEF row
<1>7. /\ n \in Nat /\ DOMAIN snapshots = 1 .. n /\ snapshots' \in Seq(SnapshotRows)
      /\ DOMAIN snapshots' = 1 .. (n + 1)
      /\ \A i \in 1 .. n : snapshots'[i] = snapshots[i]
      /\ snapshots'[n + 1] = row
  BY <1>1, <1>2, <1>6, LenProperties, AppendProperties
<1>8. adapter'[a] = Resting /\ \A b \in Adapters : b # a => adapter'[b] = adapter[b]
  BY <1>1, <1>2 DEF GoalsTyped
<1>9. \A g \in serene' : \A b, c \in OnGoal(g)' : b = c
  BY <1>2, <1>3, StaysAlone DEF o
<1>10. GoalsTyped'
  BY <1>1, <1>2, <1>7 DEF GoalsTyped
<1>11. \A u, k, rows : RefersTo(Resting, k) /\ EarnedBy(Resting, u) /\ AdvisedBy(Resting, u)
  BY DEF RefersTo, EarnedBy, AdvisedBy, Resting
<1>12. RefersToStored'
  <2>1. \A i \in DOMAIN snapshots' : snapshots'[i].after <= Len(events[snapshots'[i].goal])
    <3> SUFFICES ASSUME NEW i \in 1 .. (n + 1) PROVE snapshots'[i].after <= Len(events[snapshots'[i].goal])
      BY <1>7
    <3>1. CASE i = n + 1
      BY <1>4, <1>6, <1>7, <3>1
    <3>2. CASE i # n + 1
      <4>1. i \in 1 .. n
        BY <1>7, <3>2
      <4> QED  BY <1>7, <4>1 DEF GoalInv, RefersToStored
    <3> QED  BY <3>1, <3>2
  <2>2. \A b \in Adapters : RefersTo(adapter'[b], Len(evidence))
    BY <1>8, <1>11 DEF GoalInv, RefersToStored
  <2> QED  BY <1>2, <2>1, <2>2 DEF GoalInv, RefersToStored
<1>13. SereneIsCurrent'
  <2>1. \A b \in Adapters : adapter'[b] # Resting /\ adapter'[b].goal \in serene =>
            Current(adapter'[b], evidence, events[adapter'[b].goal])
    BY <1>8 DEF GoalInv, SereneIsCurrent
  <2> QED  BY <1>2, <1>9, <2>1 DEF SereneIsCurrent
<1>14. SerenesAddUp'
  <2> SUFFICES ASSUME NEW g \in serene, NEW i \in 1 .. (n + 1), snapshots'[i].goal = g
               PROVE  snapshots'[i].signal = AmountOf(events[g], snapshots'[i].after)
    BY <1>2, <1>7 DEF GoalInv, SerenesAddUp
  <2>1. CASE i = n + 1
    BY <1>5, <1>6, <1>7, <2>1
  <2>2. CASE i # n + 1
    <3>1. i \in 1 .. n
      BY <1>7, <2>2
    <3> QED  BY <1>7, <3>1 DEF GoalInv, SerenesAddUp
  <2> QED  BY <2>1, <2>2
<1>15. SignalsAreEarned'
  BY <1>2, <1>8, <1>11 DEF GoalInv, SignalsAreEarned
<1>16. AdviceIsTallied'
  BY <1>2, <1>8, <1>11 DEF GoalInv, AdviceIsTallied
<1> QED  BY <1>10, <1>12, <1>13, <1>14, <1>15, <1>16 DEF GoalInv

\* More events only add to the tallies.
LEMMA TalliesGrow ==
    ASSUME NEW t \in Seq(EventRows), NEW row \in EventRows
    PROVE  /\ \A signal \in Int : Within(signal, Losses(t), Gains(t)) =>
                  Within(signal, Losses(Append(t, row)), Gains(Append(t, row)))
           /\ \A r \in AdapterStates \union {Resting} :
                  /\ EarnedBy(r, t) => EarnedBy(r, Append(t, row))
                  /\ AdvisedBy(r, t) => AdvisedBy(r, Append(t, row))
<1> DEFINE m == Append(t, row)
<1>1. Losses(t) \in Nat /\ Gains(t) \in Nat /\ Losses(m) = Losses(t) + Loss(row.name)
      /\ Gains(m) = Gains(t) + Gain(row.name)
  BY Tallies
<1>2. Len(t) \in Nat /\ Len(m) = Len(t) + 1
  BY LenProperties, AppendProperties
<1>3. Loss(row.name) \in Nat /\ Gain(row.name) \in Nat
  BY DEF Loss, Gain
<1> HIDE DEF m
<1>4. \A signal \in Int : Within(signal, Losses(t), Gains(t)) => Within(signal, Losses(m), Gains(m))
  BY <1>1, <1>3 DEF Within
<1>5. ASSUME NEW r \in AdapterStates \union {Resting}
      PROVE  (EarnedBy(r, t) => EarnedBy(r, m)) /\ (AdvisedBy(r, t) => AdvisedBy(r, m))
  <2>1. r.at \in {"signal", "counting"} => r.signal \in Int
    BY RowForms, FeedbackAssumption DEF AtSignal, AtCounting, SignalRange
  <2>2. Loss(r.name) \in Nat /\ Gain(r.name) \in Nat
    BY DEF Loss, Gain
  <2>3. EarnedBy(r, t) => EarnedBy(r, m)
    BY <1>1, <1>3, <2>1, <2>2 DEF EarnedBy, Within
  <2>4. AdvisedBy(r, t) => AdvisedBy(r, m)
    BY <1>1, <1>2, <1>3, FeedbackAssumption DEF AdvisedBy
  <2> QED  BY <2>3, <2>4
<1> QED  BY <1>4, <1>5 DEF m

LEMMA GoalAppendsEvent ==
    ASSUME GoalInv, NEW a \in Adapters, AppendEvent(a)
    PROVE  GoalInv'
<1> DEFINE o == adapter[a]
           t == events[o.goal]
           row == [name |-> o.name, signal |-> o.signal, artifact |-> o.artifact]
           m == Append(t, row)
           n == Len(t)
           r == [at |-> "counting", goal |-> o.goal, signal |-> o.signal]
<1>1. GoalsTyped
  BY DEF GoalInv
<1>2. o.at = "signal" /\ adapter' = [adapter EXCEPT ![a] = r] /\ events' = [events EXCEPT ![o.goal] = m]
      /\ UNCHANGED <<evidence, snapshots, serene>>
  BY <1>1 DEF AppendEvent, GoalsTyped
<1>3. o \in AtSignal /\ o # Resting
  BY <1>1, <1>2, RowForms DEF GoalsTyped, Resting
<1>4. o.goal \in Goals /\ o.name \in EventNames /\ o.artifact \in Nat \ {0} /\ o.signal \in SignalRange
      /\ SignalRange \subseteq Int /\ row \in EventRows
  BY <1>3, FeedbackAssumption DEF AtSignal, EventRows, SignalRange
<1>5. /\ t \in Seq(EventRows) /\ n \in Nat /\ DOMAIN t = 1 .. n /\ (t = <<>> <=> n = 0)
      /\ \A i \in 1 .. n : t[i] \in EventRows
  BY <1>1, <1>4, EventsOf
<1>6. row.name = o.name /\ row.signal = o.signal /\ row.artifact = o.artifact
  OBVIOUS
<1>7. RefersTo(o, Len(evidence)) /\ (o.goal \in serene => Current(o, evidence, t)) /\ EarnedBy(o, t)
  BY <1>3 DEF GoalInv, RefersToStored, SereneIsCurrent, SignalsAreEarned, o, t
<1>8. /\ o.artifact <= Len(evidence)
      /\ o.goal \in serene => /\ evidence[o.artifact].parent = ArtifactOf(t)
                              /\ o.signal = Applied(SignalOf(t), o.name)
      /\ Within(o.signal, Losses(t) + Loss(o.name), Gains(t) + Gain(o.name))
  BY <1>2, <1>7 DEF RefersTo, Current, EarnedBy
<1>9. /\ events' \in [Goals -> Seq(EventRows)] /\ events'[o.goal] = m
      /\ \A g \in Goals : g # o.goal => events'[g] = events[g]
      /\ \A g \in Goals : events[g] \in Seq(EventRows)
  <2>1. m \in Seq(EventRows) /\ events \in [Goals -> Seq(EventRows)]
    BY <1>1, <1>4, <1>5, AppendProperties DEF GoalsTyped
  <2> HIDE DEF m
  <2> QED  BY <1>2, <1>4, <2>1
<1>10. r \in AdapterStates /\ r # Resting /\ r.goal = o.goal /\ r.at = "counting" /\ r.signal = o.signal
  BY <1>4 DEF AdapterStates, AtCounting, Resting
<1>11. adapter'[a] = r /\ \A b \in Adapters : b # a => adapter'[b] = adapter[b]
  BY <1>1, <1>2 DEF GoalsTyped
<1>12. /\ \A g \in serene' : \A b, c \in OnGoal(g)' : b = c
       /\ \A b \in Adapters : b # a /\ adapter[b] # Resting /\ adapter[b].goal \in serene => adapter[b].goal # o.goal
  BY <1>2, <1>3, <1>10, StaysAlone DEF o
<1> HIDE DEF row, r
<1>13. /\ Len(m) = n + 1 /\ DOMAIN m = 1 .. (n + 1) /\ m[n + 1] = row /\ \A i \in 1 .. n : m[i] = t[i]
       /\ m # <<>>
  BY <1>4, <1>5, AppendProperties, LenProperties, EmptySeq
<1>14. /\ Losses(m) = Losses(t) + Loss(o.name) /\ Gains(m) = Gains(t) + Gain(o.name)
       /\ Losses(m) \in Nat /\ Gains(m) \in Nat
  BY <1>4, <1>5, <1>6, <1>9, Tallies, TallyTypes
<1>15. /\ \A signal \in Int : Within(signal, Losses(t), Gains(t)) => Within(signal, Losses(m), Gains(m))
       /\ \A s \in AdapterStates \union {Resting} :
              (EarnedBy(s, t) => EarnedBy(s, m)) /\ (AdvisedBy(s, t) => AdvisedBy(s, m))
  BY <1>4, <1>5, TalliesGrow
<1>16. GoalsTyped'
  <2>1. adapter' \in [Adapters -> AdapterStates \union {Resting}]
    BY <1>1, <1>2, <1>10 DEF GoalsTyped
  <2> QED  BY <1>1, <1>2, <1>9, <2>1 DEF GoalsTyped
<1>17. RefersToStored'
  <2>1. \A g \in Goals : \A i \in DOMAIN events'[g] : events'[g][i].artifact <= Len(evidence)
    <3> SUFFICES ASSUME NEW g \in Goals, NEW i \in DOMAIN events'[g] PROVE events'[g][i].artifact <= Len(evidence)
      OBVIOUS
    <3>1. CASE g = o.goal
      <4>1. CASE i = n + 1
        BY <1>6, <1>8, <1>9, <1>13, <3>1, <4>1
      <4>2. CASE i # n + 1
        <5>1. i \in 1 .. n
          BY <1>5, <1>9, <1>13, <3>1, <4>2
        <5> QED  BY <1>5, <1>9, <1>13, <3>1, <5>1 DEF GoalInv, RefersToStored
      <4> QED  BY <4>1, <4>2
    <3>2. CASE g # o.goal
      BY <1>9, <3>2 DEF GoalInv, RefersToStored
    <3> QED  BY <3>1, <3>2
  <2>2. \A i \in DOMAIN snapshots : snapshots[i].after <= Len(events'[snapshots[i].goal])
    <3> SUFFICES ASSUME NEW i \in DOMAIN snapshots PROVE snapshots[i].after <= Len(events'[snapshots[i].goal])
      OBVIOUS
    <3>1. snapshots[i] \in SnapshotRows
      BY <1>1, ElementOfSeq, LenProperties DEF GoalsTyped
    <3>2. snapshots[i].after \in Nat /\ snapshots[i].goal \in Goals
          /\ snapshots[i].after <= Len(events[snapshots[i].goal])
      BY <3>1 DEF SnapshotRows, GoalInv, RefersToStored
    <3>3. CASE snapshots[i].goal = o.goal
      BY <1>5, <1>9, <1>13, <3>2, <3>3
    <3>4. CASE snapshots[i].goal # o.goal
      BY <1>9, <3>2, <3>4
    <3> QED  BY <3>3, <3>4
  <2>3. \A b \in Adapters : RefersTo(adapter'[b], Len(evidence))
    <3>1. RefersTo(r, Len(evidence))
      BY <1>10 DEF RefersTo
    <3> QED  BY <1>11, <3>1 DEF GoalInv, RefersToStored
  <2> QED  BY <1>2, <2>1, <2>2, <2>3 DEF GoalInv, RefersToStored
<1>18. SereneIsCurrent'
  <2> SUFFICES ASSUME NEW b \in Adapters, adapter'[b] # Resting, adapter'[b].goal \in serene
               PROVE  Current(adapter'[b], evidence, events'[adapter'[b].goal])
    BY <1>2, <1>12 DEF SereneIsCurrent
  <2>1. CASE b = a
    BY <1>10, <1>11, <2>1 DEF Current
  <2>2. CASE b # a
    <3>1. adapter[b].goal # o.goal /\ adapter[b].goal \in Goals /\ Current(adapter[b], evidence, events[adapter[b].goal])
      BY <1>1, <1>11, <1>12, <2>2 DEF GoalInv, SereneIsCurrent, GoalsTyped
    <3> QED  BY <1>9, <1>11, <2>2, <3>1
  <2> QED  BY <2>1, <2>2
<1>19. SerenesAddUp'
  <2> SUFFICES ASSUME NEW g \in serene
               PROVE  /\ AddsUp(events'[g], evidence)
                      /\ \A i \in DOMAIN snapshots :
                             snapshots[i].goal = g => snapshots[i].signal = AmountOf(events'[g], snapshots[i].after)
    BY <1>2 DEF SerenesAddUp
  <2>1. g \in Goals /\ AddsUp(events[g], evidence)
        /\ \A i \in DOMAIN snapshots :
               snapshots[i].goal = g => snapshots[i].signal = AmountOf(events[g], snapshots[i].after)
    BY <1>1 DEF GoalInv, GoalsTyped, SerenesAddUp
  <2>2. CASE g # o.goal
    BY <1>9, <2>1, <2>2
  <2>3. CASE g = o.goal
    <3>1. /\ \A k \in 0 .. n : AmountOf(m, k) = AmountOf(t, k)
          /\ AmountOf(m, n + 1) = Applied(AmountOf(t, n), o.name)
      BY <1>4, <1>5, <1>6, AmountOfMore
    <3>2. SignalOf(t) = AmountOf(t, n)
      BY <2>3, SignalAddsUp
    <3>3. AddsUp(m, evidence)
      <4> SUFFICES ASSUME NEW i \in 1 .. (n + 1)
                   PROVE  /\ m[i].signal = AmountOf(m, i)
                          /\ evidence[m[i].artifact].parent = IF i = 1 THEN NoArtifact ELSE m[i - 1].artifact
        BY <1>13 DEF AddsUp
      <4>1. CASE i = n + 1
        <5>1. m[i].signal = AmountOf(m, i)
          BY <1>6, <1>8, <1>13, <2>3, <3>1, <3>2, <4>1
        <5>2. evidence[m[i].artifact].parent = ArtifactOf(t)
          BY <1>6, <1>8, <1>13, <2>3, <4>1
        <5>3. ArtifactOf(t) = IF i = 1 THEN NoArtifact ELSE m[i - 1].artifact
          <6>1. CASE n = 0
            BY <1>5, <4>1, <6>1 DEF ArtifactOf
          <6>2. CASE n # 0
            <7>1. i # 1 /\ i - 1 = n /\ n \in 1 .. n
              BY <1>5, <4>1, <6>2
            <7>2. m[i - 1] = t[n] /\ t # <<>>
              BY <1>5, <1>13, <6>2, <7>1
            <7> QED  BY <7>1, <7>2 DEF ArtifactOf
          <6> QED  BY <6>1, <6>2
        <5> QED  BY <5>1, <5>2, <5>3
      <4>2. CASE i # n + 1
        <5>1. i \in 1 .. n /\ i \in 0 .. n
          BY <1>5, <4>2
        <5>2. /\ t[i].signal = AmountOf(t, i)
              /\ evidence[t[i].artifact].parent = IF i = 1 THEN NoArtifact ELSE t[i - 1].artifact
          BY <1>5, <2>1, <2>3, <5>1 DEF AddsUp
        <5>3. i # 1 => m[i - 1] = t[i - 1]
          BY <1>5, <1>13, <5>1
        <5> QED  BY <1>13, <3>1, <5>1, <5>2, <5>3
      <4> QED  BY <4>1, <4>2
    <3>4. ASSUME NEW i \in DOMAIN snapshots, snapshots[i].goal = g
          PROVE  snapshots[i].signal = AmountOf(m, snapshots[i].after)
      <4>1. snapshots[i] \in SnapshotRows
        BY <1>1, ElementOfSeq, LenProperties DEF GoalsTyped
      <4>2. snapshots[i].after \in 0 .. n
        BY <1>5, <2>3, <3>4, <4>1 DEF SnapshotRows, GoalInv, RefersToStored
      <4> QED  BY <2>1, <2>3, <3>1, <3>4, <4>2
    <3> QED  BY <1>9, <2>3, <3>3, <3>4
  <2> QED  BY <2>2, <2>3
<1>20. SignalsAreEarned'
  <2>1. \A g \in Goals : \A i \in DOMAIN events'[g] : Within(events'[g][i].signal, Losses(events'[g]), Gains(events'[g]))
    <3> SUFFICES ASSUME NEW g \in Goals, NEW i \in DOMAIN events'[g]
                 PROVE  Within(events'[g][i].signal, Losses(events'[g]), Gains(events'[g]))
      OBVIOUS
    <3>1. CASE g = o.goal
      <4>1. CASE i = n + 1
        BY <1>6, <1>8, <1>9, <1>13, <1>14, <3>1, <4>1
      <4>2. CASE i # n + 1
        <5>1. i \in 1 .. n
          BY <1>5, <1>9, <1>13, <3>1, <4>2
        <5>2. Within(t[i].signal, Losses(t), Gains(t)) /\ t[i].signal \in Int
          BY <1>4, <1>5, <5>1 DEF GoalInv, SignalsAreEarned, EventRows
        <5> QED  BY <1>9, <1>13, <1>15, <3>1, <5>1, <5>2
      <4> QED  BY <4>1, <4>2
    <3>2. CASE g # o.goal
      BY <1>9, <3>2 DEF GoalInv, SignalsAreEarned
    <3> QED  BY <3>1, <3>2
  <2>2. ASSUME NEW b \in Adapters PROVE EarnedBy(adapter'[b], events'[adapter'[b].goal])
    <3>1. CASE b = a
      BY <1>8, <1>9, <1>10, <1>11, <1>14, <3>1 DEF EarnedBy
    <3>2. CASE b # a
      <4>1. EarnedBy(adapter[b], events[adapter[b].goal]) /\ adapter[b] \in AdapterStates \union {Resting}
        BY <1>1 DEF GoalInv, SignalsAreEarned, GoalsTyped
      <4>2. CASE adapter[b] = Resting
        BY <1>11, <3>2, <4>2 DEF EarnedBy, Resting
      <4>3. CASE adapter[b] # Resting /\ adapter[b].goal = o.goal
        BY <1>9, <1>11, <1>15, <3>2, <4>1, <4>3
      <4>4. CASE adapter[b] # Resting /\ adapter[b].goal # o.goal
        BY <1>9, <1>11, <3>2, <4>1, <4>4, RowForms
      <4> QED  BY <4>2, <4>3, <4>4
    <3> QED  BY <3>1, <3>2
  <2> QED  BY <2>1, <2>2 DEF SignalsAreEarned
<1>21. AdviceIsTallied'
  <2> SUFFICES ASSUME NEW b \in Adapters PROVE AdvisedBy(adapter'[b], events'[adapter'[b].goal])
    BY DEF AdviceIsTallied
  <2>1. CASE b = a
    BY <1>10, <1>11, <2>1 DEF AdvisedBy
  <2>2. CASE b # a
    <3>1. AdvisedBy(adapter[b], events[adapter[b].goal]) /\ adapter[b] \in AdapterStates \union {Resting}
      BY <1>1 DEF GoalInv, AdviceIsTallied, GoalsTyped
    <3>2. CASE adapter[b] = Resting
      BY <1>11, <2>2, <3>2 DEF AdvisedBy, Resting
    <3>3. CASE adapter[b] # Resting /\ adapter[b].goal = o.goal
      BY <1>9, <1>11, <1>15, <2>2, <3>1, <3>3
    <3>4. CASE adapter[b] # Resting /\ adapter[b].goal # o.goal
      BY <1>9, <1>11, <2>2, <3>1, <3>4, RowForms
    <3> QED  BY <3>2, <3>3, <3>4
  <2> QED  BY <2>1, <2>2
<1> QED  BY <1>16, <1>17, <1>18, <1>19, <1>20, <1>21 DEF GoalInv

LEMMA GoalStep == GoalInv /\ [FeedbackNext]_goalVars => GoalInv'
<1> SUFFICES ASSUME GoalInv, [FeedbackNext]_goalVars PROVE GoalInv'
  OBVIOUS
<1>1. CASE UNCHANGED goalVars
  BY <1>1 DEF goalVars, GoalInv, GoalsTyped, RefersToStored, SereneIsCurrent, OnGoal, SerenesAddUp,
              SignalsAreEarned, AdviceIsTallied
<1>2. CASE FeedbackNext
  BY <1>2, GoalBegins, GoalKeepsEvidence, GoalReadsSignal, GoalAppendsEvent, GoalRecommends, GoalSnapshots,
     GoalLeaves DEF FeedbackNext
<1> QED  BY <1>1, <1>2

LEMMA GoalsCorrect == FeedbackSpec => []GoalInv
<1> QED  BY GoalStart, GoalStep, PTL DEF FeedbackSpec

\* The type invariant of the fitness feedback: what refers to an artifact, an event or a goal refers to one
\* there can be, and every signal is within its bounds.
THEOREM FeedbackTypeCorrect == FeedbackSpec => []FeedbackTypeOK
<1>1. GoalInv => FeedbackTypeOK
  <2> SUFFICES ASSUME GoalInv PROVE FeedbackTypeOK
    OBVIOUS
  <2>1. GoalsTyped
    BY DEF GoalInv
  <2>2. \A i \in DOMAIN evidence : evidence[i].goal \in Goals /\ evidence[i].parent \in 0 .. i - 1
    <3> SUFFICES ASSUME NEW i \in DOMAIN evidence
                 PROVE  evidence[i].goal \in Goals /\ evidence[i].parent \in 0 .. i - 1
      OBVIOUS
    <3>1. evidence[i] \in EvidenceRows /\ i \in Nat
      BY <2>1, ElementOfSeq, LenProperties DEF GoalsTyped
    <3>2. evidence[i].parent < i
      BY DEF GoalInv, RefersToStored
    <3> QED  BY <3>1, <3>2 DEF EvidenceRows
  <2>3. \A g \in Goals : \A i \in DOMAIN events[g] :
            events[g][i].name \in EventNames /\ events[g][i].signal \in SignalMin .. SignalMax
    BY <2>1, EventsOf DEF EventRows, SignalRange
  <2>4. \A a \in Adapters :
            adapter[a] = Resting \/ adapter[a].at \in {"parent", "stored", "signal", "counting", "told", "checked"}
    BY <2>1 DEF GoalsTyped, AdapterStates, AtParent, AtStored, AtSignal, AtCounting, AtTold, AtChecked
  <2> QED  BY <2>1, <2>2, <2>3, <2>4 DEF FeedbackTypeOK, GoalsTyped
<1> QED  BY <1>1, GoalsCorrect, PTL

\* However the processes of a goal interleave and whichever is killed: while no two records of a goal overlap,
\* each event has the signal its events amount to and the artifact of the one before as parent; and what is
\* recommended is on record even where two records raced.
THEOREM FeedbackCorrect == FeedbackSpec => []FeedbackHolds
<1>1. GoalInv => FeedbackHolds
  <2> SUFFICES ASSUME GoalInv PROVE FeedbackHolds
    OBVIOUS
  <2>1. GoalsTyped
    BY DEF GoalInv
  <2>2. \A g, n : Amount(g, n) = AmountOf(events[g], n)
    BY Zenon DEF Amount, AmountOf
  <2>3. SereneGoalAddsUp
    BY <2>2 DEF GoalInv, SerenesAddUp, AddsUp, SereneGoalAddsUp
  <2>4. AdviceIsEarned
    <3> SUFFICES ASSUME NEW a \in Adapters, adapter[a].at = "told"
                 PROVE  LET g == adapter[a].goal
                        IN  CASE adapter[a].advice = "EXTINCTION" ->
                                     Count(g, {"critic_fail"}) >= 0 - SignalMin /\ Len(events[g]) >= ManyEvents
                              [] adapter[a].advice = "MUTATE" ->
                                     Count(g, {"critic_fail"}) >= 1 /\ Len(events[g]) >= SomeEvents
                              [] adapter[a].advice = "SELECT" ->
                                     Count(g, {"artifact_generated"}) + 2 * Count(g, {"critic_pass"}) >= SelectAt
                              [] OTHER -> TRUE
      BY DEF AdviceIsEarned
    <3>1. AdvisedBy(adapter[a], events[adapter[a].goal])
      BY DEF GoalInv, AdviceIsTallied
    <3>2. adapter[a].advice \in {"EXTINCTION", "MUTATE", "SELECT", "OBSERVE"}
      BY <2>1, RowForms DEF GoalsTyped, AtTold
    <3> QED  BY <3>1, <3>2, CountedEvents DEF AdvisedBy
  <2> QED  BY <2>3, <2>4 DEF FeedbackHolds
<1> QED  BY <1>1, GoalsCorrect, PTL
-----------------------------------------------------------------------------
(* Paper trading: fractions.  Worth(p, n, d) says that the fraction p is   *)
(* n/d; sums of fractions are sums of numerators where the denominators    *)
(* are the same.                                                           *)

Fractions == Int \X (Nat \ {0})
Worth(p, n, d) == p[1] * d = n * p[2]

LEMMA Products ==
    ASSUME NEW a \in Int, NEW b \in Int, NEW c \in Int
    PROVE  /\ a * b \in Int /\ a * b = b * a /\ a * (b * c) = (a * b) * c
           /\ (a + b) * c = a * c + b * c /\ (a - b) * c = a * c - b * c
           /\ (-a) * b = -(a * b)
OBVIOUS

LEMMA Positive ==
    ASSUME NEW a \in Nat \ {0}, NEW b \in Nat \ {0}
    PROVE  a * b \in Nat \ {0}
OBVIOUS

LEMMA Cancelled ==
    ASSUME NEW a \in Int, NEW b \in Int, NEW d \in Nat \ {0}, a * d = b * d
    PROVE  a = b
OBVIOUS

LEMMA PlusWorth ==
    ASSUME NEW a \in Fractions, NEW b \in Fractions, NEW n \in Int, NEW m \in Int, NEW d \in Nat \ {0},
           Worth(a, n, d), Worth(b, m, d)
    PROVE  Plus(a, b) \in Fractions /\ Worth(Plus(a, b), n + m, d)
<1> DEFINE a1 == a[1]  a2 == a[2]  b1 == b[1]  b2 == b[2]
<1>1. a1 \in Int /\ a2 \in Nat \ {0} /\ b1 \in Int /\ b2 \in Nat \ {0}
      /\ a1 * d = n * a2 /\ b1 * d = m * b2
  BY DEF Fractions, Worth
<1>2. Plus(a, b) = IF a2 = b2 THEN <<a1 + b1, a2>> ELSE <<a1 * b2 + b1 * a2, a2 * b2>>
  BY DEF Plus
<1> HIDE DEF a1, a2, b1, b2
<1>3. CASE a2 = b2
  <2>1. (a1 + b1) * d = (n + m) * a2
    BY <1>1, <1>3
  <2> QED  BY <1>1, <1>2, <1>3, <2>1 DEF Worth, Fractions
<1>4. CASE a2 # b2
  <2>1. a1 * b2 + b1 * a2 \in Int /\ a2 * b2 \in Nat \ {0}
    BY <1>1, Positive
  <2>2. (a1 * b2) * d = (a1 * d) * b2 /\ (b1 * a2) * d = (b1 * d) * a2
    BY <1>1
  <2>3. (n * a2) * b2 = n * (a2 * b2) /\ (m * b2) * a2 = m * (a2 * b2)
    BY <1>1
  <2>4. (a1 * b2 + b1 * a2) * d = (a1 * b2) * d + (b1 * a2) * d
    BY <1>1
  <2>5. (n + m) * (a2 * b2) = n * (a2 * b2) + m * (a2 * b2)
    BY <1>1
  <2>6. (a1 * b2 + b1 * a2) * d = (n + m) * (a2 * b2)
    BY <1>1, <2>2, <2>3, <2>4, <2>5
  <2> QED  BY <1>2, <1>4, <2>1, <2>6 DEF Worth, Fractions
<1> QED  BY <1>3, <1>4

LEMMA TimesWorth ==
    ASSUME NEW a \in Fractions, NEW k \in Int, NEW n \in Int, NEW d \in Nat \ {0}, Worth(a, n, d)
    PROVE  Times(k, a) \in Fractions /\ Worth(Times(k, a), k * n, d)
<1>1. a[1] \in Int /\ a[2] \in Nat \ {0} /\ a[1] * d = n * a[2]
  BY DEF Fractions, Worth
<1>2. (k * a[1]) * d = k * (a[1] * d) /\ (k * n) * a[2] = k * (n * a[2]) /\ k * a[1] \in Int
  BY <1>1
<1> QED  BY <1>1, <1>2 DEF Worth, Fractions, Times

\* Finer denominators.
LEMMA ScaledWorth ==
    ASSUME NEW a \in Fractions, NEW n \in Int, NEW d \in Nat \ {0}, NEW k \in Nat \ {0}, Worth(a, n, d)
    PROVE  Worth(a, n * k, d * k)
<1>1. a[1] \in Int /\ a[2] \in Nat \ {0} /\ a[1] * d = n * a[2]
  BY DEF Fractions, Worth
<1>2. a[1] * (d * k) = (a[1] * d) * k /\ (n * k) * a[2] = (n * a[2]) * k
  BY <1>1
<1> QED  BY <1>1, <1>2 DEF Worth

\* A fraction is worth its numerator over its denominator, over the denominator of any other, too.
LEMMA OwnWorth ==
    ASSUME NEW a \in Fractions, NEW k \in Nat \ {0}
    PROVE  /\ a[1] \in Int /\ a[2] \in Nat \ {0} /\ Worth(a, a[1], a[2])
           /\ a[1] * k \in Int /\ a[2] * k \in Nat \ {0} /\ Worth(a, a[1] * k, a[2] * k)
<1>1. a[1] \in Int /\ a[2] \in Nat \ {0} /\ Worth(a, a[1], a[2])
  BY DEF Fractions, Worth
<1>2. a[1] * k \in Int /\ a[2] * k \in Nat \ {0}
  BY <1>1, Positive
<1> QED  BY <1>1, <1>2, ScaledWorth

\* What a fraction is worth over the same denominator is one number.
LEMMA OneWorth ==
    ASSUME NEW a \in Fractions, NEW n \in Int, NEW m \in Int, NEW d \in Nat \ {0}, Worth(a, n, d), Worth(a, m, d)
    PROVE  n = m
<1>1. a[2] \in Nat \ {0} /\ n * a[2] = m * a[2]
  BY DEF Fractions, Worth
<1> QED  BY <1>1, Cancelled

LEMMA WholeWorth ==
    ASSUME NEW a \in Fractions, NEW n \in Int, NEW d \in Nat \ {0}
    PROVE  Worth(a, n, 1) <=> Worth(a, n * d, d)
<1>1. a[1] \in Int /\ a[2] \in Nat \ {0} /\ a[1] * 1 = a[1] /\ (n * d) * a[2] = (n * a[2]) * d /\ n * a[2] \in Int
  BY DEF Fractions
<1>2. a[1] * d = (n * a[2]) * d <=> a[1] = n * a[2]
  BY <1>1, Cancelled
<1> QED  BY <1>1, <1>2 DEF Worth
-----------------------------------------------------------------------------
(* Paper trading: the sum of what is held.                                 *)

Held(f) == FoldFunction(Plus, <<0, 1>>, f)
Collects(it, f, S) ==
    it = [T \in SUBSET S |-> IF T = {} THEN <<0, 1>> ELSE Plus(f[First(T)], it[T \ {First(T)}])]

LEMMA HeldDef == ASSUME NEW f PROVE Held(f) = (CHOOSE it : Collects(it, f, DOMAIN f))[DOMAIN f]
BY Zenon DEF Held, FoldFunction, FoldFunctionOnSet, MapThenFoldSet, Collects, First

\* The fold takes some subject first.
LEMMA HeldRecursion ==
    ASSUME NEW S, IsFiniteSet(S), NEW f \in [S -> Fractions]
    PROVE  LET it == CHOOSE h : Collects(h, f, S)
           IN  /\ \A T \in SUBSET S : it[T] \in Fractions
               /\ \A T \in SUBSET S : it[T] = IF T = {} THEN <<0, 1>> ELSE Plus(f[First(T)], it[T \ {First(T)}])
               /\ Held(f) = it[S]
<1> DEFINE x == [T \in SUBSET S |-> First(T)]
           u == [p \in (SUBSET S) \X Fractions |-> Plus(f[First(p[1])], p[2])]
           base == <<0, 1>>
<1>1. \A T \in SUBSET S : T # {} => x[T] \in T /\ x[T] = First(T)
  BY DEF First
<1>2. base \in Fractions
  BY DEF Fractions
<1>3. \A T \in SUBSET S, v \in Fractions : T # {} => u[<<T, v>>] \in Fractions
  <2> SUFFICES ASSUME NEW T \in SUBSET S, NEW v \in Fractions, T # {} PROVE u[<<T, v>>] \in Fractions
    OBVIOUS
  <2>1. f[First(T)] \in Fractions
    BY <1>1
  <2>2. Plus(f[First(T)], v) \in Fractions
    <3> DEFINE a == f[First(T)]
    <3>1. a[1] \in Int /\ a[2] \in Nat \ {0} /\ v[1] \in Int /\ v[2] \in Nat \ {0}
      BY <2>1 DEF Fractions
    <3>2. a[1] * v[2] + v[1] * a[2] \in Int /\ a[2] * v[2] \in Nat \ {0} /\ a[1] + v[1] \in Int
      BY <3>1, Positive
    <3> HIDE DEF a
    <3>3. Plus(a, v) \in Fractions
      BY <3>1, <3>2 DEF Plus, Fractions
    <3> QED  BY <3>3 DEF a
  <2> QED  BY <2>2
<1>4. PICK h \in [SUBSET S -> Fractions] : Solves(h, base, x, u, S)
  <2> HIDE DEF x, u, base
  <2> QED  BY <1>1, <1>2, <1>3, FiniteRecursion
<1>5. Collects(h, f, S)
  <2>1. \A T \in SUBSET S : T # {} => T \ {First(T)} \in SUBSET S /\ u[<<T, h[T \ {First(T)}]>>] = Plus(f[First(T)], h[T \ {First(T)}])
    OBVIOUS
  <2> HIDE DEF x, u
  <2>2. \A T \in SUBSET S : h[T] = IF T = {} THEN <<0, 1>> ELSE Plus(f[First(T)], h[T \ {First(T)}])
    BY <1>1, <1>4, <2>1 DEF Solves
  <2> QED  BY <1>4, <2>2 DEF Collects
<1> DEFINE it == CHOOSE k : Collects(k, f, S)
<1>6. Collects(it, f, S)
  BY <1>5
<1>7. Held(f) = it[S]
  <2>1. DOMAIN f = S
    OBVIOUS
  <2>2. Held(f) = (CHOOSE k : Collects(k, f, DOMAIN f))[DOMAIN f]
    BY HeldDef
  <2> QED  BY <2>1, <2>2
<1> HIDE DEF it
<1>8. \A T \in SUBSET S : it[T] = IF T = {} THEN <<0, 1>> ELSE Plus(f[First(T)], it[T \ {First(T)}])
  BY <1>6 DEF Collects
<1>9. \A T \in SUBSET S : it[T] \in Fractions
  <2> DEFINE C == {T \in SUBSET S : it[T] \notin Fractions}
  <2> SUFFICES ASSUME C # {} PROVE FALSE
    OBVIOUS
  <2>1. PICK T \in C : \A U \in C : U \subseteq T => U = T
    <3>1. C \subseteq SUBSET S
      OBVIOUS
    <3> HIDE DEF C
    <3> QED  BY <3>1, SmallestSubset
  <2>2. T \in SUBSET S /\ T # {} /\ First(T) \in T
    <3>1. it[{}] = base /\ base \in Fractions
      BY <1>2, <1>8
    <3>2. T \in SUBSET S /\ T # {}
      BY <2>1, <3>1
    <3> QED  BY <3>2 DEF First
  <2>3. T \ {First(T)} \in SUBSET S /\ T \ {First(T)} \notin C
    BY <2>1, <2>2
  <2>4. it[T \ {First(T)}] \in Fractions /\ u[<<T, it[T \ {First(T)}]>>] \in Fractions
    <3>1. it[T \ {First(T)}] \in Fractions
      BY <2>3
    <3> HIDE DEF u, C
    <3> QED  BY <1>3, <2>2, <3>1
  <2> QED  BY <1>8, <2>1, <2>2, <2>4
<1> QED  BY <1>7, <1>8, <1>9 DEF it

\* Nothing held is worth nothing.
LEMMA HeldNothing ==
    ASSUME NEW S, IsFiniteSet(S)
    PROVE  Worth(Held([s \in S |-> <<0, 1>>]), 0, 1)
<1> DEFINE f == [s \in S |-> <<0, 1>>]
           it == CHOOSE h : Collects(h, f, S)
<1>0. f \in [S -> Fractions]
  BY DEF Fractions
<1> HIDE DEF f
<1>1. /\ \A T \in SUBSET S : it[T] \in Fractions
      /\ \A T \in SUBSET S : it[T] = IF T = {} THEN <<0, 1>> ELSE Plus(f[First(T)], it[T \ {First(T)}])
      /\ Held(f) = it[S]
  BY <1>0, HeldRecursion
<1> HIDE DEF it
<1> DEFINE C == {T \in SUBSET S : ~ Worth(it[T], 0, 1)}
<1> SUFFICES ASSUME C # {} PROVE FALSE
  BY <1>1 DEF f
<1>2. PICK T \in C : \A U \in C : U \subseteq T => U = T
  <2>1. C \subseteq SUBSET S
    OBVIOUS
  <2> HIDE DEF C
  <2> QED  BY <2>1, SmallestSubset
<1>3. T \in SUBSET S /\ T # {} /\ First(T) \in T
  <2>1. it[{}] = <<0, 1>> /\ Worth(<<0, 1>>, 0, 1)
    BY <1>1 DEF Worth
  <2>2. T \in SUBSET S /\ T # {}
    BY <1>2, <2>1
  <2> QED  BY <2>2 DEF First
<1>4. T \ {First(T)} \in SUBSET S /\ Worth(it[T \ {First(T)}], 0, 1)
  BY <1>2, <1>3
<1>5. Worth(f[First(T)], 0, 1) /\ f[First(T)] \in Fractions
  BY <1>0, <1>3 DEF Worth, f
<1>6. Worth(Plus(f[First(T)], it[T \ {First(T)}]), 0, 1)
  <2>1. 0 \in Int /\ 1 \in Nat \ {0} /\ 0 + 0 = 0
    OBVIOUS
  <2>2. Worth(Plus(f[First(T)], it[T \ {First(T)}]), 0 + 0, 1)
    BY <1>1, <1>4, <1>5, <2>1, PlusWorth
  <2> QED  BY <2>1, <2>2
<1> QED  BY <1>1, <1>2, <1>3, <1>6

\* Two portfolios that differ in one subject differ by what it is worth in each.
LEMMA HeldChange ==
    ASSUME NEW S, IsFiniteSet(S), NEW f \in [S -> Fractions], NEW g \in [S -> Fractions],
           NEW s \in S, \A y \in S : y # s => g[y] = f[y]
    PROVE  /\ Held(f) \in Fractions /\ Held(g) \in Fractions
           /\ \E n, m, u, v \in Int : \E d \in Nat \ {0} :
                  /\ Worth(Held(f), n, d) /\ Worth(Held(g), m, d) /\ Worth(f[s], u, d) /\ Worth(g[s], v, d)
                  /\ m - n = v - u
<1> DEFINE i == CHOOSE h : Collects(h, f, S)
           j == CHOOSE h : Collects(h, g, S)
           Differ(T) == \E n, m, u, v \in Int : \E d \in Nat \ {0} :
                  /\ Worth(i[T], n, d) /\ Worth(j[T], m, d) /\ Worth(f[s], u, d) /\ Worth(g[s], v, d)
                  /\ m - n = v - u
<1>1. /\ \A T \in SUBSET S : i[T] \in Fractions
      /\ \A T \in SUBSET S : i[T] = IF T = {} THEN <<0, 1>> ELSE Plus(f[First(T)], i[T \ {First(T)}])
      /\ Held(f) = i[S]
  BY HeldRecursion
<1>2. /\ \A T \in SUBSET S : j[T] \in Fractions
      /\ \A T \in SUBSET S : j[T] = IF T = {} THEN <<0, 1>> ELSE Plus(g[First(T)], j[T \ {First(T)}])
      /\ Held(g) = j[S]
  BY HeldRecursion
<1> HIDE DEF i, j
<1>3. \A T \in SUBSET S : s \notin T => i[T] = j[T]
  <2> DEFINE C == {T \in SUBSET S : s \notin T /\ i[T] # j[T]}
  <2> SUFFICES ASSUME C # {} PROVE FALSE
    OBVIOUS
  <2>1. PICK T \in C : \A U \in C : U \subseteq T => U = T
    <3>1. C \subseteq SUBSET S
      OBVIOUS
    <3> HIDE DEF C
    <3> QED  BY <3>1, SmallestSubset
  <2>2. T \in SUBSET S /\ T # {} /\ First(T) \in T /\ First(T) # s
    BY <1>1, <1>2, <2>1 DEF First
  <2>3. T \ {First(T)} \in SUBSET S /\ i[T \ {First(T)}] = j[T \ {First(T)}]
    BY <2>1, <2>2
  <2>4. f[First(T)] = g[First(T)]
    BY <2>2
  <2> QED  BY <1>1, <1>2, <2>1, <2>2, <2>3, <2>4
<1>4. \A T \in SUBSET S : s \in T => Differ(T)
  <2> DEFINE C == {T \in SUBSET S : s \in T /\ ~ Differ(T)}
  <2> SUFFICES ASSUME C # {} PROVE FALSE
    OBVIOUS
  <2>1. PICK T \in C : \A U \in C : U \subseteq T => U = T
    <3>1. C \subseteq SUBSET S
      OBVIOUS
    <3> HIDE DEF C
    <3> QED  BY <3>1, SmallestSubset
  <2> DEFINE x == First(T)
             R == T \ {x}
  <2>2. T \in SUBSET S /\ T # {} /\ x \in T /\ R \in SUBSET S /\ R # T /\ s \in T
    BY <2>1 DEF First
  <2>3. f[x] \in Fractions /\ g[x] \in Fractions /\ i[R] \in Fractions /\ j[R] \in Fractions
        /\ f[s] \in Fractions /\ g[s] \in Fractions
        /\ i[T] = Plus(f[x], i[R]) /\ j[T] = Plus(g[x], j[R])
    BY <1>1, <1>2, <2>2
  <2>4. Differ(T)
    <3>1. CASE x = s
      <4> DEFINE w == i[R]
                 d == (w[2] * f[s][2]) * g[s][2]
      <4>1. j[R] = w
        BY <1>3, <2>2, <3>1
      <4>2. PICK a \in Int, b \in Int, c \in Int, e \in Nat \ {0} :
                Worth(w, a, e) /\ Worth(f[s], b, e) /\ Worth(g[s], c, e)
        <5> DEFINE w2 == w[2]
                   f2 == f[s][2]
                   g2 == g[s][2]
        <5>1. w2 \in Nat \ {0} /\ f2 \in Nat \ {0} /\ g2 \in Nat \ {0}
              /\ w[1] \in Int /\ f[s][1] \in Int /\ g[s][1] \in Int
          BY <2>3 DEF Fractions
        <5>2. f2 * g2 \in Nat \ {0} /\ w2 * g2 \in Nat \ {0} /\ w2 * f2 \in Nat \ {0}
          BY <5>1, Positive
        <5>3. /\ w[1] * (f2 * g2) \in Int /\ w2 * (f2 * g2) \in Nat \ {0} /\ Worth(w, w[1] * (f2 * g2), w2 * (f2 * g2))
              /\ f[s][1] * (w2 * g2) \in Int /\ Worth(f[s], f[s][1] * (w2 * g2), f2 * (w2 * g2))
              /\ g[s][1] * (w2 * f2) \in Int /\ Worth(g[s], g[s][1] * (w2 * f2), g2 * (w2 * f2))
          <6> HIDE DEF w
          <6>1. \A a \in Fractions, k \in Nat \ {0} :
                    a[1] * k \in Int /\ a[2] * k \in Nat \ {0} /\ Worth(a, a[1] * k, a[2] * k)
            BY OwnWorth
          <6>2. w \in Fractions
            BY <2>3 DEF w
          <6> QED  BY <2>3, <5>2, <6>1, <6>2
        <5>4. f2 * (w2 * g2) = w2 * (f2 * g2) /\ g2 * (w2 * f2) = w2 * (f2 * g2)
          <6> HIDE DEF w2, f2, g2
          <6> QED  BY <5>1
        <5> HIDE DEF w, w2, f2, g2
        <5> QED  BY <5>3, <5>4
      <4>3. Worth(i[T], b + a, e) /\ Worth(j[T], c + a, e)
        BY <2>3, <3>1, <4>1, <4>2, PlusWorth
      <4>4. b + a \in Int /\ c + a \in Int /\ (c + a) - (b + a) = c - b
        BY <4>2
      <4> QED  BY <4>2, <4>3, <4>4
    <3>2. CASE x # s
      <4>1. Differ(R)
        BY <2>1, <2>2, <3>2
      <4>2. PICK n \in Int, m \in Int, u \in Int, v \in Int, d \in Nat \ {0} :
                /\ Worth(i[R], n, d) /\ Worth(j[R], m, d) /\ Worth(f[s], u, d) /\ Worth(g[s], v, d)
                /\ m - n = v - u
        BY <4>1
      <4> DEFINE h1 == f[x][1]
                 h2 == f[x][2]
      <4>3. h1 \in Int /\ h2 \in Nat \ {0} /\ g[x] = f[x]
        BY <2>2, <2>3, <3>2 DEF Fractions
      <4>4. /\ Worth(f[x], h1 * d, h2 * d) /\ h2 * d = d * h2 /\ d * h2 \in Nat \ {0} /\ h1 * d \in Int
        <5>1. h2 * d = d * h2
          BY <4>3
        <5> QED  BY <2>3, <5>1, OwnWorth
      <4> HIDE DEF h1, h2
      <4>5. /\ Worth(i[R], n * h2, d * h2) /\ Worth(j[R], m * h2, d * h2)
            /\ Worth(f[s], u * h2, d * h2) /\ Worth(g[s], v * h2, d * h2)
        BY <2>3, <4>2, <4>3, ScaledWorth
      <4>6. n * h2 \in Int /\ m * h2 \in Int /\ u * h2 \in Int /\ v * h2 \in Int
        BY <4>3
      <4>7. Worth(i[T], h1 * d + n * h2, d * h2) /\ Worth(j[T], h1 * d + m * h2, d * h2)
        BY <2>3, <4>3, <4>4, <4>5, <4>6, PlusWorth
      <4>8. (h1 * d + m * h2) - (h1 * d + n * h2) = v * h2 - u * h2
        <5>1. (m - n) * h2 = m * h2 - n * h2 /\ (v - u) * h2 = v * h2 - u * h2
          BY <4>3
        <5> QED  BY <4>2, <4>4, <4>6, <5>1
      <4>9. h1 * d + n * h2 \in Int /\ h1 * d + m * h2 \in Int
        BY <4>4, <4>6
      <4> QED  BY <4>4, <4>5, <4>6, <4>7, <4>8, <4>9
    <3> QED  BY <3>1, <3>2
  <2> QED  BY <2>1, <2>4
<1> QED  BY <1>1, <1>2, <1>4
-----------------------------------------------------------------------------
(* Paper trading: what a fill does to the books.                           *)

PaperValue == [s \in Subjects |-> Times(position[s], average[s])]

LEMMA PaperNumbers == ASSUME PaperTypeOK, NEW s \in Subjects
    PROVE  position[s] \in Int /\ average[s] \in Fractions /\ cash \in Int /\ pnl \in Fractions
BY DEF PaperTypeOK, Fractions

LEMMA AbsFacts ==
    ASSUME NEW n \in Int
    PROVE  Abs(n) \in Nat /\ (n >= 0 => Abs(n) = n) /\ (n <= 0 => Abs(n) = -n) /\ (n # 0 => Abs(n) \in Nat \ {0})
BY DEF Abs

\* What a position is worth after a fill is what it was worth, what the pieces cost and the profit on what was closed.
LEMMA FillWorth ==
    ASSUME PaperTypeOK, NEW s \in Subjects, NEW pieces \in Int, NEW at \in Nat
    PROVE  LET n == average[s][1]
               d == average[s][2]
           IN  /\ n \in Int /\ d \in Nat \ {0}
               /\ Realized(s, pieces, at) \in Fractions /\ Averaged(s, pieces, at) \in Fractions
               /\ Worth(Times(position[s], average[s]), position[s] * n, d)
               /\ \E r \in Int :
                      /\ Worth(Realized(s, pieces, at), r, d)
                      /\ Worth(Times(position[s] + pieces, Averaged(s, pieces, at)),
                               position[s] * n + (pieces * at) * d + r, d)
<1> DEFINE n == average[s][1]
           d == average[s][2]
           old == position[s]
           new == old + pieces
           R == Realized(s, pieces, at)
           A == Averaged(s, pieces, at)
           worth == (old * n + (pieces * at) * d)
<1>1. old \in Int /\ new \in Int /\ n \in Int /\ d \in Nat \ {0} /\ average[s] \in Fractions
      /\ Worth(average[s], n, d) /\ pieces * at \in Int
  BY PaperNumbers, OwnWorth
<1>2. Worth(Times(old, average[s]), old * n, d)
  BY <1>1, TimesWorth
<1> DEFINE gap == at * d - n
           G == Plus(<<at, 1>>, Times(-1, average[s]))
<1>3. G \in Fractions /\ Worth(G, gap, d) /\ gap \in Int
  <2>1. Times(-1, average[s]) \in Fractions /\ Worth(Times(-1, average[s]), (-1) * n, d)
    BY <1>1, TimesWorth
  <2>2. <<at, 1>> \in Fractions /\ Worth(<<at, 1>>, at * d, d) /\ at * d \in Int /\ (-1) * n \in Int
    BY <1>1 DEF Fractions, Worth
  <2>3. Worth(G, at * d + (-1) * n, d) /\ G \in Fractions
    BY <1>1, <2>1, <2>2, PlusWorth
  <2> QED  BY <1>1, <2>2, <2>3
<1> HIDE DEF n, d, G
<1>4. CASE old * pieces >= 0
  <2>1. R = <<0, 1>> /\ R \in Fractions /\ Worth(R, 0, d)
    BY <1>1, <1>4 DEF Realized, Fractions, Worth
  <2>2. A \in Fractions /\ Worth(Times(new, A), worth, d)
    <3>1. CASE new = 0
      <4>1. A = <<0, 1>>
        <5>1. ~ (old * new < 0)
          BY <1>1, <3>1
        <5> QED  BY <3>1, <5>1 DEF Averaged
      <4>2. old = 0 /\ pieces = 0
        BY <1>1, <1>4, <3>1
      <4>3. Times(new, A) = <<0, 1>> /\ worth = 0
        BY <1>1, <3>1, <4>1, <4>2 DEF Times
      <4> QED  BY <1>1, <4>1, <4>3 DEF Fractions, Worth
    <3>2. CASE new # 0 /\ (old = 0 \/ old * pieces > 0)
      <4> DEFINE rest == <<Abs(pieces) * at, 1>>
                 whole == Times(Abs(old), average[s])
                 both == Plus(whole, rest)
                 sum == Abs(old) * n + (Abs(pieces) * at) * d
      <4>1. A = <<both[1], both[2] * Abs(new)>>
        <5>1. ~ (old * new < 0)
          <6>1. (old >= 0 /\ pieces >= 0) \/ (old <= 0 /\ pieces <= 0)
            BY <1>1, <3>2
          <6>2. (old >= 0 /\ new >= 0) \/ (old <= 0 /\ new <= 0)
            BY <1>1, <6>1
          <6> HIDE DEF new
          <6> QED  BY <1>1, <6>2
        <5> QED  BY <3>2, <5>1 DEF Averaged
      <4>2. Abs(old) \in Int /\ Abs(pieces) \in Int /\ Abs(new) \in Nat \ {0} /\ Abs(pieces) * at \in Int
            /\ Abs(pieces) \in Nat
        <5>1. Abs(old) \in Int /\ Abs(pieces) \in Nat /\ Abs(new) \in Nat \ {0}
          BY <1>1, <3>2, AbsFacts
        <5> QED  BY <5>1
      <4>3. whole \in Fractions /\ Worth(whole, Abs(old) * n, d)
        BY <1>1, <4>2, TimesWorth
      <4>4. rest \in Fractions /\ Worth(rest, (Abs(pieces) * at) * d, d)
        BY <1>1, <4>2 DEF Fractions, Worth
      <4>5. Abs(old) * n \in Int /\ (Abs(pieces) * at) * d \in Int /\ sum \in Int
        BY <1>1, <4>2
      <4> HIDE DEF whole, rest
      <4>6. both \in Fractions /\ Worth(both, sum, d)
        BY <1>1, <4>3, <4>4, <4>5, PlusWorth
      <4> DEFINE b1 == both[1]
                 b2 == both[2]
      <4>7. b1 \in Int /\ b2 \in Nat \ {0} /\ b1 * d = sum * b2
        BY <4>6 DEF Fractions, Worth
      <4> HIDE DEF both
      <4>8. A \in Fractions
        <5>1. b2 * Abs(new) \in Nat \ {0}
          BY <4>2, <4>7, Positive
        <5> QED  BY <4>1, <4>7, <5>1 DEF Fractions
      <4>9. Times(new, A) = <<new * b1, b2 * Abs(new)>>
        BY <4>1 DEF Times
      <4>10. new * sum = worth * Abs(new)
        <5>1. CASE old >= 0 /\ pieces >= 0
          <6>1. Abs(old) = old /\ Abs(pieces) = pieces /\ Abs(new) = new
            BY <1>1, <5>1, AbsFacts
          <6>2. sum = worth
            BY <6>1
          <6> HIDE DEF sum
          <6> QED  BY <1>1, <4>5, <6>1, <6>2
        <5>2. CASE old <= 0 /\ pieces <= 0
          <6>1. Abs(old) = -old /\ Abs(pieces) = -pieces /\ Abs(new) = -new
            BY <1>1, <5>2, AbsFacts
          <6>2. (-old) * n = -(old * n) /\ (-pieces) * at = -(pieces * at)
                /\ (-(pieces * at)) * d = -((pieces * at) * d)
            BY <1>1
          <6>3. sum = -worth /\ worth \in Int
            BY <1>1, <6>1, <6>2
          <6>4. new * (-worth) = worth * (-new)
            <7> HIDE DEF new, worth
            <7> QED  BY <1>1, <6>3
          <6> QED  BY <6>1, <6>3, <6>4
        <5> QED  BY <1>1, <1>4, <5>1, <5>2
      <4>11. (new * b1) * d = worth * (b2 * Abs(new))
        <5>1. (new * b1) * d = new * (b1 * d) /\ new * (sum * b2) = (new * sum) * b2
              /\ (worth * Abs(new)) * b2 = worth * (b2 * Abs(new))
          <6>1. worth \in Int
            BY <1>1
          <6> HIDE DEF sum, worth, new, b1, b2
          <6> QED  BY <1>1, <4>2, <4>5, <4>7, <6>1
        <5> QED  BY <4>7, <4>10, <5>1
      <4> QED  BY <4>8, <4>9, <4>11 DEF Worth
    <3>3. CASE new # 0 /\ ~ (old = 0 \/ old * pieces > 0)
      <4>1. pieces = 0 /\ old # 0
        BY <1>1, <1>4, <3>3
      <4>2. ~ (old * new < 0) /\ new = old
        BY <1>1, <4>1
      <4>3. A = average[s]
        BY <3>3, <4>2 DEF Averaged
      <4>4. worth = old * n
        BY <1>1, <4>1
      <4> QED  BY <1>1, <1>2, <4>2, <4>3, <4>4
    <3> QED  BY <3>1, <3>2, <3>3
  <2>3. worth + 0 = worth
    BY <1>1
  <2> QED  BY <1>1, <1>2, <2>1, <2>2, <2>3 DEF n, d
<1>5. CASE old * pieces < 0
  <2> DEFINE closing == IF Abs(pieces) < Abs(old) THEN Abs(pieces) ELSE Abs(old)
             sign == IF old > 0 THEN 1 ELSE -1
             closed == sign * closing
             r == closed * gap
  <2>1. Abs(old) \in Nat /\ Abs(pieces) \in Nat /\ closed \in Int /\ r \in Int
    <3>1. Abs(old) \in Nat /\ Abs(pieces) \in Nat
      BY <1>1, AbsFacts
    <3>2. closed \in Int
      BY <3>1
    <3> HIDE DEF closed, gap
    <3> QED  BY <1>3, <3>1, <3>2
  <2>2. R = Times(closed, G)
    BY <1>1, <1>5 DEF Realized, G
  <2>3. R \in Fractions /\ Worth(R, r, d)
    <3> HIDE DEF closed, gap
    <3> QED  BY <1>1, <1>3, <2>1, <2>2, TimesWorth
  <2>4. (old > 0 /\ pieces < 0) \/ (old < 0 /\ pieces > 0)
    BY <1>1, <1>5
  <2>5. A \in Fractions /\ Worth(Times(new, A), worth + r, d)
    <3>1. CASE new = 0
      <4>1. A = <<0, 1>> /\ pieces = -old
        BY <1>1, <3>1 DEF Averaged
      <4>2. closed = old
        BY <1>1, <2>4, <4>1, AbsFacts DEF Abs
      <4>3. Times(new, A) = <<0, 1>>
        BY <3>1, <4>1 DEF Times
      <4>4. worth + r = 0
        <5>1. r = old * (at * d) - old * n /\ (pieces * at) * d = -(old * (at * d)) /\ old * (at * d) \in Int /\ old * n \in Int
          BY <1>1, <4>1, <4>2
        <5> QED  BY <5>1
      <4> QED  BY <1>1, <4>1, <4>3, <4>4 DEF Fractions, Worth
    <3>2. CASE new # 0 /\ old * new < 0
      <4>1. old # 0 /\ ~ (old * pieces > 0)
        BY <1>1, <2>4
      <4>2. A = <<at, 1>> /\ A \in Fractions
        BY <1>1, <3>2, <4>1 DEF Averaged, Fractions
      <4>3. (old > 0 /\ new < 0) \/ (old < 0 /\ new > 0)
        BY <1>1, <3>2
      <4>4. closed = old
        BY <1>1, <2>4, <4>3, AbsFacts DEF Abs
      <4>5. worth + r = (new * at) * d
        <5>1. r = old * (at * d) - old * n /\ (new * at) * d = (old * at) * d + (pieces * at) * d
              /\ (old * at) * d = old * (at * d) /\ old * (at * d) \in Int /\ old * n \in Int
              /\ (pieces * at) * d \in Int
          BY <1>1, <4>4
        <5> QED  BY <5>1
      <4>6. Times(new, A) = <<new * at, 1>>
        BY <4>2 DEF Times
      <4> QED  BY <1>1, <4>2, <4>5, <4>6 DEF Worth
    <3>3. CASE new # 0 /\ ~ (old * new < 0)
      <4>1. old # 0 /\ ~ (old * pieces > 0)
        BY <1>1, <2>4
      <4>2. A = average[s]
        BY <3>3, <4>1 DEF Averaged
      <4>3. (old > 0 /\ new > 0) \/ (old < 0 /\ new < 0)
        BY <1>1, <3>3, <4>1
      <4>4. closed = -pieces
        BY <1>1, <2>4, <4>3, AbsFacts DEF Abs
      <4>5. worth + r = new * n
        <5>1. r = pieces * n - (pieces * at) * d /\ new * n = old * n + pieces * n
              /\ old * n \in Int /\ pieces * n \in Int /\ (pieces * at) * d \in Int
          BY <1>1, <4>4
        <5> QED  BY <5>1
      <4>6. Worth(Times(new, A), new * n, d)
        BY <1>1, <4>2, TimesWorth
      <4> QED  BY <1>1, <4>2, <4>5, <4>6
    <3> QED  BY <3>1, <3>2, <3>3
  <2> HIDE DEF r
  <2> QED  BY <1>1, <1>2, <2>1, <2>3, <2>5 DEF n, d
<1>6. old * pieces \in Int
  BY <1>1
<1> QED  BY <1>4, <1>5, <1>6

\* The books after a fill, with the fee that was paid.
LEMMA BooksKept ==
    ASSUME PaperTypeOK, BooksBalance, NEW s \in Subjects, NEW pieces \in Int, NEW at \in Nat, NEW fee \in Nat,
           cash' = cash - pieces * at - fee,
           position' = [position EXCEPT ![s] = @ + pieces],
           average' = [average EXCEPT ![s] = Averaged(s, pieces, at)],
           pnl' = Plus(pnl, Plus(Realized(s, pieces, at), <<-fee, 1>>))
    PROVE  BooksBalance' /\ average'[s] \in Fractions /\ pnl' \in Fractions
<1> DEFINE f == PaperValue
           g == PaperValue'
           R == Realized(s, pieces, at)
           A == Averaged(s, pieces, at)
           n0 == average[s][1]
           d0 == average[s][2]
           old == position[s]
           paid == pieces * at
           u0 == old * n0
           p1 == pnl[1]
           p2 == pnl[2]
           C == cash - InitialCash
<1>1. /\ position \in [Subjects -> Int] /\ average \in [Subjects -> Fractions] /\ cash \in Int /\ pnl \in Fractions
      /\ IsFiniteSet(Subjects) /\ InitialCash \in Int
  <2>1. position \in [Subjects -> Int] /\ average \in [Subjects -> Fractions] /\ cash \in Int /\ pnl \in Fractions
    BY DEF PaperTypeOK, Fractions
  <2>2. IsFiniteSet(Subjects) /\ InitialCash \in Int
    BY PaperAssumption
  <2> QED  BY <2>1, <2>2
<1>2. /\ n0 \in Int /\ d0 \in Nat \ {0} /\ R \in Fractions /\ A \in Fractions
      /\ Worth(Times(old, average[s]), u0, d0)
  BY FillWorth
<1>3. PICK r0 \in Int : /\ Worth(R, r0, d0)
                        /\ Worth(Times(old + pieces, A), u0 + paid * d0 + r0, d0)
  BY FillWorth
<1>4. /\ position'[s] = old + pieces /\ average'[s] = A
      /\ \A x \in Subjects \ {s} : position'[x] = position[x] /\ average'[x] = average[x]
      /\ position' \in [Subjects -> Int] /\ average' \in [Subjects -> Fractions]
  BY <1>1, <1>2
<1>5. \A k \in Int, a \in Fractions : Times(k, a) \in Fractions
  BY DEF Times, Fractions
<1>6. f \in [Subjects -> Fractions] /\ g \in [Subjects -> Fractions]
  BY <1>1, <1>4, <1>5 DEF PaperValue
<1>7. /\ \A x \in Subjects : x # s => g[x] = f[x]
      /\ f[s] = Times(old, average[s]) /\ g[s] = Times(old + pieces, A)
  BY <1>4 DEF PaperValue
<1>8. BooksBalance <=> C * Plus(Held(f), Times(-1, pnl))[2] + Plus(Held(f), Times(-1, pnl))[1] = 0
  BY Zenon DEF BooksBalance, Held, PaperValue
<1>9. BooksBalance' <=> C' * Plus(Held(g), Times(-1, pnl'))[2] + Plus(Held(g), Times(-1, pnl'))[1] = 0
  BY Zenon DEF BooksBalance, Held, PaperValue
<1> HIDE DEF f, g, R, A, n0, d0, old, paid, u0, p1, p2, C
<1>10. Held(f) \in Fractions /\ Held(g) \in Fractions
  BY <1>1, <1>6, <1>7, HeldChange
<1>11. PICK n \in Int, m \in Int, u \in Int, v \in Int, d \in Nat \ {0} :
           /\ Worth(Held(f), n, d) /\ Worth(Held(g), m, d) /\ Worth(f[s], u, d) /\ Worth(g[s], v, d)
           /\ m - n = v - u
  BY <1>1, <1>6, <1>7, HeldChange
<1>12. p1 \in Int /\ p2 \in Nat \ {0} /\ Worth(pnl, p1, p2) /\ C \in Int /\ old \in Int /\ paid \in Int /\ u0 \in Int
  <2>1. p1 \in Int /\ p2 \in Nat \ {0} /\ Worth(pnl, p1, p2)
    BY <1>1 DEF Fractions, Worth, p1, p2
  <2>2. C \in Int /\ old \in Int /\ paid \in Int
    BY <1>1 DEF C, old, paid
  <2>3. u0 \in Int
    BY <1>2, <2>2 DEF u0
  <2> QED  BY <2>1, <2>2, <2>3
<1> DEFINE D == d * (d0 * p2)
           k1 == d0 * p2
           k2 == d * p2
           k3 == d * d0
<1>13. /\ k1 \in Nat \ {0} /\ k2 \in Nat \ {0} /\ k3 \in Nat \ {0} /\ D \in Nat \ {0}
       /\ d * k1 = D /\ d0 * k2 = D /\ p2 * k3 = D
  <2>1. k1 \in Nat \ {0} /\ k2 \in Nat \ {0} /\ k3 \in Nat \ {0}
    BY <1>2, <1>12, Positive
  <2>2. D \in Nat \ {0}
    BY <2>1, Positive
  <2> QED  BY <1>2, <1>12, <2>1, <2>2
<1> HIDE DEF D, k1, k2, k3
<1> DEFINE N == n * k1
           M == m * k1
           U == u * k1
           V == v * k1
           r == r0 * k2
           b == u0 * k2
           P == p1 * k3
<1>14. /\ N \in Int /\ M \in Int /\ U \in Int /\ V \in Int /\ r \in Int /\ b \in Int /\ P \in Int
       /\ M - N = V - U
  <2>1. (m - n) * k1 = M - N /\ (v - u) * k1 = V - U
    BY <1>13
  <2> QED  BY <1>11, <1>12, <1>13, <2>1
<1>15. /\ Worth(Held(f), N, D) /\ Worth(Held(g), M, D) /\ Worth(f[s], U, D) /\ Worth(g[s], V, D)
       /\ Worth(R, r, D) /\ Worth(f[s], b, D) /\ Worth(pnl, P, D)
  <2>1. \A a \in Fractions, x \in Int, y, k \in Nat \ {0} : Worth(a, x, y) => Worth(a, x * k, y * k)
    BY ScaledWorth
  <2>2. f[s] \in Fractions /\ g[s] \in Fractions
    BY <1>6
  <2>3. /\ Worth(Held(f), N, D) /\ Worth(Held(g), M, D) /\ Worth(f[s], U, D) /\ Worth(g[s], V, D)
    BY <1>10, <1>11, <1>13, <2>1, <2>2
  <2>4. Worth(R, r, D) /\ Worth(f[s], b, D)
    BY <1>2, <1>3, <1>7, <1>12, <1>13, <2>1, <2>2
  <2>5. Worth(pnl, P, D)
    BY <1>1, <1>12, <1>13, <2>1
  <2> QED  BY <2>3, <2>4, <2>5
<1>16. Worth(g[s], b + paid * D + r, D)
  <2> DEFINE w == u0 + paid * d0 + r0
  <2>1. w \in Int /\ Worth(g[s], w, d0) /\ g[s] \in Fractions
    BY <1>2, <1>3, <1>6, <1>7, <1>12
  <2>2. w * k2 = b + paid * D + r
    <3>1. (paid * d0) * k2 = paid * (d0 * k2)
      BY <1>2, <1>12, <1>13
    <3>2. w * k2 = u0 * k2 + (paid * d0) * k2 + r0 * k2
      BY <1>2, <1>12, <1>13
    <3> QED  BY <1>13, <3>1, <3>2
  <2> HIDE DEF w
  <2>3. Worth(g[s], w * k2, d0 * k2)
    BY <1>2, <1>13, <2>1, ScaledWorth
  <2> QED  BY <1>13, <2>2, <2>3
<1> HIDE DEF N, M, U, V, r, b, P
<1>17. paid * D \in Int /\ fee * D \in Int /\ C * D \in Int
  BY <1>12, <1>13
<1>18. M - N = paid * D + r
  <2>1. U = b
    BY <1>6, <1>13, <1>14, <1>15, OneWorth
  <2>2. V = b + paid * D + r
    <3>1. b + paid * D + r \in Int /\ g[s] \in Fractions
      BY <1>6, <1>14, <1>17
    <3> QED  BY <1>13, <1>14, <1>15, <1>16, <3>1, OneWorth
  <2> QED  BY <1>14, <1>17, <2>1, <2>2
<1>19. \A h \in Fractions, q \in Fractions, x, y, c \in Int : Worth(h, x, D) /\ Worth(q, y, D) =>
           (c * Plus(h, Times(-1, q))[2] + Plus(h, Times(-1, q))[1] = 0 <=> x - y = -(c * D))
  <2> SUFFICES ASSUME NEW h \in Fractions, NEW q \in Fractions, NEW x \in Int, NEW y \in Int, NEW c \in Int,
                      Worth(h, x, D), Worth(q, y, D)
               PROVE  c * Plus(h, Times(-1, q))[2] + Plus(h, Times(-1, q))[1] = 0 <=> x - y = -(c * D)
    OBVIOUS
  <2> DEFINE sum == Plus(h, Times(-1, q))
  <2>1. Times(-1, q) \in Fractions /\ Worth(Times(-1, q), (-1) * y, D)
    <3>1. \A k \in Int : Times(k, q) \in Fractions /\ Worth(Times(k, q), k * y, D)
      BY <1>13, TimesWorth
    <3> QED  BY <3>1
  <2>2. sum \in Fractions /\ Worth(sum, x + (-1) * y, D)
    BY <1>13, <2>1, PlusWorth
  <2> HIDE DEF sum
  <2>3. Worth(sum, -c, 1) <=> Worth(sum, (-c) * D, D)
    BY <1>13, <2>2, WholeWorth
  <2>4. (-c) * D = -(c * D) /\ x + (-1) * y = x - y /\ -(c * D) \in Int /\ x - y \in Int
    BY <1>13
  <2>5. Worth(sum, (-c) * D, D) <=> x - y = -(c * D)
    BY <1>13, <2>2, <2>4, OneWorth
  <2>6. Worth(sum, -c, 1) <=> c * sum[2] + sum[1] = 0
    <3>1. sum[1] \in Int /\ sum[2] \in Int /\ (-c) * sum[2] = -(c * sum[2]) /\ sum[1] * 1 = sum[1] /\ c * sum[2] \in Int
      BY <2>2 DEF Fractions
    <3> QED  BY <3>1 DEF Worth
  <2> QED  BY <2>3, <2>5, <2>6 DEF sum
<1>20. N - P = -(C * D)
  BY <1>1, <1>8, <1>10, <1>12, <1>14, <1>15, <1>19
<1>21. pnl' \in Fractions /\ Worth(pnl', P + (r - fee * D), D)
  <2> DEFINE cost == <<-fee, 1>>
  <2>1. cost \in Fractions /\ Worth(cost, -(fee * D), D)
    BY <1>13 DEF Fractions, Worth
  <2> HIDE DEF cost
  <2>2. -(fee * D) \in Int /\ r + (-(fee * D)) = r - fee * D /\ r - fee * D \in Int
    BY <1>14, <1>17
  <2>3. Plus(R, cost) \in Fractions /\ Worth(Plus(R, cost), r + (-(fee * D)), D)
    BY <1>2, <1>13, <1>14, <1>15, <2>1, <2>2, PlusWorth
  <2>4. Plus(pnl, Plus(R, cost)) \in Fractions /\ Worth(Plus(pnl, Plus(R, cost)), P + (r - fee * D), D)
    BY <1>1, <1>13, <1>14, <1>15, <2>2, <2>3, PlusWorth
  <2> QED  BY <2>4 DEF cost, R
<1>22. C' \in Int /\ C' = C - paid - fee
  BY <1>1 DEF C, paid
<1>23. C' * D = C * D - paid * D - fee * D
  <2> HIDE DEF C
  <2> QED  BY <1>12, <1>13, <1>22
<1>24. M - (P + (r - fee * D)) = -(C' * D)
  BY <1>14, <1>17, <1>18, <1>20, <1>23
<1>25. BooksBalance'
  <2>1. P + (r - fee * D) \in Int
    BY <1>14, <1>17
  <2> QED  BY <1>9, <1>10, <1>14, <1>15, <1>19, <1>21, <1>22, <1>24, <2>1
<1> QED  BY <1>2, <1>4, <1>21, <1>25
-----------------------------------------------------------------------------
(* Paper trading: the invariant is inductive.                              *)

LEMMA Quotient ==
    ASSUME NEW a \in Int, NEW b \in Nat \ {0}
    PROVE  a \div b \in Int /\ (a \div b) * b <= a /\ a < (a \div b) * b + b
OBVIOUS

\* A position is worth no more than what it is sized by.
LEMMA SizedPosition ==
    ASSUME NEW notional \in Nat, NEW at \in Nat \ {0}, NEW up \in BOOLEAN
    PROVE  Target(up, notional, at) \in Int /\ Abs(Target(up, notional, at)) * at <= notional
<1> DEFINE n == notional \div at
<1>1. n \in Int /\ n * at <= notional /\ notional < n * at + at
  BY Quotient
<1>2. n >= 0
  <2>1. (n + 1) * at = n * at + at
    BY <1>1
  <2>2. (n + 1) * at > 0
    BY <1>1, <2>1
  <2> HIDE DEF n
  <2>3. n + 1 > 0
    BY <1>1, <2>2
  <2> QED  BY <1>1, <2>3
<1>3. Target(up, notional, at) = IF up THEN n ELSE -n
  BY DEF Target
<1> HIDE DEF n
<1>4. Target(up, notional, at) \in Int /\ Abs(Target(up, notional, at)) = n
  BY <1>1, <1>2, <1>3 DEF Abs
<1> QED  BY <1>1, <1>4

\* A share of the greatest notional is no greater.
LEMMA SharedNotional ==
    ASSUME NEW most \in Int, NEW c \in 1 .. Scale, (most * c) \div Scale > 0
    PROVE  most \in Nat /\ (most * c) \div Scale \in Nat /\ (most * c) \div Scale <= most
<1> DEFINE q == (most * c) \div Scale
<1>1. Scale \in Nat \ {0} /\ c \in Nat \ {0} /\ most * c \in Int
  BY PaperAssumption
<1>2. q \in Int /\ q * Scale <= most * c
  BY <1>1, Quotient
<1>3. q > 0
  OBVIOUS
<1> HIDE DEF q
<1>4. q * Scale > 0
  BY <1>1, <1>2, <1>3
<1>5. most > 0
  BY <1>1, <1>2, <1>4
<1>6. most * c <= most * Scale
  <2>1. Scale - c >= 0 /\ Scale - c \in Int
    BY <1>1
  <2>2. most * (Scale - c) >= 0
    BY <1>5, <2>1
  <2>3. most * (Scale - c) = most * Scale - most * c
    BY <1>1
  <2> QED  BY <1>1, <2>2, <2>3
<1>7. q <= most
  <2> SUFFICES ASSUME q > most PROVE FALSE
    BY <1>2
  <2>1. (q - most) * Scale > 0
    BY <1>1, <1>2
  <2>2. (q - most) * Scale = q * Scale - most * Scale
    BY <1>1, <1>2
  <2> QED  BY <1>1, <1>2, <1>6, <2>1, <2>2
<1> QED  BY <1>2, <1>3, <1>5, <1>7 DEF q

LEMMA PriceOfFill ==
    ASSUME NEW price \in Prices, NEW slip \in Slips, slip <= MaxSlip, NEW buy \in BOOLEAN
    PROVE  FillPrice(price, slip, buy) \in Nat \ {0}
<1>1. price \in Nat \ {0} /\ SlipBase \in Nat \ {0} /\ FeeBase \in Nat \ {0}
      /\ slip \in Int /\ slip < SlipBase /\ -SlipBase < slip
  <2>1. price \in Nat \ {0} /\ SlipBase \in Nat \ {0} /\ FeeBase \in Nat \ {0}
    BY PaperAssumption
  <2>2. slip \in Int /\ -SlipBase < slip /\ MaxSlip < SlipBase /\ MaxSlip \in Int
    BY PaperAssumption
  <2> QED  BY <2>1, <2>2
<1> DEFINE k == IF buy THEN SlipBase + slip ELSE SlipBase - slip
<1>2. k \in Nat \ {0}
  BY <1>1
<1> HIDE DEF k
<1>3. price * k \in Nat \ {0}
  BY <1>1, <1>2, Positive
<1>4. (price * k) * FeeBase \in Nat \ {0}
  BY <1>1, <1>3, Positive
<1> QED  BY <1>4 DEF FillPrice, k

LEMMA FeeType ==
    ASSUME NEW pieces \in Int, NEW at \in Nat
    PROVE  FeeOf(pieces, at) \in Nat
<1>1. FeeBase \in Nat \ {0} /\ Fee \in Nat /\ Abs(pieces) \in Nat
  BY PaperAssumption, AbsFacts
<1>2. at \div FeeBase \in Nat
  <2>1. at \div FeeBase \in Int /\ at < (at \div FeeBase) * FeeBase + FeeBase
    BY <1>1, Quotient
  <2> DEFINE q == at \div FeeBase
  <2>2. (q + 1) * FeeBase > 0 /\ q \in Int
    <3>1. (q + 1) * FeeBase = q * FeeBase + FeeBase
      BY <1>1, <2>1
    <3> QED  BY <1>1, <2>1, <3>1
  <2> HIDE DEF q
  <2>3. q + 1 > 0
    BY <1>1, <2>2
  <2> QED  BY <2>2, <2>3 DEF q
<1>3. Abs(pieces) * (at \div FeeBase) \in Nat
  BY <1>1, <1>2
<1> QED  BY <1>1, <1>3 DEF FeeOf

LEMMA PaperStart == PaperInit => PaperTypeOK /\ BooksBalance /\ RiskIsBounded
<1> SUFFICES ASSUME PaperInit PROVE PaperTypeOK /\ BooksBalance /\ RiskIsBounded
  OBVIOUS
<1>1. IsFiniteSet(Subjects) /\ InitialCash \in Nat \ {0} /\ LossBase \in Nat \ {0}
  BY PaperAssumption
<1>2. PaperTypeOK
  <2>1. readiness \subseteq Conditions /\ stop \in BOOLEAN
    BY Zenon DEF PaperInit
  <2>2. cash \in Int /\ position \in [Subjects -> Int] /\ average \in [Subjects -> Int \X (Nat \ {0})]
        /\ pnl \in Int \X (Nat \ {0})
    BY <1>1 DEF PaperInit
  <2>3. fills \in Seq([signal : Signals, subject : Allowed, pieces : Int, at : Nat, most : Nat])
    BY DEF PaperInit
  <2> QED  BY <2>1, <2>2, <2>3 DEF PaperTypeOK
<1>3. BooksBalance
  <2> DEFINE h == Held(PaperValue)
             sum == Plus(h, Times(-1, pnl))
  <2>1. PaperValue = [s \in Subjects |-> <<0, 1>>]
    BY DEF PaperValue, PaperInit, Times
  <2>2. <<0, 1>> \in Fractions /\ [s \in Subjects |-> <<0, 1>>] \in [Subjects -> Fractions]
    BY DEF Fractions
  <2>3. Worth(h, 0, 1) /\ h \in Fractions
    <3>1. Worth(h, 0, 1)
      BY <1>1, <2>1, HeldNothing
    <3> DEFINE z == [s \in Subjects |-> <<0, 1>>]
               it == CHOOSE k : Collects(k, z, Subjects)
    <3>2. Held(z) = it[Subjects] /\ \A T \in SUBSET Subjects : it[T] \in Fractions
      <4>1. z \in [Subjects -> Fractions]
        BY <2>2
      <4> HIDE DEF z
      <4> QED  BY <1>1, <4>1, HeldRecursion
    <3> QED  BY <2>1, <3>1, <3>2
  <2>4. Times(-1, pnl) = <<0, 1>>
    BY DEF PaperInit, Times
  <2>5. sum \in Fractions /\ Worth(sum, 0, 1)
    <3> HIDE DEF h
    <3>1. Worth(<<0, 1>>, 0, 1) /\ 0 + 0 = 0 /\ 1 \in Nat \ {0} /\ 0 \in Int
      BY DEF Worth
    <3>2. Plus(h, <<0, 1>>) \in Fractions /\ Worth(Plus(h, <<0, 1>>), 0 + 0, 1)
      BY <2>2, <2>3, <3>1, PlusWorth
    <3> QED  BY <2>4, <3>1, <3>2
  <2>6. BooksBalance <=> (cash - InitialCash) * sum[2] + sum[1] = 0
    BY Zenon DEF BooksBalance, Held, PaperValue
  <2> HIDE DEF sum
  <2>7. sum[1] = 0 /\ sum[2] \in Nat
    BY <2>5 DEF Worth, Fractions
  <2>8. cash - InitialCash = 0
    BY <1>1 DEF PaperInit
  <2> QED  BY <2>6, <2>7, <2>8
<1>4. RiskIsBounded
  <2>1. LossLimit \in Int /\ LossLimit >= 0
    <3>1. LossLimit \in Int /\ InitialCash < LossLimit * LossBase + LossBase
      BY <1>1, Quotient DEF LossLimit
    <3>2. (LossLimit + 1) * LossBase = LossLimit * LossBase + LossBase
      BY <1>1, <3>1
    <3>3. LossLimit + 1 > 0
      BY <1>1, <3>1, <3>2
    <3> QED  BY <3>1, <3>3
  <2>2. AtLeast(pnl, -LossLimit) /\ cash >= 0 /\ DOMAIN fills = {}
    BY <1>1, <2>1 DEF PaperInit, AtLeast
  <2> QED  BY <2>2 DEF RiskIsBounded
<1> QED  BY <1>2, <1>3, <1>4

LEMMA PaperStep ==
    ASSUME PaperTypeOK, BooksBalance, RiskIsBounded,
           NEW signal \in Signals, NEW s \in Subjects, NEW up \in BOOLEAN, NEW c \in 1 .. Scale,
           NEW price \in Prices, NEW slip \in Slips, Process(signal, s, up, c, price, slip)
    PROVE  PaperTypeOK' /\ BooksBalance' /\ RiskIsBounded'
<1> DEFINE most == MaxNotional(s, price)
           notional == (most * c) \div Scale
           first == Target(up, notional, price * SlipBase * FeeBase) - position[s]
           at == FillPrice(price, slip, first > 0)
           pieces == Target(up, notional, at) - position[s]
           fee == FeeOf(pieces, at)
           row == [signal |-> signal, subject |-> s, pieces |-> pieces, at |-> at, most |-> most]
           n == Len(fills)
           Rows == [signal : Signals, subject : Allowed, pieces : Int, at : Nat, most : Nat]
<1>1. /\ s \in Allowed /\ slip <= MaxSlip /\ notional > 0
      /\ AtLeast(Plus(pnl, Plus(Realized(s, pieces, at), <<-fee, 1>>)), -LossLimit)
      /\ cash - pieces * at - fee >= 0
      /\ cash' = cash - pieces * at - fee
      /\ position' = [position EXCEPT ![s] = @ + pieces]
      /\ average' = [average EXCEPT ![s] = Averaged(s, pieces, at)]
      /\ pnl' = Plus(pnl, Plus(Realized(s, pieces, at), <<-fee, 1>>))
      /\ fills' = Append(fills, row)
      /\ UNCHANGED <<readiness, stop>>
  BY Zenon DEF Process, Apply
<1>2. most \in Int
  <2>1. Equity(s, price) \in Int
    <3>1. cash \in Int /\ position[s] \in Int /\ price \in Int /\ SlipBase \in Int /\ FeeBase \in Int
      BY PaperAssumption DEF PaperTypeOK
    <3>2. position[s] * price \in Int
      BY <3>1
    <3>3. position[s] * price * SlipBase \in Int
      BY <3>1, <3>2
    <3>4. position[s] * price * SlipBase * FeeBase \in Int
      BY <3>1, <3>3
    <3> QED  BY <3>1, <3>4 DEF Equity
  <2>2. PositionBase \in Nat \ {0}
    BY PaperAssumption
  <2> QED  BY <2>1, <2>2, Quotient DEF MaxNotional
<1> HIDE DEF most
<1>3. most \in Nat /\ notional \in Nat /\ notional <= most
  BY <1>1, <1>2, SharedNotional
<1> HIDE DEF notional
<1>4. at \in Nat \ {0}
  <2>1. (first > 0) \in BOOLEAN
    OBVIOUS
  <2> HIDE DEF first
  <2> QED  BY <1>1, <2>1, PriceOfFill
<1> HIDE DEF first, at
<1>5. Target(up, notional, at) \in Int /\ Abs(Target(up, notional, at)) * at <= notional
  BY <1>3, <1>4, SizedPosition
<1>6. position[s] \in Int /\ pieces \in Int /\ position[s] + pieces = Target(up, notional, at)
  BY <1>5, PaperNumbers
<1>7. Abs(position[s] + pieces) * at <= most
  <2>1. Abs(Target(up, notional, at)) * at \in Int
    BY <1>4, <1>5, AbsFacts
  <2> QED  BY <1>3, <1>5, <1>6, <2>1
<1> HIDE DEF pieces
<1>8. fee \in Nat
  BY <1>4, <1>6, FeeType
<1> HIDE DEF fee
<1>9. BooksBalance' /\ average'[s] \in Fractions /\ pnl' \in Fractions
  BY <1>1, <1>4, <1>6, <1>8, BooksKept
<1>10. fills \in Seq(Rows) /\ row \in Rows
  <2>1. fills \in Seq(Rows)
    BY DEF PaperTypeOK
  <2>2. row \in Rows
    BY <1>1, <1>3, <1>4, <1>6
  <2> QED  BY <2>1, <2>2
<1>11. row.subject = s /\ row.at = at /\ row.most = most
  OBVIOUS
<1> HIDE DEF row, Rows
<1>12. /\ n \in Nat /\ DOMAIN fills = 1 .. n /\ fills' \in Seq(Rows) /\ Len(fills') = n + 1
       /\ DOMAIN fills' = 1 .. (n + 1) /\ fills'[n + 1] = row /\ \A i \in 1 .. n : fills'[i] = fills[i]
  BY <1>1, <1>10, LenProperties, AppendProperties
<1>13. /\ position'[s] = position[s] + pieces /\ position' \in [Subjects -> Int]
       /\ \A x \in Subjects : x # s => position'[x] = position[x] /\ average'[x] = average[x]
       /\ average' \in [Subjects -> Int \X (Nat \ {0})]
  <2>1. position \in [Subjects -> Int] /\ average \in [Subjects -> Fractions]
    BY DEF PaperTypeOK, Fractions
  <2>2. average' \in [Subjects -> Fractions]
    BY <1>1, <1>9, <2>1
  <2> QED  BY <1>1, <1>6, <2>1, <2>2 DEF Fractions
<1>14. PaperTypeOK'
  <2>1. cash \in Int /\ pieces * at \in Int
    BY <1>4, <1>6, PaperNumbers
  <2>2. cash' \in Int
    BY <1>1, <1>8, <2>1
  <2>3. pnl' \in Int \X (Nat \ {0})
    BY <1>9 DEF Fractions
  <2>4. readiness' \subseteq Conditions /\ stop' \in BOOLEAN
    BY <1>1, Zenon DEF PaperTypeOK
  <2> QED  BY <1>12, <1>13, <2>2, <2>3, <2>4 DEF PaperTypeOK, Rows
<1>15. RiskIsBounded'
  <2>1. AtLeast(pnl', -LossLimit') /\ cash' >= 0
    <3>1. LossLimit' = LossLimit
      BY DEF LossLimit
    <3> QED  BY <1>1, <3>1
  <2>2. ASSUME NEW i \in 1 .. (n + 1), \A j \in i + 1 .. n + 1 : fills'[j].subject # fills'[i].subject
        PROVE  Abs(position'[fills'[i].subject]) * fills'[i].at <= fills'[i].most
    <3>1. CASE i = n + 1
      BY <1>7, <1>11, <1>12, <1>13, <3>1
    <3>2. CASE i # n + 1
      <4>1. i \in 1 .. n /\ n + 1 \in i + 1 .. n + 1 /\ fills'[i] = fills[i]
        BY <1>12, <3>2
      <4>2. fills[i].subject # s
        BY <1>11, <1>12, <2>2, <4>1
      <4>3. \A j \in i + 1 .. n : fills[j].subject # fills[i].subject
        <5> SUFFICES ASSUME NEW j \in i + 1 .. n PROVE fills[j].subject # fills[i].subject
          OBVIOUS
        <5>1. j \in 1 .. n /\ j \in i + 1 .. n + 1
          BY <1>12, <4>1
        <5> QED  BY <1>12, <2>2, <4>1, <5>1
      <4>4. Abs(position[fills[i].subject]) * fills[i].at <= fills[i].most
        BY <1>12, <4>1, <4>3 DEF RiskIsBounded
      <4>5. fills[i].subject \in Subjects
        <5>1. fills[i] \in Rows
          BY <1>10, <1>12, <4>1, ElementOfSeq
        <5> QED  BY <5>1, PaperAssumption DEF Rows
      <4> QED  BY <1>13, <4>1, <4>2, <4>4, <4>5
    <3> QED  BY <3>1, <3>2
  <2> QED  BY <1>12, <2>1, <2>2 DEF RiskIsBounded
<1> QED  BY <1>9, <1>14, <1>15

LEMMA PaperKept ==
    PaperTypeOK /\ BooksBalance /\ RiskIsBounded /\ [PaperNext]_paperVars => (PaperTypeOK /\ BooksBalance /\ RiskIsBounded)'
<1> SUFFICES ASSUME PaperTypeOK, BooksBalance, RiskIsBounded, [PaperNext]_paperVars
             PROVE  (PaperTypeOK /\ BooksBalance /\ RiskIsBounded)'
  OBVIOUS
<1>1. CASE PaperNext
  BY <1>1, PaperStep DEF PaperNext
<1>2. CASE UNCHANGED paperVars
  <2>1. PaperTypeOK' /\ RiskIsBounded'
    BY <1>2 DEF paperVars, PaperTypeOK, RiskIsBounded, LossLimit
  <2>2. BooksBalance'
    <3>1. PaperValue' = PaperValue /\ cash' = cash /\ pnl' = pnl
      BY <1>2 DEF paperVars, PaperValue
    <3>2. BooksBalance <=> LET sum == Plus(Held(PaperValue), Times(-1, pnl))
                           IN  (cash - InitialCash) * sum[2] + sum[1] = 0
      BY Zenon DEF BooksBalance, Held, PaperValue
    <3>3. BooksBalance' <=> LET sum == Plus(Held(PaperValue'), Times(-1, pnl'))
                            IN  (cash' - InitialCash) * sum[2] + sum[1] = 0
      BY Zenon DEF BooksBalance, Held, PaperValue
    <3> QED  BY <3>1, <3>2, <3>3
  <2> QED  BY <2>1, <2>2
<1> QED  BY <1>1, <1>2

\* The type invariant of the portfolio: whole pieces of allowed subjects, and fractions with denominators.
THEOREM PaperTypeCorrect == PaperSpec => []PaperTypeOK
BY PaperStart, PaperKept, PTL DEF PaperSpec

\* For any prices, slippages, fees, limits and any order of long and short signals: the books balance to the last
\* unit of account, there is no debt and no loss beyond the limit, and positions are as large as their fills allow.
THEOREM PaperCorrect == PaperSpec => []PaperHolds
<1>1. BooksBalance /\ RiskIsBounded => PaperHolds
  BY DEF PaperHolds
<1> QED  BY <1>1, PaperStart, PaperKept, PTL DEF PaperSpec
-----------------------------------------------------------------------------
(* Who is heard: the type of the artifacts.                                *)

HerdingRows == [sources : (SUBSET Sources) \ {{}}, lineage : SUBSET Nat, voice : Voices, confidence : Confidences]

HerdingInv == items \in Seq(HerdingRows) /\ HerdingTypeOK

LEMMA HerdingStart == HerdingInit => HerdingInv
BY DEF HerdingInit, HerdingInv, HerdingTypeOK

LEMMA HerdingStep == HerdingInv /\ [Contribute]_items => HerdingInv'
<1> SUFFICES ASSUME HerdingInv, Contribute PROVE HerdingInv'
  BY DEF HerdingInv, HerdingTypeOK
<1>1. PICK S \in (SUBSET Sources) \ {{}}, p \in SUBSET (DOMAIN items \union {Elsewhere}), v \in Voiced, c \in Confidences :
          items' = Append(items, [sources |-> S, lineage |-> p, voice |-> v, confidence |-> c])
  BY DEF Contribute
<1> DEFINE row == [sources |-> S, lineage |-> p, voice |-> v, confidence |-> c]
           n == Len(items)
<1>2. n \in Nat /\ DOMAIN items = 1 .. n /\ items \in Seq(HerdingRows)
  BY LenProperties DEF HerdingInv
<1>3. row \in HerdingRows /\ row.lineage \subseteq 0 .. n
  BY <1>2, HerdingAssumption DEF HerdingRows, Elsewhere
<1>4. /\ items' \in Seq(HerdingRows) /\ DOMAIN items' = 1 .. (n + 1) /\ items'[n + 1] = row
      /\ \A i \in 1 .. n : items'[i] = items[i]
  BY <1>1, <1>2, <1>3, AppendProperties, LenProperties
<1>5. HerdingTypeOK'
  <2> SUFFICES ASSUME NEW i \in 1 .. (n + 1)
               PROVE  /\ items'[i].sources \subseteq Sources /\ items'[i].sources # {} /\ items'[i].voice \in Voices
                      /\ items'[i].confidence \in Confidences /\ items'[i].lineage \subseteq 0 .. i - 1
    BY <1>4 DEF HerdingTypeOK
  <2>1. CASE i = n + 1
    <3>1. items'[i] = row /\ i - 1 = n
      BY <1>2, <1>4, <2>1
    <3>2. row.sources = S /\ row.voice = v /\ row.confidence = c
      OBVIOUS
    <3> HIDE DEF row
    <3>3. S \subseteq Sources /\ S # {} /\ v \in Voices /\ c \in Confidences
      BY <1>1, HerdingAssumption
    <3>4. items'[i].lineage \subseteq 0 .. i - 1
      BY <1>3, <3>1
    <3> QED  BY <3>1, <3>2, <3>3, <3>4
  <2>2. CASE i # n + 1
    <3>1. i \in 1 .. n
      BY <1>2, <2>2
    <3> QED  BY <1>2, <1>4, <3>1 DEF HerdingInv, HerdingTypeOK
  <2> QED  BY <2>1, <2>2
<1> QED  BY <1>4, <1>5 DEF HerdingInv

\* The list of artifacts keeps its type: an artifact is derived from earlier ones only.
THEOREM HerdingTypeCorrect == HerdingSpec => []HerdingTypeOK
<1>1. HerdingInv => HerdingTypeOK
  BY DEF HerdingInv
<1> QED  BY <1>1, HerdingStart, HerdingStep, PTL DEF HerdingSpec
-----------------------------------------------------------------------------
(* Who is heard: the steps of a fold over the numbers up to n.             *)

Climbs(f, base, u, n) == \A T \in SUBSET (1 .. n) :
    f[T] = IF T = {} THEN base ELSE u[<<Max(T), f[T \ {Max(T)}]>>]

\* A fold over a sequence of n elements has a value as long as its steps stay in a set.
LEMMA LastFirst ==
    ASSUME NEW n \in Nat, NEW V, NEW base \in V, NEW u, \A i \in 1 .. n, v \in V : u[<<i, v>>] \in V
    PROVE  \E f \in [SUBSET (1 .. n) -> V] : Climbs(f, base, u, n)
<1> DEFINE D == 1 .. n
           x == [T \in SUBSET D |-> Max(T)]
           w == [p \in (SUBSET D) \X V |-> u[<<Max(p[1]), p[2]>>]]
<1>1. IsFiniteSet(D) /\ \A T \in SUBSET D : T # {} => x[T] \in T
  <2>1. IsFiniteSet(D)
    BY FS_Interval
  <2>2. \A T \in SUBSET (1 .. n) : T # {} => Max(T) \in T /\ \A y \in T : Max(T) >= y
    BY GreatestNumber
  <2> QED  BY <2>1, <2>2
<1>2. \A T \in SUBSET D, v \in V : T # {} => w[<<T, v>>] \in V
  <2> SUFFICES ASSUME NEW T \in SUBSET D, NEW v \in V, T # {} PROVE w[<<T, v>>] \in V
    OBVIOUS
  <2>1. Max(T) \in D
    BY <1>1
  <2> QED  BY <2>1
<1>3. PICK f \in [SUBSET D -> V] : Solves(f, base, x, w, D)
  <2> HIDE DEF D, x, w
  <2> QED  BY <1>1, <1>2, FiniteRecursion
<1>4. \A T \in SUBSET D : T # {} => x[T] = Max(T) /\ w[<<T, f[T \ {Max(T)}]>>] = u[<<Max(T), f[T \ {Max(T)}]>>]
  <2> SUFFICES ASSUME NEW T \in SUBSET D, T # {}
               PROVE  x[T] = Max(T) /\ w[<<T, f[T \ {Max(T)}]>>] = u[<<Max(T), f[T \ {Max(T)}]>>]
    OBVIOUS
  <2>1. f[T \ {Max(T)}] \in V
    OBVIOUS
  <2> QED  BY <2>1
<1>5. Climbs(f, base, u, n)
  <2> SUFFICES ASSUME NEW T \in SUBSET D
               PROVE  f[T] = IF T = {} THEN base ELSE u[<<Max(T), f[T \ {Max(T)}]>>]
    BY DEF Climbs
  <2>1. f[T] = IF T = {} THEN base ELSE w[<<T, f[T \ {x[T]}]>>]
    BY <1>3 DEF Solves
  <2> HIDE DEF x, w
  <2> QED  BY <1>4, <2>1
<1> QED  BY <1>5

LEMMA UpTo == ASSUME NEW k \in Nat \ {0} PROVE Max(1 .. k) = k /\ (1 .. k) \ {k} = 1 .. (k - 1)
BY GreatestOfAll

LEMMA ItemFacts ==
    ASSUME HerdingInv
    PROVE  /\ Len(items) \in Nat /\ DOMAIN items = 1 .. Len(items) /\ IsFiniteSet(DOMAIN items)
           /\ \A i \in DOMAIN items :
                 /\ items[i].voice \in Voices /\ items[i].confidence \in Nat
                 /\ items[i].sources # {} /\ Parents(i) \subseteq 1 .. i - 1
<1>1. Len(items) \in Nat /\ DOMAIN items = 1 .. Len(items)
  BY LenProperties DEF HerdingInv
<1>2. IsFiniteSet(DOMAIN items)
  BY <1>1, FS_Interval
<1>3. ASSUME NEW i \in DOMAIN items
      PROVE  /\ items[i].voice \in Voices /\ items[i].confidence \in Nat
             /\ items[i].sources # {} /\ Parents(i) \subseteq 1 .. i - 1
  <2>1. /\ items[i].sources # {} /\ items[i].voice \in Voices
        /\ items[i].confidence \in Confidences /\ items[i].lineage \subseteq 0 .. i - 1
    BY DEF HerdingInv, HerdingTypeOK
  <2>2. Parents(i) \subseteq 1 .. i - 1
    BY <1>1, <2>1 DEF Parents, Elsewhere
  <2> QED  BY <2>1, <2>2, HerdingAssumption
<1> QED  BY <1>1, <1>2, <1>3
-----------------------------------------------------------------------------
(* Who is heard: the sources.                                              *)

Rooted(r, k) == r = [i \in 1 .. k |-> items[i].sources \union UNION {r[j] : j \in Parents(i)}]

LEMMA RootsDef == RootSources = CHOOSE r : r = [i \in DOMAIN items |-> items[i].sources \union UNION {r[j] : j \in Parents(i)}]
BY Zenon DEF RootSources

\* The recursion over the lineage ends, and every artifact has a primary source.
LEMMA RootFacts ==
    ASSUME HerdingInv
    PROVE  DOMAIN RootSources = 1 .. Len(items) /\ \A i \in DOMAIN items : RootSources[i] # {}
<1> DEFINE n == Len(items)
           C == {k \in 0 .. n : ~ \E r : Rooted(r, k)}
<1>1. n \in Nat /\ DOMAIN items = 1 .. n /\ \A i \in 1 .. n : items[i].sources # {} /\ Parents(i) \subseteq 1 .. i - 1
  BY ItemFacts
<1> HIDE DEF n
<1>2. C = {}
  <2> SUFFICES ASSUME C # {} PROVE FALSE
    OBVIOUS
  <2>1. PICK k \in C : \A m \in C : k <= m
    <3>1. C \in SUBSET Nat
      BY <1>1
    <3> HIDE DEF C
    <3> QED  BY <3>1, LeastNumber
  <2>2. k \in 0 .. n /\ ~ \E r : Rooted(r, k)
    BY <2>1
  <2>3. k # 0
    <3> DEFINE none == [i \in 1 .. 0 |-> {}]
    <3>1. none = [i \in 1 .. 0 |-> items[i].sources \union UNION {none[j] : j \in Parents(i)}]
      OBVIOUS
    <3>2. Rooted(none, 0)
      BY <3>1, Zenon DEF Rooted
    <3> QED  BY <2>2, <3>2
  <2>4. k - 1 \in 0 .. n /\ k - 1 < k
    BY <1>1, <2>2, <2>3
  <2>5. PICK r : Rooted(r, k - 1)
    BY <2>1, <2>4
  <2> HIDE DEF C
  <2> DEFINE s == [i \in 1 .. k |-> IF i = k THEN items[k].sources \union UNION {r[j] : j \in Parents(k)} ELSE r[i]]
  <2>6. \A i \in 1 .. k : Parents(i) \subseteq 1 .. (k - 1) /\ \A j \in Parents(i) : s[j] = r[j]
    BY <1>1, <2>2, <2>4
  <2>7. \A i \in 1 .. k : s[i] = items[i].sources \union UNION {s[j] : j \in Parents(i)}
    <3> SUFFICES ASSUME NEW i \in 1 .. k
                 PROVE  s[i] = items[i].sources \union UNION {s[j] : j \in Parents(i)}
      OBVIOUS
    <3>1. {s[j] : j \in Parents(i)} = {r[j] : j \in Parents(i)}
      BY <2>6
    <3>2. i # k => i \in 1 .. (k - 1)
      BY <1>1, <2>2
    <3>3. i # k => r[i] = items[i].sources \union UNION {r[j] : j \in Parents(i)}
      BY <2>5, <3>2 DEF Rooted
    <3>4. s[i] = items[i].sources \union UNION {r[j] : j \in Parents(i)}
      BY <3>3
    <3> HIDE DEF s
    <3> QED  BY <3>1, <3>4
  <2>8. s = [i \in 1 .. k |-> s[i]]
    OBVIOUS
  <2> HIDE DEF s
  <2>9. Rooted(s, k)
    BY <2>7, <2>8 DEF Rooted
  <2> QED  BY <2>2, <2>9
<1>3. \E r : Rooted(r, n)
  BY <1>1, <1>2
<1>4. Rooted(RootSources, n)
  <2>1. RootSources = CHOOSE r : Rooted(r, n)
    BY <1>1, RootsDef, Zenon DEF Rooted
  <2> QED  BY <1>3, <2>1
<1> QED  BY <1>1, <1>4 DEF Rooted, n

\* A set of numbers that is not empty has a least one.
LEMMA LeastOf == ASSUME NEW S \in SUBSET Nat, S # {} PROVE Min(S) \in S /\ \A y \in S : Min(S) <= y
<1>1. \E x \in S : \A y \in S : x <= y
  BY LeastNumber
<1> QED  BY <1>1 DEF Min

\* The owner of a source is the first artifact that has it.
OwnerOf(s) == Min({j \in 1 .. Len(items) : s \in RootSources[j]})

LEMMA OwnerFacts ==
    ASSUME HerdingInv, NEW i \in DOMAIN items
    PROVE  /\ Owners(RootSources, i) = {OwnerOf(s) : s \in RootSources[i]}
           /\ \A s \in RootSources[i] : OwnerOf(s) \in DOMAIN items /\ s \in RootSources[OwnerOf(s)]
<1> DEFINE n == Len(items)
           has(s) == {j \in 1 .. n : s \in RootSources[j]}
           first(s) == {j \in 1 .. i : s \in RootSources[j]}
<1>1. n \in Nat /\ DOMAIN items = 1 .. n /\ i \in 1 .. n
  BY ItemFacts
<1> HIDE DEF n
<1>2. ASSUME NEW s \in RootSources[i]
      PROVE  Min(first(s)) = Min(has(s)) /\ Min(has(s)) \in has(s)
  <2>1. first(s) \in SUBSET Nat /\ i \in first(s) /\ has(s) \in SUBSET Nat /\ i \in has(s) /\ first(s) \subseteq has(s)
    BY <1>1, <1>2
  <2>2. /\ Min(first(s)) \in first(s) /\ \A y \in first(s) : Min(first(s)) <= y
        /\ Min(has(s)) \in has(s) /\ \A y \in has(s) : Min(has(s)) <= y
    <3> HIDE DEF first, has
    <3> QED  BY <2>1, LeastOf
  <2>3. Min(has(s)) <= i /\ Min(has(s)) \in 1 .. n
    BY <2>1, <2>2
  <2>4. Min(has(s)) \in first(s)
    BY <1>1, <2>2, <2>3
  <2>5. Min(first(s)) <= Min(has(s)) /\ Min(has(s)) <= Min(first(s))
    BY <2>1, <2>2, <2>4
  <2> QED  BY <1>1, <2>2, <2>3, <2>5
<1>3. \A s : OwnerOf(s) = Min(has(s))
  BY DEF OwnerOf, n
<1>4. Owners(RootSources, i) = {Min(first(s)) : s \in RootSources[i]}
  BY DEF Owners
<1> QED  BY <1>1, <1>2, <1>3, <1>4
-----------------------------------------------------------------------------
(* Who is heard: the clusters are the connected components.                *)

Numbers == [j \in DOMAIN items |-> j]
Trees == [DOMAIN items -> DOMAIN items]
Old(tree, i) == {tree[j] : j \in Owners(RootSources, i) \union {i}}

\* A union makes one tree of some, and leaves the others alone.
LEMMA MergedFacts ==
    ASSUME HerdingInv, NEW tree \in Trees, NEW i \in DOMAIN items
    PROVE  LET m == Merged(tree, RootSources, i)
           IN  /\ m \in Trees
               /\ \A a, b \in DOMAIN items :
                     m[a] = m[b] <=> tree[a] = tree[b] \/ (tree[a] \in Old(tree, i) /\ tree[b] \in Old(tree, i))
<1> DEFINE old == Old(tree, i)
           m == Merged(tree, RootSources, i)
<1>1. DOMAIN items \in SUBSET Nat /\ DOMAIN tree = DOMAIN items
  BY ItemFacts DEF Trees
<1>2. old \in SUBSET (DOMAIN items) /\ old # {}
  <2>1. \A j \in Owners(RootSources, i) : j \in DOMAIN items
    BY OwnerFacts
  <2> QED  BY <2>1 DEF Old, Trees
<1>3. Min(old) \in old
  <2>1. old \in SUBSET Nat
    BY <1>1, <1>2
  <2> HIDE DEF old
  <2> QED  BY <1>2, <2>1, LeastOf
<1>4. m = [j \in DOMAIN items |-> IF tree[j] \in old THEN Min(old) ELSE tree[j]]
  BY <1>1 DEF Merged, Old
<1> HIDE DEF old, m
<1>5. m \in Trees
  BY <1>2, <1>3, <1>4 DEF Trees
<1>6. \A a, b \in DOMAIN items : m[a] = m[b] <=> tree[a] = tree[b] \/ (tree[a] \in old /\ tree[b] \in old)
  BY <1>3, <1>4
<1> QED  BY <1>5, <1>6 DEF old, m

Merges(it, D) ==
    it = [T \in SUBSET D |-> IF T = {} THEN Numbers
                             ELSE Merged(it[T \ {Max(T)}], RootSources, Numbers[Max(T)])]

LEMMA TreesDef == TreeRoots = (CHOOSE it : Merges(it, DOMAIN Numbers))[DOMAIN Numbers]
BY Zenon DEF TreeRoots, FoldLeft, MapThenFoldSet, Merges, Numbers

\* The trees after each of the artifacts.
LEMMA TreeSteps ==
    ASSUME HerdingInv
    PROVE  \E t : /\ t \in [0 .. Len(items) -> Trees] /\ t[0] = Numbers /\ t[Len(items)] = TreeRoots
                  /\ \A k \in DOMAIN items : t[k] = Merged(t[k - 1], RootSources, k)
<1> DEFINE n == Len(items)
           u == [p \in (1 .. n) \X Trees |-> Merged(p[2], RootSources, p[1])]
<1>1. n \in Nat /\ DOMAIN items = 1 .. n /\ DOMAIN Numbers = 1 .. n /\ Numbers \in Trees
  BY ItemFacts DEF Numbers, Trees
<1> HIDE DEF n
<1>2. \A i \in 1 .. n, v \in Trees : u[<<i, v>>] \in Trees /\ u[<<i, v>>] = Merged(v, RootSources, i)
  BY <1>1, MergedFacts
<1> HIDE DEF u
<1>3. PICK f \in [SUBSET (1 .. n) -> Trees] : Climbs(f, Numbers, u, n)
  BY <1>1, <1>2, LastFirst
<1>4. \A T \in SUBSET (1 .. n) : T # {} => Max(T) \in 1 .. n /\ Numbers[Max(T)] = Max(T)
  BY <1>1, GreatestNumber DEF Numbers
<1>5. Merges(f, 1 .. n)
  <2>1. ASSUME NEW T \in SUBSET (1 .. n)
        PROVE  f[T] = IF T = {} THEN Numbers ELSE Merged(f[T \ {Max(T)}], RootSources, Numbers[Max(T)])
    <3>1. CASE T = {}
      BY <1>3, <3>1 DEF Climbs
    <3>2. CASE T # {}
      <4>1. f[T \ {Max(T)}] \in Trees
        BY <1>3
      <4>2. f[T] = u[<<Max(T), f[T \ {Max(T)}]>>]
        BY <1>3, <3>2 DEF Climbs
      <4> QED  BY <1>2, <1>4, <3>2, <4>1, <4>2
    <3> QED  BY <3>1, <3>2
  <2> QED  BY <1>3, <2>1 DEF Merges
<1> DEFINE it == CHOOSE h : Merges(h, 1 .. n)
<1>6. Merges(it, 1 .. n)
  BY <1>5
<1>7. TreeRoots = it[1 .. n]
  BY <1>1, TreesDef
<1> HIDE DEF it
<1>8. \A T \in SUBSET (1 .. n) :
          it[T] = IF T = {} THEN Numbers ELSE Merged(it[T \ {Max(T)}], RootSources, Numbers[Max(T)])
  BY <1>6 DEF Merges
<1> DEFINE t == [k \in 0 .. n |-> it[1 .. k]]
<1>9. t[0] = Numbers /\ t[n] = TreeRoots
  <2>1. 1 .. 0 = {} /\ {} \in SUBSET (1 .. n)
    OBVIOUS
  <2>2. it[{}] = Numbers
    BY <1>8, <2>1
  <2> QED  BY <1>1, <1>7, <2>1, <2>2
<1>10. \A k \in 1 .. n : t[k] = Merged(t[k - 1], RootSources, k)
  <2> SUFFICES ASSUME NEW k \in 1 .. n PROVE t[k] = Merged(t[k - 1], RootSources, k)
    OBVIOUS
  <2>1. k \in Nat \ {0} /\ 1 .. k \in SUBSET (1 .. n) /\ 1 .. k # {} /\ k \in 0 .. n /\ k - 1 \in 0 .. n
    <3>1. k \in Nat \ {0} /\ k \in 0 .. n /\ k - 1 \in 0 .. n /\ k \in 1 .. k
      BY <1>1
    <3>2. \A y \in 1 .. k : y \in 1 .. n
      BY <1>1
    <3> QED  BY <3>1, <3>2
  <2>2. Max(1 .. k) = k /\ (1 .. k) \ {k} = 1 .. (k - 1) /\ Numbers[k] = k
    BY <1>4, <2>1, UpTo
  <2>3. it[1 .. k] = Merged(it[1 .. (k - 1)], RootSources, k)
    BY <1>8, <2>1, <2>2
  <2> QED  BY <2>1, <2>3
<1>11. t \in [0 .. n -> Trees]
  <2> DEFINE C == {k \in 0 .. n : t[k] \notin Trees}
  <2> SUFFICES ASSUME C # {} PROVE FALSE
    OBVIOUS
  <2>1. PICK k \in C : \A m \in C : k <= m
    <3>1. C \in SUBSET Nat
      BY <1>1
    <3> HIDE DEF C
    <3> QED  BY <3>1, LeastNumber
  <2>2. k \in 0 .. n /\ t[k] \notin Trees
    BY <2>1
  <2>3. k # 0
    BY <1>1, <1>9, <2>2
  <2>4. k \in 1 .. n /\ k - 1 \in 0 .. n /\ k - 1 < k
    BY <1>1, <2>2, <2>3
  <2>5. t[k - 1] \in Trees
    BY <2>1, <2>4
  <2>6. t[k] = Merged(t[k - 1], RootSources, k)
    BY <1>10, <2>4
  <2> HIDE DEF t
  <2>7. Merged(t[k - 1], RootSources, k) \in Trees
    BY <1>1, <2>4, <2>5, MergedFacts
  <2> QED  BY <2>2, <2>6, <2>7
<1> HIDE DEF t
<1> QED  BY <1>1, <1>9, <1>10, <1>11 DEF n

Reaches(it, D) ==
    it = [T \in SUBSET D |-> IF T = {} THEN Near ELSE Through(it[T \ {Max(T)}], Numbers[Max(T)])]

LEMMA ConnectedDef == Connected = (CHOOSE it : Reaches(it, DOMAIN Numbers))[DOMAIN Numbers]
BY Zenon DEF Connected, FoldLeft, MapThenFoldSet, Reaches, Numbers

\* What is connected through the first artifacts.
LEMMA ReachSteps ==
    ASSUME HerdingInv
    PROVE  \E c : /\ c[0] = Near /\ c[Len(items)] = Connected
                  /\ \A k \in DOMAIN items : c[k] = Through(c[k - 1], k)
<1> DEFINE n == Len(items)
           V == SUBSET Pairs
           u == [p \in (1 .. n) \X V |-> Through(p[2], p[1])]
<1>1. n \in Nat /\ DOMAIN items = 1 .. n /\ DOMAIN Numbers = 1 .. n
  BY ItemFacts DEF Numbers
<1>2. Near \in V
  <2>1. DOMAIN RootSources = DOMAIN items
    BY ItemFacts, RootFacts
  <2> QED  BY <2>1 DEF Near
<1> HIDE DEF n
<1>3. \A i \in 1 .. n, v \in V : u[<<i, v>>] \in V /\ u[<<i, v>>] = Through(v, i)
  BY DEF Through
<1> HIDE DEF u, V
<1>4. PICK f \in [SUBSET (1 .. n) -> V] : Climbs(f, Near, u, n)
  BY <1>1, <1>2, <1>3, LastFirst
<1>5. \A T \in SUBSET (1 .. n) : T # {} => Max(T) \in 1 .. n /\ Numbers[Max(T)] = Max(T)
  BY <1>1, GreatestNumber DEF Numbers
<1>6. Reaches(f, 1 .. n)
  <2>1. ASSUME NEW T \in SUBSET (1 .. n)
        PROVE  f[T] = IF T = {} THEN Near ELSE Through(f[T \ {Max(T)}], Numbers[Max(T)])
    <3>1. CASE T = {}
      BY <1>4, <3>1 DEF Climbs
    <3>2. CASE T # {}
      <4>1. f[T \ {Max(T)}] \in V
        BY <1>4
      <4>2. f[T] = u[<<Max(T), f[T \ {Max(T)}]>>]
        BY <1>4, <3>2 DEF Climbs
      <4> QED  BY <1>3, <1>5, <3>2, <4>1, <4>2
    <3> QED  BY <3>1, <3>2
  <2> QED  BY <1>4, <2>1 DEF Reaches
<1> DEFINE it == CHOOSE h : Reaches(h, 1 .. n)
<1>7. Reaches(it, 1 .. n)
  BY <1>6
<1>8. Connected = it[1 .. n]
  BY <1>1, ConnectedDef
<1> HIDE DEF it
<1>9. \A T \in SUBSET (1 .. n) :
          it[T] = IF T = {} THEN Near ELSE Through(it[T \ {Max(T)}], Numbers[Max(T)])
  BY <1>7 DEF Reaches
<1> DEFINE c == [k \in 0 .. n |-> it[1 .. k]]
<1>10. c[0] = Near /\ c[n] = Connected
  <2>1. 1 .. 0 = {} /\ {} \in SUBSET (1 .. n)
    OBVIOUS
  <2>2. it[{}] = Near
    BY <1>9, <2>1
  <2> QED  BY <1>1, <1>8, <2>1, <2>2
<1>11. \A k \in 1 .. n : c[k] = Through(c[k - 1], k)
  <2> SUFFICES ASSUME NEW k \in 1 .. n PROVE c[k] = Through(c[k - 1], k)
    OBVIOUS
  <2>1. k \in Nat \ {0} /\ 1 .. k \in SUBSET (1 .. n) /\ 1 .. k # {} /\ k \in 0 .. n /\ k - 1 \in 0 .. n
    <3>1. k \in Nat \ {0} /\ k \in 0 .. n /\ k - 1 \in 0 .. n /\ k \in 1 .. k
      BY <1>1
    <3>2. \A y \in 1 .. k : y \in 1 .. n
      BY <1>1
    <3> QED  BY <3>1, <3>2
  <2>2. Max(1 .. k) = k /\ (1 .. k) \ {k} = 1 .. (k - 1) /\ Numbers[k] = k
    BY <1>5, <2>1, UpTo
  <2>3. it[1 .. k] = Through(it[1 .. (k - 1)], k)
    BY <1>9, <2>1, <2>2
  <2> QED  BY <2>1, <2>3
<1> HIDE DEF c
<1> QED  BY <1>1, <1>10, <1>11 DEF n

Mutual(R) == \A a, b \in DOMAIN items : <<a, b>> \in R => <<b, a>> \in R
Chained(R, m) == \A a, b \in DOMAIN items : <<a, m>> \in R /\ <<m, b>> \in R => <<a, b>> \in R
Transitive(R) == \A m \in DOMAIN items : Chained(R, m)

\* Whatever of the first k artifacts two others are connected through, they are connected.
Linked(R, k) == R \subseteq Pairs /\ Near \subseteq R /\ Mutual(R) /\ \A m \in 1 .. k : Chained(R, m)

LEMMA ThroughLinks ==
    ASSUME HerdingInv, NEW k \in DOMAIN items, NEW R, Linked(R, k - 1)
    PROVE  Linked(Through(R, k), k)
<1> DEFINE N == DOMAIN items
           S == Through(R, k)
<1>1. N \in SUBSET Nat /\ k \in Nat /\ N = 1 .. Len(items) /\ Len(items) \in Nat
  BY ItemFacts
<1>2. \A a, b \in N : <<a, b>> \in S <=> <<a, b>> \in R \/ (<<a, k>> \in R /\ <<k, b>> \in R)
  BY DEF Through, Pairs
<1>3. S \subseteq Pairs /\ Near \subseteq S
  BY DEF Linked, Through
<1> HIDE DEF N, S
<1>4. Mutual(S)
  BY <1>2, Zenon DEF Mutual, Linked, N
<1>5. ASSUME NEW m \in 1 .. k PROVE Chained(S, m)
  <2>1. m \in N
    BY <1>1 DEF N
  <2> SUFFICES ASSUME NEW a \in N, NEW b \in N, <<a, m>> \in S, <<m, b>> \in S PROVE <<a, b>> \in S
    BY DEF Chained, N
  <2>2. CASE m = k
    <3>1. <<a, k>> \in R /\ <<k, b>> \in R
      BY <1>2, <2>1, <2>2
    <3> QED  BY <1>2, <3>1
  <2>3. CASE m # k
    <3>1. m \in 1 .. (k - 1)
      BY <1>1, <2>3
    <3>2. \A x, y \in N : <<x, m>> \in R /\ <<m, y>> \in R => <<x, y>> \in R
      BY <3>1 DEF Linked, Chained, N
    <3>3. k \in N
      BY DEF N
    <3> QED  BY <1>2, <2>1, <3>2, <3>3
  <2> QED  BY <2>2, <2>3
<1> QED  BY <1>3, <1>4, <1>5 DEF Linked, S

LEMMA NearFacts ==
    ASSUME HerdingInv
    PROVE  /\ Linked(Near, 0)
           /\ \A a, b \in DOMAIN items :
                 <<a, b>> \in Near <=> \E s \in RootSources[a] : s \in RootSources[b]
<1>1. DOMAIN RootSources = DOMAIN items
  BY ItemFacts, RootFacts
<1>2. \A a, b \in DOMAIN items : <<a, b>> \in Near <=> \E s \in RootSources[a] : s \in RootSources[b]
  BY DEF Near, Pairs
<1>3. Near \subseteq Pairs
  BY DEF Near
<1> QED  BY <1>2, <1>3 DEF Linked, Mutual

\* The reference is the least transitive relation of all artifacts with a source in common.
LEMMA ConnectedFacts ==
    ASSUME HerdingInv
    PROVE  /\ Near \subseteq Connected /\ Mutual(Connected) /\ Transitive(Connected)
           /\ \A R : Near \subseteq R /\ Transitive(R) => Connected \subseteq R
<1> DEFINE n == Len(items)
<1>1. n \in Nat /\ DOMAIN items = 1 .. n
  BY ItemFacts
<1> HIDE DEF n
<1>2. PICK c : c[0] = Near /\ c[n] = Connected /\ \A k \in 1 .. n : c[k] = Through(c[k - 1], k)
  BY <1>1, ReachSteps DEF n
<1>3. ASSUME NEW R, Near \subseteq R, Transitive(R)
      PROVE  \A k \in 0 .. n : Linked(c[k], k) /\ c[k] \subseteq R
  <2> DEFINE C == {k \in 0 .. n : ~ (Linked(c[k], k) /\ c[k] \subseteq R)}
  <2> SUFFICES ASSUME C # {} PROVE FALSE
    OBVIOUS
  <2>1. PICK k \in C : \A m \in C : k <= m
    <3>1. C \in SUBSET Nat
      BY <1>1
    <3> HIDE DEF C
    <3> QED  BY <3>1, LeastNumber
  <2>2. k \in 0 .. n /\ ~ (Linked(c[k], k) /\ c[k] \subseteq R)
    BY <2>1
  <2>3. k # 0
    BY <1>2, <1>3, <2>2, NearFacts
  <2>4. k \in 1 .. n /\ k - 1 \in 0 .. n /\ k - 1 < k
    BY <1>1, <2>2, <2>3
  <2>5. Linked(c[k - 1], k - 1) /\ c[k - 1] \subseteq R
    BY <2>1, <2>4
  <2>6. c[k] = Through(c[k - 1], k)
    BY <1>2, <2>4
  <2>7. Linked(c[k], k)
    BY <1>1, <2>4, <2>5, <2>6, ThroughLinks
  <2>8. c[k] \subseteq R
    BY <1>1, <1>3, <2>4, <2>5, <2>6 DEF Through, Pairs, Transitive, Chained
  <2> QED  BY <2>2, <2>7, <2>8
<1>4. Linked(Connected, n)
  <2>1. Near \subseteq Pairs /\ Transitive(Pairs)
    BY NearFacts DEF Linked, Transitive, Chained, Pairs
  <2> QED  BY <1>1, <1>2, <1>3, <2>1
<1>5. \A R : Near \subseteq R /\ Transitive(R) => Connected \subseteq R
  BY <1>1, <1>2, <1>3
<1> QED  BY <1>1, <1>4, <1>5 DEF Linked, Transitive

\* Trees join what is connected, and all that the first k artifacts are connected with.
Joined(tree) == {e \in Pairs : tree[e[1]] = tree[e[2]]}

LEMMA MergedJoins ==
    ASSUME HerdingInv, NEW tree \in Trees, NEW i \in DOMAIN items
    PROVE  LET m == Merged(tree, RootSources, i)
           IN  /\ Joined(tree) \subseteq Joined(m)
               /\ Joined(tree) \subseteq Connected => Joined(m) \subseteq Connected
               /\ \A s \in RootSources[i] : m[OwnerOf(s)] = m[i]
<1> DEFINE m == Merged(tree, RootSources, i)
<1>1. \A a, b \in DOMAIN items : m[a] = m[b] <=> tree[a] = tree[b] \/ (tree[a] \in Old(tree, i) /\ tree[b] \in Old(tree, i))
  BY MergedFacts
<1> HIDE DEF m
<1>2. Joined(tree) \subseteq Joined(m)
  BY <1>1 DEF Joined, Pairs
<1>3. \A s \in RootSources[i] : OwnerOf(s) \in DOMAIN items /\ m[OwnerOf(s)] = m[i]
  <2> SUFFICES ASSUME NEW s \in RootSources[i] PROVE OwnerOf(s) \in DOMAIN items /\ m[OwnerOf(s)] = m[i]
    OBVIOUS
  <2>1. OwnerOf(s) \in DOMAIN items /\ OwnerOf(s) \in Owners(RootSources, i)
    BY OwnerFacts
  <2>2. tree[OwnerOf(s)] \in Old(tree, i) /\ tree[i] \in Old(tree, i)
    BY <2>1 DEF Old
  <2> QED  BY <1>1, <2>1, <2>2
<1>4. ASSUME Joined(tree) \subseteq Connected, NEW a \in DOMAIN items, NEW b \in DOMAIN items, m[a] = m[b]
      PROVE  <<a, b>> \in Connected
  <2>1. \A x, y \in DOMAIN items : tree[x] = tree[y] => <<x, y>> \in Connected
    BY <1>4 DEF Joined, Pairs
  <2>2. Mutual(Connected) /\ Transitive(Connected)
    BY ConnectedFacts
  <2>3. \A x \in DOMAIN items : tree[x] \in Old(tree, i) => <<x, i>> \in Connected
    <3> SUFFICES ASSUME NEW x \in DOMAIN items, tree[x] \in Old(tree, i) PROVE <<x, i>> \in Connected
      OBVIOUS
    <3>1. PICK j \in Owners(RootSources, i) \union {i} : tree[x] = tree[j]
      BY DEF Old
    <3>2. j \in DOMAIN items /\ <<j, i>> \in Connected
      <4>1. CASE j = i
        BY <2>1, <4>1
      <4>2. CASE j # i
        <5>1. PICK s \in RootSources[i] : j = OwnerOf(s)
          BY <3>1, <4>2, OwnerFacts
        <5>2. j \in DOMAIN items /\ s \in RootSources[j]
          BY <5>1, OwnerFacts
        <5>3. <<j, i>> \in Near
          BY <5>2, NearFacts
        <5> QED  BY <5>2, <5>3, ConnectedFacts
      <4> QED  BY <4>1, <4>2
    <3>3. <<x, j>> \in Connected
      BY <2>1, <3>1, <3>2
    <3> QED  BY <2>2, <3>2, <3>3 DEF Transitive, Chained
  <2>4. CASE tree[a] = tree[b]
    BY <2>1, <2>4
  <2>5. CASE tree[a] \in Old(tree, i) /\ tree[b] \in Old(tree, i)
    <3>1. <<a, i>> \in Connected /\ <<b, i>> \in Connected
      BY <2>3, <2>5
    <3> QED  BY <2>2, <3>1 DEF Mutual, Transitive, Chained
  <2> QED  BY <1>1, <1>4, <2>4, <2>5
<1>5. Joined(tree) \subseteq Connected => Joined(m) \subseteq Connected
  BY <1>4 DEF Joined, Pairs
<1> QED  BY <1>2, <1>3, <1>5 DEF m

LEMMA TreesJoin ==
    ASSUME HerdingInv
    PROVE  /\ TreeRoots \in Trees
           /\ Joined(TreeRoots) \subseteq Connected
           /\ \A i \in DOMAIN items : \A s \in RootSources[i] : TreeRoots[OwnerOf(s)] = TreeRoots[i]
<1> DEFINE n == Len(items)
<1>1. n \in Nat /\ DOMAIN items = 1 .. n
  BY ItemFacts
<1> HIDE DEF n
<1>2. PICK t : /\ t \in [0 .. n -> Trees] /\ t[0] = Numbers /\ t[n] = TreeRoots
               /\ \A k \in 1 .. n : t[k] = Merged(t[k - 1], RootSources, k)
  BY <1>1, TreeSteps DEF n
<1> DEFINE Right(k) == /\ Joined(t[k]) \subseteq Connected
                       /\ \A i \in 1 .. k : \A s \in RootSources[i] : <<OwnerOf(s), i>> \in Joined(t[k])
<1>3. \A k \in 0 .. n : Right(k)
  <2> DEFINE C == {k \in 0 .. n : ~ Right(k)}
  <2> SUFFICES ASSUME C # {} PROVE FALSE
    OBVIOUS
  <2> HIDE DEF Right
  <2>1. PICK k \in C : \A m \in C : k <= m
    <3>1. C \in SUBSET Nat
      BY <1>1
    <3> HIDE DEF C
    <3> QED  BY <3>1, LeastNumber
  <2>2. k \in 0 .. n /\ ~ Right(k)
    BY <2>1
  <2>3. k # 0
    <3>1. Joined(t[0]) \subseteq Connected
      <4>1. \A a \in DOMAIN items : <<a, a>> \in Connected
        <5>1. \A a \in DOMAIN items : <<a, a>> \in Near
          BY NearFacts, RootFacts
        <5> QED  BY <5>1, ConnectedFacts
      <4> QED  BY <1>2, <4>1 DEF Joined, Pairs, Numbers
    <3> QED  BY <2>2, <3>1 DEF Right
  <2>4. k \in 1 .. n /\ k - 1 \in 0 .. n /\ k - 1 < k
    BY <1>1, <2>2, <2>3
  <2>5. Right(k - 1)
    BY <2>1, <2>4
  <2> HIDE DEF C
  <2>6. t[k - 1] \in Trees /\ t[k] = Merged(t[k - 1], RootSources, k) /\ k \in DOMAIN items
    BY <1>1, <1>2, <2>4
  <2>7. /\ Joined(t[k - 1]) \subseteq Joined(t[k])
        /\ Joined(t[k - 1]) \subseteq Connected => Joined(t[k]) \subseteq Connected
        /\ \A s \in RootSources[k] : t[k][OwnerOf(s)] = t[k][k]
    BY <2>6, MergedJoins
  <2>8. \A i \in 1 .. k : \A s \in RootSources[i] : <<OwnerOf(s), i>> \in Joined(t[k])
    <3> SUFFICES ASSUME NEW i \in 1 .. k, NEW s \in RootSources[i] PROVE <<OwnerOf(s), i>> \in Joined(t[k])
      OBVIOUS
    <3>1. CASE i = k
      <4>1. OwnerOf(s) \in DOMAIN items
        BY <2>6, <3>1, OwnerFacts
      <4> QED  BY <2>6, <2>7, <3>1, <4>1 DEF Joined, Pairs
    <3>2. CASE i # k
      <4>1. i \in 1 .. (k - 1)
        BY <1>1, <2>4, <3>2
      <4> QED  BY <2>5, <2>7, <4>1 DEF Right
    <3> QED  BY <3>1, <3>2
  <2> QED  BY <2>2, <2>5, <2>7, <2>8 DEF Right
<1>4. n \in 0 .. n
  BY <1>1
<1>5. Right(n)
  BY <1>3, <1>4
<1> QED  BY <1>1, <1>2, <1>4, <1>5 DEF Joined, Pairs

LEMMA Components == ASSUME HerdingInv PROVE ClustersAreComponents
<1> DEFINE tree == TreeRoots
<1>1. tree \in Trees /\ Joined(tree) \subseteq Connected
  BY TreesJoin
<1>2. Near \subseteq Joined(tree)
  <2> SUFFICES ASSUME NEW a \in DOMAIN items, NEW b \in DOMAIN items, <<a, b>> \in Near
               PROVE  tree[a] = tree[b]
    BY NearFacts DEF Linked, Joined, Pairs
  <2>1. PICK s \in RootSources[a] : s \in RootSources[b]
    BY NearFacts
  <2>2. tree[OwnerOf(s)] = tree[a] /\ tree[OwnerOf(s)] = tree[b]
    BY <2>1, TreesJoin
  <2> QED  BY <2>2
<1> HIDE DEF tree
<1>3. Transitive(Joined(tree))
  BY DEF Transitive, Chained, Joined, Pairs
<1>4. Connected \subseteq Joined(tree)
  BY <1>2, <1>3, ConnectedFacts
<1>5. \A i, j \in DOMAIN items : tree[i] = tree[j] <=> <<i, j>> \in Connected
  BY <1>1, <1>4 DEF Joined, Pairs
<1>6. DOMAIN tree = DOMAIN items
  BY <1>1 DEF Trees
<1> QED  BY <1>5, <1>6 DEF ClustersAreComponents, tree
-----------------------------------------------------------------------------
(* Finite sets with a strict total order R, a set of pairs.                *)

Orders(R, S) ==
    /\ \A a, b \in S : a # b => <<a, b>> \in R \/ <<b, a>> \in R
    /\ \A a, b, c \in S : <<a, b>> \in R /\ <<b, c>> \in R => <<a, c>> \in R

LEMMA FirstOfOrder ==
    ASSUME NEW S, IsFiniteSet(S), S # {}, NEW R, Orders(R, S)
    PROVE  \E i \in S : \A j \in S \ {i} : <<i, j>> \in R
<1> DEFINE Has(T) == \E i \in T : \A j \in T \ {i} : <<i, j>> \in R
           C == {T \in SUBSET S : T # {} /\ ~ Has(T)}
<1> SUFFICES ASSUME C # {} PROVE FALSE
  OBVIOUS
<1>1. PICK T \in C : \A U \in C : U \subseteq T => U = T
  <2>1. C \subseteq SUBSET S
    OBVIOUS
  <2> HIDE DEF C
  <2> QED  BY <2>1, SmallestSubset
<1>2. T \in SUBSET S /\ T # {} /\ ~ Has(T)
  BY <1>1
<1>3. PICK x \in T : TRUE
  BY <1>2
<1>4. CASE T \ {x} = {}
  <2>1. \A j \in T \ {x} : <<x, j>> \in R
    BY <1>4
  <2> QED  BY <1>2, <1>3, <2>1
<1>5. CASE T \ {x} # {}
  <2>1. Has(T \ {x})
    <3>1. T \ {x} \in SUBSET S /\ T \ {x} # T
      BY <1>2, <1>3
    <3>2. T \ {x} \notin C
      BY <1>1, <3>1
    <3> HIDE DEF Has
    <3> QED  BY <1>5, <3>1, <3>2
  <2>2. PICK y \in T \ {x} : \A j \in (T \ {x}) \ {y} : <<y, j>> \in R
    BY <2>1
  <2>3. CASE <<y, x>> \in R
    <3>1. \A j \in T \ {y} : <<y, j>> \in R
      BY <2>2, <2>3
    <3> QED  BY <1>2, <2>2, <3>1
  <2>4. CASE <<x, y>> \in R
    <3>1. \A j \in T \ {x} : <<x, j>> \in R
      <4> SUFFICES ASSUME NEW j \in T \ {x} PROVE <<x, j>> \in R
        OBVIOUS
      <4>1. CASE j = y
        BY <2>4, <4>1
      <4>2. CASE j # y
        <5>1. <<y, j>> \in R /\ x \in S /\ y \in S /\ j \in S
          BY <1>2, <1>3, <2>2, <4>2
        <5> QED  BY <2>4, <5>1 DEF Orders
      <4> QED  BY <4>1, <4>2
    <3> QED  BY <1>2, <1>3, <3>1
  <2> QED  BY <1>2, <1>3, <2>2, <2>3, <2>4 DEF Orders
<1> QED  BY <1>4, <1>5

\* They can be listed in their order.
LEMMA ListOfOrder ==
    ASSUME NEW S, IsFiniteSet(S), NEW R, Orders(R, S)
    PROVE  \E s \in [1 .. Cardinality(S) -> S] : \A i, j \in DOMAIN s : i < j => <<s[i], s[j]>> \in R
<1> DEFINE Sorts(s, T) == /\ s \in [1 .. Cardinality(T) -> T]
                          /\ \A i, j \in 1 .. Cardinality(T) : i < j => <<s[i], s[j]>> \in R
           C == {T \in SUBSET S : ~ \E s : Sorts(s, T)}
<1>1. C = {}
  <2> SUFFICES ASSUME C # {} PROVE FALSE
    OBVIOUS
  <2>1. PICK T \in C : \A U \in C : U \subseteq T => U = T
    <3>1. C \subseteq SUBSET S
      OBVIOUS
    <3> HIDE DEF C
    <3> QED  BY <3>1, SmallestSubset
  <2>2. T \in SUBSET S /\ ~ \E s : Sorts(s, T)
    BY <2>1
  <2>3. IsFiniteSet(T) /\ Cardinality(T) \in Nat
    BY <2>2, FS_Subset, FS_CardinalityType
  <2>4. T # {}
    <3> SUFFICES ASSUME T = {} PROVE FALSE
      OBVIOUS
    <3>1. Cardinality(T) = 0
      BY FS_EmptySet
    <3> DEFINE none == [i \in 1 .. 0 |-> i]
    <3>2. 1 .. 0 = {}
      OBVIOUS
    <3>3. none \in [1 .. 0 -> T] /\ \A i, j \in 1 .. 0 : i < j => <<none[i], none[j]>> \in R
      BY <3>2
    <3>4. Sorts(none, T)
      BY <3>1, <3>3
    <3> QED  BY <2>2, <3>4
  <2> DEFINE Back == {e \in S \X S : <<e[2], e[1]>> \in R}
  <2>5. PICK m \in T : \A j \in T \ {m} : <<j, m>> \in R
    <3>1. Orders(Back, T)
      <4>1. \A a, b \in S : <<a, b>> \in Back <=> <<b, a>> \in R
        OBVIOUS
      <4> HIDE DEF Back
      <4>2. \A a \in T : a \in S
        BY <2>2
      <4>3. \A a, b \in T : a # b => <<a, b>> \in Back \/ <<b, a>> \in Back
        BY <4>1, <4>2 DEF Orders
      <4>4. \A a, b, c \in T : <<a, b>> \in Back /\ <<b, c>> \in Back => <<a, c>> \in Back
        BY <4>1, <4>2 DEF Orders
      <4> QED  BY <4>3, <4>4 DEF Orders
    <3>2. \E i \in T : \A j \in T \ {i} : <<i, j>> \in Back
      <4> HIDE DEF Back
      <4> QED  BY <2>3, <2>4, <3>1, FirstOfOrder
    <3> QED  BY <2>2, <3>2
  <2> DEFINE k == Cardinality(T)
  <2>6. k \in Nat \ {0} /\ Cardinality(T \ {m}) = k - 1
    BY <2>3, <2>4, FS_RemoveElement, FS_EmptySet
  <2>7. PICK q : Sorts(q, T \ {m})
    <3>1. T \ {m} \in SUBSET S /\ T \ {m} # T
      BY <2>2
    <3> QED  BY <2>1, <3>1
  <2> HIDE DEF k, C
  <2>8. q \in [1 .. (k - 1) -> T \ {m}] /\ \A i, j \in 1 .. (k - 1) : i < j => <<q[i], q[j]>> \in R
    BY <2>6, <2>7
  <2> DEFINE s == [i \in 1 .. k |-> IF i = k THEN m ELSE q[i]]
  <2>9. /\ s[k] = m
        /\ \A i \in 1 .. k : i # k => i \in 1 .. (k - 1) /\ s[i] = q[i] /\ s[i] \in T \ {m}
    BY <2>6, <2>8
  <2>10. s \in [1 .. k -> T]
    BY <2>9
  <2>11. \A i, j \in 1 .. k : i < j => <<s[i], s[j]>> \in R
    <3> SUFFICES ASSUME NEW i \in 1 .. k, NEW j \in 1 .. k, i < j PROVE <<s[i], s[j]>> \in R
      OBVIOUS
    <3>1. i # k
      BY <2>6
    <3> HIDE DEF s
    <3>2. CASE j = k
      BY <2>5, <2>9, <3>1, <3>2
    <3>3. CASE j # k
      BY <2>8, <2>9, <3>1, <3>3
    <3> QED  BY <3>2, <3>3
  <2> HIDE DEF s
  <2>12. Sorts(s, T)
    BY <2>10, <2>11 DEF k
  <2> QED  BY <2>2, <2>12
<1>2. S \in SUBSET S
  OBVIOUS
<1>3. PICK s : Sorts(s, S)
  BY <1>1, <1>2
<1>4. DOMAIN s = 1 .. Cardinality(S)
  BY <1>3
<1> QED  BY <1>3, <1>4
-----------------------------------------------------------------------------
(* Who is heard: the votes.                                                *)

SureOrder == {e \in Pairs :
    \/ items[e[1]].confidence > items[e[2]].confidence
    \/ items[e[1]].confidence = items[e[2]].confidence /\ e[1] > e[2]}

LEMMA SurestFacts ==
    ASSUME HerdingInv, NEW S \in SUBSET DOMAIN items, S # {}
    PROVE  Surest(S) \in S /\ \A j \in S : items[Surest(S)].confidence >= items[j].confidence
<1> DEFINE Sure(i, j) == \/ items[i].confidence > items[j].confidence
                         \/ items[i].confidence = items[j].confidence /\ i > j
<1>1. DOMAIN items \in SUBSET Nat /\ IsFiniteSet(S) /\ \A i \in DOMAIN items : items[i].confidence \in Nat
  BY ItemFacts, FS_Subset
<1>2. \A i, j \in DOMAIN items : <<i, j>> \in SureOrder <=> Sure(i, j)
  BY DEF SureOrder, Pairs
<1>3. Orders(SureOrder, S)
  <2>1. \A a, b \in S : a # b => Sure(a, b) \/ Sure(b, a)
    BY <1>1
  <2>2. \A a, b, c \in S : Sure(a, b) /\ Sure(b, c) => Sure(a, c)
    BY <1>1
  <2> HIDE DEF Sure
  <2> QED  BY <1>2, <2>1, <2>2 DEF Orders
<1>4. \E i \in S : \A j \in S \ {i} : Sure(i, j)
  <2>1. PICK i \in S : \A j \in S \ {i} : <<i, j>> \in SureOrder
    BY <1>1, <1>3, FirstOfOrder
  <2> HIDE DEF Sure
  <2> QED  BY <1>2, <2>1
<1>5. Surest(S) \in S /\ \A j \in S \ {Surest(S)} : Sure(Surest(S), j)
  BY <1>4 DEF Surest
<1>6. \A j \in S : items[Surest(S)].confidence >= items[j].confidence
  BY <1>1, <1>5
<1> QED  BY <1>5, <1>6

ClusterOf(i) == {j \in DOMAIN items : TreeRoots[j] = TreeRoots[i]}
Heard(i) == Surest({j \in ClusterOf(i) : Predicts(j)})

LEMMA ClusterFacts ==
    ASSUME HerdingInv
    PROVE  /\ Clusters = {ClusterOf(i) : i \in DOMAIN items}
           /\ \A i \in DOMAIN items : i \in ClusterOf(i) /\ ClusterOf(i) \in SUBSET DOMAIN items
           /\ \A i, j \in DOMAIN items : j \in ClusterOf(i) => ClusterOf(j) = ClusterOf(i)
<1>1. DOMAIN TreeRoots = DOMAIN items
  BY TreesJoin DEF Trees
<1>2. Clusters = {ClusterOf(i) : i \in DOMAIN items}
  BY <1>1 DEF Clusters, ClusterOf, Range
<1> QED  BY <1>2 DEF ClusterOf

\* The voters are those who are heard for the predictions.
LEMMA VoterFacts ==
    ASSUME HerdingInv
    PROVE  /\ Voters(Clusters) = {Heard(i) : i \in {j \in DOMAIN items : Predicts(j)}}
           /\ \A i \in DOMAIN items : Predicts(i) =>
                 /\ Heard(i) \in ClusterOf(i) /\ Predicts(Heard(i))
                 /\ items[Heard(i)].confidence >= items[i].confidence
<1> DEFINE of(C) == {j \in C : Predicts(j)}
           P == {j \in DOMAIN items : Predicts(j)}
<1>1. Voters(Clusters) = {Surest(of(C)) : C \in {D \in Clusters : \E i \in D : Predicts(i)}}
  BY DEF Voters
<1>2. {D \in Clusters : \E i \in D : Predicts(i)} = {ClusterOf(i) : i \in P}
  <2>1. ASSUME NEW D \in Clusters, NEW i \in D, Predicts(i) PROVE D \in {ClusterOf(j) : j \in P}
    <3>1. PICK j \in DOMAIN items : D = ClusterOf(j)
      BY ClusterFacts
    <3>2. i \in P /\ D = ClusterOf(i)
      BY <2>1, <3>1, ClusterFacts
    <3> QED  BY <3>2
  <2>2. \A i \in P : ClusterOf(i) \in Clusters /\ i \in ClusterOf(i) /\ Predicts(i)
    BY ClusterFacts
  <2> QED  BY <2>1, <2>2
<1>3. \A i : Heard(i) = Surest(of(ClusterOf(i)))
  BY DEF Heard
<1>4. ASSUME NEW i \in DOMAIN items, Predicts(i)
      PROVE  /\ Heard(i) \in ClusterOf(i) /\ Predicts(Heard(i))
             /\ items[Heard(i)].confidence >= items[i].confidence
  <2>1. of(ClusterOf(i)) \in SUBSET DOMAIN items /\ i \in of(ClusterOf(i))
    BY <1>4, ClusterFacts
  <2>2. /\ Surest(of(ClusterOf(i))) \in of(ClusterOf(i))
        /\ \A j \in of(ClusterOf(i)) : items[Surest(of(ClusterOf(i)))].confidence >= items[j].confidence
    <3> HIDE DEF of
    <3> QED  BY <2>1, SurestFacts
  <2>3. Heard(i) \in of(ClusterOf(i))
    BY <1>3, <2>2
  <2>4. items[Heard(i)].confidence >= items[i].confidence
    BY <1>3, <2>1, <2>2
  <2> QED  BY <2>3, <2>4
<1>5. {Surest(of(C)) : C \in {ClusterOf(i) : i \in P}} = {Heard(i) : i \in P}
  <2> HIDE DEF of, P
  <2> QED  BY <1>3
<1> QED  BY <1>1, <1>2, <1>4, <1>5

LEMMA VotesOnce == ASSUME HerdingInv PROVE OneVoteEach
<1> DEFINE voters == Voters(Clusters)
<1> SUFFICES ASSUME NEW i \in DOMAIN items, Predicts(i)
             PROVE  \E v \in voters : {w \in voters : <<i, w>> \in Connected} = {v}
  BY DEF OneVoteEach
<1>1. voters = {Heard(j) : j \in {k \in DOMAIN items : Predicts(k)}}
  BY VoterFacts
<1> HIDE DEF voters
<1>2. Heard(i) \in voters
  BY <1>1
<1>3. \A j, k \in DOMAIN items : <<j, k>> \in Connected <=> k \in ClusterOf(j)
  <2>1. \A j, k \in DOMAIN items : TreeRoots[j] = TreeRoots[k] <=> <<j, k>> \in Connected
    BY Components, TreesJoin DEF ClustersAreComponents, Trees
  <2> QED  BY <2>1 DEF ClusterOf
<1>4. \A j \in DOMAIN items : Predicts(j) => Heard(j) \in ClusterOf(j) /\ Heard(j) \in DOMAIN items
  BY VoterFacts, ClusterFacts
<1>5. ASSUME NEW w \in voters, <<i, w>> \in Connected PROVE w = Heard(i)
  <2>1. PICK j \in DOMAIN items : Predicts(j) /\ w = Heard(j)
    BY <1>1
  <2>2. w \in ClusterOf(j) /\ w \in ClusterOf(i) /\ w \in DOMAIN items
    BY <1>3, <1>4, <1>5, <2>1
  <2>3. ClusterOf(j) = ClusterOf(i)
    BY <2>2, ClusterFacts
  <2> QED  BY <2>1, <2>3 DEF Heard
<1>6. <<i, Heard(i)>> \in Connected
  BY <1>3, <1>4
<1>7. {w \in voters : <<i, w>> \in Connected} = {Heard(i)}
  BY <1>2, <1>5, <1>6
<1> QED  BY <1>2, <1>7
-----------------------------------------------------------------------------
(* Who is heard: lists without repetition.                                 *)

Listed(s, S) ==
    /\ s \in Seq(DOMAIN items) /\ S = {s[i] : i \in 1 .. Len(s)}
    /\ \A i, j \in 1 .. Len(s) : s[i] = s[j] => i = j

LEMMA ListedLength ==
    ASSUME NEW s, NEW S, Listed(s, S)
    PROVE  IsFiniteSet(S) /\ Len(s) \in Nat /\ Cardinality(S) = Len(s) /\ S \in SUBSET DOMAIN items
<1>1. Len(s) \in Nat /\ DOMAIN s = 1 .. Len(s) /\ \A i \in 1 .. Len(s) : s[i] \in DOMAIN items
  BY ElementOfSeq, LenProperties DEF Listed
<1> DEFINE f == [i \in 1 .. Len(s) |-> s[i]]
<1>2. f \in Bijection(1 .. Len(s), S)
  BY DEF Listed, Bijection, Injection, Surjection, IsInjective
<1>3. ExistsBijection(1 .. Len(s), S)
  BY <1>2 DEF ExistsBijection
<1>4. IsFiniteSet(S) /\ Cardinality(S) = Len(s)
  BY <1>1, <1>3, FS_NatBijection, FS_CountingElements
<1> QED  BY <1>1, <1>4 DEF Listed

LEMMA ListedBoth ==
    ASSUME NEW s, NEW S, Listed(s, S), NEW t, NEW T, Listed(t, T), S \intersect T = {}
    PROVE  /\ Listed(s \o t, S \union T) /\ Len(s \o t) = Len(s) + Len(t)
           /\ \A i \in 1 .. Len(s) : (s \o t)[i] = s[i]
<1> DEFINE r == s \o t
           m == Len(s)
           n == Len(t)
<1>1. m \in Nat /\ n \in Nat /\ s \in Seq(DOMAIN items) /\ t \in Seq(DOMAIN items)
  BY LenProperties DEF Listed
<1>2. /\ r \in Seq(DOMAIN items) /\ Len(r) = m + n
      /\ \A i \in 1 .. m + n : r[i] = IF i <= m THEN s[i] ELSE t[i - m]
  BY <1>1, ConcatProperties
<1> HIDE DEF r, m, n
<1>3. /\ \A i \in 1 .. m : r[i] = s[i] /\ i \in 1 .. m + n
      /\ \A i \in 1 .. n : r[m + i] = t[i] /\ m + i \in 1 .. m + n
  BY <1>1, <1>2
<1>4. \A i \in 1 .. m + n : i \in 1 .. m \/ (i - m \in 1 .. n /\ i = m + (i - m))
  BY <1>1
<1>5. /\ S = {s[i] : i \in 1 .. m} /\ \A i, j \in 1 .. m : s[i] = s[j] => i = j
      /\ T = {t[i] : i \in 1 .. n} /\ \A i, j \in 1 .. n : t[i] = t[j] => i = j
  BY DEF Listed, m, n
<1>6. S \union T = {r[i] : i \in 1 .. m + n}
  BY <1>3, <1>4, <1>5
<1>7. ASSUME NEW i \in 1 .. m + n, NEW j \in 1 .. m + n, r[i] = r[j] PROVE i = j
  <2>1. CASE i \in 1 .. m /\ j \in 1 .. m
    BY <1>3, <1>5, <1>7, <2>1
  <2>2. CASE i \in 1 .. m /\ j - m \in 1 .. n
    BY <1>3, <1>4, <1>5, <1>7, <2>2
  <2>3. CASE i - m \in 1 .. n /\ j \in 1 .. m
    BY <1>3, <1>4, <1>5, <1>7, <2>3
  <2>4. CASE i - m \in 1 .. n /\ j - m \in 1 .. n
    <3>1. t[i - m] = t[j - m]
      BY <1>1, <1>3, <1>7, <2>4
    <3> QED  BY <1>1, <1>5, <2>4, <3>1
  <2> QED  BY <1>4, <2>1, <2>2, <2>3, <2>4
<1>8. Listed(r, S \union T)
  BY <1>2, <1>6, <1>7 DEF Listed
<1> QED  BY <1>2, <1>3, <1>8 DEF r, m, n

LEMMA PrefixFacts ==
    ASSUME NEW s, NEW S, Listed(s, S), NEW k \in 0 .. Len(s)
    PROVE  /\ Listed(Prefix(s, k), ToSet(Prefix(s, k))) /\ Len(Prefix(s, k)) = k
           /\ ToSet(Prefix(s, k)) = {s[i] : i \in 1 .. k}
<1>1. Len(s) \in Nat /\ s \in Seq(DOMAIN items)
  BY LenProperties DEF Listed
<1>2. Min({k, Len(s)}) = k
  <2>1. {k, Len(s)} \in SUBSET Nat
    BY <1>1
  <2>2. Min({k, Len(s)}) \in {k, Len(s)} /\ \A y \in {k, Len(s)} : Min({k, Len(s)}) <= y
    BY <2>1, LeastOf
  <2> QED  BY <1>1, <2>2
<1> DEFINE p == Prefix(s, k)
<1>3. p = SubSeq(s, 1, k)
  BY <1>2 DEF Prefix
<1>4. p \in Seq(DOMAIN items) /\ Len(p) = k /\ \A i \in 1 .. k : p[i] = s[i]
  <2>1. \A i \in 1 .. k : i \in 1 .. Len(s)
    BY <1>1
  <2> QED  BY <1>1, <1>3, <2>1, SubSeqProperties, ElementOfSeq
<1> HIDE DEF p
<1>5. DOMAIN p = 1 .. k
  BY <1>4, LenProperties
<1>6. ToSet(p) = {s[i] : i \in 1 .. k} /\ ToSet(p) = {p[i] : i \in 1 .. Len(p)}
  BY <1>4, <1>5 DEF ToSet
<1>7. \A i, j \in 1 .. Len(p) : p[i] = p[j] => i = j
  <2>1. \A i \in 1 .. k : i \in 1 .. Len(s)
    BY <1>1
  <2> QED  BY <1>4, <2>1 DEF Listed
<1>8. Listed(p, ToSet(p))
  BY <1>4, <1>6, <1>7 DEF Listed
<1> QED  BY <1>4, <1>6, <1>8 DEF p

RankOrder == {e \in Pairs : Ranks(e[1], e[2])}

LEMMA RankFacts ==
    ASSUME HerdingInv
    PROVE  /\ \A i, j \in DOMAIN items : <<i, j>> \in RankOrder <=> Ranks(i, j)
           /\ \A i \in DOMAIN items : ~ Ranks(i, i)
           /\ \A S \in SUBSET DOMAIN items : Orders(RankOrder, S)
<1> DEFINE c(k) == IF items[k].voice = "COUNTER" THEN 1 ELSE 0
           d(k) == items[k].confidence
           N == DOMAIN items
<1>1. N \in SUBSET Nat /\ \A i \in N : d(i) \in Nat /\ c(i) \in Nat
  BY ItemFacts
<1>2. \A i, j :
          Ranks(i, j) <=> (d(i) > d(j)) \/ (d(i) = d(j) /\ (c(i) > c(j) \/ (c(i) = c(j) /\ i > j)))
  BY DEF Ranks
<1> HIDE DEF c, d
<1>3. \A i, j \in N : <<i, j>> \in RankOrder <=> Ranks(i, j)
  BY DEF RankOrder, Pairs
<1>4. \A i \in N : ~ Ranks(i, i)
  BY <1>1, <1>2
<1>5. \A i, j \in N : i # j => Ranks(i, j) \/ Ranks(j, i)
  <2> SUFFICES ASSUME NEW i \in N, NEW j \in N, i # j PROVE Ranks(i, j) \/ Ranks(j, i)
    OBVIOUS
  <2>1. i \in Nat /\ j \in Nat /\ d(i) \in Nat /\ d(j) \in Nat /\ c(i) \in Nat /\ c(j) \in Nat
    BY <1>1
  <2> QED  BY <1>2, <2>1
<1>6. \A i, j, k \in N : Ranks(i, j) /\ Ranks(j, k) => Ranks(i, k)
  <2> SUFFICES ASSUME NEW i \in N, NEW j \in N, NEW k \in N, Ranks(i, j), Ranks(j, k) PROVE Ranks(i, k)
    OBVIOUS
  <2>1. i \in Nat /\ j \in Nat /\ k \in Nat /\ d(i) \in Nat /\ d(j) \in Nat /\ d(k) \in Nat
        /\ c(i) \in Nat /\ c(j) \in Nat /\ c(k) \in Nat
    BY <1>1
  <2> QED  BY <1>2, <2>1
<1>7. \A S \in SUBSET N : Orders(RankOrder, S)
  <2> SUFFICES ASSUME NEW S \in SUBSET N PROVE Orders(RankOrder, S)
    OBVIOUS
  <2>1. \A i \in S : i \in N
    OBVIOUS
  <2> HIDE DEF N
  <2> QED  BY <1>3, <1>5, <1>6, <2>1 DEF Orders
<1> QED  BY <1>3, <1>4, <1>7

\* A ranking lists every artifact of the set once.
LEMMA RankedFacts ==
    ASSUME HerdingInv, NEW S \in SUBSET DOMAIN items
    PROVE  Listed(Ranked(S), S)
<1> DEFINE n == Cardinality(S)
           s == Ranked(S)
<1>1. IsFiniteSet(S) /\ n \in Nat
  BY ItemFacts, FS_Subset, FS_CardinalityType
<1>2. \E r \in [1 .. n -> S] : \A i, j \in DOMAIN r : i < j => Ranks(r[i], r[j])
  <2>1. PICK r \in [1 .. n -> S] : \A i, j \in DOMAIN r : i < j => <<r[i], r[j]>> \in RankOrder
    BY <1>1, RankFacts, ListOfOrder
  <2>2. \A i, j \in DOMAIN r : r[i] \in DOMAIN items /\ r[j] \in DOMAIN items
    BY <2>1
  <2> HIDE DEF n
  <2> QED  BY <2>1, <2>2, RankFacts
<1>3. s \in [1 .. n -> S] /\ \A i, j \in DOMAIN s : i < j => Ranks(s[i], s[j])
  BY <1>2 DEF Ranked
<1> HIDE DEF s
<1>4. \A i, j \in 1 .. n : s[i] = s[j] => i = j
  <2> SUFFICES ASSUME NEW i \in 1 .. n, NEW j \in 1 .. n, s[i] = s[j], i # j PROVE FALSE
    OBVIOUS
  <2>1. i < j \/ j < i
    BY <1>1
  <2>2. Ranks(s[i], s[j]) \/ Ranks(s[j], s[i])
    BY <1>3, <2>1
  <2>3. s[i] \in DOMAIN items
    BY <1>3
  <2> QED  BY <2>2, <2>3, RankFacts
<1>5. s \in Surjection(1 .. n, S)
  <2>1. IsFiniteSet(1 .. n) /\ Cardinality(1 .. n) = n
    BY <1>1, FS_Interval
  <2>2. s \in Injection(1 .. n, S)
    BY <1>3, <1>4 DEF Injection, IsInjective
  <2> HIDE DEF n
  <2>3. Cardinality(1 .. n) = Cardinality(S)
    BY <2>1 DEF n
  <2> QED  BY <1>1, <2>2, <2>3, FS_Injection
<1>6. s \in Seq(DOMAIN items) /\ Len(s) = n
  <2>1. s \in [1 .. n -> DOMAIN items]
    BY <1>3
  <2> QED  BY <1>1, <1>3, <2>1
<1>7. S = {s[i] : i \in 1 .. n}
  BY <1>3, <1>5 DEF Surjection
<1> QED  BY <1>4, <1>6, <1>7 DEF Listed, s

LEMMA LeaderFacts ==
    ASSUME HerdingInv
    PROVE  Leaders(Clusters) \in SUBSET DOMAIN items
<1> SUFFICES ASSUME NEW C \in Clusters
             PROVE  (CHOOSE i \in C : \A j \in C \ {i} : Ranks(i, j)) \in DOMAIN items
  BY DEF Leaders
<1>1. PICK k \in DOMAIN items : C = ClusterOf(k)
  BY ClusterFacts
<1>2. C \in SUBSET DOMAIN items /\ C # {} /\ IsFiniteSet(C)
  BY <1>1, ClusterFacts, ItemFacts, FS_Subset
<1>3. \E i \in C : \A j \in C \ {i} : <<i, j>> \in RankOrder
  <2>1. Orders(RankOrder, C)
    BY <1>2, RankFacts
  <2> QED  BY <1>2, <2>1, FirstOfOrder
<1>4. \E i \in C : \A j \in C \ {i} : Ranks(i, j)
  BY <1>2, <1>3, RankFacts
<1> QED  BY <1>2, <1>4

\* The reserve fits into the limit, and it is the minority or its share.
LEMMA ReserveFacts ==
    ASSUME NEW M, IsFiniteSet(M), NEW limit \in Nat \ {0}, NEW tenths \in Tenths
    PROVE  LET r == Reserve(M, limit, tenths)
           IN  /\ r \in 0 .. limit /\ r <= Cardinality(M)
               /\ r = Cardinality(M) \/ 10 * r >= limit * tenths
<1> DEFINE k == Cardinality(M)
           x == limit * tenths
           h == (x + 9) \div 10
           r == Reserve(M, limit, tenths)
<1>1. k \in Nat
  BY FS_CardinalityType
<1>2. x \in Nat /\ x <= 5 * limit
  <2>1. tenths \in {0, 1, 2, 3, 4, 5}
    BY HerdingAssumption
  <2> QED  BY <2>1
<1> HIDE DEF k, x
<1>3. h \in Nat /\ 10 * h >= x /\ 10 * h <= x + 9
  BY <1>2
<1>4. h <= limit
  BY <1>2, <1>3
<1> HIDE DEF h
<1>5. r = Min({k, h})
  BY DEF Reserve, k, h, x
<1>6. Min({k, h}) \in {k, h} /\ \A y \in {k, h} : Min({k, h}) <= y
  <2>1. {k, h} \in SUBSET Nat
    BY <1>1, <1>3
  <2> QED  BY <2>1, LeastOf
<1> HIDE DEF r
<1>7. r \in 0 .. limit /\ r <= k /\ (r = k \/ 10 * r >= x)
  BY <1>1, <1>3, <1>4, <1>5, <1>6
<1> QED  BY <1>7 DEF r, k, x

InOrder(leaders, minority, r) ==
    LET reserved == Prefix(Ranked(minority), r)
    IN  reserved \o Ranked(leaders \ minority) \o Ranked(minority \ ToSet(reserved))
                 \o Ranked(DOMAIN items \ leaders)

\* The order of a selection: every artifact once, the reserve first, the leaders of the
\* clusters before the others.
LEMMA SelectionOrder ==
    ASSUME HerdingInv, NEW leaders \in SUBSET DOMAIN items, NEW minority \in SUBSET leaders,
           NEW r \in 0 .. Cardinality(minority)
    PROVE  /\ Listed(InOrder(leaders, minority, r), DOMAIN items)
           /\ Cardinality(leaders) \in Nat
           /\ \A x : x \in leaders <=> \E i \in 1 .. Cardinality(leaders) : x = InOrder(leaders, minority, r)[i]
           /\ \A i \in 1 .. r : InOrder(leaders, minority, r)[i] \in minority
<1> DEFINE reserved == Prefix(Ranked(minority), r)
           X == ToSet(reserved)
           A == leaders \ minority
           B == minority \ X
           D == DOMAIN items \ leaders
           a == reserved \o Ranked(A)
           b == a \o Ranked(B)
           all == b \o Ranked(D)
<1>1. minority \in SUBSET DOMAIN items /\ Listed(Ranked(minority), minority)
  BY RankedFacts
<1>2. r \in 0 .. Len(Ranked(minority)) /\ Len(Ranked(minority)) \in Nat
  BY <1>1, ListedLength
<1>3. /\ Listed(reserved, X) /\ Len(reserved) = r /\ X = {Ranked(minority)[i] : i \in 1 .. r}
  BY <1>1, <1>2, PrefixFacts
<1>4. X \subseteq minority
  <2>1. \A i \in 1 .. r : i \in 1 .. Len(Ranked(minority))
    BY <1>2
  <2> QED  BY <1>1, <1>3, <2>1 DEF Listed
<1> HIDE DEF reserved, X
<1>5. Listed(Ranked(A), A) /\ Listed(Ranked(B), B) /\ Listed(Ranked(D), D)
  BY <1>1, RankedFacts
<1>6. Listed(a, X \union A) /\ Len(a) = r + Len(Ranked(A)) /\ \A i \in 1 .. r : a[i] = reserved[i]
  <2>1. X \intersect A = {}
    BY <1>4
  <2> HIDE DEF A
  <2> QED  BY <1>3, <1>5, <2>1, ListedBoth
<1> HIDE DEF a
<1>7. /\ Listed(b, leaders) /\ Len(b) = Len(a) + Len(Ranked(B))
      /\ \A i \in 1 .. Len(a) : b[i] = a[i]
  <2>1. (X \union A) \intersect B = {} /\ (X \union A) \union B = leaders
    BY <1>4
  <2> HIDE DEF A, B
  <2>2. /\ Listed(b, (X \union A) \union B) /\ Len(b) = Len(a) + Len(Ranked(B))
        /\ \A i \in 1 .. Len(a) : b[i] = a[i]
    BY <1>5, <1>6, <2>1, ListedBoth
  <2> QED  BY <2>1, <2>2
<1> HIDE DEF b
<1>8. Listed(all, DOMAIN items) /\ \A i \in 1 .. Len(b) : all[i] = b[i]
  <2>1. leaders \intersect D = {} /\ leaders \union D = DOMAIN items
    OBVIOUS
  <2> HIDE DEF D
  <2>2. Listed(b, leaders) /\ Listed(Ranked(D), D)
    BY <1>5, <1>7
  <2>3. Listed(all, leaders \union D) /\ \A i \in 1 .. Len(b) : all[i] = b[i]
    BY <2>1, <2>2, ListedBoth
  <2> QED  BY <2>1, <2>3
<1> HIDE DEF all
<1>9. /\ r \in Nat /\ Len(a) \in Nat /\ Len(b) \in Nat /\ Len(Ranked(A)) \in Nat /\ Len(Ranked(B)) \in Nat
      /\ Cardinality(leaders) = Len(b)
  <2>1. Len(Ranked(A)) \in Nat /\ Len(Ranked(B)) \in Nat
    BY <1>5, ListedLength
  <2>2. Len(a) \in Nat /\ Len(b) \in Nat /\ Cardinality(leaders) = Len(b)
    BY <1>6, <1>7, ListedLength
  <2> QED  BY <1>2, <2>1, <2>2
<1>10. leaders = {all[i] : i \in 1 .. Len(b)}
  <2>1. leaders = {b[i] : i \in 1 .. Len(b)}
    BY <1>7 DEF Listed
  <2> QED  BY <1>8, <2>1
<1>11. \A i \in 1 .. r : all[i] \in minority
  <2> SUFFICES ASSUME NEW i \in 1 .. r PROVE all[i] \in minority
    OBVIOUS
  <2>1. i \in 1 .. Len(a) /\ i \in 1 .. Len(b)
    BY <1>6, <1>7, <1>9
  <2>2. all[i] = reserved[i]
    BY <1>6, <1>7, <1>8, <2>1
  <2>3. reserved[i] \in X
    BY <1>3 DEF Listed
  <2> QED  BY <1>4, <2>2, <2>3
<1>12. InOrder(leaders, minority, r) = all
  BY DEF InOrder, all, b, a, reserved, X
<1> QED  BY <1>8, <1>9, <1>10, <1>11, <1>12

LEMMA FairSelection == ASSUME HerdingInv PROVE SelectionIsFair
<1> DEFINE n == Len(items)
           leaders == Leaders(Clusters)
           minority == Minority(leaders)
<1> SUFFICES ASSUME NEW limit \in 1 .. MaxItems, NEW tenths \in Tenths
             PROVE  LET chosen == ToSet(Observations(leaders, minority, limit, tenths))
                    IN  /\ Cardinality(chosen) = Min({limit, n})
                        /\ \/ minority \subseteq chosen
                           \/ 10 * Cardinality(chosen \intersect minority) >= limit * tenths
                        /\ chosen \subseteq leaders \/ leaders \subseteq chosen
  BY DEF SelectionIsFair
<1> DEFINE chosen == ToSet(Observations(leaders, minority, limit, tenths))
<1>1. n \in Nat /\ DOMAIN items = 1 .. n /\ limit \in Nat \ {0} /\ IsFiniteSet(DOMAIN items) /\ Cardinality(DOMAIN items) = n
  <2>1. n \in Nat /\ DOMAIN items = 1 .. n
    BY ItemFacts
  <2> HIDE DEF n
  <2>2. IsFiniteSet(1 .. n) /\ Cardinality(1 .. n) = n
    BY <2>1, FS_Interval
  <2> QED  BY <2>1, <2>2, HerdingAssumption
<1>2. leaders \in SUBSET DOMAIN items /\ minority \in SUBSET leaders
  BY LeaderFacts DEF Minority
<1>3. IsFiniteSet(leaders) /\ IsFiniteSet(minority) /\ minority \in SUBSET DOMAIN items
  BY <1>1, <1>2, FS_Subset
<1> HIDE DEF n, leaders, minority
<1>4. Min({limit, n}) = IF n <= limit THEN n ELSE limit
  <2>1. {limit, n} \in SUBSET Nat
    BY <1>1
  <2>2. Min({limit, n}) \in {limit, n} /\ \A y \in {limit, n} : Min({limit, n}) <= y
    BY <2>1, LeastOf
  <2> QED  BY <1>1, <2>2
<1>5. CASE n <= limit
  <2>1. chosen = DOMAIN items
    BY <1>1, <1>5 DEF Observations, ToSet, n
  <2> QED  BY <1>1, <1>2, <1>3, <1>4, <1>5, <2>1
<1>6. CASE ~ (n <= limit)
  <2> DEFINE r == Reserve(minority, limit, tenths)
             all == InOrder(leaders, minority, r)
  <2>1. /\ r \in 0 .. limit /\ r <= Cardinality(minority)
        /\ r = Cardinality(minority) \/ 10 * r >= limit * tenths
    BY <1>1, <1>3, ReserveFacts
  <2>2. Observations(leaders, minority, limit, tenths) = Prefix(all, limit)
    BY <1>6 DEF Observations, InOrder, n
  <2> HIDE DEF r
  <2>3. r \in 0 .. Cardinality(minority) /\ Cardinality(minority) \in Nat
    BY <1>3, <2>1, FS_CardinalityType
  <2>4. /\ Listed(all, DOMAIN items) /\ Cardinality(leaders) \in Nat
        /\ \A x : x \in leaders <=> \E i \in 1 .. Cardinality(leaders) : x = all[i]
        /\ \A i \in 1 .. r : all[i] \in minority
    <3>1. leaders \in SUBSET DOMAIN items /\ minority \in SUBSET leaders /\ r \in 0 .. Cardinality(minority)
      BY <1>2, <2>3
    <3> QED  BY <3>1, SelectionOrder, Zenon
  <2> HIDE DEF all
  <2>5. Len(all) = n
    BY <1>1, <2>4, ListedLength
  <2>6. limit \in 0 .. Len(all)
    BY <1>1, <1>6, <2>5
  <2>7. chosen = {all[i] : i \in 1 .. limit} /\ Listed(Prefix(all, limit), chosen) /\ Len(Prefix(all, limit)) = limit
    BY <2>2, <2>4, <2>6, PrefixFacts
  <2> HIDE DEF chosen
  <2>8. Cardinality(chosen) = Min({limit, n}) /\ IsFiniteSet(chosen)
    BY <1>4, <1>6, <2>7, ListedLength
  <2>9. chosen \subseteq leaders \/ leaders \subseteq chosen
    <3> DEFINE m == Cardinality(leaders)
    <3>1. m \in Nat /\ \A x : x \in leaders <=> \E i \in 1 .. m : x = all[i]
      BY <2>4
    <3> HIDE DEF m
    <3>2. (\A i \in 1 .. limit : i \in 1 .. m) \/ (\A i \in 1 .. m : i \in 1 .. limit)
      BY <1>1, <3>1
    <3> QED  BY <2>7, <3>1, <3>2
  <2>10. minority \subseteq chosen \/ 10 * Cardinality(chosen \intersect minority) >= limit * tenths
    <3> DEFINE both == chosen \intersect minority
    <3>1. IsFiniteSet(both) /\ Cardinality(both) \in Nat /\ Cardinality(both) <= Cardinality(minority)
          /\ (Cardinality(both) = Cardinality(minority) => both = minority)
      <4>1. IsFiniteSet(both) /\ Cardinality(both) <= Cardinality(minority)
            /\ (Cardinality(minority) = Cardinality(both) => minority = both)
        BY <1>3, FS_Subset
      <4> QED  BY <4>1, FS_CardinalityType
    <3>2. r <= Cardinality(both)
      <4> DEFINE p == Prefix(all, r)
      <4>1. r \in Nat /\ r \in 0 .. Len(all) /\ \A i \in 1 .. r : i \in 1 .. limit
        BY <1>1, <2>1, <2>6
      <4>2. Listed(p, ToSet(p)) /\ Len(p) = r /\ ToSet(p) = {all[i] : i \in 1 .. r}
        BY <2>4, <4>1, PrefixFacts
      <4>3. ToSet(p) \subseteq both
        BY <2>4, <2>7, <4>1, <4>2
      <4>4. Cardinality(ToSet(p)) = r
        BY <4>2, ListedLength
      <4> HIDE DEF p, both
      <4> QED  BY <3>1, <4>3, <4>4, FS_Subset
    <3> HIDE DEF both
    <3>3. CASE r = Cardinality(minority)
      <4>1. both = minority
        BY <2>3, <3>1, <3>2, <3>3
      <4> QED  BY <4>1 DEF both
    <3>4. CASE 10 * r >= limit * tenths
      <4>1. limit * tenths \in Nat /\ r \in Nat
        <5>1. tenths \in Nat
          BY HerdingAssumption
        <5> QED  BY <1>1, <2>3, <5>1
      <4> DEFINE x == limit * tenths
                 c == Cardinality(both)
      <4>2. x \in Nat /\ c \in Nat /\ r <= c /\ 10 * r >= x
        BY <3>1, <3>2, <3>4, <4>1
      <4> HIDE DEF x, c
      <4>3. 10 * c >= x
        BY <4>1, <4>2
      <4> QED  BY <4>3 DEF x, c, both
    <3> QED  BY <2>1, <3>3, <3>4
  <2> QED  BY <2>8, <2>9, <2>10 DEF chosen
<1> QED  BY <1>5, <1>6
-----------------------------------------------------------------------------
(* Who is heard: the baselines.                                            *)

LEMMA FairBaselines == ASSUME HerdingInv PROVE BaselinesAgree
<1> DEFINE voters == Voters(Clusters)
           of(d) == {i \in voters : items[i].voice = d}
           sure(d) == SumFunction([i \in of(d) |-> items[i].confidence])
           Leads(d, e) == (Cardinality(of(d)) > Cardinality(of(e)))
                          \/ (Cardinality(of(d)) = Cardinality(of(e))
                              /\ (sure(d) > sure(e) \/ (sure(d) = sure(e) /\ Letter(d) >= Letter(e))))
           best == CHOOSE d \in Directions : \A e \in Directions : Leads(d, e)
<1> SUFFICES ASSUME voters # {}
             PROVE  /\ \A d \in Directions : Votes(voters)[d] <= Votes(voters)[items[MajorityVote(voters)].voice]
                    /\ \A i \in DOMAIN items : Predicts(i) =>
                           items[i].confidence <= items[BestOfN(voters)].confidence
  BY DEF BaselinesAgree
<1>1. /\ voters \in SUBSET DOMAIN items
      /\ \A v \in voters : items[v].voice \in Directions /\ items[v].confidence \in Nat
      /\ \A i \in DOMAIN items : Predicts(i) => \E v \in voters : items[v].confidence >= items[i].confidence
  <2>1. \A i \in DOMAIN items : Predicts(i) =>
            Heard(i) \in DOMAIN items /\ Predicts(Heard(i)) /\ items[Heard(i)].confidence >= items[i].confidence
    BY VoterFacts, ClusterFacts
  <2>2. voters = {Heard(i) : i \in {j \in DOMAIN items : Predicts(j)}}
    BY VoterFacts
  <2> QED  BY <2>1, <2>2, ItemFacts DEF Predicts
<1>2. MajorityVote(voters) = Surest(of(best))
  BY Zenon DEF MajorityVote
<1>3. \A d : of(d) \in SUBSET voters /\ of(d) \in SUBSET DOMAIN items
  BY <1>1
<1>4. \A d : Cardinality(of(d)) \in Nat /\ sure(d) \in Int
  <2> TAKE d
  <2>1. IsFiniteSet(of(d))
    BY <1>3, ItemFacts, FS_Subset
  <2> DEFINE f == [i \in of(d) |-> items[i].confidence]
  <2>2. \A i \in of(d) : f[i] \in Int
    BY <1>1, <1>3
  <2>3. DOMAIN f = of(d) /\ sure(d) = SumFunctionOnSet(f, DOMAIN f)
    BY DEF SumFunction
  <2> HIDE DEF f, of
  <2>4. SumFunctionOnSet(f, of(d)) \in Int
    BY <2>1, <2>2, SumType
  <2> QED  BY <2>1, <2>3, <2>4, FS_CardinalityType
<1> HIDE DEF voters, of, sure
<1>5. \A d \in Directions : Letter(d) \in Nat
  BY DEF Directions, Letter
<1>6. \E d \in Directions : \A e \in Directions : Leads(d, e)
  <2> DEFINE c(d) == Cardinality(of(d))
  <2>1. \A d, e : Leads(d, e) <=> (c(d) > c(e)) \/ (c(d) = c(e) /\ (sure(d) > sure(e) \/ (sure(d) = sure(e) /\ Letter(d) >= Letter(e))))
    OBVIOUS
  <2>2. \A d \in Directions : c(d) \in Nat /\ sure(d) \in Int /\ Letter(d) \in Nat
    BY <1>4, <1>5
  <2> HIDE DEF c, Leads
  <2> DEFINE R == {p \in Directions \X Directions : Leads(p[1], p[2])}
  <2>3. \A d, e \in Directions : <<d, e>> \in R <=> Leads(d, e)
    OBVIOUS
  <2>4. \A d, e \in Directions : Leads(d, e) \/ Leads(e, d)
    BY <2>1, <2>2
  <2>5. \A d, e, g \in Directions : Leads(d, e) /\ Leads(e, g) => Leads(d, g)
    <3> SUFFICES ASSUME NEW d \in Directions, NEW e \in Directions, NEW g \in Directions, Leads(d, e), Leads(e, g)
                 PROVE  Leads(d, g)
      OBVIOUS
    <3>1. /\ c(d) \in Nat /\ c(e) \in Nat /\ c(g) \in Nat /\ sure(d) \in Int /\ sure(e) \in Int /\ sure(g) \in Int
          /\ Letter(d) \in Nat /\ Letter(e) \in Nat /\ Letter(g) \in Nat
      BY <2>2
    <3> QED  BY <2>1, <3>1
  <2> HIDE DEF R
  <2>6. Orders(R, Directions)
    BY <2>3, <2>4, <2>5 DEF Orders
  <2>7. IsFiniteSet(Directions) /\ Directions # {}
    <3>1. Directions = (({"UP"} \union {"DOWN"}) \union {"FLAT"}) \union {"NO_SIGNAL"}
      BY DEF Directions
    <3> QED  BY <3>1, FS_Singleton, FS_Union
  <2>8. PICK d \in Directions : \A e \in Directions \ {d} : <<d, e>> \in R
    BY <2>6, <2>7, FirstOfOrder
  <2>9. \A e \in Directions : Leads(d, e)
    BY <2>3, <2>4, <2>8
  <2> QED  BY <2>9
<1>7. best \in Directions /\ \A e \in Directions : Leads(best, e)
  <2> HIDE DEF Leads
  <2> QED  BY <1>6
<1> HIDE DEF best
<1>8. \A e \in Directions : Cardinality(of(e)) <= Cardinality(of(best))
  BY <1>4, <1>7
<1>9. of(best) # {}
  <2>1. PICK v \in voters : TRUE
    OBVIOUS
  <2>2. v \in of(items[v].voice) /\ items[v].voice \in Directions
    BY <1>1 DEF of
  <2>3. IsFiniteSet(of(items[v].voice)) /\ IsFiniteSet(of(best))
    BY <1>3, ItemFacts, FS_Subset
  <2>4. Cardinality(of(items[v].voice)) # 0 /\ Cardinality(of(items[v].voice)) <= Cardinality(of(best))
    BY <1>8, <2>2, <2>3, FS_EmptySet
  <2>5. Cardinality(of(best)) # 0
    BY <1>4, <2>4
  <2> QED  BY <2>5, FS_EmptySet
<1>10. Surest(of(best)) \in of(best)
  BY <1>3, <1>9, SurestFacts
<1>11. items[MajorityVote(voters)].voice = best
  BY <1>2, <1>10 DEF of
<1>12. \A d \in Directions : Votes(voters)[d] = Cardinality(of(d))
  BY DEF Votes, of
<1>13. \A i \in DOMAIN items : Predicts(i) => items[i].confidence <= items[BestOfN(voters)].confidence
  <2>1. /\ Surest(voters) \in voters
        /\ \A j \in voters : items[Surest(voters)].confidence >= items[j].confidence
    BY <1>1, SurestFacts
  <2> SUFFICES ASSUME NEW i \in DOMAIN items, Predicts(i)
               PROVE  items[i].confidence <= items[Surest(voters)].confidence
    BY DEF BestOfN
  <2>2. PICK v \in voters : items[v].confidence >= items[i].confidence
    BY <1>1
  <2>3. /\ items[v].confidence \in Nat /\ items[i].confidence \in Nat /\ items[Surest(voters)].confidence \in Nat
        /\ items[Surest(voters)].confidence >= items[v].confidence
    BY <1>1, <2>1, ItemFacts
  <2> QED  BY <2>2, <2>3
<1> QED  BY <1>7, <1>8, <1>11, <1>12, <1>13 DEF voters

\* Of any list of artifacts, with any sources, lineages and confidences: clusters are the connected components of
\* common primary sources, each votes once, a selection keeps the share of the minority, and no baseline elects a
\* direction that another one beats.
THEOREM HerdingCorrect == HerdingSpec => []HerdingHolds
<1>1. HerdingInv => HerdingHolds
  BY Components, VotesOnce, FairSelection, FairBaselines DEF HerdingHolds
<1> QED  BY <1>1, HerdingStart, HerdingStep, PTL DEF HerdingSpec
=============================================================================
