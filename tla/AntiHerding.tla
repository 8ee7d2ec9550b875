---------------------------- MODULE AntiHerding ----------------------------
(***************************************************************************)
(* Who is heard in the swarm: artifacts that share a primary source are    *)
(* one evidence cluster with one vote, and a selection of observations     *)
(* keeps room for the minority (factory/swarm/anti_herding.py), as do the  *)
(* selectors that the swarm is compared with (baselines.py).  The state is *)
(* the list of artifacts so far; the algorithms are operators on it.       *)
(***************************************************************************)
EXTENDS Integers, FiniteSets, Sequences, SequencesExt, FiniteSetsExt

CONSTANTS
    Sources,     \* normalized source references
    Confidences,
    Tenths,      \* minority fractions, in tenths
    Voiced,      \* bound: the voices of an instance
    MaxReferred, \* bound: sources and artifacts that an artifact refers to
    MaxItems     \* bound: artifacts

VARIABLE items   \* the artifacts that are given, in the order of their ids

\* The direction of a prediction; NONE is no prediction, COUNTER counter-evidence.
Directions == {"UP", "DOWN", "FLAT", "NO_SIGNAL"}
Voices == Directions \union {"NONE", "COUNTER"}
Elsewhere == 0   \* an artifact that is not among the given ones

ASSUME HerdingAssumption ==
    /\ Confidences \subseteq Nat /\ Tenths \subseteq 0 .. 5 /\ Voiced \subseteq Voices
    /\ {MaxReferred, MaxItems} \subseteq Nat

HerdingTypeOK == \A i \in DOMAIN items :
    /\ items[i].sources \subseteq Sources /\ items[i].sources # {} /\ items[i].voice \in Voices
    /\ items[i].confidence \in Confidences /\ items[i].lineage \subseteq 0 .. i - 1

HerdingInit == items = <<>>

\* An artifact has sources of its own and may be derived from earlier ones.
Contribute ==
    /\ Len(items) < MaxItems
    /\ \E S \in (SUBSET Sources) \ {{}}, p \in SUBSET (DOMAIN items \union {Elsewhere}), v \in Voiced, c \in Confidences :
        /\ Cardinality(S) + Cardinality(p) <= MaxReferred
        /\ items' = Append(items, [sources |-> S, lineage |-> p, voice |-> v, confidence |-> c])

HerdingSpec == HerdingInit /\ [][Contribute]_items
-----------------------------------------------------------------------------
(* Evidence clusters of the artifacts.                                     *)

\* by_id: the artifacts that i is derived from, as far as they are given.
Parents(i) == items[i].lineage \ {Elsewhere}

\* _root_sources: the sources of i are its own and those of its ancestors.
RootSources ==
    LET roots[i \in DOMAIN items] == items[i].sources \union UNION {roots[j] : j \in Parents(i)}
    IN  roots

\* Mutant of Owners: only of the artifact's own source, not of the inherited ones.
OwnersOwn(roots, i) == {Min({j \in 1 .. i : s \in roots[j]}) : s \in items[i].sources}

\* source_owner: the first artifacts with the sources of i.
Owners(roots, i) == {Min({j \in 1 .. i : s \in roots[j]}) : s \in roots[i]}

\* union: the tree of i in the union-find and those of its owners become one, with the least root.
Merged(tree, roots, i) ==
    LET old == {tree[j] : j \in Owners(roots, i) \union {i}}
    IN  [j \in DOMAIN tree |-> IF tree[j] \in old THEN Min(old) ELSE tree[j]]

\* cluster_by_evidence, one artifact after the other.
TreeRoots ==
    LET roots == RootSources
        numbers == [j \in DOMAIN items |-> j]
    IN  FoldLeft(LAMBDA tree, i : Merged(tree, roots, i), numbers, numbers)

Clusters == LET tree == TreeRoots IN {{j \in DOMAIN tree : tree[j] = r} : r \in Range(tree)}
-----------------------------------------------------------------------------
(* independent_cluster_vote                                                *)

Predicts(i) == items[i].voice \in Directions

\* The representative: the greatest confidence, then the greatest id.
Surest(C) ==
    CHOOSE i \in C : \A j \in C \ {i} :
        \/ items[i].confidence > items[j].confidence
        \/ items[i].confidence = items[j].confidence /\ i > j

\* The surest predictions of the clusters that have any.
Voters(clusters) == {Surest({i \in C : Predicts(i)}) : C \in {D \in clusters : \E i \in D : Predicts(i)}}

Votes(voters) == [d \in Directions |-> Cardinality({i \in voters : items[i].voice = d})]
-----------------------------------------------------------------------------
(* select_observations, without qualities, as run_round calls it.          *)

\* rank: confidence, counter-evidence, id.
Ranks(i, j) ==
    LET c(k) == IF items[k].voice = "COUNTER" THEN 1 ELSE 0
    IN  \/ items[i].confidence > items[j].confidence
        \/ /\ items[i].confidence = items[j].confidence
           /\ c(i) > c(j) \/ (c(i) = c(j) /\ i > j)

Ranked(S) ==
    CHOOSE s \in [1 .. Cardinality(S) -> S] : \A i, j \in DOMAIN s : i < j => Ranks(s[i], s[j])

\* The representatives of the clusters in the selection.
Leaders(clusters) == {CHOOSE i \in C : \A j \in C \ {i} : Ranks(i, j) : C \in clusters}

\* The place of a direction in the alphabet.
Letter(d) == CASE d = "UP" -> 4 [] d = "NO_SIGNAL" -> 3 [] d = "FLAT" -> 2 [] OTHER -> 1

\* The direction of most leaders, NO_SIGNAL aside; of several, the last in the alphabet.
Majority(leaders) ==
    LET n(v) == Cardinality({i \in leaders : items[i].voice = v})
        heard == {d \in Directions \ {"NO_SIGNAL"} : n(d) > 0}
        ahead(d, e) == n(d) > n(e) \/ (n(d) = n(e) /\ Letter(d) >= Letter(e))
    IN  IF heard = {} THEN "NONE" ELSE CHOOSE d \in heard : \A e \in heard : ahead(d, e)

Minority(leaders) ==
    LET majority == Majority(leaders)
    IN  {i \in leaders : items[i].voice = "COUNTER" \/ (Predicts(i) /\ items[i].voice # majority)}

\* The places that the minority gets before the majority.
Reserve(minority, limit, tenths) == Min({Cardinality(minority), (limit * tenths + 9) \div 10})

Prefix(s, n) == SubSeq(s, 1, Min({n, Len(s)}))

\* The reserve, the majority, the rest of the minority, duplicates of clusters.
Observations(leaders, minority, limit, tenths) ==
    IF Len(items) <= limit THEN [i \in DOMAIN items |-> i]
    ELSE LET reserved == Prefix(Ranked(minority), Reserve(minority, limit, tenths))
         IN  Prefix(reserved \o Ranked(leaders \ minority)
                             \o Ranked(minority \ ToSet(reserved))
                             \o Ranked(DOMAIN items \ leaders), limit)
-----------------------------------------------------------------------------
(* _select of baselines.py: one prediction of a case.                      *)

\* majority_vote: the direction of most representatives, then of most confidence; of
\* those that are equal in both, the last in the alphabet.
MajorityVote(voters) ==
    LET of(d) == {i \in voters : items[i].voice = d}
        sure(d) == SumFunction([i \in of(d) |-> items[i].confidence])
        ahead(d, e) ==
            \/ Cardinality(of(d)) > Cardinality(of(e))
            \/ /\ Cardinality(of(d)) = Cardinality(of(e))
               /\ sure(d) > sure(e) \/ (sure(d) = sure(e) /\ Letter(d) >= Letter(e))
    IN  Surest(of(CHOOSE d \in Directions : \A e \in Directions : ahead(d, e)))

BestOfN(voters) == Surest(voters)
-----------------------------------------------------------------------------
(* What is promised, of every list of artifacts.                           *)

\* The reference: a chain of artifacts leads from one to the other, each with a primary
\* source of the next.
Pairs == (DOMAIN items) \X (DOMAIN items)
Near == LET roots == RootSources IN {e \in Pairs : roots[e[1]] \intersect roots[e[2]] # {}}
Through(reach, k) == reach \union {e \in Pairs : <<e[1], k>> \in reach /\ <<k, e[2]>> \in reach}
Connected == FoldLeft(Through, Near, [i \in DOMAIN items |-> i])

\* The union-find of cluster_by_evidence finds the connected components, whatever the
\* order in which chains of common sources turn up.
ClustersAreComponents ==
    LET connected == Connected
        tree == TreeRoots
    IN  \A i, j \in DOMAIN tree : tree[i] = tree[j] <=> <<i, j>> \in connected

\* "A cluster contributes at most one vote" (docs/luna-swarm-revenue-strategy.md): every component with a
\* prediction is heard once in independent_cluster_vote.
OneVoteEach ==
    LET connected == Connected
        voters == Voters(Clusters)
    IN  \A i \in DOMAIN items : Predicts(i) => \E v \in voters :
            {w \in voters : <<i, w>> \in connected} = {v}

\* "Observation selection reserves a configurable minority share": the limit is used up,
\* the minority has its share as far as there is one, and no cluster is heard twice as
\* long as another is not heard.
SelectionIsFair ==
    LET leaders == Leaders(Clusters)
        minority == Minority(leaders)
    IN  \A limit \in 1 .. MaxItems, tenths \in Tenths :
            LET chosen == ToSet(Observations(leaders, minority, limit, tenths))
            IN  /\ Cardinality(chosen) = Min({limit, Len(items)})
                /\ \/ minority \subseteq chosen
                   \/ 10 * Cardinality(chosen \intersect minority) >= limit * tenths
                /\ chosen \subseteq leaders \/ leaders \subseteq chosen

\* The majority vote that the swarm is compared with elects a direction that no other
\* one beats in the independent vote, and the best of N is as sure as any prediction.
BaselinesAgree ==
    LET voters == Voters(Clusters)
        votes == Votes(voters)
    IN  voters # {} =>
            /\ \A d \in Directions : votes[d] <= votes[items[MajorityVote(voters)].voice]
            /\ \A i \in DOMAIN items : Predicts(i) =>
                   items[i].confidence <= items[BestOfN(voters)].confidence

HerdingHolds == ClustersAreComponents /\ OneVoteEach /\ SelectionIsFair /\ BaselinesAgree
=============================================================================
