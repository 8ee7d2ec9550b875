---------------------------- MODULE GoalFeedback ---------------------------
(***************************************************************************)
(* The fitness feedback of AgentOS goals (factory/swarm/agentos_adapter.py *)
(* and fitness.py over the goal tables of store.py).  A process of the     *)
(* command line records one event or one snapshot; each of its queries is  *)
(* a transaction of its own, and it may be killed between any two.         *)
(***************************************************************************)
EXTENDS Integers, FiniteSets, Sequences, SequencesExt, FiniteSetsExt

CONSTANTS
    Goals,
    Adapters,             \* processes, one record at a time
    SignalMin, SignalMax, \* where the existing signal is clamped
    SomeEvents, ManyEvents,  \* events that mutation and extinction need
    SelectAt,             \* the signal that is selected
    MaxEvents, MaxSnapshots  \* bounds

ASSUME FeedbackAssumption ==
    /\ SignalMin \in Int /\ SignalMax \in Int /\ SignalMin <= 0 /\ 0 <= SignalMax
    /\ {SomeEvents, ManyEvents, SelectAt, MaxEvents, MaxSnapshots} \subseteq Nat

VARIABLES
    evidence,   \* the artifacts of events: their goal and parent, in order
    events,     \* events[g]: the rows of goal_fitness_events
    snapshots,  \* the rows of goal_fitness_snapshots
    adapter,    \* adapter[a]: what the process does and knows
    serene      \* the goals whose records never overlapped (history)

goalVars == <<evidence, events, snapshots, adapter, serene>>

\* EXISTING_SIGNAL_DELTAS
Delta(name) == CASE name = "artifact_generated" -> 1 [] name = "critic_pass" -> 2 [] name = "critic_fail" -> -1
EventNames == {"artifact_generated", "critic_pass", "critic_fail"}

NoArtifact == 0
Resting == [at |-> "off"]

FeedbackTypeOK ==
    /\ \A i \in DOMAIN evidence :
           evidence[i].goal \in Goals /\ evidence[i].parent \in 0 .. i - 1
    /\ \A g \in Goals : \A i \in DOMAIN events[g] :
           events[g][i].name \in EventNames /\ events[g][i].signal \in SignalMin .. SignalMax
    /\ \A a \in Adapters :
           adapter[a] = Resting \/ adapter[a].at \in {"parent", "stored", "signal", "counting", "told", "checked"}
    /\ serene \subseteq Goals

FeedbackInit ==
    /\ evidence = <<>>
    /\ events = [g \in Goals |-> <<>>]
    /\ snapshots = <<>>
    /\ adapter = [a \in Adapters |-> Resting]
    /\ serene = Goals
-----------------------------------------------------------------------------
(* The queries of the store, and the arithmetic of fitness.py.             *)

\* current_existing_signal
CurrentSignal(g) == IF events[g] = <<>> THEN 0 ELSE Last(events[g]).signal

\* Mutant of LastGoalArtifact: ORDER BY rowid without DESC.
FirstGoalArtifact(g) == IF events[g] = <<>> THEN NoArtifact ELSE Head(events[g]).artifact

\* last_goal_artifact
LastGoalArtifact(g) == IF events[g] = <<>> THEN NoArtifact ELSE Last(events[g]).artifact

\* clamp_existing_signal and apply_existing_signal
Clamped(n) == Max({SignalMin, Min({SignalMax, n})})
Applied(signal, name) == Clamped(signal + Delta(name))

\* ecology_recommendation
Recommendation(signal, count) ==
    CASE count >= ManyEvents /\ signal <= SignalMin -> "EXTINCTION"
      [] count >= SomeEvents /\ signal < 0 /\ ~(count >= ManyEvents /\ signal <= SignalMin) -> "MUTATE"
      [] signal >= SelectAt -> "SELECT"
      [] OTHER -> "OBSERVE"
-----------------------------------------------------------------------------
(* The processes.                                                          *)

OnGoal(g) == {a \in Adapters : adapter[a] # Resting /\ adapter[a].goal = g}
BeginRecord(a, g, state) ==
    /\ adapter[a] = Resting
    /\ adapter' = [adapter EXCEPT ![a] = state]
    /\ serene' = IF OnGoal(g) = {} THEN serene ELSE serene \ {g}

\* record_event: the artifact of the last event will be the parent.
BeginEvent(a) == Len(evidence) < MaxEvents /\ \E g \in Goals, n \in EventNames :
    /\ BeginRecord(a, g, [at |-> "parent", goal |-> g, name |-> n, parent |-> LastGoalArtifact(g)])
    /\ UNCHANGED <<evidence, events, snapshots>>

\* append_artifact
KeepEvidence(a) ==
    /\ adapter[a].at = "parent" /\ Len(evidence) < MaxEvents
    /\ evidence' = Append(evidence, [goal |-> adapter[a].goal, parent |-> adapter[a].parent])
    /\ adapter' = [adapter EXCEPT ![a] =
           [at |-> "stored", goal |-> @.goal, name |-> @.name, artifact |-> Len(evidence) + 1]]
    /\ UNCHANGED <<events, snapshots, serene>>

ReadSignal(a) ==
    /\ adapter[a].at = "stored"
    /\ adapter' = [adapter EXCEPT ![a] =
           [at |-> "signal", goal |-> @.goal, name |-> @.name, artifact |-> @.artifact,
            signal |-> Applied(CurrentSignal(@.goal), @.name)]]
    /\ UNCHANGED <<evidence, events, snapshots, serene>>

\* append_goal_fitness_event
AppendEvent(a) ==
    /\ adapter[a].at = "signal"
    /\ LET r == adapter[a]
       IN  /\ events' = [events EXCEPT ![r.goal] =
                  Append(@, [name |-> r.name, signal |-> r.signal, artifact |-> r.artifact])]
           /\ adapter' = [adapter EXCEPT ![a] = [at |-> "counting", goal |-> r.goal, signal |-> r.signal]]
    /\ UNCHANGED <<evidence, snapshots, serene>>

\* goal_event_count, and the recommendation that is returned.
Recommend(a) ==
    /\ adapter[a].at = "counting"
    /\ adapter' = [adapter EXCEPT ![a] =
           [at |-> "told", goal |-> @.goal,
            advice |-> Recommendation(@.signal, Len(events[@.goal]))]]
    /\ UNCHANGED <<evidence, events, snapshots, serene>>

\* record_extended_fitness: a vector with another signal than the current one raises.
CheckVector(a) == Len(snapshots) < MaxSnapshots /\ \E g \in Goals :
    /\ BeginRecord(a, g, [at |-> "checked", goal |-> g, signal |-> CurrentSignal(g)])
    /\ UNCHANGED <<evidence, events, snapshots>>

\* append_goal_fitness_snapshot, about no artifact or one that exists.
Snapshot(a) ==
    /\ adapter[a].at = "checked" /\ Len(snapshots) < MaxSnapshots
    /\ LET r == adapter[a]
       IN  snapshots' = Append(snapshots,
               [goal |-> r.goal, signal |-> r.signal, after |-> Len(events[r.goal])])
    /\ adapter' = [adapter EXCEPT ![a] = Resting]
    /\ UNCHANGED <<evidence, events, serene>>

\* The process prints its result and ends, raises because there is no artifact that its
\* snapshot is to be about (get_artifact), or is killed at any point.
Leave(a) ==
    /\ adapter[a] # Resting
    /\ adapter' = [adapter EXCEPT ![a] = Resting]
    /\ UNCHANGED <<evidence, events, snapshots, serene>>

FeedbackNext == \E a \in Adapters :
    \/ BeginEvent(a) \/ KeepEvidence(a) \/ ReadSignal(a) \/ AppendEvent(a) \/ Recommend(a)
    \/ CheckVector(a) \/ Snapshot(a) \/ Leave(a)

FeedbackSpec == FeedbackInit /\ [][FeedbackNext]_goalVars
-----------------------------------------------------------------------------
\* The signal that n events of a goal amount to, one after the other.
Amount(g, n) ==
    LET add(sum, event) == Clamped(sum + Delta(event.name))
    IN  FoldLeft(add, 0, SubSeq(events[g], 1, n))

\* While no two records of a goal overlapped, whatever was killed between two
\* transactions: every event has the signal that the events up to it amount to and has
\* the artifact of the event before as its parent, and every snapshot has the signal of
\* the events before it.
SereneGoalAddsUp == \A g \in serene :
    /\ \A i \in DOMAIN events[g] :
        /\ events[g][i].signal = Amount(g, i)
        /\ evidence[events[g][i].artifact].parent =
               IF i = 1 THEN NoArtifact ELSE events[g][i - 1].artifact
    /\ \A i \in DOMAIN snapshots :
           snapshots[i].goal = g => snapshots[i].signal = Amount(g, snapshots[i].after)

Count(g, names) == Cardinality({i \in DOMAIN events[g] : events[g][i].name \in names})

\* What is recommended is on record even where events of a goal raced and one was lost
\* from the signal: no extinction without as many failed critics as take the signal from
\* zero to its end, no mutation without one, no selection without the events for it.
AdviceIsEarned == \A a \in {b \in Adapters : adapter[b].at = "told"} :
    LET g == adapter[a].goal
    IN  CASE adapter[a].advice = "EXTINCTION" ->
                 Count(g, {"critic_fail"}) >= 0 - SignalMin /\ Len(events[g]) >= ManyEvents
          [] adapter[a].advice = "MUTATE" ->
                 Count(g, {"critic_fail"}) >= 1 /\ Len(events[g]) >= SomeEvents
          [] adapter[a].advice = "SELECT" ->
                 Count(g, {"artifact_generated"}) + 2 * Count(g, {"critic_pass"}) >= SelectAt
          [] OTHER -> TRUE

FeedbackHolds == SereneGoalAddsUp /\ AdviceIsEarned
=============================================================================
