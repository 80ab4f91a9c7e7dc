-------------------------------- MODULE Schedule --------------------------------
(***************************************************************************)
(* How a pipeline's stages become batches (ecl-pipeline-topo:              *)
(* resource_graph.rs, schedule.rs): the resource graph is built from the   *)
(* stages' declarations, Kahn's algorithm gives each stage a depth, and    *)
(* the stages of one depth are one batch.                                  *)
(***************************************************************************)
EXTENDS Integers, FiniteSets

CONSTANTS
    Stages,         \* the stages of the specification
    Resources,      \* the names in their declarations
    Declarations    \* what they may declare

Declaration == [creates: SUBSET Resources, reads: SUBSET Resources,
                writes: SUBSET Resources]

ASSUME ScheduleAssumption ==
    IsFiniteSet(Stages) /\ Declarations \subseteq [Stages -> Declaration]

VARIABLES
    declared,   \* what each stage declares
    schedule,   \* where compute_schedule is: its answer in the end
    queue,      \* stages that wait for no other
    processed,  \* stages taken from the queue
    degree,     \* in_degree
    depth       \* depth, 0 for a stage that has no entry

scheduleVars == <<declared, schedule, queue, processed, degree, depth>>

Creators(r) == {s \in Stages : r \in declared[s].creates}

(* The edges of the adjacency sets: from a creator to another reader.      *)
Edges ==
    {e \in Stages \X Stages :
        /\ e[1] # e[2]
        /\ declared[e[1]].creates \cap declared[e[2]].reads # {}}

Before(s) == {a \in Stages : <<a, s>> \in Edges}
After(s) == {b \in Stages : <<s, b>> \in Edges}

(* An edge counts once, however many resources it stands for.              *)
MutInDegree(s) ==
    Cardinality({c \in (Stages \ {s}) \X Resources :
                   c[2] \in declared[c[1]].creates \cap declared[s].reads})
InDegree(s) == Cardinality(Before(s))

ScheduleInit ==
    /\ declared \in Declarations
    /\ schedule = "build"
    /\ queue = {} /\ processed = {}
    /\ degree = [s \in Stages |-> 0]
    /\ depth = [s \in Stages |-> 0]

DuplicateCreator ==
    /\ schedule = "build"
    /\ \E r \in Resources : Cardinality(Creators(r)) > 1
    /\ schedule' = "duplicate"
    /\ UNCHANGED <<declared, queue, processed, degree, depth>>

BuildGraph ==
    /\ schedule = "build"
    /\ \A r \in Resources : Cardinality(Creators(r)) <= 1
    /\ schedule' = "sort"
    /\ degree' = [s \in Stages |-> InDegree(s)]
    /\ queue' = {s \in Stages : degree'[s] = 0}
    /\ UNCHANGED <<declared, processed, depth>>

(* The queue is first in, first out; no result depends on that, and any    *)
(* stage of it may be next here.                                           *)
PopStage(s) ==
    /\ schedule = "sort" /\ s \in queue
    /\ processed' = processed \cup {s}
    /\ depth' = [b \in Stages |->
                   IF b \in After(s) /\ depth[b] <= depth[s]
                   THEN depth[s] + 1 ELSE depth[b]]
    /\ degree' = [b \in Stages |->
                    IF b \in After(s) THEN degree[b] - 1 ELSE degree[b]]
    /\ queue' = (queue \ {s}) \cup {b \in After(s) : degree'[b] = 0}
    /\ UNCHANGED <<declared, schedule>>

CycleDetected ==
    /\ schedule = "sort" /\ queue = {} /\ processed # Stages
    /\ schedule' = "cycle"
    /\ UNCHANGED <<declared, queue, processed, degree, depth>>

GroupStages ==
    /\ schedule = "sort" /\ queue = {} /\ processed = Stages
    /\ schedule' = "batches"
    /\ UNCHANGED <<declared, queue, processed, degree, depth>>

ScheduleStep ==
    \/ DuplicateCreator \/ BuildGraph \/ CycleDetected \/ GroupStages
    \/ \E s \in Stages : PopStage(s)
ScheduleSpec == ScheduleInit /\ [][ScheduleStep]_scheduleVars

(* The stages named in the error.                                          *)
Stuck == {s \in Stages : degree[s] > 0}
SameBatch(a, b) == schedule = "batches" /\ depth[a] = depth[b]
-----------------------------------------------------------------------------
ScheduleTypeOK ==
    /\ declared \in [Stages -> Declaration]
    /\ schedule \in {"build", "sort", "duplicate", "cycle", "batches"}
    /\ queue \in SUBSET Stages /\ processed \in SUBSET Stages
    /\ degree \in [Stages -> Int] /\ depth \in [Stages -> Nat]

(* A stage that reads a resource is in a later batch than its creator.     *)
CreatorsFirst == \A e \in Edges : depth[e[1]] < depth[e[2]]

(* No stage waits longer than it must: it directly follows the batch of    *)
(* some stage it depends on, or is in the first.                           *)
EarliestBatch ==
    \A b \in Stages : depth[b] > 0 => \E a \in Before(b) : depth[b] = depth[a] + 1

(* Stages that wait for each other in a circle.                            *)
Circle(S) == S # {} /\ \A b \in S : Before(b) \cap S # {}

(* The batches are those of the dependencies, however the queue is         *)
(* emptied: creators before readers, and nobody later than needed.  Where  *)
(* there are none, the stages named do wait in a circle, and where there   *)
(* are, no stages do.                                                      *)
ScheduleIsRight ==
    /\ schedule = "batches" =>
        /\ CreatorsFirst /\ EarliestBatch
        /\ \A S \in SUBSET Stages : ~Circle(S)
    /\ schedule = "cycle" => Circle(Stuck)

(* "No write-write conflicts exist within the batch" (schedule.rs:25).     *)
WritersApart ==
    \A a, b \in Stages :
        a # b /\ SameBatch(a, b) => declared[a].writes \cap declared[b].writes = {}
=============================================================================
