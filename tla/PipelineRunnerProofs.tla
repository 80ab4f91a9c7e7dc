------------------------- MODULE PipelineRunnerProofs -------------------------
(***************************************************************************)
(* Theorems about PipelineRunner, for every topology, schedule and set of  *)
(* objects that TopologyAssumption allows.                                 *)
(***************************************************************************)
EXTENDS PipelineRunner, FiniteSetTheorems, TLAPS

-----------------------------------------------------------------------------
(* Types.                                                                  *)

(* The sets that are counted are finite, and a task's outcomes are among   *)
(* the items it was given.                                                 *)
TaskInv ==
    /\ IsFiniteSet(pool)
    /\ \A s \in Stages :
          /\ IsFiniteSet(task[s].items)
          /\ task[s].ok \subseteq task[s].items
          /\ task[s].bad \subseteq task[s].items
          /\ task[s].state = "none" => task[s].items = {}
    /\ phase = "batch" => st.batch < Len(Schedule)

TypeInv == TypeOK /\ TaskInv

(* The image of a finite set is finite.                                    *)
LEMMA ImageFinite ==
    ASSUME NEW S, IsFiniteSet(S), NEW f, DOMAIN f = S
    PROVE  IsFiniteSet({f[v] : v \in S})
<1> DEFINE T == {f[v] : v \in S}
           g == [v \in S |-> f[v]]
<1>1. g \in Surjection(S, T)
  BY DEF Surjection
<1> QED
  BY <1>1, FS_Surjection

(* update_stats counts finite sets of items.                               *)
LEMMA StatsType ==
    ASSUME NEW item
    PROVE  Stats(item) \in [discovered: Nat, processed: Nat, failed: Nat]
<1>1. Cardinality(Present(item)) \in Nat
  BY TopologyAssumption, FS_Subset, FS_CardinalityType DEF Present
<1>2. Cardinality(HasStatus(item, "Completed")) \in Nat
  BY TopologyAssumption, FS_Subset, FS_CardinalityType DEF HasStatus
<1>3. Cardinality(HasStatus(item, "Failed")) \in Nat
  BY TopologyAssumption, FS_Subset, FS_CardinalityType DEF HasStatus
<1> QED
  BY <1>1, <1>2, <1>3 DEF Stats

(* A process starts, or a run is set up, with a well-typed state.          *)
LEMMA FreshStateType == FreshState \in PipelineState
BY TopologyAssumption DEF FreshState, PipelineState, PipelineStatus, ItemState,
   AbsentItem, ItemStatus, Hashes, NoHash, StageState, PendingStage, StageStatus

LEMMA PrepareType ==
    ASSUME NEW state \in PipelineState
    PROVE  PrepareForResume(state) \in PipelineState
<1>1. \A o \in Objects : state.item[o] \in ItemState
  BY DEF PipelineState
<1>2. \A s \in Stages : state.stage[s] \in StageState
  BY DEF PipelineState
<1>3. \A o \in Objects :
        [state.item[o] EXCEPT !.status = IF @ = "Processing" THEN "Pending" ELSE @]
          \in ItemState
  BY <1>1 DEF ItemState, ItemStatus
<1>4. \A s \in Stages :
        [state.stage[s] EXCEPT !.status = IF @ = "Running" THEN "Pending" ELSE @]
          \in StageState
  BY <1>2 DEF StageState, StageStatus
<1> QED
  BY <1>3, <1>4 DEF PrepareForResume, PipelineState, PipelineStatus

LEMMA UpdateStatsType ==
    ASSUME NEW state \in PipelineState
    PROVE  UpdateStats(state) \in PipelineState
BY StatsType DEF UpdateStats, PipelineState

(* What a stage returns is a finite set of items of the pool's type.       *)
LEMMA NewItemsType ==
    ASSUME TypeInv, NEW s \in Stages
    PROVE  NewItems(s) \subseteq Entry /\ IsFiniteSet(NewItems(s))
<1> DEFINE Made(e) == {StageOutput(s, e, id) : id \in Outputs[s][e.id]}
<1>1. IsFiniteSet(task[s].ok) /\ task[s].ok \subseteq Entry
  BY FS_Subset DEF TypeInv, TaskInv, TypeOK, Task
<1>2. ASSUME NEW e \in task[s].ok
      PROVE  IsFiniteSet(Made(e)) /\ Made(e) \subseteq Entry
  <2>1. Outputs[s][e.id] \subseteq Ids /\ IsFiniteSet(Outputs[s][e.id])
    BY <1>1, TopologyAssumption, FS_Subset DEF Entry
  <2>2. \A id \in Outputs[s][e.id] : StageOutput(s, e, id) \in Entry
    BY <1>1, <2>1, TopologyAssumption DEF StageOutput, Entry
  <2> DEFINE f == [id \in Outputs[s][e.id] |-> StageOutput(s, e, id)]
  <2>3. IsFiniteSet({f[id] : id \in Outputs[s][e.id]})
    BY <2>1, ImageFinite
  <2>4. Made(e) = {f[id] : id \in Outputs[s][e.id]}
    OBVIOUS
  <2> QED
    BY <2>2, <2>3, <2>4
<1>3. IsFiniteSet({Made(e) : e \in task[s].ok})
  <2> HIDE DEF Made
  <2> DEFINE f == [e \in task[s].ok |-> Made(e)]
  <2>1. IsFiniteSet({f[e] : e \in task[s].ok})
    BY <1>1, ImageFinite
  <2> QED
    BY <2>1
<1>4. IsFiniteSet(UNION {Made(e) : e \in task[s].ok})
  <2> HIDE DEF Made
  <2> QED BY <1>2, <1>3, FS_UNION
<1> QED
  BY <1>2, <1>4 DEF NewItems

LEMMA MergeType ==
    ASSUME TypeInv, NEW s \in Stages
    PROVE  /\ MergedState(s) \in PipelineState
           /\ MergedPool(s) \subseteq Entry
           /\ IsFiniteSet(MergedPool(s))
<1>1. \A o \in Objects : MergedItem(s, o) \in ItemState
  <2> TAKE o \in Objects
  <2>1. st.item[o] \in ItemState
    BY DEF TypeInv, TypeOK, PipelineState
  <2> QED
    BY <2>1 DEF MergedItem, ItemState, ItemStatus
<1>2. MergedStage(s) \in StageState
  <2>1. Cardinality(task[s].ok) \in Nat /\ Cardinality(task[s].bad) \in Nat
    BY FS_Subset, FS_CardinalityType DEF TypeInv, TaskInv
  <2>2. st.stage[s] \in StageState
    BY DEF TypeInv, TypeOK, PipelineState
  <2> QED
    BY <2>1, <2>2 DEF MergedStage, StageState, StageStatus
<1>3. MergedState(s) \in PipelineState
  BY <1>1, <1>2 DEF MergedState, PipelineState, TypeInv, TypeOK
<1>4. pool \subseteq Entry /\ IsFiniteSet(pool)
  BY DEF TypeInv, TaskInv, TypeOK
<1>5. IsFiniteSet({e \in pool : e.id \notin IdsOf(task[s].items)})
  BY <1>4, FS_Subset
<1> QED
  BY <1>3, <1>4, <1>5, NewItemsType, FS_Union DEF MergedPool


(* A batch under way is one of the schedule; its stages are Stages.        *)
LEMMA BatchStagesType ==
    ASSUME TypeInv, phase = "batch"
    PROVE  /\ st.batch + 1 \in 1..Len(Schedule)
           /\ CurrentBatch \subseteq Stages
BY TopologyAssumption DEF TypeInv, TypeOK, TaskInv, PipelineState, CurrentBatch

LEMMA NoTaskType ==
    /\ [s \in Stages |-> NoTask] \in [Stages -> Task]
    /\ \A s \in Stages : [t \in Stages |-> NoTask][s] = NoTask
    /\ NoTask.items = {} /\ NoTask.ok = {} /\ NoTask.bad = {}
BY DEF NoTask, Task

LEMMA TypeInit == Init => TypeInv
<1> SUFFICES ASSUME Init PROVE TypeInv
  OBVIOUS
<1>1. ckpt \in Checkpoint /\ hashes \in [Ids -> Hashes]
  BY FreshStateType DEF Init, NoCheckpoint, Checkpoint, Hashes
<1>2. TypeOK
  BY <1>1, FreshStateType, NoTaskType DEF Init, TypeOK, Entry
<1>3. TaskInv
  BY FS_EmptySet, NoTaskType DEF Init, TaskInv
<1> QED
  BY <1>2, <1>3 DEF TypeInv

(* Every way the process starts.                                           *)
LEMMA TypeStart ==
    ASSUME TypeInv, NEW c \in Specs \cup {NoSpec}, Start(c)
    PROVE  TypeInv'
<1>1. st' \in PipelineState
  BY FreshStateType, PrepareType DEF Start, TypeInv, TypeOK, Checkpoint
<1>2. TypeOK'
  BY <1>1, NoTaskType DEF Start, TypeInv, TypeOK, world, disk
<1>3. TaskInv'
  BY FS_EmptySet, NoTaskType DEF Start, TaskInv
<1> QED
  BY <1>2, <1>3 DEF TypeInv

(* The process ends, whether it crashed or is done.                        *)
LEMMA TypeHalt ==
    ASSUME TypeInv, Halt, UNCHANGED <<world, effects, disk>>
    PROVE  TypeInv'
<1>1. TypeOK'
  BY FreshStateType, NoTaskType DEF Halt, TypeInv, TypeOK, world, disk
<1>2. TaskInv'
  BY FS_EmptySet, NoTaskType DEF Halt, TaskInv
<1> QED
  BY <1>1, <1>2 DEF TypeInv

LEMMA TypeEnumerate ==
    ASSUME TypeInv, EnumerateSources
    PROVE  TypeInv'
<1> DEFINE item == [o \in Objects |->
              IF o \in objects
              THEN [status |-> "Pending", completed |-> {}, hash |-> EmptyHash]
              ELSE st.item[o]]
           found == {SourceEntry(o) : o \in objects}
<1>1. item \in [Objects -> ItemState]
  BY DEF TypeInv, TypeOK, PipelineState, ItemState, ItemStatus, Hashes
<1>2. [st EXCEPT !.item = item] \in PipelineState
  BY <1>1 DEF TypeInv, TypeOK, PipelineState
<1>3. st' \in PipelineState
  BY <1>2, UpdateStatsType DEF EnumerateSources
<1>4. found \subseteq Entry
  BY TopologyAssumption DEF TypeInv, TypeOK, SourceEntry, Entry
<1>5. IsFiniteSet(found)
  <2> DEFINE f == [o \in objects |-> SourceEntry(o)]
  <2>1. IsFiniteSet(objects)
    BY TopologyAssumption, FS_Subset DEF TypeInv, TypeOK
  <2>2. IsFiniteSet({f[o] : o \in objects})
    BY <2>1, ImageFinite
  <2> QED
    BY <2>2
<1>6. TypeOK'
  BY <1>3, <1>4 DEF EnumerateSources, TypeInv, TypeOK, world, disk
<1>7. TaskInv'
  BY <1>5, FS_Union DEF EnumerateSources, TypeInv, TaskInv
<1> QED
  BY <1>6, <1>7 DEF TypeInv

(* Only the current state is written to the store.                         *)
LEMMA SaveType ==
    ASSUME TypeInv, st' \in PipelineState, SaveCheckpoint(st')
    PROVE  seq' \in Nat /\ ckpt' \in Checkpoint
BY DEF TypeInv, TypeOK, SaveCheckpoint, StoreCheckpoint, Checkpoint

LEMMA TypeIncrementality ==
    ASSUME TypeInv, ApplyIncrementality
    PROVE  TypeInv'
<1> DEFINE item == [o \in Objects |-> MarkUnchanged(st.item, o)]
<1>1. item \in [Objects -> ItemState]
  BY DEF TypeInv, TypeOK, PipelineState, MarkUnchanged, ItemState, ItemStatus
<1>2. [st EXCEPT !.item = item] \in PipelineState
  BY <1>1 DEF TypeInv, TypeOK, PipelineState
<1>3. st' \in PipelineState
  BY <1>2, UpdateStatsType DEF ApplyIncrementality
<1>4. seq' \in Nat /\ ckpt' \in Checkpoint
  BY <1>3, SaveType DEF ApplyIncrementality
<1>5. TypeOK'
  BY <1>3, <1>4 DEF ApplyIncrementality, TypeInv, TypeOK, world
<1>6. TaskInv'
  BY DEF ApplyIncrementality, TypeInv, TaskInv
<1> QED
  BY <1>5, <1>6 DEF TypeInv

LEMMA TypeStartBatch ==
    ASSUME TypeInv, StartBatch
    PROVE  TypeInv'
<1>1. st' \in PipelineState /\ st'.batch = st.batch
  <2> DEFINE stage == [s \in Stages |->
                         IF s \in CurrentBatch
                         THEN [st.stage[s] EXCEPT !.status = "Running"]
                         ELSE st.stage[s]]
  <2>1. stage \in [Stages -> StageState]
    <3>1. \A s \in Stages : st.stage[s] \in StageState
      BY DEF TypeInv, TypeOK, PipelineState
    <3> QED
      BY <3>1 DEF StageState, StageStatus
  <2>2. st' = [st EXCEPT !.stage = stage]
    BY DEF StartBatch
  <2> HIDE DEF stage
  <2> QED
    BY <2>1, <2>2 DEF TypeInv, TypeOK, PipelineState
<1>2. \A s \in Stages : ItemsFor(s) \subseteq Entry /\ IsFiniteSet(ItemsFor(s))
  BY FS_Subset DEF TypeInv, TypeOK, TaskInv, ItemsFor
<1>3. task' \in [Stages -> Task]
  BY <1>2 DEF StartBatch, Task, NoTask
<1>4. TypeOK'
  BY <1>1, <1>3 DEF StartBatch, TypeInv, TypeOK, world, disk
<1>5. \A s \in Stages : /\ IsFiniteSet(task'[s].items)
                        /\ task'[s].state = "none" => task'[s].items = {}
                        /\ task'[s].ok = {} /\ task'[s].bad = {}
  BY <1>2, FS_EmptySet DEF StartBatch, NoTask
<1>6. TaskInv'
  BY <1>1, <1>5 DEF StartBatch, TypeInv, TaskInv
<1> QED
  BY <1>4, <1>6 DEF TypeInv

(* The handlers only add to the outcomes of a stage's task.                *)
LEMMA TypeHandlers ==
    ASSUME TypeInv, NEW s \in Stages,
           \/ \E e \in Todo(s) : ItemSucceeds(s, e) \/ ItemErrs(s, e)
           \/ BatchSucceeds(s) \/ BatchErrs(s)
    PROVE  TypeInv'
<1>1. task[s] \in Task /\ Todo(s) \subseteq task[s].items
  BY DEF TypeInv, TypeOK, Todo
<1>2. PICK ok \in SUBSET task[s].items, bad \in SUBSET task[s].items :
         task' = [task EXCEPT ![s] = [[@ EXCEPT !.ok = ok] EXCEPT !.bad = bad]]
  <2>1. CASE \E e \in Todo(s) : ItemSucceeds(s, e)
    <3> PICK e \in Todo(s) : ItemSucceeds(s, e)
      BY <2>1
    <3>1. /\ task[s].ok \cup {e} \subseteq task[s].items
          /\ task[s].bad \subseteq task[s].items
      BY <1>1 DEF TypeInv, TaskInv
    <3>2. task' = [task EXCEPT ![s] = [@ EXCEPT !.ok = task[s].ok \cup {e}]]
      BY DEF ItemSucceeds, TypeInv, TypeOK
    <3>3. [task[s] EXCEPT !.ok = task[s].ok \cup {e}]
            = [[task[s] EXCEPT !.ok = task[s].ok \cup {e}] EXCEPT !.bad = task[s].bad]
      BY <1>1 DEF Task
    <3> QED
      BY <3>1, <3>2, <3>3
  <2>2. CASE \E e \in Todo(s) : ItemErrs(s, e)
    <3> PICK e \in Todo(s) : ItemErrs(s, e)
      BY <2>2
    <3>1. /\ task[s].bad \cup {e} \subseteq task[s].items
          /\ task[s].ok \subseteq task[s].items
      BY <1>1 DEF TypeInv, TaskInv
    <3>2. task' = [task EXCEPT ![s] = [@ EXCEPT !.bad = task[s].bad \cup {e}]]
      BY DEF ItemErrs, TypeInv, TypeOK
    <3>3. [task[s] EXCEPT !.bad = task[s].bad \cup {e}]
            = [[task[s] EXCEPT !.ok = task[s].ok] EXCEPT !.bad = task[s].bad \cup {e}]
      BY <1>1 DEF Task
    <3> QED
      BY <3>1, <3>2, <3>3
  <2>3. CASE BatchSucceeds(s)
    <3>1. task[s].bad \subseteq task[s].items
      BY DEF TypeInv, TaskInv
    <3>2. task' = [task EXCEPT ![s] = [@ EXCEPT !.ok = task[s].items]]
      BY <2>3 DEF BatchSucceeds
    <3>3. [task[s] EXCEPT !.ok = task[s].items]
            = [[task[s] EXCEPT !.ok = task[s].items] EXCEPT !.bad = task[s].bad]
      BY <1>1 DEF Task
    <3> QED
      BY <3>1, <3>2, <3>3
  <2>4. CASE BatchErrs(s)
    <3>1. task[s].ok \subseteq task[s].items
      BY DEF TypeInv, TaskInv
    <3>2. task' = [task EXCEPT ![s] = [@ EXCEPT !.bad = task[s].items]]
      BY <2>4 DEF BatchErrs
    <3>3. [task[s] EXCEPT !.bad = task[s].items]
            = [[task[s] EXCEPT !.ok = task[s].ok] EXCEPT !.bad = task[s].items]
      BY <1>1 DEF Task
    <3> QED
      BY <3>1, <3>2, <3>3
  <2> QED
    BY <2>1, <2>2, <2>3, <2>4
<1>3. task' \in [Stages -> Task]
  BY <1>1, <1>2 DEF TypeInv, TypeOK, Task
<1>4. effects' \subseteq Stages \X Entry
  BY <1>1 DEF TypeInv, TypeOK, Task, ItemSucceeds, ItemErrs, BatchSucceeds, BatchErrs
<1>5. UNCHANGED <<world, phase, spec, st, seq, pool, disk>>
  BY DEF ItemSucceeds, ItemErrs, BatchSucceeds, BatchErrs
<1>6. TypeOK'
  BY <1>3, <1>4, <1>5 DEF TypeInv, TypeOK, world, disk
<1>7. \A t \in Stages : /\ task'[t].items = task[t].items
                        /\ task'[t].state = task[t].state
                        /\ task'[t].ok \subseteq task'[t].items
                        /\ task'[t].bad \subseteq task'[t].items
  BY <1>1, <1>2 DEF TypeInv, TypeOK, TaskInv, Task
<1>8. TaskInv'
  BY <1>5, <1>7 DEF TypeInv, TaskInv
<1> QED
  BY <1>6, <1>8 DEF TypeInv

LEMMA TypeMerge ==
    ASSUME TypeInv, NEW s \in Stages, MergeStage(s) \/ FailStage(s)
    PROVE  TypeInv'
<1>1. st' \in PipelineState /\ st'.batch = st.batch
  BY MergeType, UpdateStatsType
     DEF MergeStage, FailStage, MergedState, UpdateStats, TypeInv, TypeOK,
         PipelineState
<1>2. pool' \subseteq Entry /\ IsFiniteSet(pool')
  BY MergeType DEF MergeStage, FailStage
<1>3. CASE MergeStage(s)
  <2>1. task[s] \in Task /\ task' = [task EXCEPT ![s] = [@ EXCEPT !.state = "merged"]]
    BY <1>3 DEF MergeStage, TypeInv, TypeOK
  <2>2. [task[s] EXCEPT !.state = "merged"] \in Task
    BY <2>1 DEF Task
  <2>3. task' \in [Stages -> Task]
    BY <2>1, <2>2 DEF TypeInv, TypeOK
  <2>4. TypeOK'
    BY <1>1, <1>2, <1>3, <2>3 DEF MergeStage, TypeInv, TypeOK, world, disk
  <2>5. \A t \in Stages : /\ task'[t].items = task[t].items
                          /\ task'[t].ok = task[t].ok
                          /\ task'[t].bad = task[t].bad
                          /\ task'[t].state = "none" => task[t].state = "none"
    BY <2>1 DEF TypeInv, TypeOK, Task
  <2>6. TaskInv'
    BY <1>1, <1>2, <1>3, <2>5 DEF MergeStage, TypeInv, TaskInv
  <2> QED
    BY <2>4, <2>6 DEF TypeInv
<1>4. CASE FailStage(s)
  <2>1. TypeOK'
    BY <1>1, <1>2, <1>4, NoTaskType DEF FailStage, TypeInv, TypeOK, world, disk
  <2>2. TaskInv'
    BY <1>2, <1>4, NoTaskType, FS_EmptySet DEF FailStage, TaskInv
  <2> QED
    BY <2>1, <2>2 DEF TypeInv
<1> QED
  BY <1>3, <1>4

LEMMA TypeEndBatch ==
    ASSUME TypeInv, EndBatch
    PROVE  TypeInv'
<1>1. st' \in PipelineState
  BY DEF EndBatch, TypeInv, TypeOK, TaskInv, PipelineState
<1>2. seq' \in Nat /\ ckpt' \in Checkpoint
  BY <1>1, SaveType DEF EndBatch
<1>3. TypeOK'
  BY <1>1, <1>2, NoTaskType DEF EndBatch, TypeInv, TypeOK, world
<1>4. TaskInv'
  BY NoTaskType, FS_EmptySet DEF EndBatch, TypeInv, TaskInv
<1> QED
  BY <1>3, <1>4 DEF TypeInv

(* What follows the last batch.                                            *)
LEMMA TypeFinish ==
    ASSUME TypeInv, SaveCompletedHashes \/ Complete \/ RunLifecycle
    PROVE  TypeInv'
<1>1. CASE SaveCompletedHashes
  <2>1. hashes' \in [Ids -> Hashes]
    <3>1. \A o \in Objects : st.item[o].hash \in Hashes
      BY DEF TypeInv, TypeOK, PipelineState, ItemState
    <3>2. \A id \in Ids : CompletedWithId(st.item, id) # {} =>
             (CHOOSE o \in CompletedWithId(st.item, id) : TRUE) \in Objects
      BY DEF CompletedWithId, HasStatus
    <3> QED
      BY <1>1, <3>1, <3>2 DEF SaveCompletedHashes, StoreHashes, CompletedHashes, Hashes
  <2>2. TypeOK'
    BY <1>1, <2>1 DEF SaveCompletedHashes, StoreHashes, TypeInv, TypeOK, world
  <2> QED
    BY <1>1, <2>2 DEF SaveCompletedHashes, StoreHashes, TypeInv, TaskInv
<1>2. CASE Complete
  <2>1. st' \in PipelineState
    BY <1>2 DEF Complete, TypeInv, TypeOK, PipelineState, PipelineStatus
  <2>2. seq' \in Nat /\ ckpt' \in Checkpoint
    BY <1>2, <2>1, SaveType DEF Complete
  <2>3. TypeOK'
    BY <1>2, <2>1, <2>2 DEF Complete, TypeInv, TypeOK, world
  <2> QED
    BY <1>2, <2>3 DEF Complete, TypeInv, TaskInv
<1>3. CASE RunLifecycle
  <2>1. TypeOK'
    BY <1>3 DEF RunLifecycle, TypeInv, TypeOK, disk
  <2> QED
    BY <1>3, <2>1 DEF RunLifecycle, TypeInv, TaskInv
<1> QED
  BY <1>1, <1>2, <1>3

LEMMA TypeEnvironment ==
    ASSUME TypeInv,
           \/ \E o \in Objects : Arrive(o)
           \/ \E c \in Specs : EditConfig(c)
    PROVE  TypeInv'
BY DEF Arrive, EditConfig, TypeInv, TypeOK, TaskInv, memory, disk

LEMMA TypeStep == TypeInv /\ [Next]_vars => TypeInv'
<1> SUFFICES ASSUME TypeInv, [Next]_vars PROVE TypeInv'
  OBVIOUS
<1>1. CASE RunCommand
  BY <1>1, TypeStart DEF RunCommand, TypeInv, TypeOK
<1>2. CASE ResumeCommand
  BY <1>2, TypeStart DEF ResumeCommand, TypeInv, TypeOK, Checkpoint
<1>3. CASE EnumerateSources
  BY <1>3, TypeEnumerate
<1>4. CASE ApplyIncrementality
  BY <1>4, TypeIncrementality
<1>5. CASE StartBatch
  BY <1>5, TypeStartBatch
<1>6. CASE StageStep
  BY <1>6, TypeHandlers, TypeMerge DEF StageStep
<1>7. CASE EndBatch
  BY <1>7, TypeEndBatch
<1>8. CASE SaveCompletedHashes \/ Complete \/ RunLifecycle
  BY <1>8, TypeFinish
<1>9. CASE Exit \/ Crash
  BY <1>9, TypeHalt DEF Exit, Crash
<1>10. CASE (\E o \in Objects : Arrive(o)) \/ (\E c \in Specs : EditConfig(c))
  BY <1>10, TypeEnvironment
<1>11. CASE UNCHANGED vars
  BY <1>11 DEF vars, TypeInv, TypeOK, TaskInv
<1> QED
  BY <1>1, <1>2, <1>3, <1>4, <1>5, <1>6, <1>7, <1>8, <1>9, <1>10, <1>11
     DEF Next, RunnerStep

(* The runner's memory, the store and the sources always hold values of    *)
(* their types: no counter, index or status leaves its range.              *)
THEOREM TypeCorrect == Spec => []TypeOK
<1>1. Init => TypeInv
  BY TypeInit
<1>2. TypeInv /\ [Next]_vars => TypeInv'
  BY TypeStep
<1>3. TypeInv => TypeOK
  BY DEF TypeInv
<1> QED
  BY <1>1, <1>2, <1>3, PTL DEF Spec

-----------------------------------------------------------------------------
(* The inductive invariant.                                                *)

Untouched(state, s) ==
    /\ state.stage[s] = PendingStage
    /\ \A o \in Objects : s \notin state.item[o].completed

AtBoundary(state) ==
    \A i \in 1..Len(Schedule) : \A s \in Schedule[i] :
       /\ i <= state.batch => state.stage[s].status = "Completed"
       /\ i > state.batch => Untouched(state, s)

(* Between batches the memory is at the boundary the next checkpoint will  *)
(* record; within a batch only that batch's stages have moved.             *)
BoundaryInv ==
    /\ AtBoundary(ckpt.state)
    /\ phase \notin {"batch", "failed"} => AtBoundary(st)
    /\ phase = "batch" =>
         \A i \in 1..Len(Schedule) : \A s \in Schedule[i] :
            /\ i <= st.batch => st.stage[s].status = "Completed"
            /\ i = st.batch + 1 /\ task[s].state = "merged" =>
                  st.stage[s].status = "Completed"
            /\ i > st.batch + 1 => Untouched(st, s)
    /\ \A s \in Stages : task[s].state # "none" =>
          phase = "batch" /\ s \in CurrentBatch

(* No item is ever Processing, and a pull item carries the empty hash.     *)
PlainItems(item) ==
    \A o \in Objects : /\ item[o].status # "Processing"
                       /\ item[o].status # "Absent" => item[o].hash = EmptyHash

ItemsInv ==
    /\ PlainItems(st.item) /\ PlainItems(ckpt.state.item)
    /\ ckpt.state.stats = Stats(ckpt.state.item)
    /\ phase # "failed" => st.stats = Stats(st.item)

HashesMatch(item) ==
    \A id \in Ids : (hashes[id] # NoHash) <=> (CompletedWithId(item, id) # {})

(* Memory runs ahead of the store, never behind it and never on another    *)
(* configuration.                                                          *)
StoreInv ==
    /\ ~HasCheckpoint => ckpt.state = FreshState
    /\ NoConfigMix
    /\ ckpt.state.status = "Completed" =>
         /\ HasCheckpoint
         /\ ckpt.state.batch = Len(Schedule)
         /\ HashesMatch(ckpt.state.item)
         /\ phase # "down" =>
              /\ phase \in {"ready", "hashed", "lifecycle", "finished"}
              /\ st.item = ckpt.state.item
    /\ phase # "down" => ckpt.state.batch <= st.batch
    /\ phase \in {"enumerate", "discovered"} =>
         st.batch = 0 /\ NeedsEnumeration(ckpt.state)
    /\ phase \in {"hashed", "lifecycle", "finished"} => st.batch = Len(Schedule)
    /\ phase = "hashed" => HashesMatch(st.item)
    /\ phase \in {"lifecycle", "finished"} => ckpt.state.status = "Completed"
    /\ st.status = "Completed" => phase \in {"lifecycle", "finished"}
    /\ RemovedAfterCompletion

(* A process either has nothing to work on, or has seen the whole run: no  *)
(* handler has succeeded on anything that is still to be done.             *)
Idle == pool = {} /\ \A s \in Stages : task[s].items = {}
Done(s) == \E i \in 1..st.batch : s \in Schedule[i]

EffectsInv ==
    /\ NeedsEnumeration(ckpt.state) => effects = {}
    /\ phase = "enumerate" => pool = {}
    /\ phase = "discovered" => (Present(st.item) = {} => pool = {})
    /\ phase \in {"enumerate", "discovered"} =>
          \A s \in Stages : task[s].items = {}
    /\ phase \in {"ready", "batch"} /\ NeedsEnumeration(ckpt.state) => Idle
    /\ phase \in {"ready", "batch"} =>
         \/ Idle
         \/ \A p \in effects : \/ Done(p[1])
                               \/ phase = "batch" /\ p[2] \in task[p[1]].ok

IInv == TypeInv /\ BoundaryInv /\ ItemsInv /\ StoreInv /\ EffectsInv

LEMMA InitInv == Init => IInv
<1> SUFFICES ASSUME Init PROVE IInv
  OBVIOUS
<1> USE DEF Init
<1>1. TypeInv
  BY TypeInit
<1>2. AtBoundary(FreshState)
  BY TopologyAssumption DEF AtBoundary, Untouched, FreshState, AbsentItem, PendingStage
<1>3. BoundaryInv
  BY <1>2 DEF BoundaryInv, NoCheckpoint, NoTask
<1>4. PlainItems(FreshState.item) /\ FreshState.stats = Stats(FreshState.item)
  <2>1. /\ Present(FreshState.item) = {}
        /\ HasStatus(FreshState.item, "Completed") = {}
        /\ HasStatus(FreshState.item, "Failed") = {}
    BY DEF Present, HasStatus, FreshState, AbsentItem
  <2> QED
    BY <2>1, FS_EmptySet DEF PlainItems, FreshState, AbsentItem, Stats
<1>5. ItemsInv
  BY <1>4 DEF ItemsInv, NoCheckpoint
<1>6. StoreInv
  BY DEF StoreInv, NoConfigMix, HasCheckpoint, NoCheckpoint, FreshState,
         RemovedAfterCompletion
<1>7. EffectsInv
  BY DEF EffectsInv
<1> QED
  BY <1>1, <1>3, <1>5, <1>6, <1>7 DEF IInv

(* What prepare_for_resume keeps.                                          *)
LEMMA PrepareKeeps ==
    ASSUME NEW state \in PipelineState, PlainItems(state.item)
    PROVE  LET p == PrepareForResume(state)
           IN  /\ p.batch = state.batch /\ p.stats = state.stats
               /\ p.item = state.item
               /\ \A s \in Stages :
                    /\ state.stage[s].status = "Completed" =>
                          p.stage[s].status = "Completed"
                    /\ state.stage[s] = PendingStage => p.stage[s] = PendingStage
<1> DEFINE p == PrepareForResume(state)
<1>1. p.batch = state.batch /\ p.stats = state.stats
  BY DEF PrepareForResume, PipelineState
<1>2. p.item = state.item
  <2>1. \A o \in Objects : state.item[o] \in ItemState /\ p.item[o] \in ItemState
    BY PrepareType DEF PipelineState
  <2>2. \A o \in Objects : p.item[o] = state.item[o]
    BY <2>1 DEF PrepareForResume, PlainItems, PipelineState, ItemState
  <2> QED
    BY <2>2 DEF PrepareForResume, PipelineState
<1>3. \A s \in Stages : state.stage[s] \in StageState
  BY DEF PipelineState
<1>4. \A s \in Stages :
        p.stage[s] = [state.stage[s] EXCEPT
                        !.status = IF @ = "Running" THEN "Pending" ELSE @]
  BY DEF PrepareForResume, PipelineState
<1>5. ASSUME NEW s \in Stages
      PROVE  /\ state.stage[s].status = "Completed" =>
                   p.stage[s].status = "Completed"
             /\ state.stage[s] = PendingStage => p.stage[s] = PendingStage
  BY <1>3, <1>4 DEF StageState, PendingStage
<1> QED
  BY <1>1, <1>2, <1>5

(* A process starts on the stored state or a fresh one.                    *)
LEMMA StartState ==
    ASSUME IInv, NEW c, Start(c)
    PROVE  /\ st'.batch = ckpt.state.batch
           /\ st'.stats = ckpt.state.stats
           /\ st'.item = ckpt.state.item
           /\ AtBoundary(st')
           /\ phase' \in {"enumerate", "ready"}
           /\ phase' = "enumerate" <=> NeedsEnumeration(ckpt.state)
<1>1. ckpt.state \in PipelineState /\ PlainItems(ckpt.state.item)
  BY DEF IInv, TypeInv, TypeOK, Checkpoint, ItemsInv
<1>2. AtBoundary(ckpt.state)
  BY DEF IInv, BoundaryInv
<1>3. ~HasCheckpoint => st' = ckpt.state
  BY DEF Start, IInv, StoreInv
<1>4. HasCheckpoint => st' = PrepareForResume(ckpt.state)
  BY DEF Start
<1>5. /\ st'.batch = ckpt.state.batch /\ st'.stats = ckpt.state.stats
      /\ st'.item = ckpt.state.item
      /\ \A s \in Stages :
           /\ ckpt.state.stage[s].status = "Completed" =>
                 st'.stage[s].status = "Completed"
           /\ ckpt.state.stage[s] = PendingStage => st'.stage[s] = PendingStage
  BY <1>1, <1>3, <1>4, PrepareKeeps
<1>6. \A i \in 1..Len(Schedule) : Schedule[i] \subseteq Stages
  BY TopologyAssumption
<1>7. AtBoundary(st')
  BY <1>2, <1>5, <1>6 DEF AtBoundary, Untouched
<1> QED
  BY <1>5, <1>7 DEF Start, NeedsEnumeration

LEMMA NoTaskState == NoTask.state = "none" /\ \A s \in Stages :
    [t \in Stages |-> NoTask][s].state = "none"
BY DEF NoTask

(* What BoundaryInv depends on.                                            *)
LEMMA BoundaryKept ==
    ASSUME BoundaryInv, st' = st, phase' = phase, ckpt' = ckpt,
           \A t \in Stages : task'[t].state = task[t].state
    PROVE  BoundaryInv'
<1>1. \A i \in 1..Len(Schedule) : Schedule[i] \subseteq Stages
  BY TopologyAssumption
<1>2. AtBoundary(ckpt.state)' /\ (phase \notin {"batch", "failed"} => AtBoundary(st))'
  BY DEF BoundaryInv, AtBoundary, Untouched
<1>3. (\A t \in Stages : task[t].state # "none" => phase = "batch" /\ t \in CurrentBatch)'
  BY DEF BoundaryInv, CurrentBatch
<1>4. ASSUME phase' = "batch", NEW i \in 1..Len(Schedule), NEW t \in Schedule[i]
      PROVE  /\ i <= st'.batch => st'.stage[t].status = "Completed"
             /\ i = st'.batch + 1 /\ task'[t].state = "merged" =>
                   st'.stage[t].status = "Completed"
             /\ i > st'.batch + 1 => Untouched(st, t)'
  <2>1. task'[t].state = task[t].state
    BY <1>1, <1>4
  <2> QED
    BY <1>4, <2>1 DEF BoundaryInv, Untouched
<1> QED
  BY <1>2, <1>3, <1>4 DEF BoundaryInv

(* Merging the result of s only moves s.                                   *)
LEMMA MergeMoves ==
    ASSUME TypeInv, NEW s \in Stages
    PROVE  /\ MergedState(s).batch = st.batch
           /\ MergedState(s).stats = st.stats
           /\ \A t \in Stages \ {s} : Untouched(st, t) => Untouched(MergedState(s), t)
           /\ \A t \in Stages \ {s} :
                 MergedState(s).stage[t] = st.stage[t]
           /\ ~Fails(s) => MergedState(s).stage[s].status = "Completed"
<1>1. /\ MergedState(s).batch = st.batch
      /\ MergedState(s).stats = st.stats
      /\ MergedState(s).item = [o \in Objects |-> MergedItem(s, o)]
      /\ MergedState(s).stage = [st.stage EXCEPT ![s] = MergedStage(s)]
  BY DEF MergedState, TypeInv, TypeOK, PipelineState
<1>2. st.stage \in [Stages -> StageState]
  BY DEF TypeInv, TypeOK, PipelineState
<1>3. \A o \in Objects : MergedItem(s, o).completed \subseteq
                            st.item[o].completed \cup {s}
  BY DEF MergedItem
<1>4. \A t \in Stages \ {s} : MergedState(s).stage[t] = st.stage[t]
  BY <1>1, <1>2
<1>5. ~Fails(s) => MergedState(s).stage[s].status = "Completed"
  BY <1>1, <1>2 DEF MergedStage
<1> QED
  BY <1>1, <1>3, <1>4, <1>5 DEF Untouched

LEMMA BoundaryStep ==
    ASSUME IInv, [Next]_vars
    PROVE  BoundaryInv'
<1> USE DEF IInv
<1>1. ASSUME NEW c, Start(c)
      PROVE  BoundaryInv'
  <2>1. AtBoundary(st') /\ phase' \in {"enumerate", "ready"}
    BY <1>1, StartState
  <2>2. ckpt' = ckpt /\ \A s \in Stages : task'[s].state = "none"
    BY <1>1, NoTaskState DEF Start, disk
  <2> QED
    BY <2>1, <2>2 DEF BoundaryInv, AtBoundary, Untouched
<1>2. CASE Exit \/ Crash
  <2>1. phase' = "down" /\ ckpt' = ckpt /\ st' = FreshState
        /\ \A s \in Stages : task'[s].state = "none"
    BY <1>2, NoTaskState DEF Exit, Crash, Halt, disk
  <2>2. AtBoundary(FreshState)
    BY TopologyAssumption
       DEF AtBoundary, Untouched, FreshState, AbsentItem, PendingStage
  <2> QED
    BY <2>1, <2>2 DEF BoundaryInv, AtBoundary, Untouched
<1>3. CASE EnumerateSources
  <2>1. /\ st'.batch = st.batch /\ st'.stage = st.stage
        /\ \A o \in Objects : st'.item[o].completed \subseteq st.item[o].completed
    BY <1>3 DEF EnumerateSources, UpdateStats, TypeInv, TypeOK, PipelineState
  <2>2. phase = "enumerate" /\ ckpt' = ckpt /\ task' = task
        /\ phase' = "discovered"
    BY <1>3 DEF EnumerateSources, disk
  <2> QED
    BY <2>1, <2>2 DEF BoundaryInv, AtBoundary, Untouched
<1>4. CASE ApplyIncrementality
  <2>1. /\ st'.batch = st.batch /\ st'.stage = st.stage
        /\ \A o \in Objects : st'.item[o].completed = st.item[o].completed
    <3>1. \A o \in Objects : st.item[o] \in ItemState
      BY DEF TypeInv, TypeOK, PipelineState
    <3>2. \A o \in Objects :
             MarkUnchanged(st.item, o).completed = st.item[o].completed
      BY <3>1 DEF MarkUnchanged, ItemState
    <3> QED
      BY <1>4, <3>2
         DEF ApplyIncrementality, UpdateStats, TypeInv, TypeOK, PipelineState
  <2>2. AtBoundary(st)
    BY <1>4 DEF ApplyIncrementality, BoundaryInv
  <2>3. AtBoundary(st')
    BY <2>1, <2>2 DEF AtBoundary, Untouched
  <2>4. phase = "discovered" /\ phase' = "ready" /\ ckpt'.state = st' /\ task' = task
    BY <1>4 DEF ApplyIncrementality, SaveCheckpoint, StoreCheckpoint
  <2> QED
    BY <2>3, <2>4 DEF BoundaryInv, AtBoundary, Untouched
<1>5. CASE StartBatch
  <2>1. /\ st'.batch = st.batch /\ st'.item = st.item
        /\ \A s \in Stages \ CurrentBatch : st'.stage[s] = st.stage[s]
    BY <1>5 DEF StartBatch, TypeInv, TypeOK, PipelineState
  <2>2. \A s \in Stages : IF s \in CurrentBatch THEN task'[s].state = "running"
                                                ELSE task'[s].state = "none"
    BY <1>5, NoTaskState DEF StartBatch
  <2>3. AtBoundary(st) /\ phase' = "batch" /\ ckpt' = ckpt
    BY <1>5 DEF StartBatch, BoundaryInv, disk
  <2>4. /\ CurrentBatch = Schedule[st.batch + 1] /\ st.batch \in Nat
        /\ st.batch < Len(Schedule) /\ Len(Schedule) \in Nat
    BY <1>5, TopologyAssumption
       DEF StartBatch, CurrentBatch, TypeInv, TypeOK, PipelineState
  <2>5. \A i \in 1..Len(Schedule) : \A s \in Schedule[i] :
           s \in Stages /\ (s \in CurrentBatch => i = st.batch + 1)
    BY <2>4, TopologyAssumption
  <2>6. ASSUME NEW i \in 1..Len(Schedule), NEW s \in Schedule[i]
        PROVE  /\ i <= st.batch => st'.stage[s].status = "Completed"
               /\ i > st.batch + 1 => Untouched(st', s)
    BY <2>1, <2>3, <2>4, <2>5, <2>6 DEF AtBoundary, Untouched
  <2>7. AtBoundary(ckpt'.state)
    BY <2>3 DEF BoundaryInv
  <2>8. \A i \in 1..Len(Schedule) : \A s \in Schedule[i] :
           ~(i = st'.batch + 1 /\ task'[s].state = "merged")
    BY <2>1, <2>2, <2>5
  <2>9. \A s \in Stages : task'[s].state # "none" => s \in Schedule[st'.batch + 1]
    BY <2>1, <2>2, <2>4
  <2> QED
    BY <2>1, <2>3, <2>6, <2>7, <2>8, <2>9
       DEF BoundaryInv, AtBoundary, Untouched, CurrentBatch
<1>6. ASSUME NEW s \in Stages, NEW e \in Todo(s), ItemSucceeds(s, e) \/ ItemErrs(s, e)
      PROVE  BoundaryInv'
  <2>1. \A t \in Stages : task'[t].state = task[t].state
    BY <1>6 DEF ItemSucceeds, ItemErrs, TypeInv, TypeOK, Task
  <2>2. st' = st /\ phase' = phase /\ ckpt' = ckpt
    BY <1>6 DEF ItemSucceeds, ItemErrs, disk
  <2>3. BoundaryInv
    BY DEF IInv
  <2> QED
    BY <2>1, <2>2, <2>3, BoundaryKept
<1>7. ASSUME NEW s \in Stages, BatchSucceeds(s) \/ BatchErrs(s)
      PROVE  BoundaryInv'
  <2>1. \A t \in Stages : task'[t].state = task[t].state
    BY <1>7 DEF BatchSucceeds, BatchErrs, TypeInv, TypeOK, Task
  <2>2. st' = st /\ phase' = phase /\ ckpt' = ckpt
    BY <1>7 DEF BatchSucceeds, BatchErrs, disk
  <2>3. BoundaryInv
    BY DEF IInv
  <2> QED
    BY <2>1, <2>2, <2>3, BoundaryKept
<1>8. ASSUME NEW s \in Stages, MergeStage(s)
      PROVE  BoundaryInv'
  <2>1. /\ st'.batch = st.batch
        /\ \A t \in Stages \ {s} : Untouched(st, t) => Untouched(st', t)
        /\ \A t \in Stages \ {s} : st'.stage[t] = st.stage[t]
        /\ st'.stage[s].status = "Completed"
    <3>1. st' = [MergedState(s) EXCEPT !.stats = Stats(MergedState(s).item)]
      BY <1>8 DEF MergeStage, UpdateStats
    <3>2. /\ st'.batch = MergedState(s).batch /\ st'.item = MergedState(s).item
          /\ st'.stage = MergedState(s).stage
      BY <3>1, MergeType DEF PipelineState
    <3> QED
      BY <1>8, <3>2, MergeMoves DEF MergeStage, Untouched
  <2>2. /\ \A t \in Stages \ {s} : task'[t] = task[t]
        /\ task'[s].state = "merged"
    BY <1>8 DEF MergeStage, TypeInv, TypeOK, Task
  <2>3. phase = "batch" /\ phase' = "batch" /\ ckpt' = ckpt
    BY <1>8 DEF MergeStage, disk
  <2>4. s \in CurrentBatch
    BY <1>8 DEF MergeStage, BoundaryInv
  <2>5. \A i \in 1..Len(Schedule) : \A t \in Schedule[i] :
           t \in Stages /\ (t = s => i = st.batch + 1)
    BY <2>3, <2>4, BatchStagesType, TopologyAssumption DEF CurrentBatch
  <2>6. ASSUME NEW i \in 1..Len(Schedule), NEW t \in Schedule[i]
        PROVE  /\ i <= st'.batch => st'.stage[t].status = "Completed"
               /\ i = st'.batch + 1 /\ task'[t].state = "merged" =>
                     st'.stage[t].status = "Completed"
               /\ i > st'.batch + 1 => Untouched(st', t)
    <3>1. CASE t = s
      BY <2>1, <2>5, <3>1, BatchStagesType DEF TypeInv, TypeOK, PipelineState
    <3>2. CASE t # s
      BY <2>1, <2>2, <2>3, <2>5, <3>2 DEF BoundaryInv
    <3> QED
      BY <3>1, <3>2
  <2>7. \A t \in Stages : task'[t].state # "none" => t \in Schedule[st'.batch + 1]
    BY <2>1, <2>2, <2>4 DEF BoundaryInv, CurrentBatch
  <2> QED
    BY <2>3, <2>6, <2>7 DEF BoundaryInv, AtBoundary, Untouched, CurrentBatch
<1>9. ASSUME NEW s \in Stages, FailStage(s)
      PROVE  BoundaryInv'
  <2>1. phase' = "failed" /\ ckpt' = ckpt /\ \A t \in Stages : task'[t].state = "none"
    BY <1>9, NoTaskState DEF FailStage, disk
  <2> QED
    BY <2>1 DEF BoundaryInv, AtBoundary, Untouched
<1>10. CASE EndBatch
  <2>1. /\ st'.batch = st.batch + 1 /\ st'.stage = st.stage /\ st'.item = st.item
        /\ st.batch \in Nat /\ ckpt'.state = st' /\ phase' = "ready" /\ phase = "batch"
    BY <1>10 DEF EndBatch, SaveCheckpoint, StoreCheckpoint, TypeInv, TypeOK, PipelineState
  <2>2. \A s \in Stages : task'[s].state = "none"
    BY <1>10, NoTaskState DEF EndBatch
  <2>3. ASSUME NEW i \in 1..Len(Schedule), NEW s \in Schedule[i]
        PROVE  /\ i <= st'.batch => st'.stage[s].status = "Completed"
               /\ i > st'.batch => Untouched(st', s)
    <3>1. /\ i <= st.batch => st.stage[s].status = "Completed"
          /\ i = st.batch + 1 /\ task[s].state = "merged" =>
                st.stage[s].status = "Completed"
          /\ i > st.batch + 1 => Untouched(st, s)
      BY <2>1 DEF BoundaryInv
    <3>2. i = st.batch + 1 => task[s].state = "merged"
      BY <1>10 DEF EndBatch, AllMerged, CurrentBatch
    <3>3. i <= st.batch + 1 => i <= st.batch \/ i = st.batch + 1
      BY <2>1
    <3> QED
      BY <2>1, <3>1, <3>2, <3>3 DEF Untouched
  <2> QED
    BY <2>1, <2>2, <2>3 DEF BoundaryInv, AtBoundary, Untouched
<1>11. CASE SaveCompletedHashes \/ RunLifecycle
  <2>1. /\ st' = st /\ task' = task /\ ckpt' = ckpt
        /\ phase \notin {"batch", "failed"} /\ phase' \notin {"batch", "failed"}
    BY <1>11 DEF SaveCompletedHashes, StoreHashes, RunLifecycle, disk
  <2> QED
    BY <2>1 DEF BoundaryInv, AtBoundary, Untouched
<1>12. CASE Complete
  <2>1. /\ st'.batch = st.batch /\ st'.stage = st.stage /\ st'.item = st.item
        /\ ckpt'.state = st' /\ task' = task
        /\ phase = "hashed" /\ phase' = "lifecycle"
    BY <1>12 DEF Complete, SaveCheckpoint, StoreCheckpoint, TypeInv, TypeOK, PipelineState
  <2> QED
    BY <2>1 DEF BoundaryInv, AtBoundary, Untouched
<1>13. CASE (\E o \in Objects : Arrive(o)) \/ (\E c \in Specs : EditConfig(c))
  BY <1>13, TopologyAssumption
     DEF Arrive, EditConfig, memory, disk, BoundaryInv, AtBoundary, Untouched, CurrentBatch
<1>14. CASE UNCHANGED vars
  BY <1>14, TopologyAssumption
     DEF vars, BoundaryInv, AtBoundary, Untouched, CurrentBatch
<1> QED
  BY <1>1, <1>2, <1>3, <1>4, <1>5, <1>6, <1>7, <1>8, <1>9, <1>10, <1>11, <1>12,
     <1>13, <1>14
     DEF Next, RunnerStep, StageStep, RunCommand, ResumeCommand

(* Merging keeps what is true of every item.                               *)
LEMMA MergeItems ==
    ASSUME TypeInv, NEW s \in Stages, PlainItems(st.item)
    PROVE  PlainItems(MergedState(s).item)
<1>1. MergedState(s).item = [o \in Objects |-> MergedItem(s, o)]
  BY DEF MergedState, TypeInv, TypeOK, PipelineState
<1>2. ASSUME NEW o \in Objects
      PROVE  /\ MergedItem(s, o).status # "Processing"
             /\ MergedItem(s, o).status # "Absent" =>
                   MergedItem(s, o).hash = EmptyHash
  BY DEF MergedItem, PlainItems
<1> QED
  BY <1>1, <1>2 DEF PlainItems

(* update_stats touches nothing but the statistics.                        *)
LEMMA StatsUpdated ==
    ASSUME NEW state \in PipelineState
    PROVE  LET u == UpdateStats(state)
           IN  /\ u.batch = state.batch /\ u.item = state.item
               /\ u.stage = state.stage /\ u.status = state.status
               /\ u.stats = Stats(u.item)
BY DEF UpdateStats, PipelineState

LEMMA ItemsStep ==
    ASSUME IInv, [Next]_vars
    PROVE  ItemsInv'
<1> USE DEF IInv
<1>1. ASSUME NEW c, Start(c)
      PROVE  ItemsInv'
  <2>1. ckpt' = ckpt
    BY <1>1 DEF Start, disk
  <2> QED
    BY <1>1, <2>1, StartState DEF ItemsInv
<1>2. CASE Exit \/ Crash
  <2>1. ckpt' = ckpt /\ st' = FreshState
    BY <1>2 DEF Exit, Crash, Halt, disk
  <2>2. PlainItems(FreshState.item) /\ FreshState.stats = Stats(FreshState.item)
    <3>1. /\ Present(FreshState.item) = {}
          /\ HasStatus(FreshState.item, "Completed") = {}
          /\ HasStatus(FreshState.item, "Failed") = {}
      BY DEF Present, HasStatus, FreshState, AbsentItem
    <3> QED
      BY <3>1, FS_EmptySet DEF PlainItems, FreshState, AbsentItem, Stats
  <2> QED
    BY <2>1, <2>2 DEF ItemsInv
<1>3. CASE EnumerateSources
  <2> DEFINE item == [o \in Objects |->
                IF o \in objects
                THEN [status |-> "Pending", completed |-> {}, hash |-> EmptyHash]
                ELSE st.item[o]]
  <2>1. item \in [Objects -> ItemState]
    BY DEF TypeInv, TypeOK, PipelineState, ItemState, ItemStatus, Hashes
  <2>2. [st EXCEPT !.item = item] \in PipelineState
        /\ [st EXCEPT !.item = item].item = item
    BY <2>1 DEF TypeInv, TypeOK, PipelineState
  <2>3. PlainItems(item)
    BY DEF ItemsInv, PlainItems
  <2>4. st' = UpdateStats([st EXCEPT !.item = item]) /\ ckpt' = ckpt
    BY <1>3 DEF EnumerateSources, disk
  <2> HIDE DEF item
  <2>5. st'.item = item /\ st'.stats = Stats(st'.item)
    BY <2>2, <2>4, StatsUpdated
  <2> QED
    BY <2>3, <2>4, <2>5 DEF ItemsInv
<1>4. CASE ApplyIncrementality
  <2> DEFINE item == [o \in Objects |-> MarkUnchanged(st.item, o)]
  <2>1. \A o \in Objects : st.item[o] \in ItemState
    BY DEF TypeInv, TypeOK, PipelineState
  <2>2. item \in [Objects -> ItemState] /\ PlainItems(item)
    BY <2>1 DEF MarkUnchanged, ItemState, ItemStatus, ItemsInv, PlainItems
  <2>3. [st EXCEPT !.item = item] \in PipelineState
        /\ [st EXCEPT !.item = item].item = item
    BY <2>2 DEF TypeInv, TypeOK, PipelineState
  <2>4. st' = UpdateStats([st EXCEPT !.item = item]) /\ ckpt'.state = st'
    BY <1>4 DEF ApplyIncrementality, SaveCheckpoint, StoreCheckpoint
  <2> HIDE DEF item
  <2>5. st'.item = item /\ st'.stats = Stats(st'.item)
    BY <2>3, <2>4, StatsUpdated
  <2> QED
    BY <2>2, <2>4, <2>5 DEF ItemsInv
<1>5. CASE StartBatch
  <2>1. st'.item = st.item /\ st'.stats = st.stats /\ ckpt' = ckpt /\ phase = "ready"
    BY <1>5 DEF StartBatch, disk, TypeInv, TypeOK, PipelineState
  <2> QED
    BY <2>1 DEF ItemsInv
<1>6. ASSUME NEW s \in Stages, NEW e \in Todo(s), ItemSucceeds(s, e) \/ ItemErrs(s, e)
      PROVE  ItemsInv'
  BY <1>6 DEF ItemSucceeds, ItemErrs, ItemsInv, disk
<1>7. ASSUME NEW s \in Stages, BatchSucceeds(s) \/ BatchErrs(s)
      PROVE  ItemsInv'
  BY <1>7 DEF BatchSucceeds, BatchErrs, ItemsInv, disk
<1>8. ASSUME NEW s \in Stages, MergeStage(s)
      PROVE  ItemsInv'
  <2>1. st'.item = MergedState(s).item /\ st'.stats = Stats(st'.item)
    BY <1>8, MergeType, StatsUpdated DEF MergeStage
  <2>2. PlainItems(st'.item)
    BY <2>1, MergeItems DEF ItemsInv
  <2>3. ckpt' = ckpt
    BY <1>8 DEF MergeStage, disk
  <2> QED
    BY <2>1, <2>2, <2>3 DEF ItemsInv
<1>9. ASSUME NEW s \in Stages, FailStage(s)
      PROVE  ItemsInv'
  BY <1>9, MergeItems DEF FailStage, ItemsInv, disk
<1>10. CASE EndBatch \/ Complete
  <2>1. /\ st'.item = st.item /\ st'.stats = st.stats /\ ckpt'.state = st'
        /\ phase # "failed"
    BY <1>10 DEF EndBatch, Complete, SaveCheckpoint, StoreCheckpoint, TypeInv, TypeOK, PipelineState
  <2> QED
    BY <2>1 DEF ItemsInv
<1>11. CASE SaveCompletedHashes \/ RunLifecycle
  BY <1>11 DEF SaveCompletedHashes, StoreHashes, RunLifecycle, ItemsInv, disk
<1>12. CASE (\E o \in Objects : Arrive(o)) \/ (\E c \in Specs : EditConfig(c))
  BY <1>12 DEF Arrive, EditConfig, ItemsInv, memory, disk
<1>13. CASE UNCHANGED vars
  BY <1>13 DEF vars, ItemsInv
<1> QED
  BY <1>1, <1>2, <1>3, <1>4, <1>5, <1>6, <1>7, <1>8, <1>9, <1>10, <1>11, <1>12, <1>13
     DEF Next, RunnerStep, StageStep, RunCommand, ResumeCommand

LEMMA ScheduleLength == Len(Schedule) \in Nat /\ Len(Schedule) > 0
BY TopologyAssumption

(* A completed run is never mistaken for one that was not enumerated.      *)
LEMMA CompletedIsEnumerated ==
    ASSUME StoreInv, ckpt.state.status = "Completed"
    PROVE  ~NeedsEnumeration(ckpt.state)
BY ScheduleLength DEF StoreInv, NeedsEnumeration

(* save_completed_hashes writes an entry for every completed id.           *)
LEMMA HashesSaved ==
    ASSUME PlainItems(st.item), hashes' = CompletedHashes,
           st' = st
    PROVE  \A id \in Ids :
              (hashes'[id] # NoHash) <=> (CompletedWithId(st.item, id) # {})
<1> SUFFICES ASSUME NEW id \in Ids
             PROVE  (hashes'[id] # NoHash) <=> (CompletedWithId(st.item, id) # {})
  OBVIOUS
<1>1. CASE CompletedWithId(st.item, id) = {}
  BY <1>1 DEF CompletedHashes
<1>2. CASE CompletedWithId(st.item, id) # {}
  <2> DEFINE o == CHOOSE o \in CompletedWithId(st.item, id) : TRUE
  <2>1. o \in CompletedWithId(st.item, id)
    BY <1>2
  <2>2. st.item[o].hash = EmptyHash
    BY <2>1 DEF PlainItems, CompletedWithId, HasStatus
  <2>3. hashes'[id] = st.item[o].hash
    BY <1>2 DEF CompletedHashes
  <2> QED
    BY <1>2, <2>2, <2>3 DEF NoHash, EmptyHash
<1> QED
  BY <1>1, <1>2

LEMMA StoreStep ==
    ASSUME IInv, [Next]_vars
    PROVE  StoreInv'
<1> USE DEF IInv
<1> USE DEF NoConfigMix, HasCheckpoint, RemovedAfterCompletion, HashesMatch
<1>1. ASSUME NEW c, Start(c)
      PROVE  StoreInv'
  <2>1. /\ st'.batch = ckpt.state.batch /\ st'.item = ckpt.state.item
        /\ phase' \in {"enumerate", "ready"}
        /\ phase' = "enumerate" <=> NeedsEnumeration(ckpt.state)
    BY <1>1, StartState
  <2>2. st'.status # "Completed"
    BY <1>1 DEF Start, PrepareForResume, FreshState, TypeInv, TypeOK, Checkpoint,
                PipelineState
  <2>3. /\ UNCHANGED <<removed, ckpt, hashes>> /\ spec' = c
        /\ phase = "down" /\ ~ConfigDrifted(c)
    BY <1>1 DEF Start, world, disk
  <2>4. ckpt.state.batch \in Nat
    BY DEF TypeInv, TypeOK, Checkpoint, PipelineState
  <2> QED
    BY <2>1, <2>2, <2>3, <2>4, CompletedIsEnumerated
       DEF StoreInv, ConfigDrifted, NeedsEnumeration
<1>2. CASE Exit \/ Crash
  BY <1>2 DEF Exit, Crash, Halt, world, disk, StoreInv, FreshState
<1>3. CASE EnumerateSources
  <2>1. st'.batch = st.batch /\ st'.status = st.status
    BY <1>3 DEF EnumerateSources, UpdateStats, TypeInv, TypeOK, PipelineState
  <2> QED
    BY <1>3, <2>1 DEF EnumerateSources, world, disk, StoreInv
<1>4. CASE ApplyIncrementality
  <2>1. st'.batch = st.batch /\ st'.status = st.status /\ st'.batch \in Nat
    BY <1>4 DEF ApplyIncrementality, UpdateStats, TypeInv, TypeOK, PipelineState
  <2>2. ckpt'.state = st' /\ ckpt'.spec = spec /\ ckpt'.seq > 0
    BY <1>4 DEF ApplyIncrementality, SaveCheckpoint, StoreCheckpoint, TypeInv, TypeOK
  <2>3. removed = {} /\ ckpt'.state.status # "Completed"
    BY <1>4, <2>1, <2>2 DEF ApplyIncrementality, StoreInv
  <2> QED
    BY <1>4, <2>1, <2>2, <2>3 DEF ApplyIncrementality, world, StoreInv
<1>5. CASE StartBatch
  <2>1. st'.batch = st.batch /\ st'.status = st.status
        /\ ckpt.state.status # "Completed"
    <3>1. st'.batch = st.batch /\ st'.status = st.status
      BY <1>5 DEF StartBatch, TypeInv, TypeOK, PipelineState
    <3>2. ASSUME ckpt.state.status = "Completed" PROVE FALSE
      <4>1. ckpt.state.batch = Len(Schedule) /\ ckpt.state.batch <= st.batch
            /\ st.batch < Len(Schedule)
        BY <1>5, <3>2 DEF StartBatch, StoreInv
      <4> QED
        BY <4>1, ScheduleLength DEF TypeInv, TypeOK, PipelineState
    <3> QED
      BY <3>1, <3>2
  <2> QED
    BY <1>5, <2>1 DEF StartBatch, world, disk, StoreInv
<1>6. ASSUME NEW s \in Stages, NEW e \in Todo(s), ItemSucceeds(s, e) \/ ItemErrs(s, e)
      PROVE  StoreInv'
  BY <1>6 DEF ItemSucceeds, ItemErrs, world, disk, StoreInv
<1>7. ASSUME NEW s \in Stages, BatchSucceeds(s) \/ BatchErrs(s)
      PROVE  StoreInv'
  BY <1>7 DEF BatchSucceeds, BatchErrs, world, disk, StoreInv
<1>8. ASSUME NEW s \in Stages, MergeStage(s) \/ FailStage(s)
      PROVE  StoreInv'
  <2>1. st'.batch = st.batch /\ st'.status = st.status
    <3>1. MergedState(s).batch = st.batch /\ MergedState(s).status = st.status
      BY DEF MergedState, TypeInv, TypeOK, PipelineState
    <3>2. /\ UpdateStats(MergedState(s)).batch = MergedState(s).batch
          /\ UpdateStats(MergedState(s)).status = MergedState(s).status
      BY MergeType, StatsUpdated
    <3>3. st' = MergedState(s) \/ st' = UpdateStats(MergedState(s))
      BY <1>8 DEF MergeStage, FailStage
    <3> QED
      BY <3>1, <3>2, <3>3
  <2>2. /\ UNCHANGED <<removed, spec, ckpt, hashes>>
        /\ phase = "batch" /\ phase' \in {"batch", "failed"}
    BY <1>8 DEF MergeStage, FailStage, world, disk
  <2> QED
    BY <2>1, <2>2 DEF StoreInv
<1>9. CASE EndBatch
  <2>1. st'.batch = st.batch + 1 /\ st'.status = st.status /\ st'.batch \in Nat
    BY <1>9 DEF EndBatch, TypeInv, TypeOK, PipelineState
  <2>2. ckpt'.state = st' /\ ckpt'.spec = spec /\ ckpt'.seq > 0
    BY <1>9 DEF EndBatch, SaveCheckpoint, StoreCheckpoint, TypeInv, TypeOK
  <2>3. removed = {} /\ ckpt'.state.status # "Completed"
    BY <1>9, <2>1, <2>2 DEF EndBatch, StoreInv
  <2> QED
    BY <1>9, <2>1, <2>2, <2>3 DEF EndBatch, world, StoreInv
<1>10. CASE SaveCompletedHashes
  <2>1. \A id \in Ids : (hashes'[id] # NoHash) <=> (CompletedWithId(st.item, id) # {})
    BY <1>10, HashesSaved DEF SaveCompletedHashes, StoreHashes, ItemsInv
  <2> QED
    BY <1>10, <2>1 DEF SaveCompletedHashes, StoreHashes, world, StoreInv
<1>11. CASE Complete
  <2>1. /\ st'.batch = st.batch /\ st'.item = st.item /\ st'.status = "Completed"
        /\ st.batch \in Nat
    BY <1>11 DEF Complete, TypeInv, TypeOK, PipelineState
  <2>2. ckpt'.state = st' /\ ckpt'.spec = spec /\ ckpt'.seq > 0
    BY <1>11 DEF Complete, SaveCheckpoint, StoreCheckpoint, TypeInv, TypeOK
  <2> QED
    BY <1>11, <2>1, <2>2 DEF Complete, world, StoreInv
<1>12. CASE RunLifecycle
  BY <1>12 DEF RunLifecycle, disk, StoreInv, Present
<1>13. CASE (\E o \in Objects : Arrive(o)) \/ (\E c \in Specs : EditConfig(c))
  BY <1>13 DEF Arrive, EditConfig, memory, disk, StoreInv
<1>14. CASE UNCHANGED vars
  BY <1>14 DEF vars, StoreInv
<1> QED
  BY <1>1, <1>2, <1>3, <1>4, <1>5, <1>6, <1>7, <1>8, <1>9, <1>10, <1>11, <1>12,
     <1>13, <1>14
     DEF Next, RunnerStep, StageStep, RunCommand, ResumeCommand

(* With nothing to do, a merge leaves nothing to do.                       *)
LEMMA IdleMerge ==
    ASSUME TypeInv, Idle, NEW s \in Stages
    PROVE  MergedPool(s) = {}
<1>1. task[s].ok = {}
  BY DEF Idle, TypeInv, TaskInv
<1>2. NewItems(s) = {}
  BY <1>1 DEF NewItems
<1> QED
  BY <1>2 DEF MergedPool, Idle

(* A state that counts no item has none.                                   *)
LEMMA NothingDiscovered ==
    ASSUME NEW item, Stats(item).discovered = 0
    PROVE  Present(item) = {}
<1>1. IsFiniteSet(Present(item))
  BY TopologyAssumption, FS_Subset DEF Present
<1>2. Cardinality(Present(item)) = 0
  BY DEF Stats
<1> QED
  BY <1>1, <1>2, FS_EmptySet

(* No handler succeeds on an item it already succeeded on.                 *)
LEMMA EffectStep ==
    ASSUME IInv, [Next]_vars, NEW s \in Stages, NEW e \in task'[s].ok \ task[s].ok
    PROVE  <<s, e>> \notin effects
<1> USE DEF IInv
<1>1. /\ phase = "batch" /\ e \in task[s].items /\ task[s].state = "running"
  <2>1. CASE StageStep
    <3>1. PICK t \in Stages :
             \/ \E f \in Todo(t) : ItemSucceeds(t, f) \/ ItemErrs(t, f)
             \/ BatchSucceeds(t) \/ BatchErrs(t)
             \/ MergeStage(t) \/ FailStage(t)
      BY <2>1 DEF StageStep
    <3>2. CASE \E f \in Todo(t) : ItemSucceeds(t, f)
      BY <3>2 DEF ItemSucceeds, Todo, TypeInv, TypeOK, Task
    <3>3. CASE \E f \in Todo(t) : ItemErrs(t, f)
      BY <3>3 DEF ItemErrs, TypeInv, TypeOK, Task
    <3>4. CASE BatchSucceeds(t)
      BY <3>4 DEF BatchSucceeds, TypeInv, TypeOK, Task
    <3>5. CASE BatchErrs(t)
      BY <3>5 DEF BatchErrs, TypeInv, TypeOK, Task
    <3>6. CASE MergeStage(t)
      BY <3>6 DEF MergeStage, TypeInv, TypeOK, Task
    <3>7. CASE FailStage(t)
      BY <3>7, NoTaskType DEF FailStage
    <3> QED
      BY <3>1, <3>2, <3>3, <3>4, <3>5, <3>6, <3>7
  <2>2. CASE StartBatch
    BY <2>2, NoTaskType DEF StartBatch
  <2>3. CASE task' = task
    BY <2>3
  <2>4. CASE task' = [t \in Stages |-> NoTask]
    BY <2>4, NoTaskType
  <2>5. StageStep \/ StartBatch \/ task' = task \/ task' = [t \in Stages |-> NoTask]
    BY DEF Next, RunnerStep, RunCommand, ResumeCommand, Start, Exit, Crash, Halt,
           EnumerateSources, ApplyIncrementality, EndBatch, SaveCompletedHashes, StoreHashes,
           Complete, RunLifecycle, Arrive, EditConfig, memory, vars
  <2> QED
    BY <2>1, <2>2, <2>3, <2>4, <2>5
<1>2. SUFFICES ASSUME <<s, e>> \in effects
               PROVE  FALSE
  OBVIOUS
<1>3. ~Idle
  BY <1>1 DEF Idle
<1>4. Done(s)
  BY <1>1, <1>2, <1>3 DEF EffectsInv
<1>5. s \in Schedule[st.batch + 1] /\ st.batch + 1 \in 1..Len(Schedule)
  BY <1>1, BatchStagesType DEF BoundaryInv, CurrentBatch
<1>6. PICK i \in 1..st.batch : s \in Schedule[i]
  BY <1>4 DEF Done
<1>7. st.batch \in Nat /\ i \in 1..Len(Schedule) /\ i # st.batch + 1
  BY <1>5, <1>6, ScheduleLength DEF TypeInv, TypeOK, PipelineState
<1>8. Schedule[i] \cap Schedule[st.batch + 1] = {}
  BY <1>5, <1>7, TopologyAssumption
<1> QED
  BY <1>5, <1>6, <1>8

LEMMA EffectsStep ==
    ASSUME IInv, [Next]_vars
    PROVE  EffectsInv'
<1> USE DEF IInv
<1> USE DEF Idle, Done, NeedsEnumeration
<1>1. ASSUME NEW c, Start(c)
      PROVE  EffectsInv'
  <2>1. /\ phase' \in {"enumerate", "ready"} /\ pool' = {}
        /\ phase' = "enumerate" <=> NeedsEnumeration(ckpt.state)
        /\ \A s \in Stages : task'[s].items = {}
        /\ ckpt' = ckpt /\ effects' = effects
    BY <1>1, StartState, NoTaskType DEF Start, disk
  <2> QED
    BY <2>1 DEF EffectsInv
<1>2. CASE Exit \/ Crash
  BY <1>2 DEF Exit, Crash, Halt, disk, EffectsInv
<1>3. CASE EnumerateSources
  <2> DEFINE item == [o \in Objects |->
                IF o \in objects
                THEN [status |-> "Pending", completed |-> {}, hash |-> EmptyHash]
                ELSE st.item[o]]
  <2>1. st'.item = item
    BY <1>3 DEF EnumerateSources, UpdateStats, TypeInv, TypeOK, PipelineState
  <2>2. objects \subseteq Present(st'.item)
    BY <2>1 DEF Present, TypeInv, TypeOK
  <2>3. pool = {} /\ \A s \in Stages : task[s].items = {}
    BY <1>3 DEF EnumerateSources, EffectsInv
  <2>4. Present(st'.item) = {} => pool' = {}
    BY <1>3, <2>2, <2>3 DEF EnumerateSources
  <2>5. Present(st.item)' = Present(st'.item)
    BY DEF Present
  <2> QED
    BY <1>3, <2>3, <2>4, <2>5 DEF EnumerateSources, disk, EffectsInv
<1>4. CASE ApplyIncrementality
  <2>1. /\ st'.item = [o \in Objects |-> MarkUnchanged(st.item, o)]
        /\ st'.stats = Stats(st'.item) /\ st'.batch = st.batch
    BY <1>4 DEF ApplyIncrementality, UpdateStats, TypeInv, TypeOK, PipelineState
  <2>2. \A o \in Objects : st.item[o] \in ItemState
    BY DEF TypeInv, TypeOK, PipelineState
  <2>3. Present(st'.item) = Present(st.item)
    BY <2>1, <2>2 DEF Present, MarkUnchanged, ItemState
  <2>4. effects = {} /\ effects' = {} /\ pool' = pool /\ task' = task
        /\ phase = "discovered" /\ phase' = "ready" /\ ckpt'.state = st'
    BY <1>4 DEF ApplyIncrementality, SaveCheckpoint, StoreCheckpoint, EffectsInv, StoreInv
  <2>5. NeedsEnumeration(st') => pool = {}
    BY <2>1, <2>3, <2>4, NothingDiscovered DEF EffectsInv
  <2> QED
    BY <2>4, <2>5 DEF EffectsInv
<1>5. CASE StartBatch
  <2>1. st'.batch = st.batch
    BY <1>5 DEF StartBatch, TypeInv, TypeOK, PipelineState
  <2>2. pool = {} => \A s \in Stages : task'[s].items = {}
    BY <1>5, NoTaskType DEF StartBatch, ItemsFor
  <2>3. /\ phase = "ready" /\ phase' = "batch"
        /\ pool' = pool /\ effects' = effects /\ ckpt' = ckpt
    BY <1>5 DEF StartBatch, disk
  <2> QED
    BY <2>1, <2>2, <2>3 DEF EffectsInv
<1>6. ASSUME NEW s \in Stages,
             \/ \E e \in Todo(s) : ItemSucceeds(s, e) \/ ItemErrs(s, e)
             \/ BatchSucceeds(s) \/ BatchErrs(s)
      PROVE  EffectsInv'
  <2>1. /\ phase = "batch" /\ phase' = "batch"
        /\ st' = st /\ pool' = pool /\ ckpt' = ckpt
    BY <1>6 DEF ItemSucceeds, ItemErrs, BatchSucceeds, BatchErrs, disk
  <2>2. \A t \in Stages : /\ task'[t].items = task[t].items
                          /\ task[t].ok \subseteq task'[t].ok
    BY <1>6 DEF ItemSucceeds, ItemErrs, BatchSucceeds, BatchErrs,
                TypeInv, TypeOK, TaskInv, Task
  <2>3. task[s].items # {}
    BY <1>6 DEF Todo, ItemSucceeds, ItemErrs, BatchSucceeds, BatchErrs
  <2>4. \A p \in effects' \ effects : p[1] = s /\ p[2] \in task'[s].ok
    <3>1. CASE \E e \in Todo(s) : ItemSucceeds(s, e)
      BY <3>1 DEF ItemSucceeds, TypeInv, TypeOK, Task
    <3>2. CASE BatchSucceeds(s)
      BY <3>2 DEF BatchSucceeds, TypeInv, TypeOK, Task
    <3>3. CASE (\E e \in Todo(s) : ItemErrs(s, e)) \/ BatchErrs(s)
      BY <3>3 DEF ItemErrs, BatchErrs
    <3> QED
      BY <1>6, <3>1, <3>2, <3>3
  <2>5. ~Idle
    BY <2>3
  <2>6. \A p \in effects : Done(p[1]) \/ p[2] \in task[p[1]].ok
    BY <2>1, <2>5 DEF EffectsInv
  <2>7. effects \subseteq Stages \X Entry
    BY DEF TypeInv, TypeOK
  <2>8. \A p \in effects' : Done(p[1]) \/ p[2] \in task'[p[1]].ok
    BY <2>2, <2>4, <2>6, <2>7
  <2>9. ~NeedsEnumeration(ckpt.state)
    BY <2>1, <2>5 DEF EffectsInv
  <2> QED
    BY <2>1, <2>8, <2>9 DEF EffectsInv
<1>7. ASSUME NEW s \in Stages, MergeStage(s)
      PROVE  EffectsInv'
  <2>1. /\ phase = "batch" /\ phase' = "batch" /\ pool' = MergedPool(s)
        /\ effects' = effects /\ ckpt' = ckpt
    BY <1>7 DEF MergeStage, disk
  <2>2. st'.batch = st.batch
    BY <1>7, MergeType, StatsUpdated, MergeMoves DEF MergeStage
  <2>3. \A t \in Stages : /\ task'[t].items = task[t].items
                          /\ task'[t].ok = task[t].ok
    BY <1>7 DEF MergeStage, TypeInv, TypeOK, Task
  <2>4. Idle => Idle'
    BY <2>1, <2>3, IdleMerge
  <2>5. effects \subseteq Stages \X Entry
    BY DEF TypeInv, TypeOK
  <2> QED
    BY <2>1, <2>2, <2>3, <2>4, <2>5 DEF EffectsInv
<1>8. ASSUME NEW s \in Stages, FailStage(s)
      PROVE  EffectsInv'
  BY <1>8 DEF FailStage, disk, EffectsInv
<1>9. CASE EndBatch
  <2>1. /\ st'.batch = st.batch + 1 /\ st.batch \in Nat /\ ckpt'.state = st'
        /\ phase = "batch" /\ phase' = "ready"
        /\ pool' = pool /\ effects' = effects
        /\ \A s \in Stages : task'[s].items = {}
    BY <1>9, NoTaskType DEF EndBatch, SaveCheckpoint, StoreCheckpoint, TypeInv, TypeOK, PipelineState
  <2>2. ASSUME ~Idle, NEW p \in effects
        PROVE  \E i \in 1..(st.batch + 1) : p[1] \in Schedule[i]
    <3>1. CASE Done(p[1])
      BY <2>1, <3>1
    <3>2. CASE p[2] \in task[p[1]].ok
      <4>1. p[1] \in Stages /\ task[p[1]] \in Task
        BY DEF TypeInv, TypeOK
      <4>2. task[p[1]].state # "none"
        BY <3>2, <4>1 DEF TypeInv, TaskInv
      <4>3. p[1] \in Schedule[st.batch + 1]
        BY <4>1, <4>2 DEF BoundaryInv, CurrentBatch
      <4> QED
        BY <2>1, <4>3
    <3> QED
      BY <2>1, <2>2, <3>1, <3>2 DEF EffectsInv
  <2> QED
    BY <2>1, <2>2 DEF EffectsInv
<1>10. CASE SaveCompletedHashes \/ RunLifecycle
  <2>1. /\ phase' \in {"hashed", "finished"} /\ ckpt' = ckpt /\ effects' = effects
    BY <1>10 DEF SaveCompletedHashes, StoreHashes, RunLifecycle, disk
  <2> QED
    BY <2>1 DEF EffectsInv
<1>11. CASE Complete
  <2>1. st'.batch = Len(Schedule) /\ ckpt'.state = st' /\ phase' = "lifecycle"
    BY <1>11 DEF Complete, SaveCheckpoint, StoreCheckpoint, StoreInv, TypeInv, TypeOK, PipelineState
  <2> QED
    BY <2>1, ScheduleLength DEF EffectsInv
<1>12. CASE (\E o \in Objects : Arrive(o)) \/ (\E c \in Specs : EditConfig(c))
  BY <1>12 DEF Arrive, EditConfig, EffectsInv, Present, memory, disk
<1>13. CASE UNCHANGED vars
  BY <1>13 DEF vars, EffectsInv, Present
<1> QED
  BY <1>1, <1>2, <1>3, <1>4, <1>5, <1>6, <1>7, <1>8, <1>9, <1>10, <1>11, <1>12, <1>13
     DEF Next, RunnerStep, StageStep, RunCommand, ResumeCommand

-----------------------------------------------------------------------------
(* The theorems.                                                           *)

LEMMA Invariance == Spec => []IInv
<1>1. Init => IInv
  BY InitInv
<1>2. IInv /\ [Next]_vars => IInv'
  BY TypeStep, BoundaryStep, ItemsStep, StoreStep, EffectsStep DEF IInv
<1> QED
  BY <1>1, <1>2, PTL DEF Spec

(* A checkpoint is always a cut between two batches.                       *)
THEOREM CheckpointIsConsistentCut == Spec => []CheckpointAtBoundary
<1>1. IInv => CheckpointAtBoundary
  BY DEF IInv, BoundaryInv, AtBoundary, Untouched, CheckpointAtBoundary
<1> QED
  BY <1>1, Invariance, PTL

(* The statistics on disk are those of the items on disk.                  *)
THEOREM CheckpointStatsAreFresh == Spec => []CheckpointStatsFresh
<1>1. IInv => CheckpointStatsFresh
  BY DEF IInv, ItemsInv, CheckpointStatsFresh
<1> QED
  BY <1>1, Invariance, PTL

(* A run is only continued under the configuration it was started under.   *)
THEOREM OneConfigurationPerRun == Spec => []NoConfigMix
<1>1. IInv => NoConfigMix
  BY DEF IInv, StoreInv
<1> QED
  BY <1>1, Invariance, PTL

(* Hashes and the completed checkpoint agree although they are written in  *)
(* two transactions.                                                       *)
THEOREM HashesAgree == Spec => []HashesMatchCheckpoint
<1>1. IInv => HashesMatchCheckpoint
  BY DEF IInv, StoreInv, HashesMatch, HashesMatchCheckpoint
<1> QED
  BY <1>1, Invariance, PTL

(* Nothing leaves a source before the run that knows it is on disk.        *)
THEOREM RemovalAfterCompletion == Spec => []RemovedAfterCompletion
<1>1. IInv => RemovedAfterCompletion
  BY DEF IInv, StoreInv
<1> QED
  BY <1>1, Invariance, PTL

(* Whatever the crashes and restarts, no handler succeeds twice on an item.*)
THEOREM EffectsAtMostOnce == Spec => NoEffectTwice
<1>1. IInv /\ [Next]_vars =>
        [\A s \in Stages : \A e \in task'[s].ok \ task[s].ok :
           <<s, e>> \notin effects]_vars
  BY EffectStep
<1> QED
  BY <1>1, Invariance, PTL DEF Spec, NoEffectTwice

(* A restart never falls back behind what the store holds.                 *)
THEOREM NoRegression == Spec => CheckpointNeverRegresses
<1>1. ASSUME IInv, [Next]_vars, HasCheckpoint, ckpt' # ckpt
      PROVE  /\ ckpt'.state.batch >= ckpt.state.batch
             /\ ckpt.state.status = "Completed" =>
                   /\ ckpt'.state.status = "Completed"
                   /\ ckpt'.state.item = ckpt.state.item
  <2> USE DEF IInv
  <2>1. /\ ckpt.state.batch \in Nat /\ st.batch \in Nat
        /\ phase # "down" => ckpt.state.batch <= st.batch
        /\ ckpt.state.status = "Completed" /\ phase # "down" =>
              /\ phase \in {"ready", "hashed", "lifecycle", "finished"}
              /\ st.item = ckpt.state.item
    <3>1. ckpt.state.batch \in Nat /\ st.batch \in Nat
      BY <1>1 DEF TypeInv, TypeOK, Checkpoint, PipelineState
    <3> QED
      BY <1>1, <3>1 DEF StoreInv
  <2>2. CASE ApplyIncrementality
    <3>1. ckpt'.state = st' /\ st'.batch = st.batch /\ phase = "discovered"
      BY <1>1, <2>2 DEF ApplyIncrementality, SaveCheckpoint, StoreCheckpoint, UpdateStats, TypeInv, TypeOK,
                  PipelineState
    <3> QED
      BY <2>1, <3>1
  <2>3. CASE EndBatch
    <3>1. ckpt'.state = st' /\ st'.batch = st.batch + 1 /\ phase = "batch"
      BY <1>1, <2>3 DEF EndBatch, SaveCheckpoint, StoreCheckpoint, TypeInv, TypeOK, PipelineState
    <3> QED
      BY <2>1, <3>1
  <2>4. CASE Complete
    <3>1. /\ ckpt'.state = st' /\ st'.batch = st.batch /\ st'.item = st.item
          /\ st'.status = "Completed" /\ phase = "hashed"
      BY <1>1, <2>4 DEF Complete, SaveCheckpoint, StoreCheckpoint, TypeInv, TypeOK, PipelineState
    <3> QED
      BY <2>1, <3>1
  <2>5. ApplyIncrementality \/ EndBatch \/ Complete
    BY <1>1 DEF Next, RunnerStep, StageStep, RunCommand, ResumeCommand, Start, Exit,
           Crash, Halt, EnumerateSources, StartBatch, ItemSucceeds, ItemErrs,
           BatchSucceeds, BatchErrs, MergeStage, FailStage, SaveCompletedHashes, StoreHashes,
           RunLifecycle, Arrive, EditConfig, memory, disk, vars
  <2> QED
    BY <2>2, <2>3, <2>4, <2>5
<1>2. ASSUME IInv, HasCheckpoint, ckpt' = ckpt
      PROVE  ckpt'.state.batch >= ckpt.state.batch
  BY <1>2 DEF IInv, TypeInv, TypeOK, Checkpoint, PipelineState
<1>3. IInv /\ [Next]_vars =>
        [HasCheckpoint =>
           /\ ckpt'.state.batch >= ckpt.state.batch
           /\ ckpt.state.status = "Completed" =>
                 /\ ckpt'.state.status = "Completed"
                 /\ ckpt'.state.item = ckpt.state.item]_vars
  BY <1>1, <1>2
<1> QED
  BY <1>3, Invariance, PTL DEF Spec, CheckpointNeverRegresses

-----------------------------------------------------------------------------
(* The way of an item: from the pool to its stages, and into what is       *)
(* recorded of it.  What the actions do to the pool and to the items.      *)

(* A source's item is no stage's output.                                   *)
LEMMA SourceEntryIsNew ==
    ASSUME NEW s \in Stages, NEW o \in Objects
    PROVE  SourceEntry(o) \notin NewItems(s)
<1>1. SourceEntry(o).done = {}
  BY DEF SourceEntry
<1>2. ASSUME NEW e \in NewItems(s)
      PROVE  s \in e.done
  <2>1. PICK f \in task[s].ok : e \in {StageOutput(s, f, id) : id \in Outputs[s][f.id]}
    BY DEF NewItems
  <2>2. PICK id \in Outputs[s][f.id] : e = StageOutput(s, f, id)
    BY <2>1
  <2> QED
    BY <2>2 DEF StageOutput
<1> QED
  BY <1>1, <1>2

(* A merge takes from the pool the ids the stage was given.                *)
LEMMA SourceEntryMerged ==
    ASSUME NEW s \in Stages, NEW o \in Objects
    PROVE  SourceEntry(o) \in MergedPool(s) <=>
             SourceEntry(o) \in pool /\ o[2] \notin IdsOf(task[s].items)
<1>1. SourceEntry(o).id = o[2]
  BY DEF SourceEntry
<1> QED
  BY <1>1, SourceEntryIsNew DEF MergedPool

(* At a merge the outcomes are what the stage was given.                   *)
LEMMA OutcomesComplete ==
    ASSUME TypeInv, NEW s \in Stages, Todo(s) = {}
    PROVE  IdsOf(task[s].items) = IdsOf(task[s].ok) \cup IdsOf(task[s].bad)
<1>1. task[s].items = task[s].ok \cup task[s].bad
  BY DEF TypeInv, TaskInv, Todo
<1> QED
  BY <1>1 DEF IdsOf

(* Merging and failing leave the same items and the same pool.             *)
LEMMA MergeResult ==
    ASSUME IInv, NEW s \in Stages, MergeStage(s) \/ FailStage(s)
    PROVE  /\ st'.item = [o \in Objects |-> MergedItem(s, o)]
           /\ st'.batch = st.batch /\ st'.status = st.status
           /\ pool' = MergedPool(s)
<1>1. /\ MergedState(s).item = [o \in Objects |-> MergedItem(s, o)]
      /\ MergedState(s).batch = st.batch /\ MergedState(s).status = st.status
  BY DEF MergedState, IInv, TypeInv, TypeOK, PipelineState
<1>2. /\ UpdateStats(MergedState(s)).item = MergedState(s).item
      /\ UpdateStats(MergedState(s)).batch = MergedState(s).batch
      /\ UpdateStats(MergedState(s)).status = MergedState(s).status
  BY MergeType, StatsUpdated DEF IInv
<1> QED
  BY <1>1, <1>2 DEF MergeStage, FailStage

(* A process that starts anew starts at the enumeration.                   *)
LEMMA FirstStart ==
    ASSUME IInv, NEW c, Start(c), st'.status = "Pending"
    PROVE  st' = FreshState /\ phase' = "enumerate" /\ pool' = {}
<1>1. ~HasCheckpoint
  BY DEF Start, PrepareForResume, IInv, TypeInv, TypeOK, Checkpoint, PipelineState
<1>2. NeedsEnumeration(FreshState)
  BY DEF NeedsEnumeration, FreshState
<1> QED
  BY <1>1, <1>2 DEF Start

(* What enumerate_sources leaves.                                          *)
LEMMA EnumerateResult ==
    ASSUME IInv, EnumerateSources
    PROVE  /\ st'.item = [o \in Objects |->
                IF o \in objects
                THEN [status |-> "Pending", completed |-> {}, hash |-> EmptyHash]
                ELSE st.item[o]]
           /\ st'.batch = 0 /\ st'.status = st.status
           /\ pool' = {SourceEntry(o) : o \in objects}
           /\ objects \subseteq Objects
BY DEF EnumerateSources, UpdateStats, IInv, TypeInv, TypeOK, PipelineState, EffectsInv,
       StoreInv

(* No hash of a pull item is ever found unchanged.                         *)
LEMMA IncrementalityResult ==
    ASSUME IInv, ApplyIncrementality
    PROVE  st'.item = st.item /\ st'.batch = st.batch /\ st'.status = st.status
<1>1. \A o \in Objects : hashes[o[2]] \in Hashes
  BY TopologyAssumption DEF IInv, TypeInv, TypeOK
<1>2. \A o \in Objects : MarkUnchanged(st.item, o) = st.item[o]
  BY <1>1 DEF MarkUnchanged, PreviousHashes, Hashes
<1> QED
  BY <1>2 DEF ApplyIncrementality, UpdateStats, IInv, TypeInv, TypeOK, PipelineState

(* The steps that touch neither the pool, the batch nor the items.         *)
LEMMA HandlerResult ==
    ASSUME IInv, NEW s \in Stages,
           \/ \E e \in Todo(s) : ItemSucceeds(s, e) \/ ItemErrs(s, e)
           \/ BatchSucceeds(s) \/ BatchErrs(s)
    PROVE  /\ UNCHANGED <<st, pool, phase, ckpt>>
           /\ phase = "batch"
           /\ \A t \in Stages : /\ task'[t].items = task[t].items
                                /\ task'[t].state = task[t].state
BY DEF ItemSucceeds, ItemErrs, BatchSucceeds, BatchErrs, disk, IInv, TypeInv, TypeOK, Task

-----------------------------------------------------------------------------
(* Pending items.                                                          *)

FirstRun == st.status = "Pending"

(* While no process was interrupted, an item is Pending exactly while it   *)
(* is in the pool as its source gave it.                                   *)
PendingInv ==
    FirstRun =>
      /\ phase = "enumerate" => \A o \in Objects : st.item[o].status = "Absent"
      /\ phase \in {"discovered", "ready", "batch", "hashed"} =>
           \A o \in Objects :
              (st.item[o].status = "Pending") <=> (SourceEntry(o) \in pool)

LEMMA PendingStep ==
    ASSUME IInv, PendingInv, [Next]_vars
    PROVE  PendingInv'
<1> USE DEF FirstRun
<1>0. \A o, p \in Objects : SourceEntry(o) = SourceEntry(p) => o = p
  BY TopologyAssumption DEF SourceEntry
<1>1. ASSUME NEW c, Start(c)
      PROVE  PendingInv'
  BY <1>1, FirstStart DEF PendingInv, FreshState, AbsentItem
<1>2. CASE Exit \/ Crash
  BY <1>2 DEF Exit, Crash, Halt, PendingInv
<1>3. CASE EnumerateSources
  <2>1. phase = "enumerate" /\ phase' = "discovered"
    BY <1>3 DEF EnumerateSources
  <2>2. \A o \in Objects : SourceEntry(o) \in pool' <=> o \in objects
    BY <1>0, <1>3, EnumerateResult
  <2>3. ASSUME st'.status = "Pending", NEW o \in Objects
        PROVE  (st'.item[o].status = "Pending") <=> o \in objects
    BY <1>3, <2>1, <2>3, EnumerateResult DEF PendingInv
  <2> QED
    BY <2>1, <2>2, <2>3 DEF PendingInv, SourceEntry
<1>4. CASE ApplyIncrementality
  BY <1>4, IncrementalityResult DEF ApplyIncrementality, PendingInv, SourceEntry
<1>5. CASE StartBatch
  <2>1. st'.item = st.item /\ st'.status = st.status
    BY <1>5 DEF StartBatch, IInv, TypeInv, TypeOK, PipelineState
  <2> QED
    BY <1>5, <2>1 DEF StartBatch, PendingInv, SourceEntry
<1>6. ASSUME NEW s \in Stages,
             \/ \E e \in Todo(s) : ItemSucceeds(s, e) \/ ItemErrs(s, e)
             \/ BatchSucceeds(s) \/ BatchErrs(s)
      PROVE  PendingInv'
  BY <1>6, HandlerResult DEF PendingInv, SourceEntry
<1>7. ASSUME NEW s \in Stages, MergeStage(s)
      PROVE  PendingInv'
  <2>1. /\ st'.item = [o \in Objects |-> MergedItem(s, o)]
        /\ st'.status = st.status /\ pool' = MergedPool(s)
    BY <1>7, MergeResult
  <2>2. IdsOf(task[s].items) = IdsOf(task[s].ok) \cup IdsOf(task[s].bad)
    BY <1>7, OutcomesComplete DEF MergeStage, IInv
  <2>3. ASSUME NEW o \in Objects
        PROVE  (st'.item[o].status = "Pending") <=>
                 st.item[o].status = "Pending" /\ o[2] \notin IdsOf(task[s].items)
    BY <2>1, <2>2 DEF MergedItem
  <2> QED
    BY <1>7, <2>1, <2>3, SourceEntryMerged DEF MergeStage, PendingInv, SourceEntry
<1>8. CASE (\E s \in Stages : FailStage(s)) \/ Complete \/ RunLifecycle
  BY <1>8 DEF FailStage, Complete, RunLifecycle, PendingInv
<1>9. CASE EndBatch
  <2>1. st'.item = st.item /\ st'.status = st.status
    BY <1>9 DEF EndBatch, IInv, TypeInv, TypeOK, PipelineState
  <2> QED
    BY <1>9, <2>1 DEF EndBatch, PendingInv, SourceEntry
<1>10. CASE SaveCompletedHashes
  BY <1>10 DEF SaveCompletedHashes, PendingInv, SourceEntry
<1>11. CASE (\E o \in Objects : Arrive(o)) \/ (\E c \in Specs : EditConfig(c)) \/ UNCHANGED vars
  BY <1>11 DEF Arrive, EditConfig, memory, vars, PendingInv, SourceEntry
<1> QED
  BY <1>1, <1>2, <1>3, <1>4, <1>5, <1>6, <1>7, <1>8, <1>9, <1>10, <1>11
     DEF Next, RunnerStep, StageStep, RunCommand, ResumeCommand

(* In a run that was never interrupted no item gets lost between stages    *)
(* that run concurrently: what is Pending is in the pool, and what is in   *)
(* the pool as its source gave it is Pending (runner.rs:528-530).          *)
THEOREM PendingItemsAreInThePool == Spec => []PendingItemsWait
<1>1. Init => PendingInv
  BY DEF Init, PendingInv
<1>2. IInv /\ PendingInv /\ [Next]_vars => PendingInv'
  BY PendingStep
<1>3. PendingInv => PendingItemsWait
  BY DEF PendingInv, FirstRun, PendingItemsWait
<1> QED
  BY <1>1, <1>2, <1>3, Invariance, PTL DEF Spec

-----------------------------------------------------------------------------
(* A first run leaves nothing behind.                                      *)

(* The configuration reads every source: whatever the source gives is      *)
(* accepted by a stage.  Nothing checks this (an item that no stage        *)
(* accepts stays Pending).                                                 *)
EveryObjectHandled ==
    \A o \in Objects : \E i \in 1..Len(Schedule) : \E s \in Schedule[i] :
       MatchesStream(s, SourceEntry(o))

(* The source's item of o does not wait for stage s any more.              *)
Taken(s, o) == MatchesStream(s, SourceEntry(o)) => SourceEntry(o) \notin pool

(* The stages of a batch take what they accept: the stages of the earlier  *)
(* batches, and those merged in this one, have left nothing in the pool,   *)
(* and what a running stage accepts it was given.                          *)
FirstRunInv ==
    FirstRun =>
      /\ phase \in {"discovered", "ready", "batch", "hashed"} =>
           \A o \in Objects :
              st.item[o].status \in {"Absent", "Pending", "Completed", "Skipped"}
      /\ phase \in {"ready", "batch", "hashed"} =>
           \A i \in 1..st.batch : \A s \in Schedule[i], o \in Objects : Taken(s, o)
      /\ phase = "batch" =>
           \A s \in CurrentBatch, o \in Objects :
              /\ task[s].state = "merged" => Taken(s, o)
              /\ /\ task[s].state = "running"
                 /\ MatchesStream(s, SourceEntry(o)) /\ SourceEntry(o) \in pool
                 => SourceEntry(o) \in task[s].items

(* The batches so far are batches of the schedule.                         *)
LEMMA BatchesSoFar ==
    ASSUME IInv
    PROVE  /\ st.batch \in Nat /\ st.batch <= Len(Schedule)
           /\ \A i \in 1..st.batch : i \in 1..Len(Schedule) /\ Schedule[i] \subseteq Stages
<1>1. st.batch \in 0..Len(Schedule)
  BY DEF IInv, TypeInv, TypeOK, PipelineState
<1> QED
  BY <1>1, ScheduleLength, TopologyAssumption

LEMMA FirstRunStep ==
    ASSUME IInv, FirstRunInv, PendingInv, [Next]_vars
    PROVE  FirstRunInv'
<1> USE DEF FirstRun
<1>1. ASSUME NEW c, Start(c)
      PROVE  FirstRunInv'
  BY <1>1, FirstStart DEF FirstRunInv
<1>2. CASE Exit \/ Crash
  BY <1>2 DEF Exit, Crash, Halt, FirstRunInv
<1>3. CASE EnumerateSources
  <2>1. phase = "enumerate" /\ phase' = "discovered"
    BY <1>3 DEF EnumerateSources
  <2> QED
    BY <1>3, <2>1, EnumerateResult DEF PendingInv, FirstRunInv
<1>4. CASE ApplyIncrementality
  <2>1. phase = "discovered" /\ phase' = "ready" /\ st'.batch = 0
    BY <1>4, IncrementalityResult DEF ApplyIncrementality, IInv, StoreInv
  <2> QED
    BY <1>4, <2>1, IncrementalityResult DEF FirstRunInv
<1>5. CASE StartBatch
  <2>1. st'.item = st.item /\ st'.status = st.status /\ st'.batch = st.batch
    BY <1>5 DEF StartBatch, IInv, TypeInv, TypeOK, PipelineState
  <2>2. phase = "ready" /\ phase' = "batch" /\ pool' = pool
    BY <1>5 DEF StartBatch
  <2>3. CurrentBatch' = CurrentBatch /\ CurrentBatch \subseteq Stages
    BY <1>5, <2>1, TopologyAssumption, BatchesSoFar, ScheduleLength DEF CurrentBatch, StartBatch
  <2>4. \A s \in CurrentBatch : task'[s].state = "running" /\ task'[s].items = ItemsFor(s)
    BY <1>5, <2>3 DEF StartBatch
  <2> QED
    BY <2>1, <2>2, <2>3, <2>4 DEF FirstRunInv, Taken, MatchesStream, SourceEntry, ItemsFor
<1>6. ASSUME NEW s \in Stages,
             \/ \E e \in Todo(s) : ItemSucceeds(s, e) \/ ItemErrs(s, e)
             \/ BatchSucceeds(s) \/ BatchErrs(s)
      PROVE  FirstRunInv'
  <2>1. CurrentBatch' = CurrentBatch /\ (phase = "batch" => CurrentBatch \subseteq Stages)
    BY <1>6, HandlerResult, BatchStagesType DEF CurrentBatch, IInv
  <2> QED
    BY <1>6, <2>1, HandlerResult DEF FirstRunInv, Taken, MatchesStream, SourceEntry
<1>7. ASSUME NEW s \in Stages, MergeStage(s)
      PROVE  FirstRunInv'
  <2>1. /\ st'.item = [o \in Objects |-> MergedItem(s, o)] /\ st'.batch = st.batch
        /\ st'.status = st.status /\ pool' = MergedPool(s)
    BY <1>7, MergeResult
  <2>2. /\ phase = "batch" /\ phase' = "batch" /\ ~Fails(s)
        /\ task[s].state = "running" /\ task'[s].state = "merged"
        /\ \A t \in Stages : task'[t].items = task[t].items
        /\ \A t \in Stages \ {s} : task'[t].state = task[t].state
    BY <1>7 DEF MergeStage, IInv, TypeInv, TypeOK, Task
  <2>3. CurrentBatch' = CurrentBatch /\ CurrentBatch \subseteq Stages /\ s \in CurrentBatch
    BY <2>1, <2>2, BatchStagesType DEF CurrentBatch, IInv, BoundaryInv
  <2>4. \A o \in Objects : /\ SourceEntry(o) \in pool' => SourceEntry(o) \in pool
                           /\ SourceEntry(o) \in pool' => SourceEntry(o) \notin task[s].items
    <3>1. \A o \in Objects : SourceEntry(o).id = o[2]
      BY DEF SourceEntry
    <3> QED
      BY <2>1, <3>1, SourceEntryMerged DEF IdsOf
  <2>5. \A o \in Objects : MergedItem(s, o).status \in {st.item[o].status, "Completed", "Skipped"}
    BY <2>2 DEF MergedItem, Fails, IdsOf
  <2> QED
    BY <2>1, <2>2, <2>3, <2>4, <2>5 DEF FirstRunInv, Taken, MatchesStream, SourceEntry
<1>8. CASE (\E s \in Stages : FailStage(s)) \/ Complete \/ RunLifecycle
  BY <1>8 DEF FailStage, Complete, RunLifecycle, FirstRunInv
<1>9. CASE EndBatch
  <2>1. st'.item = st.item /\ st'.status = st.status /\ st'.batch = st.batch + 1
    BY <1>9 DEF EndBatch, IInv, TypeInv, TypeOK, PipelineState
  <2>2. phase = "batch" /\ phase' = "ready" /\ pool' = pool /\ AllMerged
    BY <1>9 DEF EndBatch
  <2>3. \A i \in 1..(st.batch + 1) : i \in 1..st.batch \/ i = st.batch + 1
    BY BatchesSoFar
  <2>4. CurrentBatch = Schedule[st.batch + 1]
    BY DEF CurrentBatch
  <2> QED
    BY <2>1, <2>2, <2>3, <2>4 DEF FirstRunInv, AllMerged, Taken, MatchesStream, SourceEntry
<1>10. CASE SaveCompletedHashes
  BY <1>10 DEF SaveCompletedHashes, FirstRunInv, Taken, MatchesStream, SourceEntry
<1>11. CASE (\E o \in Objects : Arrive(o)) \/ (\E c \in Specs : EditConfig(c)) \/ UNCHANGED vars
  BY <1>11 DEF Arrive, EditConfig, memory, vars, FirstRunInv, CurrentBatch, Taken, MatchesStream, SourceEntry
<1> QED
  BY <1>1, <1>2, <1>3, <1>4, <1>5, <1>6, <1>7, <1>8, <1>9, <1>10, <1>11
     DEF Next, RunnerStep, StageStep, RunCommand, ResumeCommand

(* When all batches of a run that was never interrupted are done, every    *)
(* item it discovered is Completed or Skipped, if the configuration reads  *)
(* every source: the run loses none on the way (runner.rs:262-296).        *)
THEOREM FirstRunCompletes == EveryObjectHandled /\ Spec => []FirstRunIsComplete
<1>1. Init => PendingInv /\ FirstRunInv
  BY DEF Init, PendingInv, FirstRunInv
<1>2. IInv /\ PendingInv /\ FirstRunInv /\ [Next]_vars => (PendingInv /\ FirstRunInv)'
  BY PendingStep, FirstRunStep
<1>3. EveryObjectHandled /\ IInv /\ PendingInv /\ FirstRunInv => FirstRunIsComplete
  <2> SUFFICES ASSUME EveryObjectHandled, IInv, PendingInv, FirstRunInv,
                      phase = "hashed", st.status = "Pending",
                      NEW o \in Objects, st.item[o].status # "Absent"
               PROVE  st.item[o].status \in {"Completed", "Skipped"}
    BY DEF FirstRunIsComplete, Present
  <2>1. st.batch = Len(Schedule)
    BY DEF IInv, StoreInv
  <2>2. SourceEntry(o) \notin pool
    BY <2>1 DEF EveryObjectHandled, FirstRunInv, FirstRun, Taken
  <2>3. st.item[o].status # "Pending"
    BY <2>2 DEF PendingInv, FirstRun
  <2> QED
    BY <2>3 DEF FirstRunInv, FirstRun
<1>4. EveryObjectHandled => EveryObjectHandled'
  BY DEF EveryObjectHandled, MatchesStream, SourceEntry
<1> QED
  BY <1>1, <1>2, <1>3, <1>4, Invariance, PTL DEF Spec

-----------------------------------------------------------------------------
(* No stage is jumped over.                                                *)

Accepts(s, stream) ==
    InputStreams[s] = {} \/ stream = NoStream \/ stream \in InputStreams[s]
Tags == {SourceStream[q] : q \in Sources}
          \cup ({OutputStream[s] : s \in Stages} \ {NoStream})

(* The streams go from earlier to later batches: two stages of a batch     *)
(* never accept the same stream, and what a stage retags is not accepted   *)
(* by a stage of its own or an earlier batch (an earlier one that accepts  *)
(* everything has had it before).  The topology layer does not check this; *)
(* without it items are jumped over.                                       *)
StreamsFlowForward ==
    \A i, j \in 1..Len(Schedule) : i <= j =>
       \A t \in Schedule[i], s \in Schedule[j] : t # s =>
          /\ i = j => \A stream \in Tags : ~(Accepts(t, stream) /\ Accepts(s, stream))
          /\ OutputStream[s] # NoStream /\ Accepts(t, OutputStream[s]) =>
               InputStreams[t] = {}

(* Every stage of the first n batches that accepts e has transformed it.   *)
CarriesAll(e, n) ==
    \A i \in 1..n : \A t \in Schedule[i] : Accepts(t, e.stream) => t \in e.done

FlowInv ==
    /\ \A e \in pool : e.stream \in Tags /\ CarriesAll(e, st.batch)
    /\ \A s \in Stages : \A e \in task[s].items :
         Accepts(s, e.stream) /\ e.stream \in Tags /\ CarriesAll(e, st.batch)
    /\ \A s \in Stages : \A e \in pool : Accepts(s, e.stream) =>
         /\ task[s].state = "running" => e \in task[s].items
         /\ task[s].state = "merged" => s \in e.done

(* What a stage makes of an item it was given.                             *)
LEMMA NewItemOrigin ==
    ASSUME TypeInv, NEW s \in Stages, NEW e \in NewItems(s)
    PROVE  \E f \in task[s].items :
             /\ f \in task[s].ok
             /\ e.id \in Outputs[s][f.id]
             /\ e.src = (IF ExtractFrom[s] = NoSource THEN f.src ELSE ExtractFrom[s])
             /\ e.stream = (IF OutputStream[s] = NoStream THEN f.stream ELSE OutputStream[s])
             /\ e.done = f.done \cup {s}
<1>1. PICK f \in task[s].ok : e \in {StageOutput(s, f, id) : id \in Outputs[s][f.id]}
  BY DEF NewItems
<1>2. PICK id \in Outputs[s][f.id] : e = StageOutput(s, f, id)
  BY <1>1
<1>3. f \in task[s].items
  BY DEF TypeInv, TaskInv
<1> QED
  BY <1>2, <1>3 DEF StageOutput

(* What a stage makes carries all that its item carried, and is accepted   *)
(* by no other stage of the batch.                                         *)
LEMMA NewItemFlows ==
    ASSUME StreamsFlowForward, IInv, FlowInv, NEW s \in Stages,
           phase = "batch", s \in CurrentBatch, NEW e \in NewItems(s)
    PROVE  /\ e.stream \in Tags /\ CarriesAll(e, st.batch)
           /\ s \in e.done
           /\ \A t \in CurrentBatch \ {s} : ~Accepts(t, e.stream)
<1>1. PICK f \in task[s].items :
         /\ e.stream = (IF OutputStream[s] = NoStream THEN f.stream ELSE OutputStream[s])
         /\ e.done = f.done \cup {s}
  BY NewItemOrigin DEF IInv
<1>2. Accepts(s, f.stream) /\ f.stream \in Tags /\ CarriesAll(f, st.batch)
  BY DEF FlowInv
<1>3. e.stream \in Tags
  BY <1>1, <1>2 DEF Tags
<1>4. ASSUME NEW i \in 1..st.batch, NEW t \in Schedule[i], Accepts(t, e.stream)
      PROVE  t \in e.done
  <2>1. i \in 1..Len(Schedule) /\ st.batch + 1 \in 1..Len(Schedule) /\ i <= st.batch + 1
        /\ i # st.batch + 1
    BY BatchesSoFar, BatchStagesType DEF IInv
  <2>2. t # s
    BY <2>1, TopologyAssumption DEF CurrentBatch
  <2>3. OutputStream[s] # NoStream => InputStreams[t] = {}
    BY <1>1, <1>4, <2>1, <2>2 DEF StreamsFlowForward, CurrentBatch
  <2>4. Accepts(t, f.stream)
    BY <1>1, <1>4, <2>3 DEF Accepts
  <2> QED
    BY <1>1, <1>2, <2>4 DEF CarriesAll
<1>5. ASSUME NEW t \in CurrentBatch \ {s}, Accepts(t, e.stream)
      PROVE  FALSE
  <2>1. st.batch + 1 \in 1..Len(Schedule) /\ st.batch + 1 <= st.batch + 1
    BY BatchesSoFar, BatchStagesType DEF IInv
  <2>2. /\ \A stream \in Tags : ~(Accepts(t, stream) /\ Accepts(s, stream))
        /\ OutputStream[s] # NoStream /\ Accepts(t, OutputStream[s]) =>
              InputStreams[t] = {}
    BY <2>1 DEF StreamsFlowForward, CurrentBatch
  <2>3. Accepts(t, f.stream)
    BY <1>1, <1>5, <2>2 DEF Accepts
  <2> QED
    BY <1>2, <2>2, <2>3
<1> QED
  BY <1>1, <1>3, <1>4, <1>5 DEF CarriesAll

(* What FlowInv depends on.                                                *)
LEMMA FlowKept ==
    ASSUME FlowInv, pool' = pool, st'.batch = st.batch,
           \A t \in Stages : /\ task'[t].items = task[t].items
                             /\ task'[t].state = task[t].state
    PROVE  FlowInv'
BY DEF FlowInv, CarriesAll, Accepts

(* Without items to work on there is nothing to carry.                     *)
LEMMA FlowEmpty ==
    ASSUME pool' = {}, \A t \in Stages : task'[t].items = {}
    PROVE  FlowInv'
BY DEF FlowInv

LEMMA FlowStep ==
    ASSUME StreamsFlowForward, IInv, FlowInv, [Next]_vars
    PROVE  FlowInv'
<1>1. ASSUME NEW c, Start(c)
      PROVE  FlowInv'
  BY <1>1, NoTaskType, FlowEmpty DEF Start
<1>2. CASE Exit \/ Crash
  BY <1>2, NoTaskType, FlowEmpty DEF Exit, Crash, Halt
<1>3. CASE EnumerateSources
  <2>1. /\ st'.batch = 0 /\ pool' = {SourceEntry(o) : o \in objects}
        /\ objects \subseteq Objects
    BY <1>3, EnumerateResult
  <2>2. task' = task /\ \A s \in Stages : task[s].items = {} /\ task[s].state = "none"
    BY <1>3 DEF EnumerateSources, IInv, EffectsInv, BoundaryInv, TypeInv, TypeOK, Task
  <2>3. \A e \in pool' : e.stream \in Tags
    BY <2>1, TopologyAssumption DEF SourceEntry, Tags
  <2> QED
    BY <2>1, <2>2, <2>3 DEF FlowInv, CarriesAll
<1>4. CASE ApplyIncrementality
  BY <1>4, IncrementalityResult, FlowKept DEF ApplyIncrementality
<1>5. CASE StartBatch
  <2>1. st'.batch = st.batch /\ pool' = pool
    BY <1>5 DEF StartBatch, IInv, TypeInv, TypeOK, PipelineState
  <2>2. \A s \in Stages : \/ task'[s].state = "running" /\ task'[s].items = ItemsFor(s)
                          \/ task'[s].state = "none" /\ task'[s].items = {}
    BY <1>5, NoTaskType, NoTaskState DEF StartBatch
  <2>3. \A s \in Stages : ItemsFor(s) = {e \in pool : Accepts(s, e.stream)}
    BY DEF ItemsFor, MatchesStream, Accepts
  <2> QED
    BY <2>1, <2>2, <2>3 DEF FlowInv, CarriesAll, Accepts
<1>6. ASSUME NEW s \in Stages,
             \/ \E e \in Todo(s) : ItemSucceeds(s, e) \/ ItemErrs(s, e)
             \/ BatchSucceeds(s) \/ BatchErrs(s)
      PROVE  FlowInv'
  BY <1>6, HandlerResult, FlowKept
<1>7. ASSUME NEW s \in Stages, MergeStage(s) \/ FailStage(s)
      PROVE  FlowInv'
  <2>1. st'.batch = st.batch /\ pool' = MergedPool(s)
    BY <1>7, MergeResult
  <2>2. phase = "batch" /\ s \in CurrentBatch /\ task[s].state = "running"
    BY <1>7 DEF MergeStage, FailStage, IInv, BoundaryInv
  <2>3. \A e \in pool' : (e \in pool /\ e \notin task[s].items) \/ e \in NewItems(s)
    BY <2>1 DEF MergedPool, IdsOf
  <2>4. \A e \in NewItems(s) : /\ e.stream \in Tags /\ CarriesAll(e, st.batch)
                              /\ s \in e.done
                              /\ \A t \in CurrentBatch \ {s} : ~Accepts(t, e.stream)
    BY <2>2, NewItemFlows
  <2>5. \A e \in pool' : e.stream \in Tags /\ CarriesAll(e, st'.batch)
    BY <2>1, <2>3, <2>4 DEF FlowInv
  <2>6. CASE MergeStage(s)
    <3>1. /\ \A t \in Stages : task'[t].items = task[t].items
          /\ \A t \in Stages \ {s} : task'[t].state = task[t].state
          /\ task'[s].state = "merged"
      BY <2>6 DEF MergeStage, IInv, TypeInv, TypeOK, Task
    <3>2. ASSUME NEW t \in Stages, NEW e \in pool', Accepts(t, e.stream)
          PROVE  /\ task'[t].state = "running" => e \in task'[t].items
                 /\ task'[t].state = "merged" => t \in e.done
      <4>1. CASE e \in pool /\ e \notin task[s].items
        <5>1. t # s
          BY <2>2, <3>2, <4>1 DEF FlowInv
        <5> QED
          BY <3>1, <3>2, <4>1, <5>1 DEF FlowInv
      <4>2. CASE e \in NewItems(s)
        <5>1. t # s => task[t].state \notin {"running", "merged"}
          BY <2>4, <3>2, <4>2 DEF IInv, BoundaryInv
        <5> QED
          BY <2>4, <3>1, <4>2, <5>1
      <4> QED
        BY <2>3, <4>1, <4>2
    <3>3. \A t \in Stages : \A e \in task'[t].items :
             Accepts(t, e.stream) /\ e.stream \in Tags /\ CarriesAll(e, st'.batch)
      BY <2>1, <3>1 DEF FlowInv
    <3> QED
      BY <2>5, <3>2, <3>3 DEF FlowInv, CarriesAll, Accepts
  <2>7. CASE FailStage(s)
    <3>1. \A t \in Stages : task'[t].items = {} /\ task'[t].state = "none"
      BY <2>7, NoTaskType, NoTaskState DEF FailStage
    <3> QED
      BY <2>5, <3>1 DEF FlowInv, CarriesAll, Accepts
  <2> QED
    BY <1>7, <2>6, <2>7
<1>8. CASE EndBatch
  <2>1. st'.batch = st.batch + 1
    BY <1>8 DEF EndBatch, IInv, TypeInv, TypeOK, PipelineState
  <2>2. /\ phase = "batch" /\ pool' = pool /\ AllMerged
        /\ \A t \in Stages : task'[t].items = {} /\ task'[t].state = "none"
    BY <1>8, NoTaskType, NoTaskState DEF EndBatch
  <2>3. \A i \in 1..(st.batch + 1) : i \in 1..st.batch \/ i = st.batch + 1
    BY BatchesSoFar
  <2>4. CurrentBatch = Schedule[st.batch + 1] /\ CurrentBatch \subseteq Stages
    BY <2>2, BatchStagesType DEF CurrentBatch, IInv
  <2>5. \A e \in pool : e.stream \in Tags /\ CarriesAll(e, st.batch + 1)
    BY <2>2, <2>3, <2>4 DEF FlowInv, CarriesAll, AllMerged
  <2> QED
    BY <2>1, <2>2, <2>5 DEF FlowInv, CarriesAll, Accepts
<1>9. CASE Complete
  <2>1. st'.batch = st.batch
    BY <1>9 DEF Complete, IInv, TypeInv, TypeOK, PipelineState
  <2> QED
    BY <1>9, <2>1, FlowKept DEF Complete
<1>10. CASE SaveCompletedHashes \/ RunLifecycle
  BY <1>10, FlowKept DEF SaveCompletedHashes, RunLifecycle
<1>11. CASE (\E o \in Objects : Arrive(o)) \/ (\E c \in Specs : EditConfig(c)) \/ UNCHANGED vars
  BY <1>11, FlowKept DEF Arrive, EditConfig, memory, vars
<1> QED
  BY <1>1, <1>2, <1>3, <1>4, <1>5, <1>6, <1>7, <1>8, <1>9, <1>10, <1>11
     DEF Next, RunnerStep, StageStep, RunCommand, ResumeCommand

(* FlowInv at work: what a stage is given has been through the earlier     *)
(* batches.                                                                *)
LEMMA FlowKeepsOrder ==
    ASSUME IInv, FlowInv
    PROVE  NoStageJumped
<1> SUFFICES ASSUME NEW i \in 1..Len(Schedule), NEW j \in 1..Len(Schedule),
                    NEW t \in Schedule[i], NEW s \in Schedule[j], i < j,
                    NEW e \in task[s].items, MatchesStream(t, e)
             PROVE  t \in e.done
  BY DEF NoStageJumped
<1>1. s \in Stages
  BY TopologyAssumption
<1>2. task[s].state # "none"
  BY <1>1 DEF IInv, TypeInv, TaskInv
<1>3. phase = "batch" /\ s \in Schedule[st.batch + 1]
  BY <1>1, <1>2 DEF IInv, BoundaryInv, CurrentBatch
<1>4. j = st.batch + 1
  BY <1>3, BatchStagesType, TopologyAssumption DEF IInv
<1>5. i \in 1..st.batch
  BY <1>4, BatchesSoFar
<1>6. Accepts(t, e.stream)
  BY DEF MatchesStream, Accepts
<1> QED
  BY <1>1, <1>5, <1>6 DEF FlowInv, CarriesAll

-----------------------------------------------------------------------------
(* What is recorded of an item happened to that item.                      *)

(* Every id belongs to one source, and fan-out keeps within it.            *)
IsOwner(owner) ==
    /\ \A o \in Objects : owner[o[2]] = o[1]
    /\ \A s \in Stages, id \in Ids : \A out \in Outputs[s][id] : owner[out] = owner[id]

(* No two sources give the same id, and an extract stage accepts nothing   *)
(* but its own source's stream.  The runner relies on both and checks      *)
(* neither: items are looked up by id alone.                               *)
SourcesApart ==
    /\ \E owner \in [Ids -> Sources] : IsOwner(owner)
    /\ \A s \in Stages : ExtractFrom[s] # NoSource =>
         /\ \A q \in Sources : Accepts(s, SourceStream[q]) => q = ExtractFrom[s]
         /\ \A t \in Stages : OutputStream[t] # NoStream => ~Accepts(s, OutputStream[t])

Owner == CHOOSE owner \in [Ids -> Sources] : IsOwner(owner)

(* An item is of the source its id belongs to, and has the stream of that  *)
(* source or one that a stage gave it.                                     *)
Owned(e) ==
    /\ e.src = Owner[e.id]
    /\ \/ e.stream = SourceStream[e.src]
       \/ \E t \in Stages : OutputStream[t] # NoStream /\ e.stream = OutputStream[t]

Happened(item) ==
    \A o \in Objects : \A s \in item[o].completed :
       \E p \in effects : p[1] = s /\ p[2].src = o[1] /\ p[2].id = o[2]

(* What succeeded has had its effect, in this process and before.          *)
OwnerInv ==
    /\ \A e \in pool : Owned(e)
    /\ \A s \in Stages : /\ \A e \in task[s].items : Owned(e) /\ Accepts(s, e.stream)
                         /\ \A e \in task[s].ok : <<s, e>> \in effects
    /\ Happened(st.item) /\ Happened(ckpt.state.item)

LEMMA OwnerIsOwner ==
    ASSUME SourcesApart
    PROVE  Owner \in [Ids -> Sources] /\ IsOwner(Owner)
BY DEF SourcesApart, Owner

LEMMA NewItemOwned ==
    ASSUME SourcesApart, IInv, OwnerInv, NEW s \in Stages, NEW e \in NewItems(s)
    PROVE  Owned(e)
<1>1. PICK f \in task[s].items :
         /\ e.id \in Outputs[s][f.id]
         /\ e.src = (IF ExtractFrom[s] = NoSource THEN f.src ELSE ExtractFrom[s])
         /\ e.stream = (IF OutputStream[s] = NoStream THEN f.stream ELSE OutputStream[s])
  BY NewItemOrigin DEF IInv
<1>2. f \in Entry /\ Owned(f) /\ Accepts(s, f.stream)
  BY DEF OwnerInv, IInv, TypeInv, TypeOK, Task
<1>3. e.src = f.src
  BY <1>1, <1>2 DEF SourcesApart, Owned, Entry
<1>4. Owner[e.id] = Owner[f.id]
  BY <1>1, <1>2, OwnerIsOwner DEF IsOwner, Entry
<1> QED
  BY <1>1, <1>2, <1>3, <1>4 DEF Owned

(* What OwnerInv depends on; effects are never undone.                     *)
LEMMA OwnerKept ==
    ASSUME OwnerInv, effects \subseteq effects', pool' = pool, st'.item = st.item,
           ckpt'.state.item \in {ckpt.state.item, st.item},
           \A t \in Stages : /\ task'[t].items = task[t].items
                             /\ \A e \in task'[t].ok \ task[t].ok : <<t, e>> \in effects'
    PROVE  OwnerInv'
BY DEF OwnerInv, Owned, Happened, Accepts

LEMMA OwnerHandlers ==
    ASSUME IInv, OwnerInv, NEW s \in Stages,
           \/ \E e \in Todo(s) : ItemSucceeds(s, e) \/ ItemErrs(s, e)
           \/ BatchSucceeds(s) \/ BatchErrs(s)
    PROVE  OwnerInv'
<1>1. effects \subseteq effects'
  BY DEF ItemSucceeds, ItemErrs, BatchSucceeds, BatchErrs
<1>2. ASSUME NEW t \in Stages, NEW e \in task'[t].ok \ task[t].ok
      PROVE  <<t, e>> \in effects'
  <2>1. CASE \E f \in Todo(s) : ItemSucceeds(s, f)
    BY <1>2, <2>1 DEF ItemSucceeds, IInv, TypeInv, TypeOK, Task
  <2>2. CASE BatchSucceeds(s)
    BY <1>2, <2>2 DEF BatchSucceeds, IInv, TypeInv, TypeOK, Task
  <2>3. CASE (\E f \in Todo(s) : ItemErrs(s, f)) \/ BatchErrs(s)
    BY <1>2, <2>3 DEF ItemErrs, BatchErrs, IInv, TypeInv, TypeOK, Task
  <2> QED
    BY <2>1, <2>2, <2>3
<1>3. UNCHANGED <<st, pool, phase, ckpt>> /\ \A t \in Stages : task'[t].items = task[t].items
  BY HandlerResult
<1> QED
  BY <1>1, <1>2, <1>3, OwnerKept

(* An item whose id a stage succeeded on is the item it succeeded on.      *)
LEMMA MergeHappened ==
    ASSUME SourcesApart, IInv, OwnerInv, NEW s \in Stages, effects' = effects,
           st'.item = [o \in Objects |-> MergedItem(s, o)]
    PROVE  Happened(st.item)'
<1> SUFFICES ASSUME NEW o \in Objects, NEW t \in MergedItem(s, o).completed
             PROVE  \E p \in effects : p[1] = t /\ p[2].src = o[1] /\ p[2].id = o[2]
  BY DEF Happened
<1>1. CASE t \in st.item[o].completed
  BY <1>1 DEF OwnerInv, Happened
<1>2. CASE t = s /\ o[2] \in IdsOf(task[s].ok)
  <2>1. PICK e \in task[s].ok : e.id = o[2]
    BY <1>2 DEF IdsOf
  <2>2. e \in task[s].items /\ Owned(e)
    BY DEF OwnerInv, IInv, TypeInv, TaskInv
  <2>3. e.src = o[1]
    BY <2>1, <2>2, OwnerIsOwner DEF Owned, IsOwner
  <2>4. <<s, e>> \in effects
    BY DEF OwnerInv
  <2> QED
    BY <1>2, <2>1, <2>3, <2>4
<1>3. t \in st.item[o].completed \/ (t = s /\ o[2] \in IdsOf(task[s].ok))
  BY DEF MergedItem
<1> QED
  BY <1>1, <1>2, <1>3

LEMMA OwnerStep ==
    ASSUME SourcesApart, IInv, OwnerInv, [Next]_vars
    PROVE  OwnerInv'
<1>1. ASSUME NEW c, Start(c)
      PROVE  OwnerInv'
  <2>1. st'.item = ckpt.state.item /\ ckpt' = ckpt /\ effects' = effects /\ pool' = {}
    BY <1>1, StartState DEF Start, disk
  <2>2. \A t \in Stages : task'[t].items = {} /\ task'[t].ok = {}
    BY <1>1, NoTaskType DEF Start
  <2> QED
    BY <2>1, <2>2 DEF OwnerInv, Happened
<1>2. CASE Exit \/ Crash
  <2>1. st' = FreshState /\ ckpt' = ckpt /\ effects' = effects /\ pool' = {}
    BY <1>2 DEF Exit, Crash, Halt, disk
  <2>2. \A t \in Stages : task'[t].items = {} /\ task'[t].ok = {}
    BY <1>2, NoTaskType DEF Exit, Crash, Halt
  <2> QED
    BY <2>1, <2>2 DEF OwnerInv, Happened, FreshState, AbsentItem
<1>3. CASE EnumerateSources
  <2>1. /\ st'.item = [o \in Objects |->
             IF o \in objects
             THEN [status |-> "Pending", completed |-> {}, hash |-> EmptyHash]
             ELSE st.item[o]]
        /\ pool' = {SourceEntry(o) : o \in objects}
        /\ objects \subseteq Objects
    BY <1>3, EnumerateResult
  <2>2. task' = task /\ ckpt' = ckpt /\ effects' = effects
    BY <1>3 DEF EnumerateSources, disk
  <2>3. \A e \in pool' : Owned(e)
    BY <2>1, OwnerIsOwner DEF IsOwner, Owned, SourceEntry
  <2>4. Happened(st.item)'
    BY <2>1, <2>2 DEF OwnerInv, Happened
  <2> QED
    BY <2>2, <2>3, <2>4 DEF OwnerInv, Happened, Owned, Accepts
<1>4. CASE ApplyIncrementality
  BY <1>4, IncrementalityResult, OwnerKept
     DEF ApplyIncrementality, SaveCheckpoint, StoreCheckpoint
<1>5. CASE StartBatch
  <2>1. /\ st'.item = st.item /\ pool' = pool /\ ckpt' = ckpt /\ effects' = effects
    BY <1>5 DEF StartBatch, disk, IInv, TypeInv, TypeOK, PipelineState
  <2>2. \A s \in Stages : /\ task'[s].items \in {{}, ItemsFor(s)}
                          /\ task'[s].ok = {}
    BY <1>5, NoTaskType DEF StartBatch
  <2>3. \A s \in Stages : ItemsFor(s) = {e \in pool : Accepts(s, e.stream)}
    BY DEF ItemsFor, MatchesStream, Accepts
  <2> QED
    BY <2>1, <2>2, <2>3 DEF OwnerInv, Happened, Owned, Accepts
<1>6. ASSUME NEW s \in Stages,
             \/ \E e \in Todo(s) : ItemSucceeds(s, e) \/ ItemErrs(s, e)
             \/ BatchSucceeds(s) \/ BatchErrs(s)
      PROVE  OwnerInv'
  BY <1>6, OwnerHandlers
<1>7. ASSUME NEW s \in Stages, MergeStage(s) \/ FailStage(s)
      PROVE  OwnerInv'
  <2>1. st'.item = [o \in Objects |-> MergedItem(s, o)] /\ pool' = MergedPool(s)
    BY <1>7, MergeResult
  <2>2. effects' = effects /\ ckpt' = ckpt
    BY <1>7 DEF MergeStage, FailStage, disk
  <2>3. \A e \in pool' : Owned(e)
    BY <2>1, NewItemOwned DEF MergedPool, OwnerInv
  <2>4. \A t \in Stages : /\ task'[t].items \in {{}, task[t].items}
                          /\ task'[t].ok \in {{}, task[t].ok}
    BY <1>7, NoTaskType DEF MergeStage, FailStage, IInv, TypeInv, TypeOK, Task
  <2>5. Happened(st.item)'
    BY <2>1, <2>2, MergeHappened
  <2> QED
    BY <2>2, <2>3, <2>4, <2>5 DEF OwnerInv, Happened, Owned, Accepts
<1>8. CASE EndBatch
  <2>1. /\ st'.item = st.item /\ pool' = pool /\ ckpt'.state = st' /\ effects' = effects
        /\ \A t \in Stages : task'[t].items = {} /\ task'[t].ok = {}
    BY <1>8, NoTaskType DEF EndBatch, SaveCheckpoint, StoreCheckpoint, IInv, TypeInv, TypeOK,
                            PipelineState
  <2> QED
    BY <2>1 DEF OwnerInv, Happened, Owned, Accepts
<1>9. CASE Complete
  <2>1. /\ st'.item = st.item /\ pool' = pool /\ ckpt'.state = st' /\ effects' = effects
        /\ task' = task
    BY <1>9 DEF Complete, SaveCheckpoint, StoreCheckpoint, IInv, TypeInv, TypeOK,
                PipelineState
  <2> QED
    BY <2>1, OwnerKept
<1>10. CASE SaveCompletedHashes \/ RunLifecycle
  BY <1>10, OwnerKept DEF SaveCompletedHashes, RunLifecycle, disk
<1>11. CASE (\E o \in Objects : Arrive(o)) \/ (\E c \in Specs : EditConfig(c)) \/ UNCHANGED vars
  BY <1>11, OwnerKept DEF Arrive, EditConfig, memory, disk, vars
<1> QED
  BY <1>1, <1>2, <1>3, <1>4, <1>5, <1>6, <1>7, <1>8, <1>9, <1>10, <1>11
     DEF Next, RunnerStep, StageStep, RunCommand, ResumeCommand

(* Both hypotheses are about the configuration alone.                      *)
LEMMA HypothesesAreConstant ==
    /\ StreamsFlowForward => StreamsFlowForward'
    /\ SourcesApart => SourcesApart'
BY DEF StreamsFlowForward, SourcesApart, Accepts, Tags, IsOwner

(* Where the streams of the configuration go forward, no item is given to  *)
(* a stage before every stage of the earlier batches that accepts its      *)
(* stream has transformed it; and where every id belongs to one source,    *)
(* what an item's state says was completed is what happened to that item:  *)
(* across skips, failures, crashes and restarts (runner.rs:476-530).       *)
THEOREM StagesKeepOrder ==
    StreamsFlowForward /\ SourcesApart /\ Spec => []StagesInOrder
<1>1. Init => FlowInv
  BY NoTaskType DEF Init, FlowInv
<1>2. Init => OwnerInv
  BY NoTaskType DEF Init, OwnerInv, Happened, FreshState, AbsentItem, NoCheckpoint
<1>3. StreamsFlowForward /\ IInv /\ FlowInv /\ [Next]_vars => FlowInv'
  BY FlowStep
<1>4. SourcesApart /\ IInv /\ OwnerInv /\ [Next]_vars => OwnerInv'
  BY OwnerStep
<1>5. IInv /\ FlowInv /\ OwnerInv => StagesInOrder
  <2>1. OwnerInv => CompletedStagesHappened
    BY DEF OwnerInv, Happened, CompletedStagesHappened
  <2> QED
    BY <2>1, FlowKeepsOrder DEF StagesInOrder
<1> QED
  BY <1>1, <1>2, <1>3, <1>4, <1>5, HypothesesAreConstant, Invariance, PTL DEF Spec
=============================================================================
