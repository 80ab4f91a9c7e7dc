---------------------------- MODULE PipelineRunner ----------------------------
(***************************************************************************)
(* The ECL pipeline runner (ecl-pipeline/src/runner.rs) together with the  *)
(* checkpoint store it writes (ecl-pipeline-state) and the commands that   *)
(* start it (ecl-cli/src/pipeline/run.rs, resume.rs).                      *)
(*                                                                         *)
(* One process at a time runs the pipeline: it loads the last checkpoint,  *)
(* enumerates the sources if that was not done yet, executes the batches   *)
(* of the schedule, the stages of one batch concurrently, checkpoints      *)
(* after each batch, saves the hashes of the completed items and moves the *)
(* source objects away.  It may die at any point, and be started again.    *)
(*                                                                         *)
(* Pull sources only: run() skips its phase 3 when no push source is       *)
(* configured (runner.rs:173).                                             *)
(***************************************************************************)
EXTENDS Naturals, Sequences, FiniteSets

CONSTANTS
    Sources,        \* names of the pull sources
    Ids,            \* item ids: those of source objects and those fan-out makes
    Objects,        \* the <<source, id>> pairs that may ever exist in a source
    Stages,         \* stage names
    Streams,        \* stream tags
    NoStream,       \* Option::None of a stream tag
    NoSource,       \* Option::None of a stage's source
    Specs,          \* hashes of the pipeline configuration
    NoSpec,         \* no process is running
    Schedule,       \* the batches computed by the topology layer
    SourceStream,   \* stream tag given to the items of a source
    InputStreams,   \* streams a stage accepts; {} accepts everything
    OutputStream,   \* stream a stage tags its outputs with
    ExtractFrom,    \* the source an "extract" stage fetches from
    Outputs,        \* ids of what a stage returns for an item of a given id
    SkipOnError,    \* stages with skip_on_error = true
    BatchStages,    \* stages whose handler requires the whole batch
    OnSuccess,      \* lifecycle action after a run with no failed item
    OnFailure       \* lifecycle action after a run with failed items

LifecycleActions ==
    {"None", "MoveToHistorical", "Delete", "MoveToInput", "MoveToError"}

(* What PipelineSpec::validate and the topology layer guarantee: there is  *)
(* at least one stage, every stage is in exactly one batch.                *)
ASSUME TopologyAssumption ==
    /\ Objects \subseteq Sources \X Ids
    /\ IsFiniteSet(Objects) /\ IsFiniteSet(Ids)
    /\ NoStream \notin Streams /\ NoSource \notin Sources /\ NoSpec \notin Specs
    /\ Schedule \in Seq(SUBSET Stages)
    /\ Schedule # <<>>
    /\ \A i, j \in 1..Len(Schedule) : i # j => Schedule[i] \cap Schedule[j] = {}
    /\ SourceStream \in [Sources -> Streams \cup {NoStream}]
    /\ InputStreams \in [Stages -> SUBSET Streams]
    /\ OutputStream \in [Stages -> Streams \cup {NoStream}]
    /\ ExtractFrom \in [Stages -> Sources \cup {NoSource}]
    /\ Outputs \in [Stages -> [Ids -> SUBSET Ids]]
    /\ SkipOnError \subseteq Stages /\ BatchStages \subseteq Stages
    /\ OnSuccess \in LifecycleActions /\ OnFailure \in LifecycleActions

VARIABLES
    (* the world *)
    objects,    \* objects now in the sources
    removed,    \* objects the lifecycle manager moved away or deleted
    config,     \* hash of the configuration file as it is now
    effects,    \* <<stage, item>> pairs the stage's handler has succeeded on
    (* memory of the process *)
    phase,      \* where run() is; "down" when no process runs
    spec,       \* hash of the configuration the process runs under
    st,         \* PipelineState
    seq,        \* checkpoint_sequence
    pool,       \* active_items
    task,       \* the task of each stage of the batch being executed
    (* the state store *)
    ckpt,       \* the latest checkpoint; its seq is 0 when there is none
    hashes      \* item id -> content hash of the last completed run

world == <<objects, removed, config>>
disk == <<ckpt, hashes>>
memory == <<phase, spec, st, seq, pool, task>>
vars == <<objects, removed, config, effects,
          phase, spec, st, seq, pool, task, ckpt, hashes>>

-----------------------------------------------------------------------------
(* Data.                                                                   *)

NoHash == "none"        \* no entry in the hashes table
EmptyHash == ""         \* Blake3Hash::new(""), what every pull item carries
Hashes == {NoHash, EmptyHash}

ItemStatus == {"Absent", "Pending", "Processing", "Completed", "Failed",
               "Skipped", "Unchanged"}
ItemState == [status: ItemStatus, completed: SUBSET Stages, hash: Hashes]
AbsentItem == [status |-> "Absent", completed |-> {}, hash |-> NoHash]

StageStatus == {"Pending", "Running", "Completed", "Failed"}
StageState == [status: StageStatus, processed: Nat, failed: Nat, skipped: Nat]
PendingStage ==
    [status |-> "Pending", processed |-> 0, failed |-> 0, skipped |-> 0]

PipelineStatus == {"Pending", "Interrupted", "Completed"}
PipelineState ==
    [status: PipelineStatus, batch: 0..Len(Schedule),
     item: [Objects -> ItemState], stage: [Stages -> StageState],
     stats: [discovered: Nat, processed: Nat, failed: Nat]]

Checkpoint == [seq: Nat, spec: Specs \cup {NoSpec}, state: PipelineState]

(* An item of the active pool.  Its content is abstracted to `done`, the   *)
(* stages whose transformation it carries.                                 *)
Entry == [src: Sources, id: Ids, stream: Streams \cup {NoStream},
          done: SUBSET Stages]

(* A stage's task: the items it was given, those its handler succeeded on  *)
(* and those it gave up on.                                                *)
Task == [state: {"none", "running", "merged"},
         items: SUBSET Entry, ok: SUBSET Entry, bad: SUBSET Entry]
NoTask == [state |-> "none", items |-> {}, ok |-> {}, bad |-> {}]

HasStatus(item, status) == {o \in Objects : item[o].status = status}
Present(item) == {o \in Objects : item[o].status # "Absent"}

(* PipelineState::update_stats.                                            *)
Stats(item) == [discovered |-> Cardinality(Present(item)),
                processed |-> Cardinality(HasStatus(item, "Completed")),
                failed |-> Cardinality(HasStatus(item, "Failed"))]
UpdateStats(state) == [state EXCEPT !.stats = Stats(state.item)]

FreshState ==
    [status |-> "Pending", batch |-> 0,
     item |-> [o \in Objects |-> AbsentItem],
     stage |-> [s \in Stages |-> PendingStage],
     stats |-> [discovered |-> 0, processed |-> 0, failed |-> 0]]

NoCheckpoint == [seq |-> 0, spec |-> NoSpec, state |-> FreshState]
HasCheckpoint == ckpt.seq > 0

(* Checkpoint::prepare_for_resume.                                         *)
MutResumeRestarts(state) == [state EXCEPT !.status = "Interrupted", !.batch = 0]
PrepareForResume(state) ==
    [state EXCEPT
       !.status = "Interrupted",
       !.item = [o \in Objects |->
                   [state.item[o] EXCEPT
                      !.status = IF @ = "Processing" THEN "Pending" ELSE @]],
       !.stage = [s \in Stages |->
                   [state.stage[s] EXCEPT
                      !.status = IF @ = "Running" THEN "Pending" ELSE @]]]

(* matches_stream and collect_items_for_stage.                             *)
MatchesStream(s, e) ==
    \/ InputStreams[s] = {}
    \/ e.stream = NoStream
    \/ e.stream \in InputStreams[s]
ItemsFor(s) == {e \in pool : MatchesStream(s, e)}

CurrentBatch == Schedule[st.batch + 1]
Todo(s) == task[s].items \ (task[s].ok \cup task[s].bad)

-----------------------------------------------------------------------------
(* Merging the result of a stage: merge_stage_result.                      *)

IdsOf(entries) == {e.id : e \in entries}

(* What stage s returned for the items it succeeded on, tagged with its    *)
(* output stream.  An extract stage stamps its own source on the item.     *)
StageOutput(s, e, id) ==
    [src |-> IF ExtractFrom[s] = NoSource THEN e.src ELSE ExtractFrom[s],
     id |-> id,
     stream |-> IF OutputStream[s] = NoStream THEN e.stream ELSE OutputStream[s],
     done |-> e.done \cup {s}]
NewItems(s) ==
    UNION {{StageOutput(s, e, id) : id \in Outputs[s][e.id]} : e \in task[s].ok}

(* Items are looked up by id in every source: successes first, then what   *)
(* the stage gave up on.                                                   *)
MergedItem(s, o) ==
    LET won == o[2] \in IdsOf(task[s].ok)
        lost == o[2] \in IdsOf(task[s].bad)
    IN  IF st.item[o].status = "Absent" THEN st.item[o]
        ELSE [status |-> IF lost THEN IF s \in SkipOnError THEN "Skipped"
                                                           ELSE "Failed"
                         ELSE IF won THEN "Completed" ELSE st.item[o].status,
              completed |-> IF won THEN st.item[o].completed \cup {s}
                                   ELSE st.item[o].completed,
              hash |-> st.item[o].hash]

MutNeverFails(s) == FALSE
Fails(s) == task[s].bad # {} /\ s \notin SkipOnError

MergedStage(s) ==
    LET bad == Cardinality(task[s].bad)
    IN  [status |-> IF Fails(s) THEN "Failed" ELSE "Completed",
         processed |-> st.stage[s].processed + Cardinality(task[s].ok),
         failed |-> st.stage[s].failed + IF s \in SkipOnError THEN 0 ELSE bad,
         skipped |-> st.stage[s].skipped + IF s \in SkipOnError THEN bad ELSE 0]

MergedState(s) ==
    [st EXCEPT !.item = [o \in Objects |-> MergedItem(s, o)],
               !.stage = [st.stage EXCEPT ![s] = MergedStage(s)]]

(* Consumed items leave the pool, outputs enter it.                        *)
MutPoolReplaced(s) == NewItems(s)
MutPoolKeepsConsumed(s) == pool \cup NewItems(s)
MergedPool(s) ==
    {e \in pool : e.id \notin IdsOf(task[s].items)} \cup NewItems(s)

-----------------------------------------------------------------------------
(* Starting, and stopping.                                                 *)

MutEnumerateAgain(state) == state.batch = 0
NeedsEnumeration(state) == state.batch = 0 /\ state.stats.discovered = 0

(* Checkpoint::config_drifted.                                             *)
MutNeverDrifted(c) == FALSE
ConfigDrifted(c) == HasCheckpoint /\ ckpt.spec # c

(* PipelineRunner::new and the entry of run(), under configuration c.  A   *)
(* checkpoint of another configuration is refused (ConfigDrift): no step.  *)
(* active_items is always empty and the sequence always 0.                 *)
Start(c) ==
    /\ phase = "down"
    /\ ~ConfigDrifted(c)
    /\ st' = IF HasCheckpoint THEN PrepareForResume(ckpt.state) ELSE FreshState
    /\ phase' = IF NeedsEnumeration(st') THEN "enumerate" ELSE "ready"
    /\ spec' = c
    /\ seq' = 0
    /\ pool' = {}
    /\ task' = [s \in Stages |-> NoTask]
    /\ UNCHANGED <<world, effects, disk>>

(* `ecl pipeline run`: the configuration file as it is now.                *)
RunCommand == Start(config)

(* `ecl pipeline resume`: the configuration embedded in the checkpoint.    *)
ResumeCommand == HasCheckpoint /\ Start(ckpt.spec)

(* The memory of the process is gone.                                      *)
Halt ==
    /\ phase' = "down"
    /\ spec' = NoSpec
    /\ st' = FreshState
    /\ seq' = 0
    /\ pool' = {}
    /\ task' = [s \in Stages |-> NoTask]

(* The process is killed, or an error other than an item's failure ends    *)
(* run(): an enumeration error, a store error, a panicked stage task.      *)
Crash ==
    /\ phase # "down"
    /\ Halt
    /\ UNCHANGED <<world, effects, disk>>

(* The command returns: run() is done, or returned an item's failure.      *)
Exit ==
    /\ phase \in {"failed", "finished"}
    /\ Halt
    /\ UNCHANGED <<world, effects, disk>>

-----------------------------------------------------------------------------
(* Phase 1: enumeration and incrementality.                                *)

SourceEntry(o) ==
    [src |-> o[1], id |-> o[2], stream |-> SourceStream[o[1]], done |-> {}]

(* enumerate_sources.  The sources are read one after the other; an object *)
(* that arrives in between is as good as one that arrived before.          *)
EnumerateSources ==
    /\ phase = "enumerate"
    /\ st' = UpdateStats([st EXCEPT !.item =
               [o \in Objects |->
                  IF o \in objects
                  THEN [status |-> "Pending", completed |-> {}, hash |-> EmptyHash]
                  ELSE st.item[o]]])
    /\ pool' = pool \cup {SourceEntry(o) : o \in objects}
    /\ phase' = "discovered"
    /\ UNCHANGED <<world, effects, spec, seq, task, disk>>

(* The store: each of its writes is one transaction.                       *)
StoreCheckpoint(c) == ckpt' = c
StoreHashes(h) == hashes' = h
PreviousHashes == hashes

(* checkpoint(): the sequence is incremented, then everything is written.  *)
SaveCheckpoint(state) ==
    /\ seq' = seq + 1
    /\ StoreCheckpoint([seq |-> seq + 1, spec |-> spec, state |-> state])

(* apply_incrementality, and the checkpoint that ends phase 1.  An item    *)
(* marked Unchanged stays in the pool.                                     *)
MarkUnchanged(item, o) ==
    IF /\ item[o].status # "Absent"
       /\ PreviousHashes[o[2]] \notin {NoHash, EmptyHash}
       /\ PreviousHashes[o[2]] = item[o].hash
    THEN [item[o] EXCEPT !.status = "Unchanged"]
    ELSE item[o]

ApplyIncrementality ==
    /\ phase = "discovered"
    /\ st' = UpdateStats([st EXCEPT !.item =
               [o \in Objects |-> MarkUnchanged(st.item, o)]])
    /\ SaveCheckpoint(st')
    /\ phase' = "ready"
    /\ UNCHANGED <<world, effects, spec, pool, task, hashes>>

-----------------------------------------------------------------------------
(* Phase 2: the batches.                                                   *)

(* execute_batch, up to the first await: every stage of the batch gets its *)
(* items from the same pool and is marked Running.                         *)
StartBatch ==
    /\ phase = "ready"
    /\ st.batch < Len(Schedule)
    /\ task' = [s \in Stages |->
                  IF s \in CurrentBatch
                  THEN [state |-> "running", items |-> ItemsFor(s),
                        ok |-> {}, bad |-> {}]
                  ELSE NoTask]
    /\ st' = [st EXCEPT !.stage =
               [s \in Stages |->
                  IF s \in CurrentBatch
                  THEN [st.stage[s] EXCEPT !.status = "Running"]
                  ELSE st.stage[s]]]
    /\ phase' = "batch"
    /\ UNCHANGED <<world, effects, spec, seq, pool, disk>>

(* The handler of stage s succeeds on item e, or gives it up after the     *)
(* last attempt (execute_stage_items).                                     *)
ItemSucceeds(s, e) ==
    /\ phase = "batch" /\ task[s].state = "running" /\ s \notin BatchStages
    /\ e \in Todo(s)
    /\ task' = [task EXCEPT ![s].ok = @ \cup {e}]
    /\ effects' = effects \cup {<<s, e>>}
    /\ UNCHANGED <<world, phase, spec, st, seq, pool, disk>>

ItemErrs(s, e) ==
    /\ phase = "batch" /\ task[s].state = "running" /\ s \notin BatchStages
    /\ e \in Todo(s)
    /\ task' = [task EXCEPT ![s].bad = @ \cup {e}]
    /\ UNCHANGED <<world, effects, phase, spec, st, seq, pool, disk>>

(* A batch stage handles all its items at once (execute_stage_batch).      *)
BatchSucceeds(s) ==
    /\ phase = "batch" /\ task[s].state = "running" /\ s \in BatchStages
    /\ Todo(s) # {}
    /\ task' = [task EXCEPT ![s].ok = task[s].items]
    /\ effects' = effects \cup {<<s, e>> : e \in task[s].items}
    /\ UNCHANGED <<world, phase, spec, st, seq, pool, disk>>

BatchErrs(s) ==
    /\ phase = "batch" /\ task[s].state = "running" /\ s \in BatchStages
    /\ Todo(s) # {}
    /\ task' = [task EXCEPT ![s].bad = task[s].items]
    /\ UNCHANGED <<world, effects, phase, spec, st, seq, pool, disk>>

(* The runner takes the result of a stage, in whatever order the stages    *)
(* finish, and merges it.                                                  *)
MergeStage(s) ==
    /\ phase = "batch" /\ task[s].state = "running" /\ Todo(s) = {}
    /\ ~Fails(s)
    /\ st' = UpdateStats(MergedState(s))
    /\ pool' = MergedPool(s)
    /\ task' = [task EXCEPT ![s].state = "merged"]
    /\ UNCHANGED <<world, effects, phase, spec, seq, disk>>

(* A stage with failed items: its result is merged, the statistics are     *)
(* not, run() returns the error and the other stages' tasks are aborted.   *)
FailStage(s) ==
    /\ phase = "batch" /\ task[s].state = "running" /\ Todo(s) = {}
    /\ Fails(s)
    /\ st' = MergedState(s)
    /\ pool' = MergedPool(s)
    /\ task' = [t \in Stages |-> NoTask]
    /\ phase' = "failed"
    /\ UNCHANGED <<world, effects, spec, seq, disk>>

(* Every stage of the batch is merged: the next batch, and a checkpoint.   *)
MutOneStageMerged == \E s \in CurrentBatch : task[s].state = "merged"
MutAwaitWork ==
    \A s \in CurrentBatch : task[s].state = "merged" /\ task[s].items # {}
AllMerged == \A s \in CurrentBatch : task[s].state = "merged"

EndBatch ==
    /\ phase = "batch"
    /\ AllMerged
    /\ st' = [st EXCEPT !.batch = @ + 1]
    /\ SaveCheckpoint(st')
    /\ task' = [s \in Stages |-> NoTask]
    /\ phase' = "ready"
    /\ UNCHANGED <<world, effects, spec, pool, hashes>>

-----------------------------------------------------------------------------
(* Phases 4 and 5: hashes, completion, lifecycle.                          *)

(* save_completed_hashes: replaces the hashes table, keyed by id alone.    *)
CompletedWithId(item, id) ==
    {o \in HasStatus(item, "Completed") : o[2] = id}

MutHashesOfAll ==
    [id \in Ids |-> IF \E o \in Present(st.item) : o[2] = id THEN EmptyHash
                                                          ELSE NoHash]
CompletedHashes ==
    [id \in Ids |->
       IF CompletedWithId(st.item, id) = {} THEN NoHash
       ELSE st.item[CHOOSE o \in CompletedWithId(st.item, id) : TRUE].hash]

SaveCompletedHashes ==
    /\ phase = "ready"
    /\ st.batch = Len(Schedule)
    /\ StoreHashes(CompletedHashes)
    /\ phase' = "hashed"
    /\ UNCHANGED <<world, effects, spec, st, seq, pool, task, ckpt>>

MutNoFinalCheckpoint ==
    /\ phase = "hashed"
    /\ st' = [st EXCEPT !.status = "Completed"]
    /\ phase' = "lifecycle"
    /\ UNCHANGED <<world, effects, spec, seq, pool, task, disk>>
Complete ==
    /\ phase = "hashed"
    /\ st' = [st EXCEPT !.status = "Completed"]
    /\ SaveCheckpoint(st')
    /\ phase' = "lifecycle"
    /\ UNCHANGED <<world, effects, spec, pool, task, hashes>>

(* LifecycleManager::on_success or on_failure over the ids of all items    *)
(* the state knows.  The first error ends it, so any part of the objects   *)
(* still in the sources may have gone; errors do not fail the run.         *)
LifecycleRemoves ==
    IF st.stats.failed = 0 THEN OnSuccess \in {"MoveToHistorical", "Delete"}
                           ELSE OnFailure = "MoveToError"

RunLifecycle ==
    /\ phase = "lifecycle"
    /\ \E gone \in SUBSET (objects \cap Present(st.item)) :
          /\ ~LifecycleRemoves => gone = {}
          /\ objects' = objects \ gone
          /\ removed' = removed \cup gone
    /\ phase' = "finished"
    /\ UNCHANGED <<config, effects, spec, st, seq, pool, task, disk>>

-----------------------------------------------------------------------------
(* The environment.                                                        *)

(* A new object appears in a source.  Bound: a removed one does not come   *)
(* back.                                                                   *)
Arrive(o) ==
    /\ o \notin objects \cup removed
    /\ objects' = objects \cup {o}
    /\ UNCHANGED <<removed, config, effects, memory, disk>>

(* The configuration file is edited.  It is read when a command starts.    *)
EditConfig(c) ==
    /\ phase = "down" /\ c # config
    /\ config' = c
    /\ UNCHANGED <<objects, removed, effects, memory, disk>>

-----------------------------------------------------------------------------
Init ==
    /\ objects \in SUBSET Objects
    /\ removed = {}
    /\ config \in Specs
    /\ effects = {}
    /\ phase = "down" /\ spec = NoSpec
    /\ st = FreshState /\ seq = 0 /\ pool = {}
    /\ task = [s \in Stages |-> NoTask]
    /\ ckpt = NoCheckpoint
    /\ hashes = [id \in Ids |-> NoHash]

StageStep ==
    \E s \in Stages :
       \/ \E e \in Todo(s) : ItemSucceeds(s, e) \/ ItemErrs(s, e)
       \/ BatchSucceeds(s) \/ BatchErrs(s)
       \/ MergeStage(s) \/ FailStage(s)

RunnerStep ==
    \/ EnumerateSources \/ ApplyIncrementality
    \/ StartBatch \/ StageStep \/ EndBatch
    \/ SaveCompletedHashes \/ Complete \/ RunLifecycle
    \/ Exit

Next ==
    \/ RunCommand \/ ResumeCommand
    \/ RunnerStep
    \/ Crash
    \/ \E o \in Objects : Arrive(o)
    \/ \E c \in Specs : EditConfig(c)

(* The runtime schedules the runner and its tasks, and handlers return.    *)
(* Nobody is obliged to start the pipeline again.                          *)
Fairness == WF_vars(RunnerStep)

Spec == Init /\ [][Next]_vars /\ Fairness

-----------------------------------------------------------------------------
(* Properties.                                                             *)

(* Every variable holds a value of its type.                               *)
TypeOK ==
    /\ objects \subseteq Objects
    /\ removed \subseteq Objects
    /\ config \in Specs
    /\ effects \subseteq Stages \X Entry
    /\ phase \in {"down", "enumerate", "discovered", "ready", "batch",
                  "hashed", "lifecycle", "failed", "finished"}
    /\ spec \in Specs \cup {NoSpec}
    /\ st \in PipelineState
    /\ seq \in Nat
    /\ pool \subseteq Entry
    /\ task \in [Stages -> Task]
    /\ ckpt \in Checkpoint
    /\ hashes \in [Ids -> Hashes]

(* A checkpoint is a consistent cut between two batches, whenever the      *)
(* process dies: the stages of the batches it counts are Completed, those  *)
(* of the later batches untouched, in the stage states and in every item's *)
(* record of completed stages (runner.rs:167-169).                         *)
CheckpointAtBoundary ==
    \A i \in 1..Len(Schedule) : \A s \in Schedule[i] :
       /\ i <= ckpt.state.batch => ckpt.state.stage[s].status = "Completed"
       /\ i > ckpt.state.batch =>
             /\ ckpt.state.stage[s] = PendingStage
             /\ \A o \in Objects : s \notin ckpt.state.item[o].completed

(* The statistics in a checkpoint are those of the items in it: what       *)
(* `ecl pipeline status` prints is never stale (lib.rs:69-73).             *)
CheckpointStatsFresh == ckpt.state.stats = Stats(ckpt.state.item)

(* A checkpoint is only ever continued under the configuration it was      *)
(* written under, however often the file is edited (runner.rs:73).         *)
NoConfigMix ==
    phase # "down" /\ HasCheckpoint => spec = ckpt.spec

(* The hashes kept for the next run are those of the last completed run:   *)
(* exactly the ids completed in the checkpoint that says Completed, though *)
(* the two are written in two transactions (runner.rs:178-182).            *)
HashesMatchCheckpoint ==
    ckpt.state.status = "Completed" =>
       \A id \in Ids :
          (hashes[id] # NoHash) <=> (CompletedWithId(ckpt.state.item, id) # {})

(* While a first run is under way, the items still Pending are those that  *)
(* wait in the pool for their first stage: none gets lost between stages   *)
(* that run concurrently (runner.rs:528-530).                              *)
PendingItemsWait ==
    phase \in {"ready", "batch", "hashed"} /\ st.status = "Pending" =>
       \A o \in Objects :
          (st.item[o].status = "Pending") <=> (SourceEntry(o) \in pool)

(* A completed stage of an item is a stage whose handler succeeded on that *)
(* item, of that source (runner.rs:476-487 looks it up by id alone).       *)
CompletedStagesHappened ==
    \A o \in Objects : \A s \in st.item[o].completed :
       \E p \in effects : p[1] = s /\ p[2].src = o[1] /\ p[2].id = o[2]

(* No stage is jumped over: an item given to a stage carries the           *)
(* transformation of every stage of the earlier batches that accepts its   *)
(* stream, whatever was skipped, merged or restarted on the way            *)
(* (runner.rs:528-530).                                                    *)
NoStageJumped ==
    \A i, j \in 1..Len(Schedule) : \A t \in Schedule[i], s \in Schedule[j] :
       i < j => \A e \in task[s].items : MatchesStream(t, e) => t \in e.done

(* What is recorded of the stages happened, and nothing is recorded or     *)
(* given on out of their order.                                            *)
StagesInOrder == CompletedStagesHappened /\ NoStageJumped

(* A run that was never interrupted leaves no item behind: when all        *)
(* batches are done, every item it discovered is Completed or Skipped.     *)
FirstRunIsComplete ==
    phase = "hashed" /\ st.status = "Pending" =>
       \A o \in Present(st.item) : st.item[o].status \in {"Completed", "Skipped"}

(* An object only leaves its source after the run that knows it is on disk *)
(* as Completed: a crash cannot lose an object whose run has to be resumed *)
(* (runner.rs:178-197).                                                    *)
RemovedAfterCompletion ==
    \A o \in removed :
       /\ ckpt.state.status = "Completed"
       /\ ckpt.state.item[o].status # "Absent"

(* No handler succeeds twice on the same item: whatever the crashes and    *)
(* restarts, nothing is emitted twice.                                     *)
NoEffectTwice ==
    [][\A s \in Stages : \A e \in task'[s].ok \ task[s].ok :
          <<s, e>> \notin effects]_vars

(* A restart never falls back: the checkpointed batch only grows, and a    *)
(* completed run stays completed with the same items (runner.rs:162-165).  *)
CheckpointNeverRegresses ==
    [][HasCheckpoint =>
         /\ ckpt'.state.batch >= ckpt.state.batch
         /\ ckpt.state.status = "Completed" =>
               /\ ckpt'.state.status = "Completed"
               /\ ckpt'.state.item = ckpt.state.item]_vars

(* A run ends: no order in which stages and items finish leaves the runner *)
(* waiting (runner.rs:262).                                                *)
EveryRunEnds == (phase # "down") ~> (phase = "down")

-----------------------------------------------------------------------------
(* What the repository says and the code does not do.                      *)

(* "The checkpoint: a complete, self-contained recovery artifact."         *)
(* (checkpoint.rs:15): a run completed from a checkpoint has processed its *)
(* items.  The active pool is not in the checkpoint.                       *)
CompletedRunHasNothingPending ==
    ckpt.state.status = "Completed" =>
       \A o \in Objects : ckpt.state.item[o].status # "Pending"

(* "Run 2: should discover both files" (tests/integration/incrementality.rs*)
(* :228): a run started after a completed one, with new objects in the     *)
(* sources, enumerates them.                                               *)
RerunEnumeratesNewObjects ==
    [][/\ phase = "down" /\ phase' # "down"
       /\ ckpt.state.status = "Completed"
       /\ \E o \in objects : ckpt.state.item[o].status = "Absent"
       => phase' = "enumerate"]_vars

(* "Which source this stage operates on (for extract stages)." (topo       *)
(* lib.rs:89): an extract stage fetches the items of its own source only.  *)
ExtractStaysOnItsSource ==
    \A s \in Stages : ExtractFrom[s] # NoSource =>
       \A e \in task[s].items : e.src = ExtractFrom[s]

=============================================================================
