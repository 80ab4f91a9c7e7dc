# TLA+ models of textrynum (ECL pipelines and Fabryk)

The repository holds two families of Rust crates under `src/crates`:

- **ECL** (`ecl-*`): a pipeline engine. A TOML file names sources, stages and a
  lifecycle; the engine enumerates the sources, runs the stages in batches,
  checkpoints after each batch and moves the source objects away at the end.
- **Fabryk** (`fabryk-*`): knowledge servers. They index Markdown content
  (full text, vectors, graph) and serve it over MCP, with backends that start in
  the background.

This directory holds the TLA+ specifications of the parts where order, failure and
restarts matter, the TLC instances that check them and the TLAPS proofs of what holds
for every instance. File references are relative to `src/crates`.

## 1. Inventory

| Component | State | Operations | Talks to | What is hard | What makes it correct |
|---|---|---|---|---|---|
| Pipeline runner (`ecl-pipeline/src/runner.rs`) | `PipelineState`, checkpoint sequence, active item pool | `new`, `run`: enumerate, apply incrementality, execute batches, push loop, save hashes, lifecycle | sources, stage handlers, state store, lifecycle manager | death at any point and restart; stages of a batch finishing in any order, one of them failing; configuration edits between runs | checkpoints are consistent cuts, no effect twice, nothing lost between stages, nothing removed early |
| Batch execution (`batch.rs`) | semaphore, item tasks, retry counters | `execute_stage_items`, `execute_stage_batch`, `execute_with_retry` | stage handlers | permits, panics, retry limits | every item has exactly one outcome, at most `concurrency` in flight, the stage ends |
| Lifecycle manager (`lifecycle.rs`) | objects of a bucket | `on_success`, `on_failure`: copy + delete per object | the bucket | an error, a lost answer or a death between copy and delete; equal base names; an upload meanwhile | no object is lost |
| State store (`ecl-pipeline-state`) | two tables: checkpoint, hashes | save/load checkpoint, save/load hashes | the runner | two transactions per completion, corrupt or newer data | what is loaded is what was last saved whole |
| Topology (`ecl-pipeline-topo`) | resource graph, schedule | `resolve`, `compute_schedule` | the spec | cycles, stages joined by several resources, conflicts within a batch | the schedule is a partition that respects dependencies; a cycle is reported exactly if there is one |
| Push sources (`ecl-adapter-zapier`, `run_push_sources`) | bounded channel per source, shutdown signal | webhook accept, receive loop, drain, shutdown | the runner | full channels, shutdown races, a silent source | an acknowledged document is processed or reported |
| CLI (`ecl-cli`) | none of its own | `run`, `resume`, `status` | all of the above | which configuration a resumed run uses | a checkpoint is continued under its own configuration |
| Source adapters (`ecl-adapter-fs`, `-gcs`, `-gdrive`, `-sftp`, `-slack`) | queue of folders, page token, items listed | `enumerate` | the source's API, the token cache | the source changes between two answers; errors half-way | what nobody touched is listed, as often as it is configured |
| Token cache (`ecl-gcp-auth`) | one cached token | `get_token` | Google's token endpoint | several requests at once, late answers | a token that is handed out is still valid, unless its answer was late |
| Sinks (`ecl-sink-kafka`, `ecl-sink-gcs`) | schema id | `process` for each item | Kafka and its schema registry, a bucket | lost answers and retries; items that wait for one registration, which fails; midnight | what is reported is written, and written once unless an answer was lost |
| Stages (`ecl-stages`) | none | `process`, `process_batch` | item data | join and aggregation edge cases | pure functions of their inputs |
| LLM retry, critique loop (`ecl-core`, `ecl-workflows`) | attempt and revision counters | `complete`, `run` | an LLM provider | off-by-one limits | the draft that is returned is the one that was judged |
| Service handle, slot (`fabryk-core`) | service state, audit trail, backend | `set_state`, `wait_ready`, `spawn_with_retry`, `require` | initialisers, tool handlers | concurrent setters, missed notifications, check then lock | waiters learn the outcome, the trail agrees with the state |
| Notifier, registries (`fabryk-mcp-core`) | peers, subscriptions | subscribe, notify, prune | MCP clients | snapshots used after awaits, positions used after removals | a live client is never dropped, and every call returns |
| Full-text index (`fabryk-fts`) | index, metadata, append metadata | `build`, `build_append`, freshness | the content directory | death between clear and metadata; builds after appends | an index called fresh holds the content it was built from |
| Vectors (`fabryk-vector`) | embeddings, cache file | `build`, cache | the content directory | edits between reading and hashing | a cache that matches holds the content |
| Graph (`fabryk-graph`, `fabryk-mcp-graph`) | four views of one graph, its file, the build's cache | changes, `save_graph`, `load_graph`, `GraphBuilder::build`, queries | content, tools | positions that change when a node is removed; links to files not yet read; cycles | the views agree, the answers are those of the graph |
| Signing keys (`fabryk-auth-google`) | cached keys | `find_key` | Google's key endpoint | several refreshes at once, key rotation | a published key is found, a withdrawn one not for long |

The remaining crates (content parsing, MCP tool handlers, request middleware, Redis,
release tooling) are I/O or stateless; section 12 and `PROJECT.json` say of each why it
is left out.

## 2. Plan

| Order | Modules | State |
|---|---|---|
| 1 | `PipelineRunner`, `PipelineRunnerProofs`, `MCPipelineRunner` | done |
| 2 | `BatchExec` refining `StageOutcomes`, `BatchExecProofs` | done |
| 3 | `PushSource`, `PushSourceProofs`, `MCPushSource` | done |
| 4 | `ContentDir`, `FtsIndex`, `VectorCache`, `ContentIndexProofs` | done |
| 5 | `Services`, `Notifier`, `ServicesProofs`, `MCServices` | done |
| 6 | `Schedule`, `TokenCache`, `FileLifecycle`, `PartsProofs` | done |
| 7 | `SourceWalk`, `Sinks`, `Drafts`, `MCPipelineParts` | done |
| 8 | `GraphData`, `GraphDataProofs`, `GraphQueries`, `GraphBuild`, `KeyCache`, `MCContentIndexes` | done |
| 9 | `Iteration`: induction for the proofs | done |

Every safety property of a passing run is a theorem (section 11); what is left to TLC alone
is liveness.

`StageOutcomes` is the abstract specification between 1 and 2: what `PipelineRunner` lets
a stage's task do. Three modules compose components for a run:

- `MCPipelineParts` (run `parts`): the pieces around the runner, 2, 3, 6 and 7.
- `MCContentIndexes` (run `content`): what a server answers from, 4 and 8.
- `MCServices` (run `services`): the services and the notifier of a server.

The parts in one of these share the content or nothing at all, so a behaviour is one of
one part, which a variable `part` names; the others keep their initial state. What a
component sees of another is in its own module: a lost answer, a late token, an edited file.

## 3. `PipelineRunner`

State and the code it stands for:

| Variable | Code |
|---|---|
| `objects`, `removed` | objects in the sources, and those the lifecycle manager took away (external) |
| `config` | hash of the TOML file on disk (external) |
| `effects` | history: which stage's handler has succeeded on which item |
| `phase` | the point `run()` has reached; `"down"` when no process runs |
| `spec` | `topology.spec_hash` |
| `st` | `PipelineState`: status, current batch, items, stages, statistics |
| `seq`, `pool` | `checkpoint_sequence`, `active_items` |
| `task` | the spawned task of each stage of the batch: its items and outcomes |
| `ckpt`, `hashes` | the two tables of the store |

One action per step that another actor, or a crash, can separate:

| Action | Code |
|---|---|
| `RunCommand`, `ResumeCommand` | `ecl pipeline run`, `resume`, then `PipelineRunner::new` (drift check, `prepare_for_resume`, empty pool) |
| `EnumerateSources` | `enumerate_sources` |
| `ApplyIncrementality` | `apply_incrementality` and the checkpoint that ends phase 1 |
| `StartBatch` | `execute_batch` until its tasks are spawned |
| `ItemSucceeds`, `ItemErrs`, `BatchSucceeds`, `BatchErrs` | outcomes in `execute_stage_items`, `execute_stage_batch` |
| `MergeStage`, `FailStage` | `merge_stage_result`, and its error |
| `EndBatch` | the end of `execute_batch`, the batch counter and the checkpoint |
| `SaveCompletedHashes`, `Complete`, `RunLifecycle` | phases 4 and 5 of `run` |
| `Crash`, `Exit` | the process dies, or `run` returns any error but an item's; the command returns |
| `Arrive`, `EditConfig` | the world: a new object, an edit of the configuration |

`run` does no other work between two of these steps that anything else could see: the
runner is one task and owns its state, the store's writes are single transactions, and
only the stage tasks run beside it.

What is abstracted: an item's content is the set of stages whose transformation it
carries; what a stage returns for an item is the constant `Outputs`, so a handler is
deterministic; the pool is a set, so two copies of one item are one; time stamps, display names and the
skipped-unchanged counter are left out; the sources are enumerated in one step; the
lifecycle manager removes any part of the objects it is given, because its first error
ends it.

Stages are scheduled by the constant `Schedule`, and `should_execute_stage` is constantly
true in the code, so conditions are not modelled.

### Runs of `PipelineRunner`

`runner`, `resume`, `rerun` and `untagged` use `MCPipelineRunner`: source `a` with objects `x` and `y`, source `b` with
`z`; stages `exA` and `exB` extract one source each and share the first batch; `last` is a
batch stage in the second. `x` fans out into `x` and `row`. Every subset of the objects may
exist at the start and the others may arrive at any time; the process may crash in any
phase and be started again any number of times, by either command; the configuration
file alternates between two contents.

| Run | Result | Shows |
|---|---|---|
| `runner` | passes | ten properties, below |
| `resume` | `CompletedRunHasNothingPending` violated | a resumed run completes without processing what was pending |
| `rerun` | `RerunEnumeratesNewObjects` violated | a run over a completed run's store never looks at the sources |
| `untagged` | `ExtractStaysOnItsSource` violated | without stream tags each extract stage is given every source's items |

Bounds: three objects, two concurrent stages and two batches are the least that has a
merge with another stage still running, a fan-out that reaches a later batch, a crash
between two checkpoints and a checkpoint that is neither the first nor the last. An
object that left its source does not come back. No other counter is bounded: the
sequence number is at most one per batch plus two, because it restarts with the process.

The properties of `runner`:

- `CheckpointAtBoundary`: the store only ever holds a cut between two batches.
- `NoConfigMix`: a checkpoint is continued under its own configuration only.
- `HashesMatchCheckpoint`: the two tables agree once a run is complete.
- `PendingItemsWait`: in an uninterrupted run an item is Pending exactly while it waits
  in the pool.
- `StagesInOrder`: a stage recorded for an item succeeded on that item, and an item given
  to a stage has been through the earlier batches.
- `FirstRunIsComplete`: an uninterrupted run leaves every item Completed or Skipped.
- `RemovedAfterCompletion`: an object leaves its source only for a run that is on disk
  as Completed.
- `NoEffectTwice`: no handler succeeds twice on one item, over all restarts.
- `CheckpointNeverRegresses`: the stored batch only grows; a completed run stays so.
- `EveryRunEnds`: no order of outcomes leaves the runner waiting.

`TypeOK` and `CheckpointStatsFresh` (the statistics stored are those of the items stored)
are proved for every instance and not run.

`NoEffectTwice` holds because a resumed process has an empty pool; the same fact is what
`resume` shows the price of. At-most-once is what this code gives, and an effect whose
outcome was not checkpointed is neither repeated nor reported.

Fairness: weak fairness of the runner's own steps together (`RunnerStep`). It says that
the runtime keeps polling the process and that a handler returns or errs; the code
applies no timeout to a handler. Nothing obliges anyone to start a process, to keep one
alive, or to let a particular item succeed.

## 4. `BatchExec` and `StageOutcomes`

`BatchExec` is `execute_stage_items` with `execute_with_retry`, and
`execute_stage_batch`. `caller` is where the stage's task is in these functions, `next` the
loop index, `permits` the semaphore, `task[i]` and `attempts[i]` the spawned task of an
item, `result` the `StageResult`; `effects` records where the handler succeeded.
`Spawn`, `AllSpawned`, `Join`, `JoinPanicked` and `Return` are the caller, `Attempt`,
`HandlerOk`, `HandlerErr` and `HandlerPanic` an item's task. `Abort` is the runner dropping its
`JoinSet` (another stage failed), `Cancelled` the drop of an item's task at an await: a
handler that is between two awaits still finishes. Backoff times are left out, items are
numbers.

`StageOutcomes` is what the runner is promised: an outcome per item, never changed, and a
result only when every item has one. Under the mapping `state`, `ok`, `bad` (in
`BatchExec`) the execution implements it; `task` in `PipelineRunner` makes exactly the
same steps in `ItemSucceeds`, `ItemErrs`, `BatchSucceeds` and `BatchErrs`.

Part `batch` of the run `parts`: three items, so that with two permits one waits for one;
concurrency 0 to 2; `max_attempts` 0 and 2, so that the saturating subtraction and a real
retry both occur. No counter needs a bound. `BatchIsExact` is three facts: whatever ends a
task, a panic and an abort included, gives its permit back exactly once
(`PermitsBalance`); a result that is returned accounts for every item once
(`ReturnIsComplete`); an item is given up after exactly max(1, `max_attempts`) attempts
(`GivenUpAfterAllAttempts`). `ImplementsStageOutcomes` is the refinement. `StageEnds` (in
`PartsEnd`): the call ends and leaves no task, if `concurrency` is not 0. With 0 the first
`acquire_owned` waits forever, and validation lets 0 pass; the instance includes it so that
the other properties are checked there too.

Fairness: the caller, and the task of each item, are polled by tokio whenever they are
ready, and a handler returns (no timeout is applied to it).

## 5. `PushSource`

The webhook adapter and `run_push_sources`. The world asks for a shutdown
(`notify_one`, one stored permit), the clock of the document ids advances (`TimePasses`), and
requests come (`Webhook`): refused when the receiver is gone or the channel is full, and
otherwise acknowledged and queued. `ServerFails` is `run_server` returning by itself, which
nobody notices. The runner's steps are `StartSources`, the two branches of the `select!`
(`Receive`, `TakeSignal` with its drain), `RegisterBatch`, `ExecuteBatches`,
`ShutDownAdapter` and `Finish`. `accepted`, `taken`, `executed` and `before` are history.

| Run | Result | Shows |
|---|---|---|
| `parts`, its part `push` | passes | acknowledged documents are received in order (`AcceptedInOrder`), registered (`TakenIsRegistered`), and drained at a shutdown (`DrainedOnShutdown`), which ends the loop (`ShutdownEnds`) |
| `push_unstaged` | `PushedDocumentsAreStaged` violated | a pushed document is registered and never given to a stage |

Bounds: two sources, so that one waits for the other; three requests for channels of two
(a full channel, a retry); one document per batch instead of 100, so that a channel can
hold more than a batch takes; two clock values, so that ids can collide and need not.
`SelfClosing` holds both sources in `parts`, for an adapter that drops its last sender; a
`ZapierAdapter` never does.

`TakenIsRegistered` says that of two documents with one id the later wins: the ids are
the milliseconds of the requests, so an acknowledged document can disappear under another
one's id. Documents acknowledged after the drain are lost too; `DrainedOnShutdown` is
about those acknowledged before the shutdown was asked for. Fairness: weak fairness of the runner's
steps, as a task that tokio polls. A finite number of requests stands in for the random choice of
`select!`, which in the code keeps a busy source from hiding the signal for ever.

## 6. `ContentDir`, `FtsIndex`, `VectorCache`

`ContentDir` is the content that is indexed. A file is its version, and an edit makes a
version never seen before. That abstracts a modification time in seconds (full text) and
the text itself (vectors), and is exact as long as a file is not modified twice in one
second, and no edit restores an old text while a build runs. The hash of a directory is the version
of each of its files; the walk that computes it is one step, which loses nothing because
each version in a hash is one the file had during the walk, and no version comes back.

`FtsIndex` is `IndexBuilder::build` on the directory `Base` and `build_append` on the
others, by any number of builders in one process or several. `index` is what Tantivy has
committed, `lock` its writer lock, `meta` and `appends` the two metadata files, `job[b]` the
local variables of a call. `StartBuilder` computes the hash; `Skip` returns on a fresh index;
`OpenWriter` takes the lock and, in a build, commits the empty index; `Locked` fails for
want of the lock; `FindFiles`, `Rehash` (append only), `ReadFile`, `FileFails` and
`FinalCommit` do the work, with a commit every `BatchSize` documents; `SaveMetadata` and
`SaveAppend` end it. `Abandon` is a death or an error return at any point, with the
metadata file possibly left half written. The history variable `torn` says that the index was cleared, and
not refilled from every file, since its metadata were written.

`VectorCache` is the vector builder and its cache file, one builder at a time: the cache
is looked up by hash, the files are discovered, read and embedded, the content is hashed
again, and the cache is written under that hash. `listed` (history) is the content as it
was when the files were discovered. `build_append` of vectors works in memory only and is left out.

| Run | Result | Shows |
|---|---|---|
| `content` | passes | two racing full-text builders, or two vector builds, over edited content; the graph and the keys of section 7 |
| `content_stale` | `MatchingCacheIsValid` violated | an edit after reading and before hashing gives a cache that matches and is outdated |

- `BaseIndexedOnce`: no file of the base directory is in the index twice, nor in two
  versions, because a build starts from the empty index and is alone with it.
- `FreshIndexIsWhole`: an index whose metadata match the content holds every file as it
  is, although files are edited while they are read: here the hash comes first.
- `CacheIsWhole`: a cache whose content did not change from discovery to hashing has
  exactly its documents.
- `TypeOK`, with the types of section 7.

That the count a skipped build reports is the index's (`CountIsExact`) is proved and not
run. The run's other properties are in section 7.

Bounds: two directories of two files, the second file of the appended one not
extractable; one edit after the initial versions (`MaxClock`), any number of removals; two
builders making two calls (`MaxStarts`), two vector builds; batches of two documents, so
that a build commits within the loop or after it. Two calls are the least that race, and
the least in which one meets what the other left. The builders are symmetric. In one
behaviour only builders of one kind act, since they share nothing but the content, and
only those of the full-text index look at the second directory. The calls are bounded, so a behaviour may end, and no liveness is claimed.

## 7. `GraphData`, `GraphQueries`, `GraphBuild`, `KeyCache`

`GraphData` is the graph that a server holds and changes under a lock, so an operation is
one step. It is kept four times over, and that is what the module is about: `slots` and
`arcs` are petgraph's nodes and edges, known by positions, `node_indices` has the position
of each id, `nodes` and `edges` are the map and the list of the crate. `AddNode`,
`AddEdge`, `RemoveNode`, `SaveGraph` and `LoadGraph` are the operations; `SaveFails` is a
write that is cut off, with or without the death of the process. Removing a node moves
the last one to its position. Equal edges are told apart by a number. Attributes and
weights are left out.

`GraphQueries` has the queries that walk positions (`Neighborhood`, `Prerequisites` with
`LearningPaths`, `Dependents`, `RelatedFrom`, `RelatedTo`, `Orphans`) and those that read
the list (`ConceptSources`, `ConceptVariants`, `SourceCoverage`, `OrphanCount`,
`PrerequisiteCycle`). The searches are the code's, with their queues, limits and visited sets.

`GraphBuild` is `GraphBuilder::build`: the cache is looked up (`StartGraph`, `GraphHit`,
`GraphMiss`), files become nodes (`DiscoverFiles`, `ReadNode`, `ReadNodeFails`), their links
and the manual edges become edges (`AddLinks`), the content is hashed again and the graph
cached (`HashGraph`, `SaveGraphCache`). `AbandonGraph` is a death or an error at any point;
the content and the file of manual edges are edited meanwhile.

`KeyCache` is `find_key`: `FirstLookup`, the request (`Answer`, `FetchFails`), `StoreKeys`,
`SecondLookup`, for any number of requests, while the endpoint changes its keys
(`Rotate`). With `online` FALSE the cache is filled once, as the constructor for tests does.

These are the properties of the run `content` that section 6 leaves out:

- `ViewsAgree`: the four views are of one graph, whichever node sits at a removed one's
  position.
- `PathCanBeFollowed`: in a learning path without `has_cycles` every prerequisite of a
  step comes before it, and no step comes twice.
- `AnswersAreRight`: a neighbourhood has exactly the nodes within the radius, at their
  distances; what is read off the list is what petgraph would answer; a circle of
  prerequisites found by the validation is reported with every path of several steps.
- `GraphCacheIsWhole`: a cached graph whose files did not change from discovery to hashing has
  the nodes of all of them and every link between them, in whichever order they were read and
  whichever of them share an id.
- `KeysAreCurrent`: a withdrawn key is trusted no longer than `CacheTtl` plus the time of
  an answer, whichever of two answers is stored last; a key that is published all the
  while is missed only when two requests fetch at once.

Run `dependents` shows that `Dependents` goes in the direction of `Prerequisites` (section 10).

Bounds: three ids, so that the last node can be another than the removed one and its
neighbour; at most two equal edges and three in all; two changes after any loads, which
reaches a removal and what follows it; saved graphs with a chain, a circle of two kinds of
edges (one of them `variant_of`), and edges without a node; `MaxDepth` 2, which a chain of three reaches. For the
builds: two files that link to each other until one is edited and takes the id of the other,
one manual edge or none, two builds. For the keys: two requests for one key, a life of 1 and an answer's time of 1
up to time 3, after which a key that was withdrawn is past every limit.

## 8. `Services` and `Notifier`

The background services of a server and everything that looks at their state.

| Variable | Code |
|---|---|
| `state`, `unseen` | the watch channel of a `ServiceHandle`; for each waiting receiver, whether the channel has a value it has not marked as seen |
| `trail` | `transitions` |
| `setting` | a `set_state` between the push to the trail and `send_replace`, by the retry task or by the owner |
| `task` | the task of `spawn_with_retry` and its attempt |
| `slot` | whether `BackendSlot::backend` is `Some` |
| `answer` | each `wait_ready` future of a `wait_all_ready` |
| `reader` | a `require` between its look at the state and the read lock |
| `call` | a `ServiceAwareRegistry::call` and how many services it has checked |
| `raced` (history) | services at which two `set_state` have met |

`Record` and `Publish` are the two halves of `set_state`. `Attempt`, `Fill`, `InitOk`,
`InitFails` and `WakeTask` are the retry loop around an initialiser that may fail before
or after it has filled the slot; `OwnerSets` is the application, which may degrade,
recover or stop a service at any moment, also while its task still runs, and announces a
service as available only with a backend. That assumption is the one `slot.rs:84`
makes ("assuming the caller populated it before marking ready"). `StartWait`,
`FirstLook`, `Changed`, `Look` and `Deadline` are the waiting futures, `RequireReady` and
`RequireLock` the two steps of `require`, `StartCall`, `CheckService` and `Delegate` the
gate. In the repository only `spawn_with_retry` sets states; the other callers are
the applications built on it.

Run `services` (passes), of the services:

- `BackendsAreThere`: `wait_all_ready` returns Ok only when all slots are filled
  (`WaitedForBackends`); a call let through the gate finds the backends of all its
  services, though they were looked at one after the other (`ToolsFindBackends`); a guard
  returned by `require` is on a filled slot (`RequireSeesBackend`).
- `TrailTellsState`: with no `set_state` under way the trail ends with the state, if no
  two of them ever met at that service. If they meet the trail may end with the other
  one; the code has no lock over both steps, and no document promises the order.
- `AllAttemptsMade`: a service is Failed only after all its attempts.
- `NobodyIsStuck` (liveness): no wait goes on while the service stays Ready or Failed
  (`WaitersLearn`); no service stays Starting (`StartingEnds`); every notifying call
  returns (`NotifyReturns`).
- `MCTypeOK`: the types of both modules.

Fairness: the task of `spawn_with_retry` goes on, which says that the executor runs it
and that an initialiser returns; a `set_state` that has begun ends; a future that was
woken is polled. No deadline has to pass, so `WaitersLearn` is owed to the notification
alone. Bounds: two services, of two attempts and of one; one `set_state` by an owner, to
Ready or Degraded, enough to overtake a task at any point (Stopping and Stopped are
to every reader what Starting is); one wait for both, or one tool call gated on
both, or any number of `require`s. These only read what the services write, so a
behaviour has one kind of them (`MCServicesNext`). The tasks end, so the system may stop.

Backoff times, names and reasons are left out, and `max_attempts` 0, with which the loop
does nothing and the service stays Stopped, is excluded by `ServicesAssumption`. A
Degraded service passes the gate (`is_available`) and is refused by `require`
(`is_ready`), so tools that use a `BackendSlot` answer "not initialized yet" for a service
the gate takes for usable: the model shows it, and no property is claimed either way.

`Notifier` is the list of connected clients and the subscriptions of one resource.
`AddPeer`, `SubscribeResource` and `UnsubscribeResource` are what clients do (unsubscribing
removes everybody's subscription, as in the code), `Disconnect` is a connection that goes
away. A call begins with `ResourceUpdated` (a copy of the subscribers) or `Log` (everybody)
and tells one client per step, so that others subscribe, vanish and notify in between.
`TellSubscriber` and `SubscribersTold` work on the copy without a lock; `StartPrune`,
`PruneNext` and `EndPrune` go over the present list under its write lock after a failure;
`StartBroadcast`, `TellPeer` and `EndBroadcast` hold the write lock of the peers all the
while. Removal is `swap_remove`, by position.

- `LivePeersKept`: a connected client is in the list once and keeps every subscription it
  made since the last unsubscription, whatever is pruned around it.

Fairness: strong fairness of each call's steps, because tokio's `RwLock` hands itself to
waiting tasks in their order and a notification to a client returns. Bounds: two clients, so that
one is pruned beside a live one, also at the position it leaves; two calls, of two tasks or of
one; two subscriptions at a time, of one client or of both. Calls for different
resources only share the peers, so one resource is enough.

## 9. The parts around the runner: `MCPipelineParts`

Run `parts` has eight parts: `BatchExec` (section 4), `PushSource` (section 5) and the following.

`Schedule`: `ResourceGraph::build` and `compute_schedule`. `BuildGraph` or
`DuplicateCreator`, then Kahn's algorithm one stage at a time (`PopStage`, any stage of the
queue), then `GroupStages` or `CycleDetected`. `ScheduleIsRight`: creators are in earlier
batches than readers, nobody is later than needed, and a cycle is reported exactly when
stages wait for each other in a circle. Bounds: three stages and three resources; the
first stage creates two, so that two stages can be joined twice; all sets of reads; one
resource may have two creators or two writers.

`SourceWalk`: `enumerate` of the five pull adapters, over a tree in which someone may move,
add or remove an entry at any time. `TakeFolder`, `NextPage`, `WalkFails`, `WalkEnds` are the
adapter; `Recursive`, `Included` and `RootSet` are where the five differ (subfolders,
filters, number of configured folders; only Drive and GCS have pages). An answer holds any
part of a folder it has not shown yet, and the last page comes only when everything that
was there all the time has been shown. `UndisturbedListed`: a file that nobody moved, with no
folder above it moved, is listed exactly once for each configured folder it lies in.
Overlapping folders list it twice; that is what the code does. Bounds: two folders, of
which one may be in the other, both configured; two files with an excluding and an
overruling rule; pages of one entry; one moved entry. The glob of a
configuration is the set of files that it matches.

`TokenCache`: `get_token` for several callers. The lock is free between `TakeCached` or
`SendRequest` and `StoreToken`; the endpoint issues the token before the answer arrives
(`IssueToken`, `ReceiveToken`), and its life is counted from the arrival. Nothing bounds the time
an answer takes, because the HTTP client has no timeout, so a token may be handed out dead, and
the model contains that. `OnlyLateTokensAreDead` says exactly when: only if the answer that
brought the token took longer than the margin of 30 seconds, or the call itself longer than a token
lives; racing callers, of which any may store last, and reuse from the cache never do it
alone. Tokens given by a variable or a setting have no expiry and are left out. Bounds: two
callers; life 3, margin 1, up to time 5, so that a token is reused, renewed, stored late and
handed out dead after a late answer. The bound on time is the clock's last value and
holds nobody up before it.

`Sinks`: `process` of both sinks under the batch execution's retries. `Begin` filters;
`Register`, `Registered`, `RegisterFails` and `Serialize` are Kafka's schema, which one item
registers while the others wait; `NameObject` fetches the token and puts the date in the
object's name; `Write` and `WriteFails` write, with the answer possibly lost. `WrittenAsReported`:
an item that succeeded was written, unless the filter keeps it out, and then never; it
was written more than once only if an answer was lost, and a bucket has at most one object
of it for each day. Bounds: two items, one invalid and without a record, all filters, two
attempts, one midnight.

`FileLifecycle`: `move_objects` and `delete_objects` by single requests. `StartMove` begins a
call; `CopyObject` and `DeleteObject` are requests that are answered, `CopyFails` and `DeleteFails`
those that fail or whose answer is lost, carried out or not, which end the call (so does a
death); `Upload` is the producer, at any time. `MovesAreSafe`: an object's newest version is under
its old or its new name, unless another object with the same base name took its place or
it came between the copy and the delete; and objects go in the order of the list. The
two exceptions are losses the code permits: `{dest}/{base name}` is not unique, and the delete
names no generation. A repeated call stops at the first object that is already gone,
because copying it is an error. Bounds: three objects, two with one base name; two
versions; two calls.

`Drafts`: the critique loop over the provider in its retry wrapper. `Generated`, `Pass`,
`Revise` and `Revised` are answers, `RetryCall` and `RequestFails` failures. `DraftIsJudged`: what
is approved or given up was judged in its present version, it is given up only after
`max_revisions`, and the requests are no more than the revisions allow. Bounds: 0 and 2 for
both. Run `attempts` shows that one request costs `max_attempts + 1` calls (section 10), with
the default of 3.

`PartsEnd` (liveness): a stage ends (section 4); every item of a sink ends, although all of
them may wait for the one that registers; an enumeration returns; a draft is approved or
given up. `ShutdownEnds` is the push loop's. Fairness: weak fairness of the caller, of the push loop, of each item's task, of the
adapter and of the workflow, which are polled by tokio and whose requests are answered or
fail. The system may stop: every part ends or reaches its bound. `PartsTypeOK` has the types of all parts.

Run `writers` shows that two writers of a resource share a batch (section 10).

## 10. Disagreements between the code and what the repository says of it

1. *Resume loses the pool* (`runner.rs:134`): `active_items` is not part of the
   checkpoint and is empty after a restart, while enumeration is skipped because items are
   known. All remaining batches run over nothing and the run is Completed; with
   `on_success = move_to_historical` the unprocessed objects are moved away too.
   `checkpoint.rs:15` calls the checkpoint "a complete, self-contained recovery artifact".
2. *A second run does nothing* (`runner.rs:153`): the checkpoint of a completed run is
   loaded like any other. The incrementality test gives its second run a fresh store.
3. *Extract stages see every source* (`runner.rs:421`): routing is by stream only, although
   `ResolvedStage::source` says which source a stage operates on. The later merge also
   drops the outputs of the earlier one, since items are consumed by id.
4. *Pushed documents are never staged* (`runner.rs:669`): they get an item state but no
   place in `active_items`, from which stages collect. The comment of `run_push_sources`
   says that it "feeds them through the stage pipeline".
5. *The vector cache is hashed too late* (`fabryk-vector/src/builder.rs:233`): after the
   files were read. `persistence.rs:4` says that a matching hash means a valid index.
6. *Writers share a batch* (`ecl-pipeline-topo/src/schedule.rs:34`): the declared writes are
   not used, so two stages that write one resource may run concurrently. Lines 25 and 69
   of the same file say that they do not.
7. *Dependents are prerequisites* (`fabryk-graph/src/algorithms.rs:445`): `dependents` follows
   incoming edges, as `prerequisites_sorted` does, although line 421 calls it the reverse.
8. *One attempt too many* (`ecl-core/src/llm/retry.rs:66`): `max_attempts` is given to
   `with_max_times`, which counts retries, so a failing provider is called once more than what
   line 36 calls "the maximum number of attempts" (and line 23 "Max attempts: 3").

Others were met while modelling and have no run of their own, because the models contain
what the code does and a property would only restate it:

- `run_push_sources` awaits the receivers in turn (`runner.rs:643`), although the comment
  above says "round-robin": a source behind a silent one is not received from.
- `has_cycles` is about the whole graph (`algorithms.rs:112` says "in the prerequisite graph"),
  so an unrelated circle makes every learning path unsorted.
- `get_token` hands out an expired token after a slow exchange, and keeps it in the cache
  (`ecl-gcp-auth/src/auth.rs:108`): the life is counted from the answer and the client has no
  timeout. Line 94 says "a valid access token". `OnlyLateTokensAreDead` says that nothing else leads
  to one.
- The manual edges of a graph are not part of its cache's hash, so editing only them rebuilds
  nothing (`fabryk-graph/src/builder.rs:155`).

Three more that contradict no document: a forced rebuild that dies leaves a partial index beside
metadata that still match, so the next build is skipped (`fabryk-fts/src/builder.rs:275`); a
build after an append clears the appended documents and leaves their metadata, so the next
append is skipped (`:386`); `build_append` stores a hash computed after the files were
listed, so a file created in between is taken for indexed (`:417`). `FtsIndex` contains all three,
and its properties leave them out, by `torn` and by speaking of the base directory.

## 11. Proofs

Seven modules prove theorems about the specifications that the runs check, and `Iteration`
what they need of the numbers:

| Module | Theorem about a run's specification |
|---|---|
| `PipelineRunnerProofs` | those of the table below, about `Spec` (run `runner`) |
| `PartsProofs`, with `BatchExecProofs` and `PushSourceProofs` | `PartsAreRight`: `PartsSpec` keeps `PartsTypeOK` and every invariant of run `parts`, and implements `StageOutcomes` |
| `ContentIndexProofs`, with `GraphDataProofs` | `ServedIsRight`: `MCContentIndexes!Spec` keeps `TypeOK` and every invariant of run `content` |
| `ServicesProofs` | `ServerIsRight`: `MCSpec` keeps `MCTypeOK` and every invariant of run `services` |

The last three combine the theorems of the components. A step of one component leaves the
variables of the others alone, so a behaviour of all of them is one of each; the exception
is an edit of the manual edges, which takes a tick from the clock that bounds the edits of
the content, and `FtsTick` and `VectorTick` show that this does no harm.

### The runner

`PipelineRunnerProofs` proves, for every set of sources, ids, stages and streams, every
schedule and every output function that `TopologyAssumption` allows:

| Theorem | Statement |
|---|---|
| `TypeCorrect` | `Spec => []TypeOK` |
| `CheckpointIsConsistentCut` | `Spec => []CheckpointAtBoundary` |
| `CheckpointStatsAreFresh` | `Spec => []CheckpointStatsFresh` |
| `OneConfigurationPerRun` | `Spec => []NoConfigMix` |
| `HashesAgree` | `Spec => []HashesMatchCheckpoint` |
| `RemovalAfterCompletion` | `Spec => []RemovedAfterCompletion` |
| `EffectsAtMostOnce` | `Spec => NoEffectTwice` |
| `NoRegression` | `Spec => CheckpointNeverRegresses` |
| `PendingItemsAreInThePool` | `Spec => []PendingItemsWait` |
| `FirstRunCompletes` | `EveryObjectHandled /\ Spec => []FirstRunIsComplete` |
| `StagesKeepOrder` | `StreamsFlowForward /\ SourcesApart /\ Spec => []StagesInOrder` |

Assumptions: objects and ids are finite; the batches of the schedule are disjoint sets of
stages and there is at least one (validation demands a stage); the other constants have
their types. Nothing is assumed about which items a stage accepts or what it returns,
except by the last two, whose hypotheses speak of the configuration:

- `EveryObjectHandled`: some stage accepts whatever a source gives. Nothing in the code
  demands it; an item that no stage accepts stays Pending.
- `StreamsFlowForward`: two stages of one batch never accept the same stream, and what a
  stage retags is not accepted by a stage of its own or an earlier batch. The topology
  layer orders stages by their resources, not by their streams, and does not demand it.
- `SourcesApart`: no two sources give the same id, and an extract stage accepts only its
  own source's stream. The runner looks items up by id alone (`runner.rs:476`); run
  `untagged` is what happens to a configuration without streams.

The instance of run `runner` satisfies all three. TLC finds the two properties true there
without saying why; the theorems say what they depend on, and that it is nothing else.

The argument is an inductive invariant, `IInv`, in five parts:

- `TypeInv`: the types, the finiteness of what is counted, and that the outcomes of a
  task are among its items.
- `BoundaryInv`: between batches the *memory* is at a boundary, and within a batch only
  the stages of that batch have moved. `CheckpointAtBoundary` alone is not inductive: a
  checkpoint copies the memory.
- `ItemsInv`: no item is ever Processing, so `prepare_for_resume` changes no item, and
  the statistics in memory are fresh except after a failed merge.
- `StoreInv`: the memory is never behind the store, and a completed checkpoint fixes the
  items of every later process.
- `EffectsInv`: a process either has nothing to work on (`Idle`), or every effect so far
  is of a finished batch or of the current task's recorded successes. This is why an
  item still to be done cannot have been done before.

Each part has one lemma for its preservation, with one step per action; the theorems
follow from `Invariance` by temporal reasoning. The last three theorems add to it:

- `PendingInv`: in a first run, an item is Pending exactly while its source's entry is in
  the pool, from the enumeration to the last batch.
- `FirstRunInv`: the finished batches, and the stages merged in this one, have left
  nothing they accept in the pool, and a running stage was given what it accepts.
- `FlowInv`: whatever is in the pool, or with a stage, carries the marks of every stage of
  the finished batches that accepts its stream. It is about the stream that the item has
  now, which is why retagging must go forward.
- `OwnerInv`: an entry belongs to the source that owns its id, and what the memory and the
  checkpoint call completed has had its effect.

### The execution of a stage

`BatchExecProofs` proves, for every number of items, every set of concurrencies and every
set of retry limits: `TypeCorrect`, `PermitsAreBalanced` (`PermitsBalance`),
`ReturnsAreComplete` (`ReturnIsComplete`), `AttemptsAreExact`
(`GivenUpAfterAllAttempts`), together `BatchExact` (`BatchIsExact`), and `Refinement`
(`ImplementsStageOutcomes`). The invariant
relates the loop index to the tasks that exist, the results joined to the tasks joined,
and the effects to the tasks that ended well. The refinement maps initial states to
initial states (`InitMaps`) and each action to a decision, a return, a loss or a stutter
(`StepMaps`).

### Push sources

`PushSourceProofs` proves, for any sources, requests, capacities and batch sizes:
`PushTypeCorrect` (`PushTypeOK`), `AcceptedAreKept` (`AcceptedInOrder`), `ShutdownDrains`
(`DrainedOnShutdown`) and `TakenAreRegistered` (`TakenIsRegistered`). What was
acknowledged is received or still in its channel, in order, by an invariant that ties a
closed channel to a stopped receiver; from the moment of the signal, what was
acknowledged before it has been received. `RegisteredInv` adds that the item states of a
source are those of what was taken from it but for the batch in hand. That the drain at
shutdown, which empties one channel after the other, takes every channel's documents in
their order is an induction over the sources, for which `Iteration` is.

### The parts around the runner

`PartsProofs` proves one theorem about each of six independent parts, and
`PartsAreRight` about all of them, the push sources and the execution of a stage:

- `DeadTokensAreLate` (`OnlyLateTokensAreDead`), for any number of callers, lifetime and
  margin and answers that take any time: whichever answer was stored last, a token's recorded
  expiry exceeds its real one by the time its answer took, so the margin covers every
  answer that was no later than that.
- `MovesKeepObjects` (`MovesAreSafe`), for any objects, names and number of calls: what
  lies under an object's old name is its newest version, what is about to be deleted was
  copied, and everything before the current object is gone or was uploaded again.
- `ScheduleCorrect` (`ScheduleIsRight`), for any finite set of stages and any
  declarations: an in-degree counts the predecessors not yet taken, a queued stage has
  none left, its depth is final, and no stage of a circle is ever queued; that the
  reported stages do form a circle follows from the emptied queue.
- `DraftsAreJudged` (`DraftIsJudged`), for any limits: `DraftInv` counts the requests and
  critiques from the revisions at each step of the loop.
- `SinksWriteAsReported` (`WrittenAsReported`), for any items, attempts and days: `SinkInv` says
  what the topic and the bucket hold of an item at each point of its `process`, and that
  only a lost answer makes it more.
- `UndisturbedAreListed` (`UndisturbedListed`), for any tree, page size and moves beside
  the file: `WalkInv` is a count. Each configured folder above the file is in one place:
  it or a folder below it that leads to the file is in the queue or being listed, or the
  file was listed for it. `Chain`, the folders above a file, is the least set closed under
  "the folder it is in", which is what the proof uses of it.

### What a server answers from

`ContentIndexProofs` proves, for every set of directories, files and builders, every
batch size and every extractor: `IndexedOnce` (`BaseIndexedOnce`), `FreshIsWhole`
(`FreshIndexIsWhole`), `CountExact` (`CountIsExact`), `FtsTypeCorrect`, `CacheWhole`
(`CacheIsWhole`) of the vector cache, `GraphWhole` (`GraphCacheIsWhole`) of the graph
cache, and `KeysStayCurrent` (`KeysAreCurrent`). None of them is inductive: the first
speak of metadata that are written at the end. `FtsInv` adds, for a build under way, that
it holds the lock (`LockInv`), that no hash is of the future (`HashInv`, because an edit
then never makes an old hash current again), and that what it has committed and staged is
one document for each file it is done with (`BuildInv`), of the hashed version wherever
that version is still current. `VectorInv` has the same about the documents read so far,
and `GraphBuildInv` about nodes and links: while every listed file is still as it was
listed, the graph has the nodes and the links of the files read so far, and once the links
are resolved those within it.
`KeyInv` dates what requests and the cache know: a key in an answer was published when
the request was made, or withdrawn since.

`GraphDataProofs` proves `GraphViewsAgree` (`ViewsAgree`) for any finite set of ids, any
edges and any saved graphs. `GraphTypeOK /\ ViewsAgree` is inductive; the work is in
`RemoveNode`, where positions are renamed and `node_indices` is made anew. In a state
where the views agree it proves what the queries answer, for any radius and filter:

- `AnswersRight` (`AnswersAreRight`). The search is a function of the number of steps, so
  that an invariant can be proved of it by induction: what is found has its distance
  (`FoundInv`); the queue is in the order of the distances and nothing nearer is missing
  (`QueueInv`); and it ends within as many steps as the function is given, because every
  step takes one of the queue and everything found is queued once (`Counted`). The balls
  of the reference definition are then reached one after the other.
- `PathsCanBeFollowed` (`PathCanBeFollowed`). The search for prerequisites finds exactly
  what the target leads to (`ClosureInv`), every topological order has prerequisites
  before what needs them, and there is one unless they go in a circle.

`Iteration` proves the induction that these need (`SetInduction`, by well-founded
induction on the least number outside a set) and that a function defined from a first
value and a step exists and is unique (`IterationExists`, `IterationUnique`).

### Services

`ServicesProofs` proves, for any services, waiters, gate and attempts:
`ServicesTypeCorrect`, `WaitedForAll` (`WaitedForBackends`), `ToolsServed`
(`ToolsFindBackends`), `RequireServed` (`RequireSeesBackend`), together `BackendsAreFound`
(`BackendsAreThere`), `TrailTells` (`TrailTellsState`) and `FailedIsLast`
(`AllAttemptsMade`). `BackendInv` follows a filled slot from the initialiser through the
announced and the published state to whoever concludes something from it; slots are never
emptied, so what was concluded stays true. `TrailInv` adds what the trail ends with while
one `set_state` is between its steps, and `AttemptsInv` that the trail has one "Starting"
for each attempt. The assumption is `ServicesAssumption`. These theorems are about
`Spec`, in which waits, calls and reads mix; `MCSpec` has one kind of them in a behaviour.

`LivePeersStay` (`LivePeersKept`) is about the notifier, for any clients and senders: a
connected client is in the list of peers once and among the subscribers as often as it
subscribed (`LiveInv`), and who broadcasts holds the list, so that the positions it has
noted are still those of clients that are gone (`SendsOK`). What is pruned from the
subscribers is looked at again before it is removed, so the positions noted there do not
matter.

### Only model-checked

Liveness is outside the prover's reach: `EveryRunEnds`, `ShutdownEnds`, `PartsEnd` and
`NobodyIsStuck`. Nothing else that a passing run checks is without a theorem.

## 12. Not modelled

Most of the repository's lines are tests, parsing, formatting, command-line and tool
handlers, configuration types and clients of outside services. They keep no state between
calls and meet no other actor, so there is no behaviour for a state machine to show, and a
model would be a copy of the text. The models therefore map a small share of the lines: the
part where order, failure and restarts matter. By group:

- Tool handlers (`fabryk-mcp-graph`, `-content`, `-fts`, `-semantic`, `-auth`, `fabryk-mcp`) and
  `fabryk-mcp-core`'s routing and discovery: each takes one lock, asks one of the modelled
  components and words the answer.
- Command lines (`ecl-cli` beyond `run` and `resume`, `fabryk-cli`) and release tooling.
- Parsing (`fabryk-content`, `ecl-pipeline-spec`, `ecl-stages`, Avro and JSON in the sinks): pure
  functions of one text or record.
- Clients (`fabryk-redis`, `fabryk-gcp`, `fabryk-acl`, `ecl-secrets`, the LLM providers, the adapters'
  `fetch`): one request each; what their failures do to the caller is in the caller's model.
- Tantivy, petgraph, tokio and the key-value store behind the state store are external: they
  are modelled as the code uses them.
- Arithmetic on scores and weights: rank fusion, `shortest_path`, centrality and bridges.
  Their answers are orders of floating-point numbers with ties.
- A saved graph that somebody has edited so that one id is in it twice: `save_graph` cannot
  write one, and `load_graph` would give the id two positions.
- The state store's own failures: they end the process, which is `Crash`. The in-memory
  store is for tests.
- `checkpoint_sequence` and wall-clock times: written, never read for a decision.

One hazard of the code has no property: ids that two sources share (`runner.rs:476` looks
items up by id in every source). The present instances of `PipelineRunner` avoid shared
ids, and a `PipelineRunner` whose items are pairs of a source and an id, beside one whose
items are ids, would be the way to state what is lost.
